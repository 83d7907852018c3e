----------------------- MODULE StreamConnectionProofs -----------------------
(***************************************************************************)
(* Proofs about StreamConnection, for every limit, every set of ids and    *)
(* every number of requests.                                               *)
(*                                                                         *)
(* The table (calls, slot) belongs to the read loop; the terminal flags,   *)
(* the request channels and the write lock are shared with the handlers    *)
(* and the control tasks.  ConnInv ties the two together: who may still    *)
(* write a call's terminal frame is decided by the flag active, and        *)
(* whoever cleared it is recorded in hpc (the handler) or cpc (a control   *)
(* task), never in both.  The byte counters need ConnInv for one fact, a   *)
(* call removed or rejected while its control task ran had nothing left to *)
(* account for, and the facts about sums (SequenceLemmas).                 *)
(***************************************************************************)
EXTENDS StreamConnection, SequenceLemmas

-----------------------------------------------------------------------------
(* The inductive invariant.                                                 *)

\* No terminal frame was written for call g.
NoTerminal(g) == \A n \in 1..Len(out[g]) : out[g][n] # "terminal"

\* Nothing is buffered or owed for the request stream of slot s.
Drained(s) == ~s.inbound /\ s.sizes = <<>> /\ s.bytes = 0

\* A number that no accepted request has taken yet has no task, no frame, no flag and no
\* item: insert_call starts from nothing.
Fresh ==
    \A g \in Instances : g > made =>
        hpc[g] = "none" /\ cpc[g] = "none" /\ out[g] = <<>> /\ ~active[g] /\ queued[g] = 0

\* Nor has it anything in the table.
FreshSlots == \A g \in Instances : g > made => ~slot[g].tombstone /\ Drained(slot[g])

\* The table and wireId are each other's inverse, what recv() routes is an item of the
\* peer's, and a call just accepted has no task yet.
TableNames ==
    /\ \A g \in Instances : g <= made => wireId[g] \in Ids
    /\ \A i \in Ids : calls[i] # NoCall => calls[i] <= made /\ wireId[calls[i]] = i
    /\ rpc = "route" => item.id \in Ids /\ item.size \in PayloadSizes
    /\ rpc = "accepted" => made \in Instances /\ hpc[made] = "none"

\* A completion signal comes from a call that already gave up its terminal flag.
CompletionsPast ==
    \A n \in 1..Len(completions) : completions[n] <= made /\ ~active[completions[n]]

\* While the terminal flag is set the call is in the table, it is no tombstone, and neither
\* the handler nor a control task has a terminal frame to write.
Claimed ==
    \A g \in Instances : active[g] =>
        /\ Tracked(g) /\ ~slot[g].tombstone
        /\ cpc[g] = "none" /\ hpc[g] \notin {"termLock", "termWrite", "complete"}

\* A call cancelled or rejected by the transport has no request stream left.
TombstoneEmpty ==
    \A g \in Instances : slot[g].tombstone => Drained(slot[g])

\* A control task that was not joined yet reserves its call's id.
Pending ==
    \A g \in Instances : cpc[g] \in {"lock", "write", "ok", "err"} /\ rpc # "dropped" =>
        Tracked(g) /\ slot[g].tombstone

\* At most one task has the terminal frame of a call to write, it was not written yet, and
\* what was written ends with it.
OneAnswer ==
    \A g \in Instances :
        /\ hpc[g] \in {"termLock", "termWrite"} => cpc[g] = "none" /\ NoTerminal(g)
        /\ hpc[g] = "sendWrite" => cpc[g] # "write" /\ NoTerminal(g)
        /\ active[g] \/ cpc[g] \in {"lock", "write"} => NoTerminal(g)
        /\ \A n \in 1..Len(out[g]) : out[g][n] = "terminal" => n = Len(out[g])

\* The ids in use.
InTable == {i \in Ids : calls[i] # NoCall}

\* The table holds at most max_in_flight_calls calls.
Bounded == IsFiniteSet(InTable) /\ Cardinality(InTable) <= MaxInFlight

\* A control task always finds room: every one of them reserves a slot of the bounded table.
Unsaturated == error # "ControlTasksSaturated"

\* A frame left half written poisons the connection.
TornClosed == torn => closed

\* A step that leaves every call in the table, and what is drained drained.
SlotsKept ==
    /\ calls' = calls
    /\ \A h \in Instances : /\ slot'[h].tombstone = slot[h].tombstone
                            /\ Drained(slot[h]) => Drained(slot'[h])

\* The steps of recv() that account for request streams and remove no call.
StreamStep ==
    \/ \E i \in Ids, n \in PayloadSizes : StreamItem(i, n)
    \/ \E i \in Ids : StreamEnd(i)
    \/ RecvTop \/ ReconcileTimer \/ RouteDelivered \/ RouteDiscarded \/ RejectLost

\* A step that removes exactly the calls of G.
SlotsFreed(G) ==
    /\ calls' = [i \in Ids |-> IF calls[i] \in G THEN NoCall ELSE calls[i]]
    /\ \A h \in Instances : slot'[h] = IF h \in G THEN EmptySlot ELSE slot[h]

\* What rejecting call g does to the table and the tasks: its own slot is reserved, and the
\* calls G whose control task was joined are removed.
Rejects(g, G) ==
    /\ rpc = "route" /\ rpc' # "dropped"
    /\ g \in Instances /\ active[g] /\ Tracked(g) /\ g \notin G
    /\ calls' = [i \in Ids |-> IF calls[i] \in G THEN NoCall ELSE calls[i]]
    /\ slot'[g].tombstone /\ Drained(slot'[g])
    /\ \A h \in Instances \ {g} : slot'[h] = IF h \in G THEN EmptySlot ELSE slot[h]
    /\ \A h \in Instances : active'[h] => active[h] /\ h # g
    /\ \A h \in Instances : /\ \/ cpc'[h] = cpc[h] \/ h = g
                               \/ cpc[h] \in {"ok", "err"} /\ cpc'[h] = "joined"
                            /\ h \in G => cpc'[h] = "joined"
    /\ cpc'[g] \in {cpc[g], "lock"}
    /\ UNCHANGED <<made, wireId, hpc, completions, queued, wire>>

\* What ties slots, flags and tasks together.
SlotInv == FreshSlots /\ Claimed /\ TombstoneEmpty /\ Pending

\* The invariant the theorems rest on.
ConnInv ==
    TypeOK /\ Fresh /\ TableNames /\ CompletionsPast /\ SlotInv /\ OneAnswer /\ Bounded
           /\ Unsaturated

\* One call's counter: the sizes still accounted for add up to it, it is within its limit,
\* and every item in the channel is accounted for.
CallOK(s, q) ==
    /\ s.bytes = SumFunction(s.sizes) /\ s.bytes <= MaxCallBytes
    /\ s.inbound => q <= Len(s.sizes)

\* Every call's counter is exact.
CallsOK == \A g \in Instances : CallOK(slot[g], queued[g])

\* The counters of all calls, as one function.
Bytes == [g \in Instances |-> slot[g].bytes]

\* The connection's counter is the sum of the calls' counters, within its limit.
TotalOK == inboundBytes = SumFunctionOnSet(Bytes, Instances) /\ inboundBytes <= MaxConnBytes

-----------------------------------------------------------------------------
USE StreamAssumption

\* A sequence of payload sizes is a sequence of naturals.
LEMMA SeqOfNaturals == ASSUME NEW P, P \subseteq Nat, NEW t \in Seq(P) PROVE t \in Seq(Nat)
<1>1. t \in [1..Len(t) -> P] /\ Len(t) \in Nat
  OBVIOUS
<1>2. t \in [1..Len(t) -> Nat]
  BY <1>1, Zenon
<1>q. QED
  BY <1>1, <1>2, SeqDef

\* The types of one slot, and of what reconciling it would consume and release.
LEMMA SlotTypes ==
    ASSUME TableType, ChannelType, NEW g \in Instances
    PROVE  /\ slot[g] \in CallSlots /\ slot[g].sizes \in Seq(Nat) /\ queued[g] \in Nat
           /\ Consumed(g) \in 0..Len(slot[g].sizes)
           /\ Released(g) \in Nat
<1>1. slot[g] \in CallSlots /\ queued[g] \in Nat
  BY DEF TableType, ChannelType
<1>2. slot[g].sizes \in Seq(Nat) /\ slot[g].inbound \in BOOLEAN
  <2>1. slot[g].sizes \in Seq(PayloadSizes) /\ slot[g].inbound \in BOOLEAN
    BY <1>1 DEF CallSlots
  <2>2. slot[g].sizes \in Seq(Nat)
    <3>1. PayloadSizes \subseteq Nat
      OBVIOUS
    <3>q. QED
      BY <2>1, <3>1, SeqOfNaturals
  <2>q. QED
    BY <2>1, <2>2
<1>3. Consumed(g) \in 0..Len(slot[g].sizes)
  BY <1>1, <1>2 DEF Consumed, SatSub
<1>4. SubSeq(slot[g].sizes, 1, Consumed(g)) \in Seq(Nat)
  BY <1>2, <1>3, SeqSumSplit
<1>5. Released(g) \in Nat
  BY <1>4, SeqSumType DEF Released
<1>q. QED
  BY <1>1, <1>2, <1>3, <1>5

\* A reconciled slot is a slot; its sizes are a suffix of the old ones.
LEMMA ReconciledSlot ==
    ASSUME TableType, ChannelType, NEW g \in Instances
    PROVE  /\ Reconciled(g) \in CallSlots
           /\ Reconciled(g).inbound = slot[g].inbound
           /\ Reconciled(g).ending = slot[g].ending
           /\ Reconciled(g).tombstone = slot[g].tombstone
           /\ Reconciled(g).sizes = SubSeq(slot[g].sizes, Consumed(g) + 1, Len(slot[g].sizes))
           /\ Reconciled(g).bytes = SatSub(slot[g].bytes, Released(g))
           /\ ~slot[g].inbound => Reconciled(g).sizes = slot[g].sizes
                                  /\ Reconciled(g).bytes = slot[g].bytes /\ Released(g) = 0
           /\ slot[g].inbound /\ queued[g] <= Len(slot[g].sizes) =>
                  Len(Reconciled(g).sizes) = queued[g]
<1> DEFINE s == slot[g].sizes
           k == Consumed(g)
           rest == SubSeq(s, k + 1, Len(s))
<1>1. /\ slot[g] \in CallSlots /\ s \in Seq(Nat) /\ queued[g] \in Nat
      /\ k \in 0..Len(s) /\ Released(g) \in Nat
  BY SlotTypes
<1>2. s \in Seq(PayloadSizes) /\ slot[g].bytes \in Nat
  BY <1>1 DEF CallSlots
<1> DEFINE b == SatSub(slot[g].bytes, Released(g))
<1>3. Reconciled(g) = [slot[g] EXCEPT !.sizes = rest, !.bytes = b]
  BY DEF Reconciled
<1>4. b \in Nat
  BY <1>1, <1>2 DEF SatSub
<1>5. rest \in Seq(PayloadSizes) /\ Len(rest) = Len(s) - k
  <2>1. \A i \in (k + 1)..Len(s) : s[i] \in PayloadSizes
    BY <1>1, <1>2
  <2>2. k + 1 \in Int /\ Len(s) \in Int
    BY <1>1
  <2>3. /\ rest \in Seq(PayloadSizes)
        /\ Len(rest) = IF k + 1 <= Len(s) THEN Len(s) - (k + 1) + 1 ELSE 0
    <3> HIDE DEF s, k
    <3>q. QED
      BY <2>1, <2>2, SubSeqProperties
  <2>q. QED
    BY <1>1, <2>3
<1>7. ASSUME ~slot[g].inbound
      PROVE  rest = s /\ SatSub(slot[g].bytes, Released(g)) = slot[g].bytes /\ Released(g) = 0
  <2>1. k = 0
    BY <1>7 DEF Consumed
  <2>2. rest = s
    BY <1>1, <2>1, SubSeqFull
  <2>3. SubSeq(s, 1, k) = <<>>
    BY <2>1, SubSeqEmpty
  <2>4. <<>> \in Seq(Nat)
    OBVIOUS
  <2>5. Released(g) = 0
    BY <2>3, <2>4, SeqSumType DEF Released
  <2>q. QED
    BY <1>2, <2>2, <2>5 DEF SatSub
<1>8. ASSUME slot[g].inbound, queued[g] <= Len(s) PROVE Len(rest) = queued[g]
  <2>1. k = Len(s) - queued[g]
    BY <1>1, <1>8 DEF Consumed, SatSub
  <2>q. QED
    BY <1>1, <1>5, <2>1
<1>9. /\ Reconciled(g) \in CallSlots
      /\ Reconciled(g).inbound = slot[g].inbound
      /\ Reconciled(g).ending = slot[g].ending
      /\ Reconciled(g).tombstone = slot[g].tombstone
      /\ Reconciled(g).sizes = rest
      /\ Reconciled(g).bytes = b
  <2> DEFINE r == Reconciled(g)
             u == slot[g]
  <2>1. r = [u EXCEPT !.sizes = rest, !.bytes = b] /\ u \in CallSlots
    BY <1>1, <1>3
  <2>2. /\ r \in CallSlots /\ r.sizes = rest /\ r.bytes = b
        /\ r.inbound = u.inbound /\ r.ending = u.ending /\ r.tombstone = u.tombstone
    <3> HIDE DEF r, u, rest, b
    <3>q. QED
      BY <1>4, <1>5, <2>1 DEF CallSlots
  <2>q. QED
    BY <2>2
<1>q. QED
  BY <1>7, <1>8, <1>9, Zenon

\* The instances are finitely many.
LEMMA InstancesFinite == IsFiniteSet(Instances)
  BY FS_Interval DEF Instances

\* A fresh slot.
LEMMA EmptyType == EmptySlot \in CallSlots
<1>1. <<>> \in Seq(PayloadSizes)
  OBVIOUS
<1>q. QED
  BY <1>1 DEF EmptySlot, CallSlots

\* Dropping a receiver, or leaving every channel alone, keeps the channels' type.
LEMMA ReceiverType ==
    ASSUME ChannelType, NEW g, DropReceiver(g) \/ UNCHANGED chan
    PROVE  ChannelType'
<1>1. CASE DropReceiver(g)
  <2>1. 0 \in 0..Buffer
    OBVIOUS
  <2>2. queued' \in [Instances -> 0..Buffer]
    BY <1>1, <2>1 DEF ChannelType, DropReceiver
  <2>3. receiving' \in [Instances -> BOOLEAN]
    BY <1>1 DEF ChannelType, DropReceiver
  <2>q. QED
    BY <2>2, <2>3 DEF ChannelType
<1>2. CASE UNCHANGED chan
  BY <1>2 DEF ChannelType, chan
<1>q. QED
  BY <1>1, <1>2

\* What remove_call leaves is a table.
LEMMA RemovedType ==
    ASSUME TableType, NEW G \in SUBSET Instances, RemoveCalls(G)
    PROVE  TableType'
<1> DEFINE b == [g \in G |-> slot[g].bytes]
<1>1. IsFiniteSet(G)
  <2>1. IsFiniteSet(Instances)
    BY InstancesFinite
  <2>q. QED
    BY <2>1, FS_Subset
<1>2. DOMAIN b = G /\ \A g \in G : b[g] \in Nat
  BY DEF TableType, CallSlots
<1>3. SumFunction(b) \in Nat
  <2> HIDE DEF b
  <2>q. QED
    BY <1>1, <1>2, SumType DEF SumFunction
<1>4. EmptySlot \in CallSlots
  BY EmptyType
<1> HIDE DEF b
<1>5. inboundBytes' \in Nat
  BY <1>3 DEF RemoveCalls, TableType, SatSub, b
<1>6. calls' \in [Ids -> Instances \cup {NoCall}]
  BY DEF RemoveCalls, TableType
<1>7. slot' \in [Instances -> CallSlots]
  BY <1>4 DEF RemoveCalls, TableType
<1>q. QED
  BY <1>5, <1>6, <1>7 DEF TableType

\* The bytes one reconciliation releases over the whole table are a natural.
LEMMA ReleasedType ==
    ASSUME TableType, ChannelType
    PROVE  SumFunction([g \in Instances |-> Released(g)]) \in Nat
<1> DEFINE r == [g \in Instances |-> Released(g)]
<1>1. IsFiniteSet(Instances)
  BY InstancesFinite
<1>2. DOMAIN r = Instances /\ \A g \in Instances : r[g] \in Nat
  BY SlotTypes
<1>q. QED
  <2> HIDE DEF r
  <2>1. SumFunction(r) \in Nat
    BY <1>1, <1>2, SumType DEF SumFunction
  <2>q. QED
    BY <2>1 DEF r

\* The slot of a finalized call: only inbound and ending can change, and only to FALSE.
LEMMA FinalizedFields ==
    ASSUME NEW s \in CallSlots
    PROVE  /\ FinalizedSlot(s) \in CallSlots
           /\ FinalizedSlot(s).sizes = s.sizes /\ FinalizedSlot(s).bytes = s.bytes
           /\ FinalizedSlot(s).tombstone = s.tombstone
           /\ FinalizedSlot(s).inbound => s.inbound
  BY DEF FinalizedSlot, CallSlots

\* What remains of a slot whose request stream is given up.
LEMMA WithoutInboundFields ==
    ASSUME NEW s \in CallSlots
    PROVE  /\ WithoutInbound(s) \in CallSlots
           /\ WithoutInbound(s).sizes = <<>> /\ WithoutInbound(s).bytes = 0
           /\ WithoutInbound(s).tombstone = s.tombstone /\ ~WithoutInbound(s).inbound
<1>1. <<>> \in Seq(PayloadSizes) /\ 0 \in Nat
  OBVIOUS
<1>q. QED
  BY <1>1 DEF WithoutInbound, CallSlots

\* A control task that finished removes its own call and no other.
LEMMA FinishedOwn ==
    ASSUME Pending, rpc # "dropped", TypeOK, NEW G \in SUBSET ControlsOk
    PROVE  FinishedControl(G) = G /\ G \in SUBSET Instances
<1>1. \A g \in G : g \in Instances /\ calls[wireId[g]] = g /\ slot[g].tombstone /\ g # NoCall
  BY DEF Pending, Tracked, ControlsOk, Instances, NoCall
<1>q. QED
  BY <1>1 DEF FinishedControl

\* Setting or clearing one flag.
LEMMA FlagWritten ==
    ASSUME NEW f \in [Instances -> BOOLEAN], NEW g, NEW b \in BOOLEAN
    PROVE  [f EXCEPT ![g] = b] \in [Instances -> BOOLEAN]
  OBVIOUS

\* The flags keep their type.
LEMMA FlagTypeStep ==
    ASSUME ConnInv, [Next]_vars
    PROVE  FlagType'
<1> USE DEF ConnInv, TypeOK, FlagType, ServerType, TableNames
<1>1. ASSUME NEW i \in Ids, NEW streaming \in BOOLEAN, Request(i, streaming)
      PROVE  FlagType'
  <2>1. Close \/ (active' = [active EXCEPT ![made + 1] = TRUE] /\ cancelled' = cancelled)
    BY <1>1 DEF Request, CloseWith
  <2>q. QED
    BY <2>1 DEF Close
<1>2. ASSUME NEW i \in Ids, StreamCancel(i)
      PROVE  FlagType'
  <2>1. \/ UNCHANGED flags
        \/ /\ cancelled' = [cancelled EXCEPT ![calls[i]] = TRUE]
           /\ active' = [active EXCEPT ![calls[i]] = FALSE]
    BY <1>2 DEF StreamCancel
  <2>q. QED
    BY <2>1, FlagWritten DEF flags
<1>3. ASSUME NEW e \in Errors, ReadEnds(e)
      PROVE  FlagType'
  BY <1>3 DEF ReadEnds, Quiet, AtSelect, CloseWith, Close, vars, table, flags, chan, server, wire
<1>4. ASSUME ShutdownArm
      PROVE  FlagType'
  BY <1>4 DEF ShutdownArm, AtSelect, CloseWith, Close, vars, table, flags, chan, server, wire
<1>5. ASSUME RejectLost
      PROVE  FlagType'
  BY <1>5 DEF RejectLost, SetAside, OpenInbound, Overflows, WithoutInbound, vars, table, flags,
     chan, server, wire
<1>6. ASSUME RejectWon
      PROVE  FlagType'
  <2>1. \/ Close
        \/ /\ cancelled' = [cancelled EXCEPT ![calls[item.id]] = TRUE]
           /\ active' = [active EXCEPT ![calls[item.id]] = FALSE]
    BY <1>6 DEF RejectWon, CloseWith
  <2>2. CASE Close
    BY <2>2 DEF Close
  <2>3. CASE ~Close
    BY <2>1, <2>3, FlagWritten
  <2>q. QED
    BY <2>2, <2>3
<1>7. ASSUME NEW g \in Instances, JoinControl(g)
      PROVE  FlagType'
  <2>1. Close \/ UNCHANGED flags
    BY <1>7 DEF JoinControl, CloseWith
  <2>q. QED
    BY <2>1 DEF Close, flags
<1>8. ASSUME Accept
      PROVE  FlagType'
  BY <1>8 DEF Accept, DropReceiver, CallsRunning, vars, table, flags, chan, server, wire
<1>9. ASSUME DropConnection
      PROVE  FlagType'
  BY <1>9 DEF DropConnection, Close, vars, table, flags, chan, server, wire
<1>10. ASSUME NEW g \in Instances, SendFails(g)
      PROVE  FlagType'
  BY <1>10 DEF SendFails, Tears, Report, DropReceiver, vars, table, flags, chan, server, wire
<1>11. ASSUME NEW g \in Instances, TermBegin(g)
      PROVE  FlagType'
  BY <1>11 DEF TermBegin, DropReceiver, vars, table, flags, chan, server, wire
<1>12. ASSUME UNCHANGED vars
      PROVE  FlagType'
  BY <1>12 DEF vars, table, flags, chan, server, wire
<1>13. ASSUME NEW i \in Ids, NEW n \in PayloadSizes, StreamItem(i, n)
      PROVE  FlagType'
  <2>1. UNCHANGED <<active, cancelled>>
    BY <1>13 DEF StreamItem, flags
  <2>q. QED
    BY <2>1
<1>14. ASSUME NEW i \in Ids, StreamEnd(i)
      PROVE  FlagType'
  <2>1. UNCHANGED <<active, cancelled>>
    BY <1>14 DEF StreamEnd, flags
  <2>q. QED
    BY <2>1
<1>15. ASSUME RecvTop \/ Reap \/ ReconcileTimer \/ RouteIgnored \/ RouteDelivered \/
             RouteDiscarded \/ ServerShutdown
      PROVE  FlagType'
  <2>1. UNCHANGED <<active, cancelled>>
    BY <1>15 DEF RecvTop, Reap, ReconcileTimer, RouteIgnored, RouteDelivered, RouteDiscarded,
       ServerShutdown, flags
  <2>q. QED
    BY <2>1
<1>16. ASSUME NEW g \in Instances, JoinTask(g) \/ AbortTask(g) \/ ControlAcquire(g) \/
             ControlWritten(g) \/ ControlFails(g) \/ TakeItem(g) \/ CloseInbound(g) \/
             SendBegin(g) \/ SendAcquire(g) \/ SendWritten(g) \/ TermAcquire(g) \/
             TermWritten(g) \/ TermFails(g) \/ Complete(g)
      PROVE  FlagType'
  <2>1. UNCHANGED <<active, cancelled>>
    BY <1>16 DEF JoinTask, AbortTask, ControlAcquire, ControlWritten, ControlFails, TakeItem,
       CloseInbound, SendBegin, SendAcquire, SendWritten, TermAcquire, TermWritten, TermFails,
       Complete, flags
  <2>q. QED
    BY <2>1
<1>q. QED
   BY <1>1, <1>2, <1>3, <1>4, <1>5, <1>6, <1>7, <1>8, <1>9, <1>10, <1>11, <1>12, <1>13, <1>14,
     <1>15, <1>16
      DEF Next, Peer, Recv, Serve, Route, Control, Handler, Ended

\* The request channels keep their type; none holds more than INBOUND_BUFFER items.
LEMMA ChannelTypeStep ==
    ASSUME ConnInv, [Next]_vars
    PROVE  ChannelType'
<1> USE DEF ConnInv, TypeOK, ChannelType, ServerType, TableType, TableNames
<1>1. ASSUME NEW i \in Ids, NEW streaming \in BOOLEAN, Request(i, streaming)
      PROVE  ChannelType'
  BY <1>1 DEF Request, Quiet, AtSelect, CloseWith, Close, vars, table, flags, chan, server, wire
<1>2. ASSUME RouteDelivered
      PROVE  ChannelType'
  BY <1>2 DEF RouteDelivered, SetAside, OpenInbound, HasRoom, vars, table, flags, chan, server,
     wire
<1>3. ASSUME Accept
      PROVE  ChannelType'
  <2>1. DropReceiver(made) \/ UNCHANGED chan
    BY <1>3 DEF Accept, chan
  <2>q. QED
    BY <1>3, <2>1, ReceiverType DEF Accept
<1>4. ASSUME NEW g \in Instances, AbortTask(g)
      PROVE  ChannelType'
  BY <1>4 DEF AbortTask, DropReceiver, Tears, PoisonOnAbort, vars, table, flags, chan, server,
     wire
<1>5. ASSUME NEW g \in Instances, TakeItem(g)
      PROVE  ChannelType'
  BY <1>5 DEF TakeItem, vars, table, flags, chan, server, wire
<1>6. ASSUME NEW g \in Instances, CloseInbound(g)
      PROVE  ChannelType'
  BY <1>6 DEF CloseInbound, DropReceiver, vars, table, flags, chan, server, wire
<1>7. ASSUME NEW g \in Instances, SendBegin(g)
      PROVE  ChannelType'
  <2>1. DropReceiver(g) \/ UNCHANGED chan
    BY <1>7 DEF SendBegin, chan
  <2>q. QED
    BY <2>1, ReceiverType
<1>8. ASSUME NEW g \in Instances, SendFails(g)
      PROVE  ChannelType'
  BY <1>8 DEF SendFails, Tears, Report, DropReceiver, vars, table, flags, chan, server, wire
<1>9. ASSUME NEW g \in Instances, TermBegin(g)
      PROVE  ChannelType'
  <2>1. DropReceiver(g) \/ UNCHANGED chan
    BY <1>9 DEF TermBegin, chan
  <2>q. QED
    BY <2>1, ReceiverType
<1>10. ASSUME NEW g \in Instances, Complete(g)
      PROVE  ChannelType'
  BY <1>10 DEF Complete, Report, DropReceiver, vars, table, flags, chan, server, wire
<1>11. ASSUME UNCHANGED vars
      PROVE  ChannelType'
  BY <1>11 DEF vars, table, flags, chan, server, wire
<1>12. ASSUME NEW i \in Ids, NEW n \in PayloadSizes, StreamItem(i, n)
      PROVE  ChannelType'
  <2>1. UNCHANGED <<queued, receiving>>
    BY <1>12 DEF StreamItem, chan
  <2>q. QED
    BY <2>1
<1>13. ASSUME NEW i \in Ids, StreamEnd(i) \/ StreamCancel(i)
      PROVE  ChannelType'
  <2>1. UNCHANGED <<queued, receiving>>
    BY <1>13 DEF StreamEnd, StreamCancel, chan
  <2>q. QED
    BY <2>1
<1>14. ASSUME NEW e \in Errors, ReadEnds(e)
      PROVE  ChannelType'
  <2>1. UNCHANGED <<queued, receiving>>
    BY <1>14 DEF ReadEnds, chan
  <2>q. QED
    BY <2>1
<1>15. ASSUME RecvTop \/ Reap \/ ShutdownArm \/ ReconcileTimer \/ RouteIgnored \/ RouteDiscarded
             \/ RejectLost \/ RejectWon \/ DropConnection \/ ServerShutdown
      PROVE  ChannelType'
  <2>1. UNCHANGED <<queued, receiving>>
    BY <1>15 DEF RecvTop, Reap, ShutdownArm, ReconcileTimer, RouteIgnored, RouteDiscarded,
       RejectLost, RejectWon, DropConnection, ServerShutdown, chan
  <2>q. QED
    BY <2>1
<1>16. ASSUME NEW g \in Instances, JoinControl(g) \/ JoinTask(g) \/ ControlAcquire(g) \/
             ControlWritten(g) \/ ControlFails(g) \/ SendAcquire(g) \/ SendWritten(g) \/
             TermAcquire(g) \/ TermWritten(g) \/ TermFails(g)
      PROVE  ChannelType'
  <2>1. UNCHANGED <<queued, receiving>>
    BY <1>16 DEF JoinControl, JoinTask, ControlAcquire, ControlWritten, ControlFails, SendAcquire,
       SendWritten, TermAcquire, TermWritten, TermFails, chan
  <2>q. QED
    BY <2>1
<1>q. QED
   BY <1>1, <1>2, <1>3, <1>4, <1>5, <1>6, <1>7, <1>8, <1>9, <1>10, <1>11, <1>12, <1>13, <1>14,
     <1>15, <1>16
      DEF Next, Peer, Recv, Serve, Route, Control, Handler, Ended

\* The shutdown flag and the completion channel keep their type.
LEMMA SignalTypeStep ==
    ASSUME ConnInv, [Next]_vars
    PROVE  SignalType'
<1> USE DEF ConnInv, TypeOK, SignalType
<1>1. ASSUME NEW i \in Ids, NEW streaming \in BOOLEAN, Request(i, streaming)
      PROVE  SignalType'
  BY <1>1 DEF Request, Quiet, AtSelect, CloseWith, Close, vars, table, flags, chan, server, wire
<1>2. ASSUME NEW e \in Errors, ReadEnds(e)
      PROVE  SignalType'
  BY <1>2 DEF ReadEnds, Quiet, AtSelect, CloseWith, Close, vars, table, flags, chan, server, wire
<1>3. ASSUME Reap
      PROVE  SignalType'
  BY <1>3 DEF Reap, AtSelect, RemoveCalls, vars, table, flags, chan, server, wire
<1>4. ASSUME ShutdownArm
      PROVE  SignalType'
  BY <1>4 DEF ShutdownArm, AtSelect, CloseWith, Close, vars, table, flags, chan, server, wire
<1>5. ASSUME RejectWon
      PROVE  SignalType'
  BY <1>5 DEF RejectWon, OpenInbound, Overflows, WithoutInbound, CloseWith, Close, vars, table,
     flags, chan, server, wire
<1>6. ASSUME NEW g \in Instances, JoinControl(g)
      PROVE  SignalType'
  BY <1>6 DEF JoinControl, AtSelect, RemoveCalls, CloseWith, Close, vars, table, flags, chan,
     server, wire
<1>7. ASSUME DropConnection
      PROVE  SignalType'
  BY <1>7 DEF DropConnection, Close, vars, table, flags, chan, server, wire
<1>8. ASSUME NEW g \in Instances, AbortTask(g)
      PROVE  SignalType'
  BY <1>8 DEF AbortTask, DropReceiver, Tears, PoisonOnAbort, vars, table, flags, chan, server,
     wire
<1>9. ASSUME NEW g \in Instances, ControlFails(g)
      PROVE  SignalType'
  BY <1>9 DEF ControlFails, Tears, TimedPhases, vars, table, flags, chan, server, wire
<1>10. ASSUME NEW g \in Instances, SendFails(g)
      PROVE  SignalType'
  <2>1. closed' \in BOOLEAN
    BY <1>10 DEF SendFails
  <2>2. completions' \in Seq(Instances)
    BY <1>10 DEF SendFails, Report
  <2>q. QED
    BY <2>1, <2>2
<1>11. ASSUME NEW g \in Instances, TermFails(g)
      PROVE  SignalType'
  BY <1>11 DEF TermFails, Tears, vars, table, flags, chan, server, wire
<1>12. ASSUME NEW g \in Instances, Complete(g)
      PROVE  SignalType'
  BY <1>12 DEF Complete, Report, DropReceiver, vars, table, flags, chan, server, wire
<1>13. ASSUME UNCHANGED vars
      PROVE  SignalType'
  BY <1>13 DEF vars, table, flags, chan, server, wire
<1>14. ASSUME NEW i \in Ids, NEW n \in PayloadSizes, StreamItem(i, n)
      PROVE  SignalType'
  <2>1. UNCHANGED <<closed, completions>>
    BY <1>14 DEF StreamItem
  <2>q. QED
    BY <2>1
<1>15. ASSUME NEW i \in Ids, StreamEnd(i) \/ StreamCancel(i)
      PROVE  SignalType'
  <2>1. UNCHANGED <<closed, completions>>
    BY <1>15 DEF StreamEnd, StreamCancel
  <2>q. QED
    BY <2>1
<1>16. ASSUME RecvTop \/ ReconcileTimer \/ RouteIgnored \/ RouteDelivered \/ RouteDiscarded \/
             RejectLost \/ Accept \/ ServerShutdown
      PROVE  SignalType'
  <2>1. UNCHANGED <<closed, completions>>
    BY <1>16 DEF RecvTop, ReconcileTimer, RouteIgnored, RouteDelivered, RouteDiscarded, RejectLost,
       Accept, ServerShutdown
  <2>q. QED
    BY <2>1
<1>17. ASSUME NEW g \in Instances, JoinTask(g) \/ ControlAcquire(g) \/ ControlWritten(g) \/
             TakeItem(g) \/ CloseInbound(g) \/ SendBegin(g) \/ SendAcquire(g) \/ SendWritten(g)
             \/ TermBegin(g) \/ TermAcquire(g) \/ TermWritten(g)
      PROVE  SignalType'
  <2>1. UNCHANGED <<closed, completions>>
    BY <1>17 DEF JoinTask, ControlAcquire, ControlWritten, TakeItem, CloseInbound, SendBegin,
       SendAcquire, SendWritten, TermBegin, TermAcquire, TermWritten
  <2>q. QED
    BY <2>1
<1>q. QED
   BY <1>1, <1>2, <1>3, <1>4, <1>5, <1>6, <1>7, <1>8, <1>9, <1>10, <1>11, <1>12, <1>13, <1>14,
     <1>15, <1>16, <1>17
      DEF Next, Peer, Recv, Serve, Route, Control, Handler, Ended

\* The server's variables keep their type.
LEMMA ServerTypeStep ==
    ASSUME ConnInv, [Next]_vars
    PROVE  ServerType'
<1> USE DEF ConnInv, TypeOK, ServerType, ServerPhase, Errors, NoItem
<1>1. ASSUME NEW i \in Ids, NEW streaming \in BOOLEAN, Request(i, streaming)
      PROVE  ServerType'
  BY <1>1 DEF Request, Quiet, AtSelect, CloseWith, Close, vars, table, flags, chan, server, wire
<1>2. ASSUME NEW i \in Ids, NEW n \in PayloadSizes, StreamItem(i, n)
      PROVE  ServerType'
  BY <1>2 DEF StreamItem, Quiet, AtSelect, reconcile_all_inbound_bytes, vars, table, flags, chan,
     server, wire
<1>3. ASSUME NEW i \in Ids, StreamEnd(i)
      PROVE  ServerType'
  BY <1>3 DEF StreamEnd, Quiet, AtSelect, vars, table, flags, chan, server, wire
<1>4. ASSUME NEW i \in Ids, StreamCancel(i)
      PROVE  ServerType'
  BY <1>4 DEF StreamCancel, Quiet, AtSelect, RemoveCalls, Cancellable, vars, table, flags, chan,
     server, wire
<1>5. ASSUME NEW e \in Errors, ReadEnds(e)
      PROVE  ServerType'
  BY <1>5 DEF ReadEnds, Quiet, AtSelect, CloseWith, Close, vars, table, flags, chan, server, wire
<1>6. ASSUME RecvTop
      PROVE  ServerType'
  BY <1>6 DEF RecvTop, finalize_consumed_inbound_ends, vars, table, flags, chan, server, wire
<1>7. ASSUME Reap
      PROVE  ServerType'
  BY <1>7 DEF Reap, AtSelect, RemoveCalls, vars, table, flags, chan, server, wire
<1>8. ASSUME ShutdownArm
      PROVE  ServerType'
  BY <1>8 DEF ShutdownArm, AtSelect, CloseWith, Close, vars, table, flags, chan, server, wire
<1>9. ASSUME ReconcileTimer
      PROVE  ServerType'
  BY <1>9 DEF ReconcileTimer, Quiet, AtSelect, finalize_consumed_inbound_ends, vars, table, flags,
     chan, server, wire
<1>10. ASSUME RouteIgnored
      PROVE  ServerType'
  BY <1>10 DEF RouteIgnored, SetAside, vars, table, flags, chan, server, wire
<1>11. ASSUME RouteDelivered
      PROVE  ServerType'
  BY <1>11 DEF RouteDelivered, SetAside, OpenInbound, HasRoom, vars, table, flags, chan, server,
     wire
<1>12. ASSUME RouteDiscarded
      PROVE  ServerType'
  BY <1>12 DEF RouteDiscarded, SetAside, OpenInbound, WithoutInbound, vars, table, flags, chan,
     server, wire
<1>13. ASSUME RejectLost
      PROVE  ServerType'
  BY <1>13 DEF RejectLost, SetAside, OpenInbound, Overflows, WithoutInbound, vars, table, flags,
     chan, server, wire
<1>14. ASSUME RejectWon
      PROVE  ServerType'
  BY <1>14 DEF RejectWon, OpenInbound, Overflows, WithoutInbound, CloseWith, Close, vars, table,
     flags, chan, server, wire
<1>15. ASSUME NEW g \in Instances, JoinControl(g)
      PROVE  ServerType'
  BY <1>15 DEF JoinControl, AtSelect, RemoveCalls, CloseWith, Close, vars, table, flags, chan,
     server, wire
<1>16. ASSUME Accept
      PROVE  ServerType'
  BY <1>16 DEF Accept, DropReceiver, CallsRunning, vars, table, flags, chan, server, wire
<1>17. ASSUME DropConnection
      PROVE  ServerType'
  BY <1>17 DEF DropConnection, Close, vars, table, flags, chan, server, wire
<1>18. ASSUME NEW g \in Instances, JoinTask(g)
      PROVE  ServerType'
  BY <1>18 DEF JoinTask, AtSelect, vars, table, flags, chan, server, wire
<1>19. ASSUME ServerShutdown
      PROVE  ServerType'
  BY <1>19 DEF ServerShutdown, AtSelect, vars, table, flags, chan, server, wire
<1>20. ASSUME UNCHANGED vars
      PROVE  ServerType'
  BY <1>20 DEF vars, table, flags, chan, server, wire
<1>21. ASSUME NEW g \in Instances, AbortTask(g) \/ ControlAcquire(g) \/ ControlWritten(g) \/
             ControlFails(g) \/ TakeItem(g) \/ CloseInbound(g) \/ SendBegin(g) \/ SendAcquire(g)
             \/ SendWritten(g) \/ SendFails(g) \/ TermBegin(g) \/ TermAcquire(g) \/
             TermWritten(g) \/ TermFails(g) \/ Complete(g)
      PROVE  ServerType'
  <2>1. UNCHANGED <<rpc, item, error, made, wireId>>
    BY <1>21 DEF AbortTask, ControlAcquire, ControlWritten, ControlFails, TakeItem, CloseInbound,
       SendBegin, SendAcquire, SendWritten, SendFails, TermBegin, TermAcquire, TermWritten,
       TermFails,
       Complete, server
  <2>q. QED
    BY <2>1
<1>q. QED
   BY <1>1, <1>2, <1>3, <1>4, <1>5, <1>6, <1>7, <1>8, <1>9, <1>10, <1>11, <1>12, <1>13, <1>14,
     <1>15, <1>16, <1>17, <1>18, <1>19, <1>20, <1>21
      DEF Next, Peer, Recv, Serve, Route, Control, Handler, Ended

\* The tasks' variables keep their type.
LEMMA TaskTypeStep ==
    ASSUME ConnInv, [Next]_vars
    PROVE  TaskType'
<1> USE DEF ConnInv, TypeOK, TaskType, ServerType, TableNames, CallPhase, ControlPhase, CallsRunning
<1>1. ASSUME RejectWon
      PROVE  TaskType'
  BY <1>1 DEF RejectWon, OpenInbound, Overflows, WithoutInbound, CloseWith, Close, vars, table,
     flags, chan, server, wire
<1>2. ASSUME NEW g \in Instances, JoinControl(g)
      PROVE  TaskType'
  BY <1>2 DEF JoinControl, AtSelect, RemoveCalls, CloseWith, Close, vars, table, flags, chan,
     server, wire
<1>3. ASSUME Accept
      PROVE  TaskType'
  BY <1>3 DEF Accept, DropReceiver, CallsRunning, vars, table, flags, chan, server, wire
<1>4. ASSUME DropConnection
      PROVE  TaskType'
  BY <1>4 DEF DropConnection, Close, vars, table, flags, chan, server, wire
<1>5. ASSUME NEW g \in Instances, JoinTask(g)
      PROVE  TaskType'
  BY <1>5 DEF JoinTask, AtSelect, vars, table, flags, chan, server, wire
<1>6. ASSUME NEW g \in Instances, AbortTask(g)
      PROVE  TaskType'
  BY <1>6 DEF AbortTask, DropReceiver, Tears, PoisonOnAbort, vars, table, flags, chan, server,
     wire
<1>7. ASSUME NEW g \in Instances, ControlAcquire(g)
      PROVE  TaskType'
  BY <1>7 DEF ControlAcquire, WriterFree, Healthy, vars, table, flags, chan, server, wire
<1>8. ASSUME NEW g \in Instances, ControlWritten(g)
      PROVE  TaskType'
  BY <1>8 DEF ControlWritten, vars, table, flags, chan, server, wire
<1>9. ASSUME NEW g \in Instances, ControlFails(g)
      PROVE  TaskType'
  BY <1>9 DEF ControlFails, Tears, TimedPhases, vars, table, flags, chan, server, wire
<1>10. ASSUME NEW g \in Instances, SendBegin(g)
      PROVE  TaskType'
  BY <1>10 DEF SendBegin, DropReceiver, vars, table, flags, chan, server, wire
<1>11. ASSUME NEW g \in Instances, SendAcquire(g)
      PROVE  TaskType'
  BY <1>11 DEF SendAcquire, WriterFree, Healthy, StillActive, vars, table, flags, chan, server,
     wire
<1>12. ASSUME NEW g \in Instances, SendWritten(g)
      PROVE  TaskType'
  BY <1>12 DEF SendWritten, vars, table, flags, chan, server, wire
<1>13. ASSUME NEW g \in Instances, SendFails(g)
      PROVE  TaskType'
  BY <1>13 DEF SendFails, Tears, Report, DropReceiver, vars, table, flags, chan, server, wire
<1>14. ASSUME NEW g \in Instances, TermBegin(g)
      PROVE  TaskType'
  BY <1>14 DEF TermBegin, DropReceiver, vars, table, flags, chan, server, wire
<1>15. ASSUME NEW g \in Instances, TermAcquire(g)
      PROVE  TaskType'
  BY <1>15 DEF TermAcquire, WriterFree, Healthy, vars, table, flags, chan, server, wire
<1>16. ASSUME NEW g \in Instances, TermWritten(g)
      PROVE  TaskType'
  BY <1>16 DEF TermWritten, vars, table, flags, chan, server, wire
<1>17. ASSUME NEW g \in Instances, TermFails(g)
      PROVE  TaskType'
  BY <1>17 DEF TermFails, Tears, vars, table, flags, chan, server, wire
<1>18. ASSUME NEW g \in Instances, Complete(g)
      PROVE  TaskType'
  BY <1>18 DEF Complete, Report, DropReceiver, vars, table, flags, chan, server, wire
<1>19. ASSUME UNCHANGED vars
      PROVE  TaskType'
  BY <1>19 DEF vars, table, flags, chan, server, wire
<1>20. ASSUME NEW i \in Ids, NEW streaming \in BOOLEAN, Request(i, streaming)
      PROVE  TaskType'
  <2>1. UNCHANGED <<tasks, hpc, cpc>>
    BY <1>20 DEF Request
  <2>q. QED
    BY <2>1
<1>21. ASSUME NEW i \in Ids, NEW n \in PayloadSizes, StreamItem(i, n)
      PROVE  TaskType'
  <2>1. UNCHANGED <<tasks, hpc, cpc>>
    BY <1>21 DEF StreamItem
  <2>q. QED
    BY <2>1
<1>22. ASSUME NEW i \in Ids, StreamEnd(i) \/ StreamCancel(i)
      PROVE  TaskType'
  <2>1. UNCHANGED <<tasks, hpc, cpc>>
    BY <1>22 DEF StreamEnd, StreamCancel
  <2>q. QED
    BY <2>1
<1>23. ASSUME NEW e \in Errors, ReadEnds(e)
      PROVE  TaskType'
  <2>1. UNCHANGED <<tasks, hpc, cpc>>
    BY <1>23 DEF ReadEnds
  <2>q. QED
    BY <2>1
<1>24. ASSUME RecvTop \/ Reap \/ ShutdownArm \/ ReconcileTimer \/ RouteIgnored \/ RouteDelivered
             \/ RouteDiscarded \/ RejectLost \/ ServerShutdown
      PROVE  TaskType'
  <2>1. UNCHANGED <<tasks, hpc, cpc>>
    BY <1>24 DEF RecvTop, Reap, ShutdownArm, ReconcileTimer, RouteIgnored, RouteDelivered,
       RouteDiscarded, RejectLost, ServerShutdown
  <2>q. QED
    BY <2>1
<1>25. ASSUME NEW g \in Instances, TakeItem(g) \/ CloseInbound(g)
      PROVE  TaskType'
  <2>1. UNCHANGED <<tasks, hpc, cpc>>
    BY <1>25 DEF TakeItem, CloseInbound
  <2>q. QED
    BY <2>1
<1>q. QED
   BY <1>1, <1>2, <1>3, <1>4, <1>5, <1>6, <1>7, <1>8, <1>9, <1>10, <1>11, <1>12, <1>13, <1>14,
     <1>15, <1>16, <1>17, <1>18, <1>19, <1>20, <1>21, <1>22, <1>23, <1>24, <1>25
      DEF Next, Peer, Recv, Serve, Route, Control, Handler, Ended

\* What was written is a sequence of frames.
LEMMA WireTypeStep ==
    ASSUME ConnInv, [Next]_vars
    PROVE  WireType'
<1> USE DEF ConnInv, TypeOK, WireType
<1>1. ASSUME DropConnection
      PROVE  WireType'
  <2>1. out' = out /\ torn' \in BOOLEAN
    BY <1>1 DEF DropConnection, Tears
  <2>q. QED
    BY <2>1
<1>2. ASSUME NEW g \in Instances, AbortTask(g)
      PROVE  WireType'
  BY <1>2 DEF AbortTask, DropReceiver, Tears, PoisonOnAbort, vars, table, flags, chan, server,
     wire
<1>3. ASSUME NEW g \in Instances, ControlWritten(g)
      PROVE  WireType'
  BY <1>3 DEF ControlWritten, vars, table, flags, chan, server, wire
<1>4. ASSUME NEW g \in Instances, ControlFails(g)
      PROVE  WireType'
  BY <1>4 DEF ControlFails, Tears, TimedPhases, vars, table, flags, chan, server, wire
<1>5. ASSUME NEW g \in Instances, SendWritten(g)
      PROVE  WireType'
  BY <1>5 DEF SendWritten, vars, table, flags, chan, server, wire
<1>6. ASSUME NEW g \in Instances, SendFails(g)
      PROVE  WireType'
  BY <1>6 DEF SendFails, Tears, Report, DropReceiver, vars, table, flags, chan, server, wire
<1>7. ASSUME NEW g \in Instances, TermWritten(g)
      PROVE  WireType'
  BY <1>7 DEF TermWritten, vars, table, flags, chan, server, wire
<1>8. ASSUME NEW g \in Instances, TermFails(g)
      PROVE  WireType'
  BY <1>8 DEF TermFails, Tears, vars, table, flags, chan, server, wire
<1>9. ASSUME UNCHANGED vars
      PROVE  WireType'
  BY <1>9 DEF vars, table, flags, chan, server, wire
<1>10. ASSUME NEW i \in Ids, NEW streaming \in BOOLEAN, Request(i, streaming)
      PROVE  WireType'
  <2>1. UNCHANGED <<out, torn>>
    BY <1>10 DEF Request, wire
  <2>q. QED
    BY <2>1
<1>11. ASSUME NEW i \in Ids, NEW n \in PayloadSizes, StreamItem(i, n)
      PROVE  WireType'
  <2>1. UNCHANGED <<out, torn>>
    BY <1>11 DEF StreamItem, wire
  <2>q. QED
    BY <2>1
<1>12. ASSUME NEW i \in Ids, StreamEnd(i) \/ StreamCancel(i)
      PROVE  WireType'
  <2>1. UNCHANGED <<out, torn>>
    BY <1>12 DEF StreamEnd, StreamCancel, wire
  <2>q. QED
    BY <2>1
<1>13. ASSUME NEW e \in Errors, ReadEnds(e)
      PROVE  WireType'
  <2>1. UNCHANGED <<out, torn>>
    BY <1>13 DEF ReadEnds, wire
  <2>q. QED
    BY <2>1
<1>14. ASSUME RecvTop \/ Reap \/ ShutdownArm \/ ReconcileTimer \/ RouteIgnored \/ RouteDelivered
             \/ RouteDiscarded \/ RejectLost \/ RejectWon \/ Accept \/ ServerShutdown
      PROVE  WireType'
  <2>1. UNCHANGED <<out, torn>>
    BY <1>14 DEF RecvTop, Reap, ShutdownArm, ReconcileTimer, RouteIgnored, RouteDelivered,
       RouteDiscarded, RejectLost, RejectWon, Accept, ServerShutdown, wire
  <2>q. QED
    BY <2>1
<1>15. ASSUME NEW g \in Instances, JoinControl(g) \/ JoinTask(g) \/ ControlAcquire(g) \/
             TakeItem(g) \/ CloseInbound(g) \/ SendBegin(g) \/ SendAcquire(g) \/ TermBegin(g) \/
             TermAcquire(g) \/ Complete(g)
      PROVE  WireType'
  <2>1. UNCHANGED <<out, torn>>
    BY <1>15 DEF JoinControl, JoinTask, ControlAcquire, TakeItem, CloseInbound, SendBegin,
       SendAcquire, TermBegin, TermAcquire, Complete, wire
  <2>q. QED
    BY <2>1
<1>q. QED
   BY <1>1, <1>2, <1>3, <1>4, <1>5, <1>6, <1>7, <1>8, <1>9, <1>10, <1>11, <1>12, <1>13, <1>14,
     <1>15
      DEF Next, Peer, Recv, Serve, Route, Control, Handler, Ended

\* The call table keeps its type.
LEMMA TableTypeStep ==
    ASSUME ConnInv, [Next]_vars
    PROVE  TableType'
<1> USE DEF ConnInv, TypeOK
<1>1. ASSUME NEW i \in Ids, NEW streaming \in BOOLEAN, Request(i, streaming)
      PROVE  TableType'
  <2>1. CASE UNCHANGED table
    BY <2>1 DEF TableType, table
  <2> DEFINE s == [EmptySlot EXCEPT !.inbound = streaming]
  <2>2. s \in CallSlots
    BY EmptyType DEF CallSlots
  <2>3. CASE ~UNCHANGED table
    <3>1. /\ calls' = [calls EXCEPT ![i] = made + 1]
          /\ slot' = [slot EXCEPT ![made + 1] = s] /\ inboundBytes' = inboundBytes
          /\ made < MaxInstances
      BY <1>1, <2>3 DEF Request
    <3>2. made + 1 \in Instances
      BY <3>1 DEF ServerType, Instances
    <3> HIDE DEF s
    <3>q. QED
      BY <2>2, <3>1, <3>2 DEF TableType
  <2>q. QED
    BY <2>1, <2>3
<1>2. ASSUME NEW i \in Ids, NEW n \in PayloadSizes, StreamItem(i, n)
      PROVE  TableType'
  <2>1. inboundBytes' \in Nat
    BY <1>2, ReleasedType DEF StreamItem, reconcile_all_inbound_bytes, TableType, SatSub
  <2>2. slot' \in [Instances -> CallSlots]
    BY <1>2, ReconciledSlot, FinalizedFields DEF StreamItem, reconcile_all_inbound_bytes, TableType
  <2>3. calls' = calls
    BY <1>2 DEF StreamItem
  <2>q. QED
    BY <2>1, <2>2, <2>3 DEF TableType
<1>3. ASSUME NEW i \in Ids, StreamEnd(i)
      PROVE  TableType'
  <2> DEFINE g == calls[i]
             s == IF Reconciled(g).sizes = <<>> THEN [Reconciled(g) EXCEPT !.inbound = FALSE]
                  ELSE [Reconciled(g) EXCEPT !.ending = TRUE]
  <2>1. CASE g = NoCall
    BY <1>3, <2>1 DEF StreamEnd, TableType
  <2>2. CASE g # NoCall
    <3>1. g \in Instances
      BY <2>2 DEF TableType
    <3>2. Reconciled(g) \in CallSlots /\ Released(g) \in Nat
      BY <3>1, ReconciledSlot, SlotTypes
    <3>3. s \in CallSlots
      BY <3>2 DEF CallSlots
    <3>4. slot' = [slot EXCEPT ![g] = s] /\ inboundBytes' = SatSub(inboundBytes, Released(g))
          /\ calls' = calls
      BY <1>3, <2>2 DEF StreamEnd
    <3> HIDE DEF s
    <3>q. QED
      BY <3>1, <3>2, <3>3, <3>4 DEF TableType, SatSub
  <2>q. QED
    BY <2>1, <2>2
<1>4. ASSUME NEW i \in Ids, StreamCancel(i)
      PROVE  TableType'
  <2>1. CASE Cancellable(calls[i])
    <3>1. {calls[i]} \in SUBSET Instances
      BY <2>1 DEF Cancellable, TableType
    <3>2. RemoveCalls({calls[i]})
      BY <1>4, <2>1 DEF StreamCancel
    <3>q. QED
      BY <3>1, <3>2, RemovedType
  <2>2. CASE ~Cancellable(calls[i])
    BY <1>4, <2>2 DEF StreamCancel, TableType, table
  <2>q. QED
    BY <2>1, <2>2
<1>5. ASSUME RecvTop
      PROVE  TableType'
  <2>1. inboundBytes' \in Nat
    BY <1>5, ReleasedType DEF RecvTop, finalize_consumed_inbound_ends, TableType, SatSub
  <2>2. slot' \in [Instances -> CallSlots]
    BY <1>5, ReconciledSlot, FinalizedFields DEF RecvTop, finalize_consumed_inbound_ends, TableType
  <2>3. calls' = calls
    BY <1>5 DEF RecvTop
  <2>q. QED
    BY <2>1, <2>2, <2>3 DEF TableType
<1>6. ASSUME Reap
      PROVE  TableType'
  <2>1. Reaped(Head(completions)) \in SUBSET Instances
    BY <1>6 DEF Reap, Reaped, SameCall, SignalType
  <2>2. RemoveCalls(Reaped(Head(completions))) \/ UNCHANGED table
    BY <1>6 DEF Reap
  <2>q. QED
    BY <2>1, <2>2, RemovedType DEF TableType, table
<1>7. ASSUME ReconcileTimer
      PROVE  TableType'
  <2>1. inboundBytes' \in Nat
    BY <1>7, ReleasedType DEF ReconcileTimer, finalize_consumed_inbound_ends, TableType, SatSub
  <2>2. slot' \in [Instances -> CallSlots]
    BY <1>7, ReconciledSlot, FinalizedFields DEF ReconcileTimer, finalize_consumed_inbound_ends,
       TableType
  <2>3. calls' = calls
    BY <1>7 DEF ReconcileTimer
  <2>q. QED
    BY <2>1, <2>2, <2>3 DEF TableType
<1>8. ASSUME RouteDelivered
      PROVE  TableType'
  <2> DEFINE g == calls[item.id]
  <2>1. /\ g \in Instances /\ slot[g] \in CallSlots
        /\ item.size \in PayloadSizes /\ item.size \in Nat
    BY <1>8 DEF RouteDelivered, OpenInbound, TableNames, TableType
  <2> DEFINE s == Append(slot[g].sizes, item.size)
             b == slot[g].bytes + item.size
  <2>2. s \in Seq(PayloadSizes) /\ b \in Nat
    BY <2>1 DEF CallSlots
  <2>3. slot' = [slot EXCEPT ![g].sizes = s, ![g].bytes = b] /\ calls' = calls
    BY <1>8 DEF RouteDelivered
  <2>4. slot' \in [Instances -> CallSlots]
    <3> HIDE DEF s, b, g
    <3>q. QED
      BY <2>1, <2>2, <2>3 DEF TableType, CallSlots
  <2>5. inboundBytes' \in Nat
    BY <1>8, <2>1 DEF RouteDelivered, TableType
  <2>q. QED
    BY <2>3, <2>4, <2>5 DEF TableType
<1>9. ASSUME RouteDiscarded
      PROVE  TableType'
  <2>1. calls[item.id] \in Instances /\ slot[calls[item.id]] \in CallSlots
    BY <1>9 DEF RouteDiscarded, Overflows, OpenInbound, TableNames, TableType
  <2>2. inboundBytes' \in Nat
    BY <1>9, <2>1 DEF RouteDiscarded, TableType, SatSub, CallSlots
  <2>3. slot' \in [Instances -> CallSlots]
    BY <1>9, <2>1, WithoutInboundFields DEF RouteDiscarded, TableType
  <2>4. calls' = calls
    BY <1>9 DEF RouteDiscarded
  <2>q. QED
    BY <2>2, <2>3, <2>4 DEF TableType
<1>10. ASSUME RejectLost
      PROVE  TableType'
  <2>1. calls[item.id] \in Instances /\ slot[calls[item.id]] \in CallSlots
    BY <1>10 DEF RejectLost, Overflows, OpenInbound, TableNames, TableType
  <2>2. inboundBytes' \in Nat
    BY <1>10, <2>1 DEF RejectLost, TableType, SatSub, CallSlots
  <2>3. slot' \in [Instances -> CallSlots]
    BY <1>10, <2>1, WithoutInboundFields DEF RejectLost, TableType
  <2>4. calls' = calls
    BY <1>10 DEF RejectLost
  <2>q. QED
    BY <2>2, <2>3, <2>4 DEF TableType
<1>11. ASSUME RejectWon
      PROVE  TableType'
  <2> DEFINE g == calls[item.id]
             r == [WithoutInbound(slot[g]) EXCEPT !.tombstone = TRUE]
  <2>1. g \in Instances /\ slot[g] \in CallSlots
    BY <1>11 DEF RejectWon, Overflows, OpenInbound, TableNames, TableType
  <2>2. r \in CallSlots
    <3>1. WithoutInbound(slot[g]) \in CallSlots
      BY <2>1, WithoutInboundFields
    <3>q. QED
      BY <3>1 DEF CallSlots
  <2>3. PICK gone :
           /\ calls' = [i \in Ids |-> IF calls[i] \in gone THEN NoCall ELSE calls[i]]
           /\ slot' = [h \in Instances |-> IF h = g THEN r
                                           ELSE IF h \in gone THEN EmptySlot ELSE slot[h]]
    BY <1>11, SMTT(30) DEF RejectWon
  <2>4. calls' \in [Ids -> Instances \cup {NoCall}]
    BY <2>3 DEF TableType
  <2>5. slot' \in [Instances -> CallSlots]
    <3> HIDE DEF r
    <3>q. QED
      BY <2>2, <2>3, EmptyType DEF TableType
  <2>6. inboundBytes' \in Nat
    BY <1>11, <2>1 DEF RejectWon, TableType, SatSub, CallSlots
  <2>q. QED
    BY <2>4, <2>5, <2>6 DEF TableType
<1>12. ASSUME NEW g \in Instances, JoinControl(g)
      PROVE  TableType'
  <2>1. CASE cpc[g] = "ok"
    <3>1. {g} \in SUBSET ControlsOk /\ rpc # "dropped"
      BY <1>12, <2>1 DEF JoinControl, ControlsOk, AtSelect
    <3>2. FinishedControl({g}) \in SUBSET Instances
      BY <3>1, FinishedOwn DEF SlotInv
    <3>3. RemoveCalls(FinishedControl({g}))
      BY <1>12, <2>1 DEF JoinControl
    <3>q. QED
      BY <3>2, <3>3, RemovedType
  <2>2. CASE cpc[g] # "ok"
    BY <1>12, <2>2 DEF JoinControl, TableType, table
  <2>q. QED
    BY <2>1, <2>2
<1>13. ASSUME DropConnection
      PROVE  TableType'
  BY <1>13, EmptyType DEF DropConnection, TableType
<1>14. ASSUME UNCHANGED vars
      PROVE  TableType'
  BY <1>14 DEF vars, table, TableType
<1>15. ASSUME NEW e \in Errors, ReadEnds(e)
      PROVE  TableType'
  <2>1. UNCHANGED <<calls, slot, inboundBytes>>
    BY <1>15 DEF ReadEnds, table
  <2>q. QED
    BY <2>1 DEF TableType
<1>16. ASSUME ShutdownArm \/ RouteIgnored \/ Accept \/ ServerShutdown
      PROVE  TableType'
  <2>1. UNCHANGED <<calls, slot, inboundBytes>>
    BY <1>16 DEF ShutdownArm, RouteIgnored, Accept, ServerShutdown, table
  <2>q. QED
    BY <2>1 DEF TableType
<1>17. ASSUME NEW g \in Instances, JoinTask(g) \/ AbortTask(g) \/ ControlAcquire(g) \/
             ControlWritten(g) \/ ControlFails(g) \/ TakeItem(g) \/ CloseInbound(g) \/
             SendBegin(g) \/ SendAcquire(g) \/ SendWritten(g) \/ SendFails(g) \/ TermBegin(g) \/
             TermAcquire(g) \/ TermWritten(g) \/ TermFails(g) \/ Complete(g)
      PROVE  TableType'
  <2>1. UNCHANGED <<calls, slot, inboundBytes>>
    BY <1>17 DEF JoinTask, AbortTask, ControlAcquire, ControlWritten, ControlFails, TakeItem,
       CloseInbound, SendBegin, SendAcquire, SendWritten, SendFails, TermBegin, TermAcquire,
       TermWritten, TermFails, Complete, table
  <2>q. QED
    BY <2>1 DEF TableType
<1>q. QED
   BY <1>1, <1>2, <1>3, <1>4, <1>5, <1>6, <1>7, <1>8, <1>9, <1>10, <1>11, <1>12, <1>13, <1>14,
     <1>15, <1>16, <1>17
      DEF Next, Peer, Recv, Serve, Route, Control, Handler, Ended

\* Every part of the type invariant is preserved.
LEMMA TypeStep == ASSUME ConnInv, [Next]_vars PROVE TypeOK'
  BY FlagTypeStep, ChannelTypeStep, SignalTypeStep, ServerTypeStep, TaskTypeStep, WireTypeStep,
     TableTypeStep DEF TypeOK

-----------------------------------------------------------------------------
\* Reconciling, ending, filling or giving up a request stream removes no call.
LEMMA ReconciledKept ==
    ASSUME TypeOK, calls' = calls,
           \/ slot' = slot
           \/ reconcile_all_inbound_bytes
           \/ finalize_consumed_inbound_ends
    PROVE  SlotsKept
<1> USE DEF SlotsKept, Drained
<1>1. CASE slot' = slot
  BY <1>1
<1>2. TableType /\ ChannelType
  BY DEF TypeOK
<1>3. CASE reconcile_all_inbound_bytes
  BY <1>2, <1>3, ReconciledSlot DEF reconcile_all_inbound_bytes
<1>4. CASE finalize_consumed_inbound_ends
  <2> SUFFICES ASSUME NEW h \in Instances
               PROVE  /\ slot'[h].tombstone = slot[h].tombstone
                      /\ Drained(slot[h]) => Drained(slot'[h])
    OBVIOUS
  <2>1. slot'[h] = FinalizedSlot(Reconciled(h))
    BY <1>4 DEF finalize_consumed_inbound_ends
  <2>q. QED
    BY <1>2, <2>1, ReconciledSlot, FinalizedFields
<1>q. QED
  BY <1>1, <1>3, <1>4

\* The same for one call's stream.
LEMMA OneKept ==
    ASSUME TypeOK, calls' = calls, NEW g \in Instances, NEW s,
           slot' = [slot EXCEPT ![g] = s],
           s.tombstone = slot[g].tombstone, Drained(slot[g]) => Drained(s)
    PROVE  SlotsKept
  BY DEF SlotsKept, TypeOK, TableType

\* The call an item is routed to.
LEMMA RoutedCall ==
    ASSUME ConnInv, rpc = "route", OpenInbound(calls[item.id])
    PROVE  /\ calls[item.id] \in Instances /\ slot[calls[item.id]] \in CallSlots
           /\ slot[calls[item.id]].inbound /\ Tracked(calls[item.id])
  BY DEF ConnInv, TypeOK, TableNames, TableType, OpenInbound, Tracked, ServerType

\* Such a step removes no call and touches no task.
LEMMA KeptSlots ==
    ASSUME ConnInv, StreamStep
    PROVE  /\ SlotsKept /\ rpc \notin {"dropped", "accepted"} /\ rpc' \notin {"dropped", "accepted"}
           /\ UNCHANGED <<active, made, wireId, cpc, hpc, out>>
<1>0. TypeOK /\ TableType /\ ChannelType
  BY DEF ConnInv, TypeOK
<1>1. ASSUME NEW i \in Ids, NEW n \in PayloadSizes, StreamItem(i, n) PROVE SlotsKept
  BY <1>0, <1>1, ReconciledKept DEF StreamItem
<1>2. ASSUME NEW i \in Ids, StreamEnd(i) PROVE SlotsKept
  <2> DEFINE g == calls[i]
             s == IF Reconciled(g).sizes = <<>> THEN [Reconciled(g) EXCEPT !.inbound = FALSE]
                  ELSE [Reconciled(g) EXCEPT !.ending = TRUE]
  <2>1. CASE g = NoCall
    BY <1>0, <1>2, <2>1, ReconciledKept DEF StreamEnd
  <2>2. CASE g # NoCall
    <3>1. g \in Instances
      BY <1>0, <2>2 DEF TableType
    <3>2. /\ Reconciled(g) \in CallSlots /\ Reconciled(g).tombstone = slot[g].tombstone
          /\ Drained(slot[g]) => Drained(Reconciled(g))
      BY <1>0, <3>1, ReconciledSlot DEF Drained
    <3>3. /\ s.tombstone = Reconciled(g).tombstone
          /\ Drained(Reconciled(g)) => Drained(s)
      BY <3>2 DEF CallSlots, Drained
    <3>4. slot' = [slot EXCEPT ![g] = s] /\ calls' = calls
      BY <1>2, <2>2 DEF StreamEnd
    <3> HIDE DEF s
    <3>q. QED
      BY <1>0, <3>1, <3>2, <3>3, <3>4, OneKept
  <2>q. QED
    BY <2>1, <2>2
<1>3. ASSUME RecvTop PROVE SlotsKept
  BY <1>0, <1>3, ReconciledKept DEF RecvTop
<1>4. ASSUME ReconcileTimer PROVE SlotsKept
  BY <1>0, <1>4, ReconciledKept DEF ReconcileTimer
<1> DEFINE g == calls[item.id]
<1>5. ASSUME RouteDelivered PROVE SlotsKept
  <2>1. g \in Instances /\ slot[g] \in CallSlots /\ slot[g].inbound
    BY <1>5, RoutedCall DEF RouteDelivered
  <2> DEFINE s == Append(slot[g].sizes, item.size)
             b == slot[g].bytes + item.size
  <2>2. slot' = [slot EXCEPT ![g].sizes = s, ![g].bytes = b] /\ calls' = calls
    BY <1>5 DEF RouteDelivered
  <2> HIDE DEF s, b, g
  <2>q. QED
    BY <1>0, <2>1, <2>2 DEF TableType, CallSlots, SlotsKept, Drained
<1>6. ASSUME RouteDiscarded \/ RejectLost PROVE SlotsKept
  <2>1. g \in Instances /\ slot[g] \in CallSlots
    BY <1>6, RoutedCall DEF RouteDiscarded, RejectLost, Overflows
  <2>2. slot' = [slot EXCEPT ![g] = WithoutInbound(slot[g])] /\ calls' = calls
    BY <1>6 DEF RouteDiscarded, RejectLost
  <2>3. /\ WithoutInbound(slot[g]).tombstone = slot[g].tombstone
        /\ Drained(WithoutInbound(slot[g]))
    BY <2>1, WithoutInboundFields DEF Drained
  <2> HIDE DEF g
  <2>q. QED
    BY <1>0, <2>1, <2>2, <2>3, OneKept
<1>7. /\ rpc \notin {"dropped", "accepted"} /\ rpc' \notin {"dropped", "accepted"}
      /\ UNCHANGED <<active, made, wireId, cpc, hpc, out>>
  BY DEF StreamStep, StreamItem, StreamEnd, RecvTop, ReconcileTimer, RouteDelivered,
         RouteDiscarded, RejectLost, Quiet, AtSelect, SetAside, flags, wire
<1>q. QED
  BY <1>1, <1>2, <1>3, <1>4, <1>5, <1>6, <1>7 DEF StreamStep

\* remove_call frees the slots.
LEMMA FreedSlots ==
    ASSUME NEW G, RemoveCalls(G) PROVE SlotsFreed(G)
  BY DEF RemoveCalls, SlotsFreed

\* reject_inbound_overflow, when it wins, is such a step.
LEMMA Rejected ==
    ASSUME ConnInv, RejectWon
    PROVE  \E G \in SUBSET ControlsOk : Rejects(calls[item.id], G)
<1> DEFINE g == calls[item.id]
           r == [WithoutInbound(slot[g]) EXCEPT !.tombstone = TRUE]
<1>1. PICK joined \in JoinedSets :
         LET gone == FinishedControl(joined \cap ControlsOk)
             failed == ControlsFailed # {}
             saturated == Cardinality(ControlsRunning) >= MaxInFlight
         IN  /\ rpc = "route" /\ Overflows(g) /\ active[g]
             /\ calls' = [i \in Ids |-> IF calls[i] \in gone THEN NoCall ELSE calls[i]]
             /\ slot' = [h \in Instances |-> IF h = g THEN r
                                             ELSE IF h \in gone THEN EmptySlot ELSE slot[h]]
             /\ cpc' = [c \in Instances |-> IF c \in joined THEN "joined"
                                            ELSE IF c = g /\ ~failed /\ ~saturated THEN "lock"
                                            ELSE cpc[c]]
             /\ \/ Close /\ rpc' = "draining"
                \/ active' = [active EXCEPT ![g] = FALSE] /\ rpc' = "top"
             /\ UNCHANGED <<made, wireId, hpc, completions, queued, wire>>
  BY DEF RejectWon, CloseWith, chan
<1> DEFINE G == joined \cap ControlsOk
<1>2. g \in Instances /\ slot[g] \in CallSlots /\ Tracked(g)
  BY <1>1, RoutedCall DEF Overflows
<1>3. cpc[g] = "none"
  BY <1>1, <1>2 DEF ConnInv, SlotInv, Claimed
<1>4. joined \subseteq ControlsOk \cup ControlsFailed
  BY DEF JoinedSets
<1>5. g \notin joined /\ G \in SUBSET ControlsOk
  BY <1>3, <1>4 DEF ControlsOk, ControlsFailed
<1>6. FinishedControl(G) = G /\ G \subseteq Instances
  BY <1>1, <1>5, FinishedOwn DEF ConnInv, SlotInv
<1>7. r.tombstone /\ Drained(r)
  <2>1. WithoutInbound(slot[g]) \in CallSlots /\ Drained(WithoutInbound(slot[g]))
    BY <1>2, WithoutInboundFields DEF Drained
  <2> DEFINE w == WithoutInbound(slot[g])
  <2> HIDE DEF w
  <2>q. QED
    BY <2>1 DEF CallSlots, Drained, w
<1>8. slot'[g] = r /\ \A h \in Instances \ {g} : slot'[h] = IF h \in G THEN EmptySlot ELSE slot[h]
  <2> HIDE DEF r, G
  <2>q. QED
    BY <1>1, <1>2, <1>6 DEF G
<1>9. \A h \in Instances : active'[h] => active[h] /\ h # g
  BY <1>1, <1>2 DEF Close, ConnInv, TypeOK, FlagType
<1>10. /\ \A h \in Instances : /\ \/ cpc'[h] = cpc[h] \/ h = g
                                  \/ cpc[h] \in {"ok", "err"} /\ cpc'[h] = "joined"
                               /\ h \in G => cpc'[h] = "joined"
       /\ cpc'[g] \in {cpc[g], "lock"}
  BY <1>1, <1>2, <1>4, <1>5 DEF ControlsOk, ControlsFailed
<1>11. calls' = [i \in Ids |-> IF calls[i] \in G THEN NoCall ELSE calls[i]]
  <2> HIDE DEF G
  <2>q. QED
    BY <1>1, <1>6 DEF G
<1> HIDE DEF r, G, g
<1>12. /\ rpc = "route" /\ rpc' # "dropped" /\ active[g]
       /\ UNCHANGED <<made, wireId, hpc, completions, queued, wire>>
  BY <1>1
<1>13. Rejects(g, G)
  <2>1. slot'[g].tombstone /\ Drained(slot'[g])
    BY <1>7, <1>8
  <2>2. g \notin G
    BY <1>5 DEF G
  <2>q. QED
    BY <1>2, <2>1, <2>2, <1>8, <1>9, <1>10, <1>11, <1>12, Zenon DEF Rejects
<1>q. QED
  BY <1>5, <1>13 DEF g

\* A call that is not yet made has no task and no frame.
LEMMA FreshStep ==
    ASSUME ConnInv, [Next]_vars
    PROVE  Fresh'
<1> USE DEF ConnInv, TypeOK, Fresh, ServerType, Instances, TableNames, NoCall
<1>1. ASSUME NEW i \in Ids, NEW streaming \in BOOLEAN, Request(i, streaming)
      PROVE  Fresh'
  <2>1. CASE ~(calls[i] # NoCall \/ Cardinality({j \in Ids : calls[j] # NoCall}) >= MaxInFlight)
    <3>1. /\ made' = made + 1 /\ made + 1 \in Instances /\ wireId' = [wireId EXCEPT ![made + 1] = i]
          /\ calls[i] = NoCall /\ calls' = [calls EXCEPT ![i] = made + 1] /\ rpc # "dropped"
          /\ slot' = [slot EXCEPT ![made + 1] = [EmptySlot EXCEPT !.inbound = streaming]]
          /\ active' = [active EXCEPT ![made + 1] = TRUE] /\ rpc' = "accepted"
          /\ UNCHANGED <<hpc, cpc, out, queued, completions, item>>
      BY <1>1, <2>1 DEF Request, Quiet, AtSelect, wire, ServerType, Instances
    <3>q. QED
      BY <3>1 DEF FlagType, TaskType
  <2>2. CASE calls[i] # NoCall \/ Cardinality({j \in Ids : calls[j] # NoCall}) >= MaxInFlight
    <3>1. /\ Close /\ rpc' = "draining" /\ rpc # "dropped"
          /\ UNCHANGED <<table, made, wireId, hpc, cpc, out, queued, completions, item>>
      BY <1>1, <2>2 DEF Request, CloseWith, Quiet, AtSelect, wire
    <3>q. QED
      BY <3>1 DEF Close, table
  <2>q. QED
    BY <2>1, <2>2
<1>2. ASSUME NEW i \in Ids, StreamCancel(i)
      PROVE  Fresh'
  <2>1. /\ UNCHANGED <<made, hpc, cpc, out, queued>>
        /\ active' \in {active, [active EXCEPT ![calls[i]] = FALSE]}
    BY <1>2 DEF StreamCancel, flags, wire, chan
  <2>q. QED
    BY <2>1 DEF FlagType
<1>3. ASSUME NEW e \in Errors, ReadEnds(e)
      PROVE  Fresh'
  BY <1>3 DEF ReadEnds, Quiet, AtSelect, CloseWith, Close, vars, table, flags, chan, server, wire
<1>4. ASSUME ShutdownArm
      PROVE  Fresh'
  BY <1>4 DEF ShutdownArm, AtSelect, CloseWith, Close, vars, table, flags, chan, server, wire
<1>5. ASSUME RouteDelivered
      PROVE  Fresh'
  <2>1. Tracked(calls[item.id])
    BY <1>5, RoutedCall DEF RouteDelivered
  <2>2. UNCHANGED <<made, hpc, cpc, out, active>>
    BY <1>5 DEF RouteDelivered, flags, wire
  <2>3. \A h \in Instances \ {calls[item.id]} : queued'[h] = queued[h]
    BY <1>5 DEF RouteDelivered, ChannelType
  <2>q. QED
    BY <2>1, <2>2, <2>3 DEF Tracked
<1>6. ASSUME RejectWon
      PROVE  Fresh'
  <2>1. PICK G \in SUBSET ControlsOk : Rejects(calls[item.id], G)
    BY <1>6, Rejected
  <2> DEFINE g == calls[item.id]
  <2> HIDE DEF g
  <2>q. QED
    BY <2>1 DEF Rejects, g, wire, Tracked
<1>7. ASSUME NEW g \in Instances, JoinControl(g)
      PROVE  Fresh'
  <2>1. Close \/ UNCHANGED active
    BY <1>7 DEF JoinControl, CloseWith, flags
  <2>2. /\ UNCHANGED <<made, hpc, out, queued>> /\ cpc' = [cpc EXCEPT ![g] = "joined"]
        /\ cpc[g] # "none"
    BY <1>7 DEF JoinControl, chan, wire
  <2>q. QED
    BY <2>1, <2>2 DEF Close, TaskType
<1>8. ASSUME Accept
      PROVE  Fresh'
  <2>1. UNCHANGED <<made, cpc, out, active>>
    BY <1>8 DEF Accept, wire
  <2>2. \A h \in Instances : h # made => hpc'[h] = hpc[h] /\ queued'[h] = queued[h]
    BY <1>8 DEF Accept, TaskType, ChannelType, DropReceiver, chan
  <2>q. QED
    BY <2>1, <2>2
<1>9. ASSUME DropConnection
      PROVE  Fresh'
  BY <1>9 DEF DropConnection, Close, vars, table, flags, chan, server, wire
<1>10. ASSUME NEW g \in Instances, AbortTask(g)
      PROVE  Fresh'
  BY <1>10 DEF AbortTask, DropReceiver, Tears, PoisonOnAbort, vars, table, flags, chan, server,
     wire
<1>11. ASSUME NEW g \in Instances, ControlAcquire(g)
      PROVE  Fresh'
  BY <1>11 DEF ControlAcquire, WriterFree, Healthy, vars, table, flags, chan, server, wire
<1>12. ASSUME NEW g \in Instances, ControlWritten(g)
      PROVE  Fresh'
  BY <1>12 DEF ControlWritten, vars, table, flags, chan, server, wire
<1>13. ASSUME NEW g \in Instances, ControlFails(g)
      PROVE  Fresh'
  BY <1>13 DEF ControlFails, Tears, TimedPhases, vars, table, flags, chan, server, wire
<1>14. ASSUME NEW g \in Instances, TakeItem(g)
      PROVE  Fresh'
  BY <1>14 DEF TakeItem, vars, table, flags, chan, server, wire
<1>15. ASSUME NEW g \in Instances, CloseInbound(g)
      PROVE  Fresh'
  BY <1>15 DEF CloseInbound, DropReceiver, vars, table, flags, chan, server, wire
<1>16. ASSUME NEW g \in Instances, SendBegin(g)
      PROVE  Fresh'
  <2>1. UNCHANGED <<made, cpc, out>> /\ active' \in {active, [active EXCEPT ![g] = FALSE]}
    BY <1>16 DEF SendBegin, flags, server, wire
  <2>2. \A h \in Instances : hpc[h] = "none" => hpc'[h] = "none" /\ queued'[h] \in {queued[h], 0}
    BY <1>16 DEF SendBegin, TaskType, ChannelType, DropReceiver, chan
  <2>q. QED
    BY <2>1, <2>2 DEF FlagType
<1>17. ASSUME NEW g \in Instances, SendAcquire(g)
      PROVE  Fresh'
  BY <1>17 DEF SendAcquire, WriterFree, Healthy, StillActive, vars, table, flags, chan, server,
     wire
<1>18. ASSUME NEW g \in Instances, SendWritten(g)
      PROVE  Fresh'
  BY <1>18 DEF SendWritten, vars, table, flags, chan, server, wire
<1>19. ASSUME NEW g \in Instances, SendFails(g)
      PROVE  Fresh'
  <2>1. UNCHANGED <<made, cpc, out>> /\ active' \in {active, [active EXCEPT ![g] = FALSE]}
    BY <1>19 DEF SendFails, flags, server, wire
  <2>2. \A h \in Instances : hpc[h] = "none" => hpc'[h] = "none" /\ queued'[h] \in {queued[h], 0}
    BY <1>19 DEF SendFails, TaskType, ChannelType, DropReceiver, chan
  <2>q. QED
    BY <2>1, <2>2 DEF FlagType
<1>20. ASSUME NEW g \in Instances, TermBegin(g)
      PROVE  Fresh'
  <2>1. UNCHANGED <<made, cpc, out>> /\ active' \in {active, [active EXCEPT ![g] = FALSE]}
    BY <1>20 DEF TermBegin, flags, server, wire
  <2>2. \A h \in Instances : hpc[h] = "none" => hpc'[h] = "none" /\ queued'[h] \in {queued[h], 0}
    BY <1>20 DEF TermBegin, TaskType, ChannelType, DropReceiver, chan
  <2>q. QED
    BY <2>1, <2>2 DEF FlagType
<1>21. ASSUME NEW g \in Instances, TermAcquire(g)
      PROVE  Fresh'
  BY <1>21 DEF TermAcquire, WriterFree, Healthy, vars, table, flags, chan, server, wire
<1>22. ASSUME NEW g \in Instances, TermWritten(g)
      PROVE  Fresh'
  BY <1>22 DEF TermWritten, vars, table, flags, chan, server, wire
<1>23. ASSUME NEW g \in Instances, TermFails(g)
      PROVE  Fresh'
  <2>1. UNCHANGED <<made, cpc, out>> /\ active' \in {active, [active EXCEPT ![g] = FALSE]}
    BY <1>23 DEF TermFails, flags, server, wire
  <2>2. \A h \in Instances : hpc[h] = "none" => hpc'[h] = "none" /\ queued'[h] \in {queued[h], 0}
    BY <1>23 DEF TermFails, TaskType, ChannelType, DropReceiver, chan
  <2>q. QED
    BY <2>1, <2>2 DEF FlagType
<1>24. ASSUME NEW g \in Instances, Complete(g)
      PROVE  Fresh'
  BY <1>24, SMTT(30) DEF Complete, Report, DropReceiver, vars, table, flags, chan, server, wire
<1>25. ASSUME UNCHANGED vars
      PROVE  Fresh'
  BY <1>25 DEF vars, table, flags, chan, server, wire
<1>26. ASSUME NEW i \in Ids, NEW n \in PayloadSizes, StreamItem(i, n)
      PROVE  Fresh'
  <2>1. UNCHANGED <<made, hpc, cpc, out, active, queued>>
    BY <1>26 DEF StreamItem, flags, chan, server, wire
  <2>q. QED
    BY <2>1
<1>27. ASSUME NEW i \in Ids, StreamEnd(i)
      PROVE  Fresh'
  <2>1. UNCHANGED <<made, hpc, cpc, out, active, queued>>
    BY <1>27 DEF StreamEnd, flags, chan, server, wire
  <2>q. QED
    BY <2>1
<1>28. ASSUME RecvTop \/ Reap \/ ReconcileTimer \/ RouteIgnored \/ RouteDiscarded \/ RejectLost
             \/ ServerShutdown
      PROVE  Fresh'
  <2>1. UNCHANGED <<made, hpc, cpc, out, active, queued>>
    BY <1>28 DEF RecvTop, Reap, ReconcileTimer, RouteIgnored, RouteDiscarded, RejectLost,
       ServerShutdown, flags, chan, server, wire
  <2>q. QED
    BY <2>1
<1>29. ASSUME NEW g \in Instances, JoinTask(g)
      PROVE  Fresh'
  <2>1. UNCHANGED <<made, hpc, cpc, out, active, queued>>
    BY <1>29 DEF JoinTask, flags, chan, server, wire
  <2>q. QED
    BY <2>1
<1>q. QED
   BY <1>1, <1>2, <1>3, <1>4, <1>5, <1>6, <1>7, <1>8, <1>9, <1>10, <1>11, <1>12, <1>13, <1>14,
     <1>15, <1>16, <1>17, <1>18, <1>19, <1>20, <1>21, <1>22, <1>23, <1>24, <1>25, <1>26, <1>27,
     <1>28, <1>29
      DEF Next, Peer, Recv, Serve, Route, Control, Handler, Ended

\* An id of the table stands for the call made under it.
LEMMA TableNamesStep ==
    ASSUME ConnInv, [Next]_vars
    PROVE  TableNames'
<1> USE DEF ConnInv, TypeOK, TableNames, ServerType, TableType, TaskType, Instances, NoCall,
     ServerPhase
<1>1. ASSUME NEW i \in Ids, NEW streaming \in BOOLEAN, Request(i, streaming)
      PROVE  TableNames'
  <2>1. CASE ~(calls[i] # NoCall \/ Cardinality({j \in Ids : calls[j] # NoCall}) >= MaxInFlight)
    <3>1. /\ made' = made + 1 /\ made + 1 \in Instances /\ wireId' = [wireId EXCEPT ![made + 1] = i]
          /\ calls[i] = NoCall /\ calls' = [calls EXCEPT ![i] = made + 1] /\ rpc # "dropped"
          /\ slot' = [slot EXCEPT ![made + 1] = [EmptySlot EXCEPT !.inbound = streaming]]
          /\ active' = [active EXCEPT ![made + 1] = TRUE] /\ rpc' = "accepted"
          /\ UNCHANGED <<hpc, cpc, out, queued, completions, item>>
      BY <1>1, <2>1 DEF Request, Quiet, AtSelect, wire, ServerType, Instances
    <3>q. QED
      BY <3>1 DEF Fresh
  <2>2. CASE calls[i] # NoCall \/ Cardinality({j \in Ids : calls[j] # NoCall}) >= MaxInFlight
    <3>1. /\ Close /\ rpc' = "draining" /\ rpc # "dropped"
          /\ UNCHANGED <<table, made, wireId, hpc, cpc, out, queued, completions, item>>
      BY <1>1, <2>2 DEF Request, CloseWith, Quiet, AtSelect, wire
    <3>q. QED
      BY <3>1 DEF Close, table
  <2>q. QED
    BY <2>1, <2>2
<1>2. ASSUME NEW i \in Ids, NEW n \in PayloadSizes, StreamItem(i, n)
      PROVE  TableNames'
  BY <1>2 DEF StreamItem, Quiet, AtSelect, reconcile_all_inbound_bytes, vars, table, flags, chan,
     server, wire
<1>3. ASSUME NEW i \in Ids, StreamEnd(i)
      PROVE  TableNames'
  BY <1>3 DEF StreamEnd, Quiet, AtSelect, vars, table, flags, chan, server, wire
<1>4. ASSUME NEW i \in Ids, StreamCancel(i)
      PROVE  TableNames'
  BY <1>4 DEF StreamCancel, Quiet, AtSelect, RemoveCalls, Cancellable, vars, table, flags, chan,
     server, wire
<1>5. ASSUME NEW e \in Errors, ReadEnds(e)
      PROVE  TableNames'
  BY <1>5 DEF ReadEnds, Quiet, AtSelect, CloseWith, Close, vars, table, flags, chan, server, wire
<1>6. ASSUME RecvTop
      PROVE  TableNames'
  BY <1>6 DEF RecvTop, finalize_consumed_inbound_ends, vars, table, flags, chan, server, wire
<1>7. ASSUME Reap
      PROVE  TableNames'
  BY <1>7 DEF Reap, AtSelect, RemoveCalls, vars, table, flags, chan, server, wire
<1>8. ASSUME ShutdownArm
      PROVE  TableNames'
  BY <1>8 DEF ShutdownArm, AtSelect, CloseWith, Close, vars, table, flags, chan, server, wire
<1>9. ASSUME ReconcileTimer
      PROVE  TableNames'
  BY <1>9 DEF ReconcileTimer, Quiet, AtSelect, finalize_consumed_inbound_ends, vars, table, flags,
     chan, server, wire
<1>10. ASSUME RouteIgnored
      PROVE  TableNames'
  BY <1>10 DEF RouteIgnored, SetAside, vars, table, flags, chan, server, wire
<1>11. ASSUME RouteDelivered
      PROVE  TableNames'
  BY <1>11 DEF RouteDelivered, SetAside, OpenInbound, HasRoom, vars, table, flags, chan, server,
     wire
<1>12. ASSUME RouteDiscarded
      PROVE  TableNames'
  BY <1>12 DEF RouteDiscarded, SetAside, OpenInbound, WithoutInbound, vars, table, flags, chan,
     server, wire
<1>13. ASSUME RejectLost
      PROVE  TableNames'
  BY <1>13 DEF RejectLost, SetAside, OpenInbound, Overflows, WithoutInbound, vars, table, flags,
     chan, server, wire
<1>14. ASSUME RejectWon
      PROVE  TableNames'
  BY <1>14 DEF RejectWon, OpenInbound, Overflows, WithoutInbound, CloseWith, Close, vars, table,
     flags, chan, server, wire
<1>15. ASSUME NEW g \in Instances, JoinControl(g)
      PROVE  TableNames'
  BY <1>15 DEF JoinControl, AtSelect, RemoveCalls, CloseWith, Close, vars, table, flags, chan,
     server, wire
<1>16. ASSUME Accept
      PROVE  TableNames'
  BY <1>16 DEF Accept, DropReceiver, CallsRunning, vars, table, flags, chan, server, wire
<1>17. ASSUME DropConnection
      PROVE  TableNames'
  BY <1>17 DEF DropConnection, Close, vars, table, flags, chan, server, wire
<1>18. ASSUME NEW g \in Instances, JoinTask(g)
      PROVE  TableNames'
  BY <1>18 DEF JoinTask, AtSelect, vars, table, flags, chan, server, wire
<1>19. ASSUME NEW g \in Instances, AbortTask(g)
      PROVE  TableNames'
  BY <1>19 DEF AbortTask, DropReceiver, Tears, PoisonOnAbort, vars, table, flags, chan, server,
     wire
<1>20. ASSUME ServerShutdown
      PROVE  TableNames'
  BY <1>20 DEF ServerShutdown, AtSelect, vars, table, flags, chan, server, wire
<1>21. ASSUME NEW g \in Instances, SendBegin(g)
      PROVE  TableNames'
  BY <1>21 DEF SendBegin, DropReceiver, vars, table, flags, chan, server, wire
<1>22. ASSUME NEW g \in Instances, SendAcquire(g)
      PROVE  TableNames'
  BY <1>22 DEF SendAcquire, WriterFree, Healthy, StillActive, vars, table, flags, chan, server,
     wire
<1>23. ASSUME NEW g \in Instances, SendWritten(g)
      PROVE  TableNames'
  BY <1>23 DEF SendWritten, vars, table, flags, chan, server, wire
<1>24. ASSUME NEW g \in Instances, SendFails(g)
      PROVE  TableNames'
  BY <1>24 DEF SendFails, Tears, Report, DropReceiver, vars, table, flags, chan, server, wire
<1>25. ASSUME NEW g \in Instances, TermBegin(g)
      PROVE  TableNames'
  BY <1>25 DEF TermBegin, DropReceiver, vars, table, flags, chan, server, wire
<1>26. ASSUME NEW g \in Instances, TermAcquire(g)
      PROVE  TableNames'
  BY <1>26 DEF TermAcquire, WriterFree, Healthy, vars, table, flags, chan, server, wire
<1>27. ASSUME NEW g \in Instances, TermWritten(g)
      PROVE  TableNames'
  BY <1>27 DEF TermWritten, vars, table, flags, chan, server, wire
<1>28. ASSUME NEW g \in Instances, TermFails(g)
      PROVE  TableNames'
  BY <1>28 DEF TermFails, Tears, vars, table, flags, chan, server, wire
<1>29. ASSUME NEW g \in Instances, Complete(g)
      PROVE  TableNames'
  BY <1>29 DEF Complete, Report, DropReceiver, vars, table, flags, chan, server, wire
<1>30. ASSUME UNCHANGED vars
      PROVE  TableNames'
  BY <1>30 DEF vars, table, flags, chan, server, wire
<1>31. ASSUME NEW g \in Instances, ControlAcquire(g) \/ ControlWritten(g) \/ ControlFails(g) \/
             TakeItem(g) \/ CloseInbound(g)
      PROVE  TableNames'
  <2>1. UNCHANGED <<made, wireId, calls, rpc, item, hpc>>
    BY <1>31 DEF ControlAcquire, ControlWritten, ControlFails, TakeItem, CloseInbound, table, server
  <2>q. QED
    BY <2>1
<1>q. QED
   BY <1>1, <1>2, <1>3, <1>4, <1>5, <1>6, <1>7, <1>8, <1>9, <1>10, <1>11, <1>12, <1>13, <1>14,
     <1>15, <1>16, <1>17, <1>18, <1>19, <1>20, <1>21, <1>22, <1>23, <1>24, <1>25, <1>26, <1>27,
     <1>28, <1>29, <1>30, <1>31
      DEF Next, Peer, Recv, Serve, Route, Control, Handler, Ended

\* A call that reports completion has given up its terminal flag.
LEMMA CompletionsStep ==
    ASSUME ConnInv, [Next]_vars
    PROVE  CompletionsPast'
<1> USE DEF ConnInv, TypeOK, CompletionsPast, FlagType, SignalType, ServerType, Instances
<1>1. ASSUME NEW i \in Ids, NEW streaming \in BOOLEAN, Request(i, streaming)
      PROVE  CompletionsPast'
  <2>1. /\ completions' = completions /\ made' \in {made, made + 1}
        /\ Close \/ active' = [active EXCEPT ![made + 1] = TRUE]
    BY <1>1 DEF Request, CloseWith
  <2>2. \A n \in 1..Len(completions) : completions[n] \in Instances
    OBVIOUS
  <2>3. \A h \in Instances : h <= made /\ active'[h] => active[h]
    BY <2>1 DEF Close
  <2>4. \A n \in 1..Len(completions) : completions[n] <= made' /\ completions[n] <= made
    BY <2>1, <2>2
  <2>5. \A n \in 1..Len(completions) : completions[n] <= made' /\ ~active'[completions[n]]
    BY <2>2, <2>3, <2>4
  <2>q. QED
    BY <2>1, <2>5
<1>2. ASSUME NEW i \in Ids, StreamCancel(i)
      PROVE  CompletionsPast'
  <2>1. /\ completions' = completions /\ made' = made
        /\ \A h \in Instances : h <= made /\ active'[h] => active[h]
    BY <1>2 DEF StreamCancel, flags
  <2>2. \A n \in 1..Len(completions) : completions[n] \in Instances
    OBVIOUS
  <2>3. \A n \in 1..Len(completions) : completions[n] <= made' /\ ~active'[completions[n]]
    BY <2>1, <2>2
  <2>q. QED
    BY <2>1, <2>3
<1>3. ASSUME NEW e \in Errors, ReadEnds(e)
      PROVE  CompletionsPast'
  BY <1>3 DEF ReadEnds, Quiet, AtSelect, CloseWith, Close, vars, table, flags, chan, server, wire
<1>4. ASSUME Reap
      PROVE  CompletionsPast'
  BY <1>4 DEF Reap, AtSelect, RemoveCalls, vars, table, flags, chan, server, wire
<1>5. ASSUME ShutdownArm
      PROVE  CompletionsPast'
  <2>1. /\ completions' = completions /\ made' = made
        /\ \A h \in Instances : active'[h] => active[h]
    BY <1>5 DEF ShutdownArm, CloseWith, Close
  <2>2. \A n \in 1..Len(completions) : completions[n] \in Instances
    OBVIOUS
  <2>3. \A n \in 1..Len(completions) : completions[n] <= made' /\ ~active'[completions[n]]
    BY <2>1, <2>2
  <2>q. QED
    BY <2>1, <2>3
<1>6. ASSUME RejectWon
      PROVE  CompletionsPast'
  <2>1. completions' = completions /\ made' = made
    BY <1>6 DEF RejectWon
  <2>2. \/ active' = [active EXCEPT ![calls[item.id]] = FALSE]
        \/ Close
    BY <1>6 DEF RejectWon, CloseWith
  <2>3. \A h \in Instances : active'[h] => active[h]
    BY <2>2 DEF Close
  <2>4. \A n \in 1..Len(completions) : completions[n] \in Instances
    OBVIOUS
  <2>5. \A n \in 1..Len(completions) : completions[n] <= made' /\ ~active'[completions[n]]
    BY <2>1, <2>3, <2>4
  <2>q. QED
    BY <2>1, <2>5
<1>7. ASSUME NEW g \in Instances, JoinControl(g)
      PROVE  CompletionsPast'
  BY <1>7 DEF JoinControl, AtSelect, RemoveCalls, CloseWith, Close, vars, table, flags, chan,
     server, wire
<1>8. ASSUME DropConnection
      PROVE  CompletionsPast'
  BY <1>8 DEF DropConnection, Close, vars, table, flags, chan, server, wire
<1>9. ASSUME NEW g \in Instances, SendFails(g)
      PROVE  CompletionsPast'
  <2>0. hpc[g] # "none"
    BY <1>9 DEF SendFails
  <2>1. g <= made
    BY <2>0 DEF Fresh
  <2>2. /\ completions' = Append(completions, g) /\ made' = made
        /\ active' \in {active, [active EXCEPT ![g] = FALSE]}
    BY <1>9 DEF SendFails, Report, flags, server
  <2>3. ~active'[g] /\ \A h \in Instances : active'[h] => active[h]
    BY <1>9, <2>2 DEF SendFails, SlotInv, Claimed, flags
  <2>4. \A n \in 1..Len(completions') : completions'[n] = g
            \/ (n \in 1..Len(completions) /\ completions'[n] = completions[n])
    BY <2>2
  <2>5. \A n \in 1..Len(completions) : completions[n] \in Instances
    OBVIOUS
  <2>q. QED
    BY <2>1, <2>2, <2>3, <2>4, <2>5
<1>10. ASSUME NEW g \in Instances, TermBegin(g)
      PROVE  CompletionsPast'
  BY <1>10 DEF TermBegin, DropReceiver, vars, table, flags, chan, server, wire
<1>11. ASSUME NEW g \in Instances, Complete(g)
      PROVE  CompletionsPast'
  <2>0. hpc[g] # "none"
    BY <1>11 DEF Complete
  <2>1. g <= made
    BY <2>0 DEF Fresh
  <2>2. /\ completions' = Append(completions, g) /\ made' = made
        /\ active' \in {active, [active EXCEPT ![g] = FALSE]}
    BY <1>11 DEF Complete, Report, flags, server
  <2>3. ~active'[g] /\ \A h \in Instances : active'[h] => active[h]
    BY <1>11, <2>2 DEF Complete, SlotInv, Claimed, flags
  <2>4. \A n \in 1..Len(completions') : completions'[n] = g
            \/ (n \in 1..Len(completions) /\ completions'[n] = completions[n])
    BY <2>2
  <2>5. \A n \in 1..Len(completions) : completions[n] \in Instances
    OBVIOUS
  <2>q. QED
    BY <2>1, <2>2, <2>3, <2>4, <2>5
<1>12. ASSUME UNCHANGED vars
      PROVE  CompletionsPast'
  BY <1>12 DEF vars, table, flags, chan, server, wire
<1>13. ASSUME NEW i \in Ids, NEW n \in PayloadSizes, StreamItem(i, n)
      PROVE  CompletionsPast'
  <2>1. UNCHANGED <<completions, made, active>>
    BY <1>13 DEF StreamItem, flags, server
  <2>q. QED
    BY <2>1
<1>14. ASSUME NEW i \in Ids, StreamEnd(i)
      PROVE  CompletionsPast'
  <2>1. UNCHANGED <<completions, made, active>>
    BY <1>14 DEF StreamEnd, flags, server
  <2>q. QED
    BY <2>1
<1>15. ASSUME RecvTop \/ ReconcileTimer \/ RouteIgnored \/ RouteDelivered \/ RouteDiscarded \/
             RejectLost \/ Accept \/ ServerShutdown
      PROVE  CompletionsPast'
  <2>1. UNCHANGED <<completions, made, active>>
    BY <1>15 DEF RecvTop, ReconcileTimer, RouteIgnored, RouteDelivered, RouteDiscarded, RejectLost,
       Accept, ServerShutdown, flags, server
  <2>q. QED
    BY <2>1
<1>16. ASSUME NEW g \in Instances, JoinTask(g) \/ AbortTask(g) \/ ControlAcquire(g) \/
             ControlWritten(g) \/ ControlFails(g) \/ TakeItem(g) \/ CloseInbound(g) \/
             SendBegin(g) \/ SendAcquire(g) \/ SendWritten(g) \/ TermAcquire(g) \/
             TermWritten(g) \/ TermFails(g)
      PROVE  CompletionsPast'
  <2>1. UNCHANGED <<completions, made, active>>
    BY <1>16 DEF JoinTask, AbortTask, ControlAcquire, ControlWritten, ControlFails, TakeItem,
       CloseInbound, SendBegin, SendAcquire, SendWritten, TermAcquire, TermWritten, TermFails,
       flags,
       server
  <2>q. QED
    BY <2>1
<1>q. QED
   BY <1>1, <1>2, <1>3, <1>4, <1>5, <1>6, <1>7, <1>8, <1>9, <1>10, <1>11, <1>12, <1>13, <1>14,
     <1>15, <1>16
      DEF Next, Peer, Recv, Serve, Route, Control, Handler, Ended

\* Every slot stays with its call: see SlotInv.
LEMMA SlotInvStep ==
    ASSUME ConnInv, [Next]_vars
    PROVE  SlotInv'
<1> USE DEF ConnInv, TypeOK, SlotInv
<1>1. ASSUME StreamStep
      PROVE  SlotInv'
  <2>1. /\ SlotsKept /\ UNCHANGED <<active, made, wireId, cpc, hpc, out>>
        /\ rpc # "dropped" /\ rpc' # "dropped"
    BY <1>1, KeptSlots
  <2>2. FreshSlots'
    BY <2>1 DEF FreshSlots, Tracked, Drained, ServerType, Instances, SlotsKept
  <2>3. Claimed'
    BY <2>1 DEF Claimed, Tracked, FlagType, TaskType, TableNames, ServerType, SlotsKept
  <2>4. TombstoneEmpty'
    BY <2>1 DEF TombstoneEmpty, Drained, SlotsKept
  <2>5. Pending'
    BY <2>1 DEF Pending, Tracked, TaskType, TableNames, ServerType, SlotsKept
  <2>q. QED
    BY <2>2, <2>3, <2>4, <2>5
<1>2. ASSUME (\E e \in Errors : ReadEnds(e)) \/ ShutdownArm
      PROVE  SlotInv'
  <2>1. /\ Close /\ UNCHANGED <<table, made, wireId, hpc, cpc, out>> /\ rpc # "dropped"
        /\ rpc' # "dropped"
    BY <1>2 DEF ReadEnds, ShutdownArm, CloseWith, Quiet, AtSelect, wire
  <2>2. FreshSlots'
    BY <2>1 DEF FreshSlots, Tracked, Drained, ServerType, Instances, Close, table
  <2>3. Claimed'
    BY <2>1 DEF Claimed, Tracked, FlagType, TaskType, TableNames, ServerType, Close, table
  <2>4. TombstoneEmpty'
    BY <2>1 DEF TombstoneEmpty, Drained, Close, table
  <2>5. Pending'
    BY <2>1 DEF Pending, Tracked, TaskType, TableNames, ServerType, Close, table
  <2>q. QED
    BY <2>2, <2>3, <2>4, <2>5
<1>3. ASSUME NEW i \in Ids, NEW streaming \in BOOLEAN, Request(i, streaming)
      PROVE  SlotInv'
  <2>1. CASE ~(calls[i] # NoCall \/ Cardinality({j \in Ids : calls[j] # NoCall}) >= MaxInFlight)
    <3>1. /\ made' = made + 1 /\ made + 1 \in Instances /\ wireId' = [wireId EXCEPT ![made + 1] = i]
          /\ calls[i] = NoCall /\ calls' = [calls EXCEPT ![i] = made + 1] /\ rpc # "dropped"
          /\ slot' = [slot EXCEPT ![made + 1] = [EmptySlot EXCEPT !.inbound = streaming]]
          /\ active' = [active EXCEPT ![made + 1] = TRUE] /\ rpc' = "accepted"
          /\ UNCHANGED <<hpc, cpc, out, queued, completions, item>>
      BY <1>3, <2>1 DEF Request, Quiet, AtSelect, wire, ServerType, Instances
    <3>2. ~slot'[made + 1].tombstone /\ \A h \in Instances \ {made + 1} : slot'[h] = slot[h]
      BY <3>1 DEF TableType, EmptySlot
    <3>3. \A h \in Instances \ {made + 1} : active'[h] = active[h] /\ wireId'[h] = wireId[h]
      BY <3>1 DEF FlagType, ServerType
    <3>4. active'[made + 1] /\ wireId'[made + 1] = i /\ calls'[i] = made + 1
      BY <3>1 DEF FlagType, ServerType, TableType
    <3>5. \A h \in Instances : h <= made => h # made + 1 /\ (Tracked(h) => Tracked(h)')
      BY <3>1, <3>3, <3>4 DEF ServerType, TableType, TableNames, Tracked, Instances, NoCall
    <3>6. /\ cpc[made + 1] = "none" /\ hpc[made + 1] = "none" /\ out[made + 1] = <<>>
          /\ \A h \in Instances : h > made' => h > made /\ h # made + 1
      BY <3>1 DEF Fresh, ServerType, Instances
    <3>7. FreshSlots'
      BY <3>1, <3>2, <3>3, <3>4, <3>5, <3>6 DEF FreshSlots, Tracked, Drained, ServerType, Instances
    <3>8. Claimed'
      BY <3>1, <3>2, <3>3, <3>4, <3>5, <3>6 DEF Claimed, Tracked, FlagType, TaskType, TableNames,
         ServerType
    <3>9. TombstoneEmpty'
      BY <3>1, <3>2, <3>3, <3>4, <3>5, <3>6 DEF TombstoneEmpty, Drained
    <3>10. Pending'
      BY <3>1, <3>2, <3>3, <3>4, <3>5, <3>6 DEF Pending, Tracked, TaskType, TableNames, ServerType
    <3>q. QED
      BY <3>7, <3>8, <3>9, <3>10
  <2>2. CASE calls[i] # NoCall \/ Cardinality({j \in Ids : calls[j] # NoCall}) >= MaxInFlight
    <3>1. /\ Close /\ rpc' = "draining" /\ rpc # "dropped"
          /\ UNCHANGED <<table, made, wireId, hpc, cpc, out, queued, completions, item>>
      BY <1>3, <2>2 DEF Request, CloseWith, Quiet, AtSelect, wire
    <3>2. FreshSlots'
      BY <3>1 DEF FreshSlots, Tracked, Drained, ServerType, Instances, Close, table
    <3>3. Claimed'
      BY <3>1 DEF Claimed, Tracked, FlagType, TaskType, TableNames, ServerType, Close, table
    <3>4. TombstoneEmpty'
      BY <3>1 DEF TombstoneEmpty, Drained, Close, table
    <3>5. Pending'
      BY <3>1 DEF Pending, Tracked, TaskType, TableNames, ServerType, Close, table
    <3>q. QED
      BY <3>2, <3>3, <3>4, <3>5
  <2>q. QED
    BY <2>1, <2>2
<1>4. ASSUME NEW i \in Ids, StreamCancel(i)
      PROVE  SlotInv'
  <2>1. UNCHANGED <<made, wireId, hpc, cpc, out>> /\ rpc # "dropped" /\ rpc' # "dropped"
    BY <1>4 DEF StreamCancel, Quiet, AtSelect, wire
  <2> DEFINE g == calls[i]
  <2>2. CASE Cancellable(g)
    <3>1. /\ SlotsFreed({g}) /\ active' = [active EXCEPT ![g] = FALSE]
          /\ g # NoCall /\ ~slot[g].tombstone
      BY <1>4, <2>2, FreedSlots DEF StreamCancel, Cancellable
    <3>2. g \in Instances
      BY <3>1 DEF TableType
    <3> HIDE DEF g
    <3>3. FreshSlots'
      BY <2>1, <3>1, <3>2 DEF FreshSlots, Tracked, Drained, ServerType, Instances, SlotsFreed,
         EmptySlot, FlagType
    <3>4. Claimed'
      BY <2>1, <3>1, <3>2 DEF Claimed, Tracked, FlagType, TaskType, TableNames, ServerType,
         SlotsFreed, EmptySlot, FlagType
    <3>5. TombstoneEmpty'
      BY <2>1, <3>1, <3>2 DEF TombstoneEmpty, Drained, SlotsFreed, EmptySlot, FlagType
    <3>6. Pending'
      BY <2>1, <3>1, <3>2 DEF Pending, Tracked, TaskType, TableNames, ServerType, SlotsFreed,
         EmptySlot, FlagType
    <3>q. QED
      BY <3>3, <3>4, <3>5, <3>6
  <2>3. CASE ~Cancellable(g)
    <3>1. UNCHANGED <<table, active>>
      BY <1>4, <2>3 DEF StreamCancel, flags
    <3>q. QED
      BY <2>1, <3>1 DEF table, FreshSlots, Claimed, TombstoneEmpty, Pending, Tracked
  <2>q. QED
    BY <2>2, <2>3
<1>5. ASSUME Reap
      PROVE  SlotInv'
  <2> DEFINE c == Head(completions)
  <2>1. c \in Instances /\ c <= made /\ ~active[c]
    BY <1>5 DEF Reap, SignalType, CompletionsPast
  <2>2. Reaped(c) \subseteq {c} /\ \A s \in Reaped(c) : ~slot[s].tombstone
    BY DEF Reaped, SameCall, NotReserved
  <2>3. SlotsFreed(Reaped(c))
    BY <1>5, FreedSlots DEF Reap
  <2>4. UNCHANGED <<active, made, wireId, cpc, hpc, out>> /\ rpc # "dropped" /\ rpc' # "dropped"
    BY <1>5 DEF Reap, AtSelect, flags, wire
  <2> HIDE DEF c
  <2>5. FreshSlots'
    BY <2>1, <2>2, <2>3, <2>4 DEF FreshSlots, Tracked, Drained, ServerType, Instances, SlotsFreed,
       EmptySlot
  <2>6. Claimed'
    BY <2>1, <2>2, <2>3, <2>4 DEF Claimed, Tracked, FlagType, TaskType, TableNames, ServerType,
       SlotsFreed, EmptySlot
  <2>7. TombstoneEmpty'
    BY <2>1, <2>2, <2>3, <2>4 DEF TombstoneEmpty, Drained, SlotsFreed, EmptySlot
  <2>8. Pending'
    BY <2>1, <2>2, <2>3, <2>4 DEF Pending, Tracked, TaskType, TableNames, ServerType, SlotsFreed,
       EmptySlot
  <2>q. QED
    BY <2>5, <2>6, <2>7, <2>8
<1>6. ASSUME RouteIgnored
      PROVE  SlotInv'
  BY <1>6 DEF RouteIgnored, table, flags, server, wire, FreshSlots, Claimed, TombstoneEmpty,
     Pending, Tracked, Drained, FlagType, TaskType, TableNames, ServerType
<1>7. ASSUME RejectWon
      PROVE  SlotInv'
  <2>1. PICK G \in SUBSET ControlsOk : Rejects(calls[item.id], G)
    BY <1>7, Rejected
  <2> DEFINE g == calls[item.id]
  <2> HIDE DEF g
  <2>2. FreshSlots'
    BY <2>1 DEF FreshSlots, Tracked, Drained, ServerType, Instances, Rejects, g, EmptySlot
  <2>3. Claimed'
    BY <2>1 DEF Claimed, Tracked, FlagType, TaskType, TableNames, ServerType, Rejects, g, EmptySlot
  <2>4. TombstoneEmpty'
    BY <2>1 DEF TombstoneEmpty, Drained, Rejects, g, EmptySlot
  <2>5. Pending'
    BY <2>1 DEF Pending, Tracked, TaskType, TableNames, ServerType, Rejects, g, EmptySlot
  <2>q. QED
    BY <2>2, <2>3, <2>4, <2>5
<1>8. ASSUME NEW g \in Instances, JoinControl(g)
      PROVE  SlotInv'
  <2>1. /\ UNCHANGED <<made, wireId, hpc, out>> /\ rpc # "dropped" /\ rpc' # "dropped"
        /\ cpc' = [cpc EXCEPT ![g] = "joined"]
    BY <1>8 DEF JoinControl, AtSelect, wire, CloseWith
  <2>2. CASE cpc[g] = "ok"
    <3>1. {g} \in SUBSET ControlsOk
      BY <2>2 DEF ControlsOk
    <3>2. FinishedControl({g}) = {g}
      BY <2>1, <3>1, FinishedOwn
    <3>3. SlotsFreed({g}) /\ UNCHANGED active
      BY <1>8, <2>2, <3>2, FreedSlots DEF JoinControl, flags
    <3>4. ~active[g]
      BY <2>2 DEF Claimed
    <3>5. FreshSlots'
      BY <2>1, <2>2, <3>3, <3>4 DEF FreshSlots, Tracked, Drained, ServerType, Instances, SlotsFreed,
         EmptySlot
    <3>6. Claimed'
      BY <2>1, <2>2, <3>3, <3>4 DEF Claimed, Tracked, FlagType, TaskType, TableNames, ServerType,
         SlotsFreed, EmptySlot
    <3>7. TombstoneEmpty'
      BY <2>1, <2>2, <3>3, <3>4 DEF TombstoneEmpty, Drained, SlotsFreed, EmptySlot
    <3>8. Pending'
      BY <2>1, <2>2, <3>3, <3>4 DEF Pending, Tracked, TaskType, TableNames, ServerType, SlotsFreed,
         EmptySlot
    <3>q. QED
      BY <3>5, <3>6, <3>7, <3>8
  <2>3. CASE cpc[g] # "ok"
    <3>1. Close /\ UNCHANGED table
      BY <1>8, <2>3 DEF JoinControl, CloseWith
    <3>2. FreshSlots'
      BY <2>1, <3>1 DEF FreshSlots, Tracked, Drained, ServerType, Instances, Close, table
    <3>3. Claimed'
      BY <2>1, <3>1 DEF Claimed, Tracked, FlagType, TaskType, TableNames, ServerType, Close, table
    <3>4. TombstoneEmpty'
      BY <2>1, <3>1 DEF TombstoneEmpty, Drained, Close, table
    <3>5. Pending'
      BY <2>1, <3>1 DEF Pending, Tracked, TaskType, TableNames, ServerType, Close, table
    <3>q. QED
      BY <3>2, <3>3, <3>4, <3>5
  <2>q. QED
    BY <2>2, <2>3
<1>9. ASSUME Accept
      PROVE  SlotInv'
  BY <1>9 DEF Accept, table, flags, wire, FreshSlots, Claimed, TombstoneEmpty, Pending, Tracked,
     Drained, FlagType, TaskType, TableNames, ServerType
<1>10. ASSUME DropConnection
      PROVE  SlotInv'
  <2>1. /\ slot' = [g \in Instances |-> EmptySlot] /\ UNCHANGED <<made, wireId, hpc, out>>
        /\ rpc' = "dropped"
    BY <1>10 DEF DropConnection, wire
  <2>2. Close
    BY <1>10 DEF DropConnection
  <2>3. FreshSlots'
    BY <2>1, <2>2 DEF FreshSlots, Tracked, Drained, ServerType, Instances, Close, EmptySlot
  <2>4. Claimed'
    BY <2>1, <2>2 DEF Claimed, Tracked, FlagType, TaskType, TableNames, ServerType, Close, EmptySlot
  <2>5. TombstoneEmpty'
    BY <2>1, <2>2 DEF TombstoneEmpty, Drained, Close, EmptySlot
  <2>6. Pending'
    BY <2>1, <2>2 DEF Pending, Tracked, TaskType, TableNames, ServerType, Close, EmptySlot
  <2>q. QED
    BY <2>3, <2>4, <2>5, <2>6
<1>11. ASSUME NEW g \in Instances, JoinTask(g)
      PROVE  SlotInv'
  BY <1>11 DEF JoinTask, table, flags, server, wire, AtSelect, FreshSlots, Claimed,
     TombstoneEmpty, Pending, Tracked, Drained, FlagType, TaskType, TableNames, ServerType
<1>12. ASSUME NEW g \in Instances, AbortTask(g)
      PROVE  SlotInv'
  BY <1>12 DEF AbortTask, table, flags, server, wire, FreshSlots, Claimed, TombstoneEmpty,
     Pending, Tracked, Drained, FlagType, TaskType, TableNames, ServerType
<1>13. ASSUME ServerShutdown
      PROVE  SlotInv'
  BY <1>13 DEF ServerShutdown, table, flags, server, wire, AtSelect, FreshSlots, Claimed,
     TombstoneEmpty, Pending, Tracked, Drained, FlagType, TaskType, TableNames, ServerType
<1>14. ASSUME NEW g \in Instances, ControlAcquire(g)
      PROVE  SlotInv'
  BY <1>14 DEF ControlAcquire, table, flags, server, wire, FreshSlots, Claimed, TombstoneEmpty,
     Pending, Tracked, Drained, FlagType, TaskType, TableNames, ServerType
<1>15. ASSUME NEW g \in Instances, ControlWritten(g)
      PROVE  SlotInv'
  BY <1>15 DEF ControlWritten, table, flags, server, wire, FreshSlots, Claimed, TombstoneEmpty,
     Pending, Tracked, Drained, FlagType, TaskType, TableNames, ServerType
<1>16. ASSUME NEW g \in Instances, ControlFails(g)
      PROVE  SlotInv'
  BY <1>16 DEF ControlFails, table, flags, server, wire, TimedPhases, FreshSlots, Claimed,
     TombstoneEmpty, Pending, Tracked, Drained, FlagType, TaskType, TableNames, ServerType
<1>17. ASSUME NEW g \in Instances, SendBegin(g)
      PROVE  SlotInv'
  BY <1>17 DEF SendBegin, table, flags, server, wire, FreshSlots, Claimed, TombstoneEmpty,
     Pending, Tracked, Drained, FlagType, TaskType, TableNames, ServerType
<1>18. ASSUME NEW g \in Instances, SendAcquire(g)
      PROVE  SlotInv'
  BY <1>18 DEF SendAcquire, table, flags, server, wire, FreshSlots, Claimed, TombstoneEmpty,
     Pending, Tracked, Drained, FlagType, TaskType, TableNames, ServerType
<1>19. ASSUME NEW g \in Instances, SendWritten(g)
      PROVE  SlotInv'
  BY <1>19 DEF SendWritten, table, flags, server, wire, FreshSlots, Claimed, TombstoneEmpty,
     Pending, Tracked, Drained, FlagType, TaskType, TableNames, ServerType
<1>20. ASSUME NEW g \in Instances, SendFails(g)
      PROVE  SlotInv'
  BY <1>20 DEF SendFails, table, flags, server, wire, FreshSlots, Claimed, TombstoneEmpty,
     Pending, Tracked, Drained, FlagType, TaskType, TableNames, ServerType
<1>21. ASSUME NEW g \in Instances, TermBegin(g)
      PROVE  SlotInv'
  BY <1>21 DEF TermBegin, table, flags, server, wire, FreshSlots, Claimed, TombstoneEmpty,
     Pending, Tracked, Drained, FlagType, TaskType, TableNames, ServerType
<1>22. ASSUME NEW g \in Instances, TermAcquire(g)
      PROVE  SlotInv'
  BY <1>22 DEF TermAcquire, table, flags, server, wire, FreshSlots, Claimed, TombstoneEmpty,
     Pending, Tracked, Drained, FlagType, TaskType, TableNames, ServerType
<1>23. ASSUME NEW g \in Instances, TermWritten(g)
      PROVE  SlotInv'
  BY <1>23 DEF TermWritten, table, flags, server, wire, FreshSlots, Claimed, TombstoneEmpty,
     Pending, Tracked, Drained, FlagType, TaskType, TableNames, ServerType
<1>24. ASSUME NEW g \in Instances, TermFails(g)
      PROVE  SlotInv'
  BY <1>24 DEF TermFails, table, flags, server, wire, FreshSlots, Claimed, TombstoneEmpty,
     Pending, Tracked, Drained, FlagType, TaskType, TableNames, ServerType
<1>25. ASSUME NEW g \in Instances, Complete(g)
      PROVE  SlotInv'
  BY <1>25 DEF Complete, table, flags, server, wire, FreshSlots, Claimed, TombstoneEmpty, Pending,
     Tracked, Drained, FlagType, TaskType, TableNames, ServerType
<1>26. ASSUME UNCHANGED vars
      PROVE  SlotInv'
  BY <1>26 DEF vars, table, flags, server, wire, FreshSlots, Claimed, TombstoneEmpty, Pending,
     Tracked, Drained, FlagType, TaskType, TableNames, ServerType
<1>27. ASSUME NEW g \in Instances, TakeItem(g) \/ CloseInbound(g)
      PROVE  SlotInv'
  <2>1. UNCHANGED <<made, slot, calls, wireId, active, cpc, hpc, rpc>>
    BY <1>27 DEF TakeItem, CloseInbound, table, flags, server
  <2>q. QED
    BY <2>1 DEF FreshSlots, Claimed, TombstoneEmpty, Pending, Tracked
<1>28. CASE Peer
   BY <1>28, <1>1, <1>2, <1>3, <1>4 DEF Peer, StreamStep
<1>29. CASE Recv
   BY <1>29, <1>1, <1>2, <1>5, <1>6, <1>7, <1>8 DEF Recv, Route, StreamStep
<1>30. CASE Serve \/ ServerShutdown \/ (\E g \in Instances : Control(g) \/ Handler(g)) \/ Ended
   BY <1>30, <1>9, <1>10, <1>11, <1>12, <1>13, <1>14, <1>15, <1>16, <1>17, <1>18, <1>19, <1>20,
     <1>21, <1>22, <1>23, <1>24, <1>25, <1>26, <1>27 DEF Serve, Control, Handler, Ended
<1>q. QED
  BY <1>28, <1>29, <1>30, <1>26 DEF Next

\* Handler and transport do not both have the terminal frame to write.
LEMMA OneAnswerStep ==
    ASSUME ConnInv, [Next]_vars
    PROVE  OneAnswer'
<1> USE DEF ConnInv, TypeOK, SlotInv, OneAnswer, NoTerminal, WireType, TaskType, FlagType
<1>1. ASSUME NEW i \in Ids, NEW streaming \in BOOLEAN, Request(i, streaming)
      PROVE  OneAnswer'
  <2>1. CASE ~(calls[i] # NoCall \/ Cardinality({j \in Ids : calls[j] # NoCall}) >= MaxInFlight)
    <3>1. /\ made' = made + 1 /\ made + 1 \in Instances /\ wireId' = [wireId EXCEPT ![made + 1] = i]
          /\ calls[i] = NoCall /\ calls' = [calls EXCEPT ![i] = made + 1] /\ rpc # "dropped"
          /\ slot' = [slot EXCEPT ![made + 1] = [EmptySlot EXCEPT !.inbound = streaming]]
          /\ active' = [active EXCEPT ![made + 1] = TRUE] /\ rpc' = "accepted"
          /\ UNCHANGED <<hpc, cpc, out, queued, completions, item>>
      BY <1>1, <2>1 DEF Request, Quiet, AtSelect, wire, ServerType, Instances
    <3>2. ~slot'[made + 1].tombstone /\ \A h \in Instances \ {made + 1} : slot'[h] = slot[h]
      BY <3>1 DEF TableType, EmptySlot
    <3>3. \A h \in Instances \ {made + 1} : active'[h] = active[h] /\ wireId'[h] = wireId[h]
      BY <3>1 DEF FlagType, ServerType
    <3>4. active'[made + 1] /\ wireId'[made + 1] = i /\ calls'[i] = made + 1
      BY <3>1 DEF FlagType, ServerType, TableType
    <3>5. \A h \in Instances : h <= made => h # made + 1 /\ (Tracked(h) => Tracked(h)')
      BY <3>1, <3>3, <3>4 DEF ServerType, TableType, TableNames, Tracked, Instances, NoCall
    <3>6. /\ cpc[made + 1] = "none" /\ hpc[made + 1] = "none" /\ out[made + 1] = <<>>
          /\ \A h \in Instances : h > made' => h > made /\ h # made + 1
      BY <3>1 DEF Fresh, ServerType, Instances
    <3>q. QED
      BY <3>1, <3>2, <3>3, <3>4, <3>5, <3>6 DEF NoTerminal
  <2>2. CASE calls[i] # NoCall \/ Cardinality({j \in Ids : calls[j] # NoCall}) >= MaxInFlight
    <3>1. /\ Close /\ rpc' = "draining" /\ rpc # "dropped"
          /\ UNCHANGED <<table, made, wireId, hpc, cpc, out, queued, completions, item>>
      BY <1>1, <2>2 DEF Request, CloseWith, Quiet, AtSelect, wire
    <3>q. QED
      BY <3>1 DEF Close, table
  <2>q. QED
    BY <2>1, <2>2
<1>2. ASSUME NEW i \in Ids, StreamCancel(i)
      PROVE  OneAnswer'
  BY <1>2 DEF StreamCancel, Quiet, AtSelect, RemoveCalls, Cancellable, vars, table, flags, chan,
     server, wire
<1>3. ASSUME NEW e \in Errors, ReadEnds(e)
      PROVE  OneAnswer'
  BY <1>3 DEF ReadEnds, Quiet, AtSelect, CloseWith, Close, vars, table, flags, chan, server, wire
<1>4. ASSUME ShutdownArm
      PROVE  OneAnswer'
  BY <1>4 DEF ShutdownArm, AtSelect, CloseWith, Close, vars, table, flags, chan, server, wire
<1>5. ASSUME RejectWon
      PROVE  OneAnswer'
  <2>1. PICK G \in SUBSET ControlsOk : Rejects(calls[item.id], G)
    BY <1>5, Rejected
  <2> DEFINE g == calls[item.id]
  <2>2. /\ g \in Instances /\ active[g] /\ ~active'[g] /\ cpc'[g] \in {cpc[g], "lock"}
        /\ UNCHANGED <<out, hpc>>
    BY <2>1 DEF Rejects, wire
  <2>3. cpc[g] = "none" /\ hpc[g] \notin {"termLock", "termWrite"} /\ NoTerminal(g)
    BY <2>2 DEF Claimed
  <2>4. \A h \in Instances \ {g} : /\ cpc'[h] \in {cpc[h], "joined"} /\ (active'[h] => active[h])
                                   /\ cpc[h] = "none" => cpc'[h] = "none"
    BY <2>1 DEF Rejects
  <2> HIDE DEF g
  <2>q. QED
    BY <2>2, <2>3, <2>4
<1>6. ASSUME NEW g \in Instances, JoinControl(g)
      PROVE  OneAnswer'
  BY <1>6 DEF JoinControl, AtSelect, RemoveCalls, CloseWith, Close, vars, table, flags, chan,
     server, wire
<1>7. ASSUME Accept
      PROVE  OneAnswer'
  BY <1>7 DEF Accept, DropReceiver, CallsRunning, vars, table, flags, chan, server, wire
<1>8. ASSUME DropConnection
      PROVE  OneAnswer'
  BY <1>8 DEF DropConnection, Close, vars, table, flags, chan, server, wire
<1>9. ASSUME NEW g \in Instances, AbortTask(g)
      PROVE  OneAnswer'
  BY <1>9 DEF AbortTask, DropReceiver, Tears, PoisonOnAbort, vars, table, flags, chan, server,
     wire
<1>10. ASSUME NEW g \in Instances, ControlAcquire(g)
      PROVE  OneAnswer'
  BY <1>10 DEF ControlAcquire, WriterFree, Healthy, vars, table, flags, chan, server, wire
<1>11. ASSUME NEW g \in Instances, ControlWritten(g)
      PROVE  OneAnswer'
  <2>1. ~active[g] /\ hpc[g] \notin {"termLock", "termWrite", "sendWrite"} /\ NoTerminal(g)
    BY <1>11 DEF ControlWritten, Claimed
  <2>2. /\ out' = [out EXCEPT ![g] = Append(out[g], "terminal")] /\ cpc' = [cpc EXCEPT ![g] = "ok"]
        /\ UNCHANGED <<active, hpc>>
    BY <1>11 DEF ControlWritten, flags
  <2>3. \A h \in Instances \ {g} : out'[h] = out[h] /\ cpc'[h] = cpc[h]
    BY <2>2
  <2>4. /\ out'[g] = Append(out[g], "terminal") /\ cpc'[g] = "ok"
        /\ Len(out'[g]) = Len(out[g]) + 1 /\ Len(out[g]) \in Nat
        /\ \A n \in 1..Len(out[g]) : out'[g][n] = out[g][n]
    BY <2>2
  <2>5. \A n \in 1..Len(out'[g]) : out'[g][n] = "terminal" => n = Len(out'[g])
    BY <2>1, <2>4
  <2>q. QED
    BY <2>1, <2>2, <2>3, <2>4, <2>5
<1>12. ASSUME NEW g \in Instances, ControlFails(g)
      PROVE  OneAnswer'
  BY <1>12 DEF ControlFails, Tears, TimedPhases, vars, table, flags, chan, server, wire
<1>13. ASSUME NEW g \in Instances, SendBegin(g)
      PROVE  OneAnswer'
  BY <1>13 DEF SendBegin, DropReceiver, vars, table, flags, chan, server, wire
<1>14. ASSUME NEW g \in Instances, SendAcquire(g)
      PROVE  OneAnswer'
  BY <1>14 DEF SendAcquire, WriterFree, Healthy, StillActive, vars, table, flags, chan, server,
     wire
<1>15. ASSUME NEW g \in Instances, SendWritten(g)
      PROVE  OneAnswer'
  BY <1>15 DEF SendWritten, vars, table, flags, chan, server, wire
<1>16. ASSUME NEW g \in Instances, SendFails(g)
      PROVE  OneAnswer'
  BY <1>16 DEF SendFails, Tears, Report, DropReceiver, vars, table, flags, chan, server, wire
<1>17. ASSUME NEW g \in Instances, TermBegin(g)
      PROVE  OneAnswer'
  <2>1. /\ hpc' = [hpc EXCEPT ![g] = IF active[g] THEN "termLock" ELSE "ended"]
        /\ active' = [active EXCEPT ![g] = FALSE] /\ UNCHANGED <<out, cpc>>
    BY <1>17 DEF TermBegin, wire
  <2>2. active[g] => cpc[g] = "none" /\ NoTerminal(g)
    BY DEF Claimed
  <2>q. QED
    BY <2>1, <2>2
<1>18. ASSUME NEW g \in Instances, TermAcquire(g)
      PROVE  OneAnswer'
  BY <1>18 DEF TermAcquire, WriterFree, Healthy, vars, table, flags, chan, server, wire
<1>19. ASSUME NEW g \in Instances, TermWritten(g)
      PROVE  OneAnswer'
  <2>1. ~active[g] /\ cpc[g] = "none" /\ NoTerminal(g)
    BY <1>19 DEF TermWritten, Claimed
  <2>2. /\ out' = [out EXCEPT ![g] = Append(out[g], "terminal")]
        /\ hpc' = [hpc EXCEPT ![g] = "complete"]
        /\ UNCHANGED <<active, cpc>>
    BY <1>19 DEF TermWritten, flags
  <2>3. \A h \in Instances \ {g} : out'[h] = out[h] /\ hpc'[h] = hpc[h]
    BY <2>2
  <2>4. /\ out'[g] = Append(out[g], "terminal") /\ hpc'[g] = "complete"
        /\ Len(out'[g]) = Len(out[g]) + 1 /\ Len(out[g]) \in Nat
        /\ \A n \in 1..Len(out[g]) : out'[g][n] = out[g][n]
    BY <2>2
  <2>5. \A n \in 1..Len(out'[g]) : out'[g][n] = "terminal" => n = Len(out'[g])
    <3>1. \A n \in 1..(Len(out[g]) + 1) : n \in 1..Len(out[g]) \/ n = Len(out[g]) + 1
      BY <2>4
    <3>q. QED
      BY <2>1, <2>4, <3>1
  <2>q. QED
    BY <2>1, <2>2, <2>3, <2>4, <2>5
<1>20. ASSUME NEW g \in Instances, TermFails(g)
      PROVE  OneAnswer'
  BY <1>20 DEF TermFails, Tears, vars, table, flags, chan, server, wire
<1>21. ASSUME NEW g \in Instances, Complete(g)
      PROVE  OneAnswer'
  BY <1>21 DEF Complete, Report, DropReceiver, vars, table, flags, chan, server, wire
<1>22. ASSUME UNCHANGED vars
      PROVE  OneAnswer'
  BY <1>22 DEF vars, table, flags, chan, server, wire
<1>23. ASSUME NEW i \in Ids, NEW n \in PayloadSizes, StreamItem(i, n)
      PROVE  OneAnswer'
  <2>1. UNCHANGED <<hpc, cpc, out, active>>
    BY <1>23 DEF StreamItem, flags, wire
  <2>q. QED
    BY <2>1
<1>24. ASSUME NEW i \in Ids, StreamEnd(i)
      PROVE  OneAnswer'
  <2>1. UNCHANGED <<hpc, cpc, out, active>>
    BY <1>24 DEF StreamEnd, flags, wire
  <2>q. QED
    BY <2>1
<1>25. ASSUME RecvTop \/ Reap \/ ReconcileTimer \/ RouteIgnored \/ RouteDelivered \/
             RouteDiscarded \/ RejectLost \/ ServerShutdown
      PROVE  OneAnswer'
  <2>1. UNCHANGED <<hpc, cpc, out, active>>
    BY <1>25 DEF RecvTop, Reap, ReconcileTimer, RouteIgnored, RouteDelivered, RouteDiscarded,
       RejectLost, ServerShutdown, flags, wire
  <2>q. QED
    BY <2>1
<1>26. ASSUME NEW g \in Instances, JoinTask(g) \/ TakeItem(g) \/ CloseInbound(g)
      PROVE  OneAnswer'
  <2>1. UNCHANGED <<hpc, cpc, out, active>>
    BY <1>26 DEF JoinTask, TakeItem, CloseInbound, flags, wire
  <2>q. QED
    BY <2>1
<1>q. QED
   BY <1>1, <1>2, <1>3, <1>4, <1>5, <1>6, <1>7, <1>8, <1>9, <1>10, <1>11, <1>12, <1>13, <1>14,
     <1>15, <1>16, <1>17, <1>18, <1>19, <1>20, <1>21, <1>22, <1>23, <1>24, <1>25, <1>26
      DEF Next, Peer, Recv, Serve, Route, Control, Handler, Ended

\* Removing calls keeps the table within its bound.
LEMMA SmallerTable ==
    ASSUME Bounded, \A i \in Ids : calls'[i] # NoCall => calls[i] # NoCall
    PROVE  Bounded'
<1>1. InTable' \subseteq InTable
  BY DEF InTable
<1>2. /\ IsFiniteSet(InTable') /\ Cardinality(InTable') <= Cardinality(InTable)
      /\ Cardinality(InTable') \in Nat /\ Cardinality(InTable) \in Nat
  BY <1>1, FS_Subset, FS_CardinalityType DEF Bounded
<1> HIDE DEF InTable
<1>q. QED
  BY <1>2 DEF Bounded

\* The table never holds more than max_in_flight_calls calls.
LEMMA BoundedStep ==
    ASSUME ConnInv, [Next]_vars
    PROVE  Bounded'
<1> USE DEF ConnInv, TypeOK
<1>1. ASSUME NEW i \in Ids, NEW streaming \in BOOLEAN, Request(i, streaming)
      PROVE  Bounded'
  <2>1. CASE ~(calls[i] # NoCall \/ Cardinality({j \in Ids : calls[j] # NoCall}) >= MaxInFlight)
    <3>1. /\ calls[i] = NoCall /\ calls' = [calls EXCEPT ![i] = made + 1] /\ made + 1 # NoCall
      BY <1>1, <2>1 DEF Request, ServerType, NoCall
    <3>2. ~(Cardinality(InTable) >= MaxInFlight)
      BY <2>1 DEF InTable
    <3>3. InTable' = InTable \cup {i} /\ i \notin InTable
      BY <3>1 DEF InTable, TableType
    <3>4. IsFiniteSet(InTable \cup {i}) /\ Cardinality(InTable \cup {i}) = Cardinality(InTable) + 1
      BY <3>3, FS_AddElement DEF Bounded
    <3>5. Cardinality(InTable) \in Nat
      BY FS_CardinalityType DEF Bounded
    <3> HIDE DEF InTable
    <3>q. QED
      BY <3>2, <3>3, <3>4, <3>5 DEF Bounded
  <2>2. CASE calls[i] # NoCall \/ Cardinality({j \in Ids : calls[j] # NoCall}) >= MaxInFlight
    <3>1. UNCHANGED calls
      BY <1>1, <2>2 DEF Request, table
    <3>q. QED
      BY <3>1 DEF Bounded, InTable
  <2>q. QED
    BY <2>1, <2>2
<1>2. ASSUME NEW i \in Ids, StreamCancel(i)
      PROVE  Bounded'
  <2>1. \A j \in Ids : calls'[j] # NoCall => calls[j] # NoCall
    BY <1>2 DEF StreamCancel, RemoveCalls, table
  <2>q. QED
    BY <2>1, SmallerTable
<1>3. ASSUME Reap
      PROVE  Bounded'
  <2>1. \A i \in Ids : calls'[i] # NoCall => calls[i] # NoCall
    BY <1>3 DEF Reap, RemoveCalls
  <2>q. QED
    BY <2>1, SmallerTable
<1>4. ASSUME RejectWon
      PROVE  Bounded'
  <2>1. \A i \in Ids : calls'[i] # NoCall => calls[i] # NoCall
    BY <1>4 DEF RejectWon
  <2>q. QED
    BY <2>1, SmallerTable
<1>5. ASSUME NEW g \in Instances, JoinControl(g)
      PROVE  Bounded'
  <2>1. \A i \in Ids : calls'[i] # NoCall => calls[i] # NoCall
    BY <1>5 DEF JoinControl, RemoveCalls, table
  <2>q. QED
    BY <2>1, SmallerTable
<1>6. ASSUME DropConnection
      PROVE  Bounded'
  <2>1. \A i \in Ids : calls'[i] # NoCall => calls[i] # NoCall
    BY <1>6 DEF DropConnection
  <2>q. QED
    BY <2>1, SmallerTable
<1>7. ASSUME UNCHANGED vars
      PROVE  Bounded'
  BY <1>7 DEF vars, table, InTable, Bounded
<1>8. ASSUME NEW i \in Ids, NEW n \in PayloadSizes, StreamItem(i, n)
      PROVE  Bounded'
  <2>1. UNCHANGED calls
    BY <1>8 DEF StreamItem, table
  <2>q. QED
    BY <2>1 DEF Bounded, InTable
<1>9. ASSUME NEW i \in Ids, StreamEnd(i)
      PROVE  Bounded'
  <2>1. UNCHANGED calls
    BY <1>9 DEF StreamEnd, table
  <2>q. QED
    BY <2>1 DEF Bounded, InTable
<1>10. ASSUME NEW e \in Errors, ReadEnds(e)
      PROVE  Bounded'
  <2>1. UNCHANGED calls
    BY <1>10 DEF ReadEnds, table
  <2>q. QED
    BY <2>1 DEF Bounded, InTable
<1>11. ASSUME RecvTop \/ ShutdownArm \/ ReconcileTimer \/ RouteIgnored \/ RouteDelivered \/
             RouteDiscarded \/ RejectLost \/ Accept \/ ServerShutdown
      PROVE  Bounded'
  <2>1. UNCHANGED calls
    BY <1>11 DEF RecvTop, ShutdownArm, ReconcileTimer, RouteIgnored, RouteDelivered, RouteDiscarded,
       RejectLost, Accept, ServerShutdown, table
  <2>q. QED
    BY <2>1 DEF Bounded, InTable
<1>12. ASSUME NEW g \in Instances, JoinTask(g) \/ AbortTask(g) \/ ControlAcquire(g) \/
             ControlWritten(g) \/ ControlFails(g) \/ TakeItem(g) \/ CloseInbound(g) \/
             SendBegin(g) \/ SendAcquire(g) \/ SendWritten(g) \/ SendFails(g) \/ TermBegin(g) \/
             TermAcquire(g) \/ TermWritten(g) \/ TermFails(g) \/ Complete(g)
      PROVE  Bounded'
  <2>1. UNCHANGED calls
    BY <1>12 DEF JoinTask, AbortTask, ControlAcquire, ControlWritten, ControlFails, TakeItem,
       CloseInbound, SendBegin, SendAcquire, SendWritten, SendFails, TermBegin, TermAcquire,
       TermWritten, TermFails, Complete, table
  <2>q. QED
    BY <2>1 DEF Bounded, InTable
<1>q. QED
   BY <1>1, <1>2, <1>3, <1>4, <1>5, <1>6, <1>7, <1>8, <1>9, <1>10, <1>11, <1>12
      DEF Next, Peer, Recv, Serve, Route, Control, Handler, Ended

\* The ControlTasksSaturated branch is never taken.
LEMMA UnsaturatedStep ==
    ASSUME ConnInv, [Next]_vars
    PROVE  Unsaturated'
<1> USE DEF ConnInv, TypeOK
<1>1. ASSUME NEW i \in Ids, NEW streaming \in BOOLEAN, Request(i, streaming)
      PROVE  Unsaturated'
  BY <1>1 DEF Request, CloseWith, server, Unsaturated
<1>2. ASSUME NEW e \in Errors, ReadEnds(e)
      PROVE  Unsaturated'
  BY <1>2 DEF ReadEnds, CloseWith, server, Unsaturated
<1>3. ASSUME ShutdownArm
      PROVE  Unsaturated'
  BY <1>3 DEF ShutdownArm, CloseWith, server, Unsaturated
<1>4. ASSUME RejectWon
      PROVE  Unsaturated'
  <2> USE DEF SlotInv
  <2> DEFINE g == calls[item.id]
             A == ControlsRunning \cup {g}
             f == [h \in A |-> wireId[h]]
  <2>1. g \in Instances /\ Tracked(g) /\ active[g] /\ rpc = "route"
    BY <1>4, RoutedCall DEF RejectWon, Overflows
  <2>2. g \notin ControlsRunning
    BY <2>1 DEF ControlsRunning, Claimed
  <2>3. \A h \in A : h \in Instances /\ Tracked(h)
    BY <2>1 DEF ControlsRunning, Pending
  <2>4. f \in Injection(A, InTable)
    <3>1. \A h \in A : wireId[h] \in InTable /\ calls[wireId[h]] = h
      BY <2>3 DEF InTable, Tracked, TableNames, Instances, NoCall
    <3> HIDE DEF A
    <3>q. QED
      BY <3>1 DEF Injection, IsInjective
  <2>5. IsFiniteSet(ControlsRunning)
    BY InstancesFinite, FS_Subset DEF ControlsRunning
  <2>6. IsFiniteSet(A) /\ Cardinality(A) = Cardinality(ControlsRunning) + 1
    BY <2>2, <2>5, FS_AddElement
  <2>7. Cardinality(A) <= Cardinality(InTable)
    <3> HIDE DEF A, f
    <3>q. QED
      BY <2>4, <2>6, FS_Injection DEF Bounded, ExistsInjection
  <2>8. /\ Cardinality(ControlsRunning) \in Nat /\ Cardinality(InTable) \in Nat
        /\ Cardinality(InTable) <= MaxInFlight
    BY <2>5, FS_CardinalityType DEF Bounded
  <2>9. ~(Cardinality(ControlsRunning) >= MaxInFlight)
    <3> HIDE DEF A
    <3>q. QED
      BY <2>6, <2>7, <2>8
  <2>q. QED
    BY <1>4, <2>9 DEF RejectWon, CloseWith, Unsaturated
<1>5. ASSUME NEW g \in Instances, JoinControl(g)
      PROVE  Unsaturated'
  BY <1>5 DEF JoinControl, CloseWith, server, Unsaturated
<1>6. ASSUME Accept
      PROVE  Unsaturated'
  BY <1>6 DEF Accept, CloseWith, server, Unsaturated
<1>7. ASSUME ServerShutdown
      PROVE  Unsaturated'
  BY <1>7 DEF ServerShutdown, CloseWith, server, Unsaturated
<1>8. ASSUME UNCHANGED vars
      PROVE  Unsaturated'
  BY <1>8 DEF vars, CloseWith, server, Unsaturated
<1>9. ASSUME NEW i \in Ids, NEW n \in PayloadSizes, StreamItem(i, n)
      PROVE  Unsaturated'
  <2>1. UNCHANGED error
    BY <1>9 DEF StreamItem, server
  <2>q. QED
    BY <2>1 DEF Unsaturated
<1>10. ASSUME NEW i \in Ids, StreamEnd(i) \/ StreamCancel(i)
      PROVE  Unsaturated'
  <2>1. UNCHANGED error
    BY <1>10 DEF StreamEnd, StreamCancel, server
  <2>q. QED
    BY <2>1 DEF Unsaturated
<1>11. ASSUME RecvTop \/ Reap \/ ReconcileTimer \/ RouteIgnored \/ RouteDelivered \/
             RouteDiscarded \/ RejectLost \/ DropConnection
      PROVE  Unsaturated'
  <2>1. UNCHANGED error
    BY <1>11 DEF RecvTop, Reap, ReconcileTimer, RouteIgnored, RouteDelivered, RouteDiscarded,
       RejectLost, DropConnection, server
  <2>q. QED
    BY <2>1 DEF Unsaturated
<1>12. ASSUME NEW g \in Instances, JoinTask(g) \/ AbortTask(g) \/ ControlAcquire(g) \/
             ControlWritten(g) \/ ControlFails(g) \/ TakeItem(g) \/ CloseInbound(g) \/
             SendBegin(g) \/ SendAcquire(g) \/ SendWritten(g) \/ SendFails(g) \/ TermBegin(g) \/
             TermAcquire(g) \/ TermWritten(g) \/ TermFails(g) \/ Complete(g)
      PROVE  Unsaturated'
  <2>1. UNCHANGED error
    BY <1>12 DEF JoinTask, AbortTask, ControlAcquire, ControlWritten, ControlFails, TakeItem,
       CloseInbound, SendBegin, SendAcquire, SendWritten, SendFails, TermBegin, TermAcquire,
       TermWritten, TermFails, Complete, server
  <2>q. QED
    BY <2>1 DEF Unsaturated
<1>q. QED
   BY <1>1, <1>2, <1>3, <1>4, <1>5, <1>6, <1>7, <1>8, <1>9, <1>10, <1>11, <1>12
      DEF Next, Peer, Recv, Serve, Route, Control, Handler, Ended

\* A torn frame poisons the connection; nothing is written on a poisoned one.
LEMMA TornClosedStep ==
    ASSUME SignalType, TornClosed, [Next]_vars
    PROVE  TornClosed' /\ (torn => UNCHANGED out)
<1> USE DEF TornClosed, SignalType
<1>1. ASSUME NEW i \in Ids, NEW streaming \in BOOLEAN, Request(i, streaming)
      PROVE  TornClosed' /\ (torn => UNCHANGED out)
  BY <1>1 DEF Request, CloseWith, Close, Tears, PoisonOnAbort, wire
<1>2. ASSUME NEW e \in Errors, ReadEnds(e)
      PROVE  TornClosed' /\ (torn => UNCHANGED out)
  BY <1>2 DEF ReadEnds, CloseWith, Close, Tears, PoisonOnAbort, wire
<1>3. ASSUME ShutdownArm
      PROVE  TornClosed' /\ (torn => UNCHANGED out)
  BY <1>3 DEF ShutdownArm, CloseWith, Close, Tears, PoisonOnAbort, wire
<1>4. ASSUME RejectWon
      PROVE  TornClosed' /\ (torn => UNCHANGED out)
  BY <1>4 DEF RejectWon, CloseWith, Close, Tears, PoisonOnAbort, wire
<1>5. ASSUME NEW g \in Instances, JoinControl(g)
      PROVE  TornClosed' /\ (torn => UNCHANGED out)
  BY <1>5 DEF JoinControl, CloseWith, Close, Tears, PoisonOnAbort, wire
<1>6. ASSUME DropConnection
      PROVE  TornClosed' /\ (torn => UNCHANGED out)
  BY <1>6 DEF DropConnection, CloseWith, Close, Tears, PoisonOnAbort, wire
<1>7. ASSUME NEW g \in Instances, AbortTask(g)
      PROVE  TornClosed' /\ (torn => UNCHANGED out)
  BY <1>7 DEF AbortTask, CloseWith, Close, Tears, PoisonOnAbort, wire
<1>8. ASSUME NEW g \in Instances, ControlWritten(g)
      PROVE  TornClosed' /\ (torn => UNCHANGED out)
  BY <1>8 DEF ControlWritten, CloseWith, Close, Tears, PoisonOnAbort, wire
<1>9. ASSUME NEW g \in Instances, ControlFails(g)
      PROVE  TornClosed' /\ (torn => UNCHANGED out)
  BY <1>9 DEF ControlFails, CloseWith, Close, Tears, PoisonOnAbort, wire
<1>10. ASSUME NEW g \in Instances, SendWritten(g)
      PROVE  TornClosed' /\ (torn => UNCHANGED out)
  BY <1>10 DEF SendWritten, CloseWith, Close, Tears, PoisonOnAbort, wire
<1>11. ASSUME NEW g \in Instances, SendFails(g)
      PROVE  TornClosed' /\ (torn => UNCHANGED out)
  <2>1. closed' = TRUE \/ UNCHANGED <<closed, torn>>
    BY <1>11 DEF SendFails
  <2>2. UNCHANGED out
    BY <1>11 DEF SendFails
  <2>q. QED
    BY <2>1, <2>2
<1>12. ASSUME NEW g \in Instances, TermWritten(g)
      PROVE  TornClosed' /\ (torn => UNCHANGED out)
  BY <1>12 DEF TermWritten, CloseWith, Close, Tears, PoisonOnAbort, wire
<1>13. ASSUME NEW g \in Instances, TermFails(g)
      PROVE  TornClosed' /\ (torn => UNCHANGED out)
  BY <1>13 DEF TermFails, CloseWith, Close, Tears, PoisonOnAbort, wire
<1>14. ASSUME UNCHANGED vars
      PROVE  TornClosed' /\ (torn => UNCHANGED out)
  BY <1>14 DEF vars, CloseWith, Close, Tears, PoisonOnAbort, wire
<1>15. ASSUME NEW i \in Ids, NEW n \in PayloadSizes, StreamItem(i, n)
      PROVE  TornClosed' /\ (torn => UNCHANGED out)
  <2>1. UNCHANGED <<torn, closed, out>>
    BY <1>15 DEF StreamItem, wire
  <2>q. QED
    BY <2>1
<1>16. ASSUME NEW i \in Ids, StreamEnd(i) \/ StreamCancel(i)
      PROVE  TornClosed' /\ (torn => UNCHANGED out)
  <2>1. UNCHANGED <<torn, closed, out>>
    BY <1>16 DEF StreamEnd, StreamCancel, wire
  <2>q. QED
    BY <2>1
<1>17. ASSUME RecvTop \/ Reap \/ ReconcileTimer \/ RouteIgnored \/ RouteDelivered \/
             RouteDiscarded \/ RejectLost \/ Accept \/ ServerShutdown
      PROVE  TornClosed' /\ (torn => UNCHANGED out)
  <2>1. UNCHANGED <<torn, closed, out>>
    BY <1>17 DEF RecvTop, Reap, ReconcileTimer, RouteIgnored, RouteDelivered, RouteDiscarded,
       RejectLost, Accept, ServerShutdown, wire
  <2>q. QED
    BY <2>1
<1>18. ASSUME NEW g \in Instances, JoinTask(g) \/ ControlAcquire(g) \/ TakeItem(g) \/
             CloseInbound(g) \/ SendBegin(g) \/ SendAcquire(g) \/ TermBegin(g) \/ TermAcquire(g)
             \/ Complete(g)
      PROVE  TornClosed' /\ (torn => UNCHANGED out)
  <2>1. UNCHANGED <<torn, closed, out>>
    BY <1>18 DEF JoinTask, ControlAcquire, TakeItem, CloseInbound, SendBegin, SendAcquire,
       TermBegin, TermAcquire, Complete, wire
  <2>q. QED
    BY <2>1
<1>q. QED
   BY <1>1, <1>2, <1>3, <1>4, <1>5, <1>6, <1>7, <1>8, <1>9, <1>10, <1>11, <1>12, <1>13, <1>14,
     <1>15, <1>16, <1>17, <1>18
      DEF Next, Peer, Recv, Serve, Route, Control, Handler, Ended

-----------------------------------------------------------------------------
\* The initial state satisfies the invariant.
LEMMA ConnInit == ASSUME Init PROVE ConnInv /\ TornClosed
<1> USE DEF Init
<1>1. TableType
  BY EmptyType DEF TableType
<1>2. FlagType
  BY DEF FlagType
<1>11. SignalType
  <2>1. <<>> \in Seq(Instances)
    OBVIOUS
  <2>q. QED
    BY <2>1 DEF SignalType
<1>0. WireType
  <2>1. <<>> \in Seq({"item", "terminal"})
    OBVIOUS
  <2>q. QED
    BY <2>1 DEF WireType
<1>3. ChannelType
  BY DEF ChannelType
<1>4. ServerType
  BY DEF ServerType, ServerPhase, Errors, NoItem
<1>5. TaskType
  BY DEF TaskType, CallPhase, ControlPhase
<1>6. Fresh /\ TableNames /\ CompletionsPast /\ Claimed /\ Pending /\ Unsaturated /\ TornClosed
  BY DEF Fresh, TableNames, CompletionsPast, Claimed, Pending, Unsaturated, TornClosed, Instances
<1>7. FreshSlots /\ TombstoneEmpty
  BY DEF FreshSlots, TombstoneEmpty, Drained, EmptySlot
<1>8. OneAnswer
  BY DEF OneAnswer, NoTerminal
<1>9. Bounded
  <2>1. InTable = {}
    BY DEF InTable
  <2>q. QED
    BY <2>1, FS_EmptySet DEF Bounded
<1>q. QED
  BY <1>0, <1>11, <1>1, <1>2, <1>3, <1>4, <1>5, <1>6, <1>7, <1>8, <1>9 DEF ConnInv, TypeOK, SlotInv

\* One step preserves the invariant.
LEMMA ConnStep == ASSUME ConnInv, [Next]_vars PROVE ConnInv'
  BY TypeStep, FreshStep, TableNamesStep, CompletionsStep, SlotInvStep, OneAnswerStep,
       BoundedStep, UnsaturatedStep DEF ConnInv

\* The invariant holds in every reachable state.
LEMMA ConnInvariant == Spec => []ConnInv
<1>1. Init => ConnInv
  BY ConnInit
<1>2. ConnInv /\ [Next]_vars => ConnInv'
  BY ConnStep
<1>q. QED
  BY <1>1, <1>2, PTL DEF Spec

\* Every variable keeps its type: no byte counter goes below zero or leaves the naturals, no
\* channel holds more than INBOUND_BUFFER items, whatever the peer sends.
THEOREM ConnectionTypeCorrect == Spec => []TypeOK
<1>1. ConnInv => TypeOK
  BY DEF ConnInv
<1>q. QED
  BY <1>1, ConnInvariant, PTL

\* The table never exceeds max_in_flight_calls, and the connection never ends with
\* ControlTasksSaturated: that branch is unreachable.
THEOREM ControlTasksNeverSaturate == Spec => [](Bounded /\ Unsaturated)
<1>1. ConnInv => Bounded /\ Unsaturated
  BY DEF ConnInv
<1>q. QED
  BY <1>1, ConnInvariant, PTL

\* The peer sees at most one terminal frame per call, and nothing of the call after it,
\* however cancellation, rejection, the handler and abort interleave.
THEOREM OneTerminalFrame == Spec => []TerminalIsLast
<1>1. ConnInv => TerminalIsLast
  BY DEF ConnInv, TerminalIsLast, SlotInv, OneAnswer, Claimed, Pending, Unsaturated
<1>q. QED
  BY <1>1, ConnInvariant, PTL

\* Once a write was abandoned half way, no task writes another byte to the stream.
THEOREM TornFrameIsLast == Spec => NothingAfterTear
<1>1. Init => TornClosed
  BY ConnInit
<1>2. ConnInv => SignalType
  BY DEF ConnInv, TypeOK
<1>3. SignalType /\ TornClosed /\ [Next]_vars => TornClosed' /\ [torn => UNCHANGED out]_vars
  BY TornClosedStep
<1>q. QED
  BY <1>1, <1>2, <1>3, ConnInvariant, PTL DEF Spec, NothingAfterTear

-----------------------------------------------------------------------------
(* The byte counters. *)

\* A drained slot accounts for nothing.
LEMMA DrainedOK == ASSUME NEW s, NEW q, Drained(s) PROVE CallOK(s, q)
<1>1. <<>> \in Seq(Nat)
  OBVIOUS
<1>2. SumFunction(<<>>) = 0
  BY <1>1, SeqSumType
<1>q. QED
  BY <1>2 DEF Drained, CallOK

\* Ending a stream, or giving back its sender, changes no byte.
LEMMA SameBytesOK ==
    ASSUME NEW s, NEW t, NEW q, CallOK(s, q), t.bytes = s.bytes, t.sizes = s.sizes,
           t.inbound => s.inbound
    PROVE  CallOK(t, q)
  BY DEF CallOK

\* Reconciling one call: what is released is what its counter goes down by.
LEMMA ReconciledOK ==
    ASSUME TableType, ChannelType, NEW g \in Instances, CallOK(slot[g], queued[g])
    PROVE  /\ CallOK(Reconciled(g), queued[g])
           /\ Reconciled(g).bytes + Released(g) = slot[g].bytes
           /\ Reconciled(g).bytes \in Nat /\ Released(g) \in Nat
<1> DEFINE s == slot[g].sizes
           k == Consumed(g)
           rest == SubSeq(s, k + 1, Len(s))
<1>1. s \in Seq(Nat) /\ k \in 0..Len(s) /\ Released(g) \in Nat /\ slot[g] \in CallSlots
  BY SlotTypes
<1>2. rest \in Seq(Nat) /\ SumFunction(s) = SumFunction(SubSeq(s, 1, k)) + SumFunction(rest)
  BY <1>1, SeqSumSplit
<1>3. SumFunction(rest) \in Nat
  <2> HIDE DEF rest
  <2>q. QED
    BY <1>2, SeqSumType
<1>4. SumFunction(s) = Released(g) + SumFunction(rest)
  BY <1>2 DEF Released
<1>5. /\ Reconciled(g).sizes = rest /\ Reconciled(g).bytes = SatSub(slot[g].bytes, Released(g))
      /\ Reconciled(g).inbound = slot[g].inbound
      /\ slot[g].inbound /\ queued[g] <= Len(s) => Len(rest) = queued[g]
  BY ReconciledSlot
<1>6. slot[g].bytes = SumFunction(s) /\ slot[g].bytes <= MaxCallBytes /\ slot[g].bytes \in Nat
  BY <1>1 DEF CallOK, CallSlots
<1>7. Reconciled(g).bytes = SumFunction(rest) /\ slot[g].bytes = Released(g) + SumFunction(rest)
  <2> HIDE DEF rest, s
  <2>q. QED
    BY <1>1, <1>3, <1>4, <1>5, <1>6 DEF SatSub
<1>8. slot[g].inbound => queued[g] <= Len(rest)
  <2>1. queued[g] \in Nat
    BY SlotTypes
  <2>2. slot[g].inbound => queued[g] <= Len(s)
    BY DEF CallOK
  <2> HIDE DEF rest, s
  <2>q. QED
    BY <1>5, <2>1, <2>2
<1>9. Reconciled(g).bytes <= MaxCallBytes
  <2> HIDE DEF rest, s
  <2>q. QED
    BY <1>1, <1>3, <1>6, <1>7
<1>q. QED
  <2> HIDE DEF rest, s
  <2>1. CallOK(Reconciled(g), queued[g])
    BY <1>5, <1>7, <1>8, <1>9 DEF CallOK
  <2>q. QED
    BY <1>1, <1>3, <1>7, <2>1

\* Reconciling the whole table.
LEMMA AllReconciled ==
    ASSUME TypeOK, TotalOK, CallsOK,
           reconcile_all_inbound_bytes \/ finalize_consumed_inbound_ends, queued' = queued
    PROVE  TotalOK' /\ CallsOK'
<1> DEFINE rel == [g \in Instances |-> Released(g)]
<1>0. TableType /\ ChannelType
  BY DEF TypeOK
<1>1. \A g \in Instances : /\ CallOK(Reconciled(g), queued[g])
                           /\ Reconciled(g).bytes + Released(g) = slot[g].bytes
                           /\ Reconciled(g).bytes \in Nat /\ Released(g) \in Nat
                           /\ Reconciled(g) \in CallSlots
  BY <1>0, ReconciledOK, ReconciledSlot DEF CallsOK
<1>2. \A g \in Instances : slot'[g].bytes = Reconciled(g).bytes /\ CallOK(slot'[g], queued[g])
  <2>1. CASE reconcile_all_inbound_bytes
    BY <1>1, <2>1 DEF reconcile_all_inbound_bytes
  <2>2. CASE finalize_consumed_inbound_ends
    <3> SUFFICES ASSUME NEW g \in Instances
                 PROVE  slot'[g].bytes = Reconciled(g).bytes /\ CallOK(slot'[g], queued[g])
      OBVIOUS
    <3>1. slot'[g] = FinalizedSlot(Reconciled(g))
      BY <2>2 DEF finalize_consumed_inbound_ends
    <3>q. QED
      BY <1>1, <3>1, FinalizedFields, SameBytesOK
  <2>q. QED
    BY <2>1, <2>2
<1>3. \A g \in Instances : Bytes'[g] \in Nat /\ rel[g] \in Nat /\ Bytes[g] = Bytes'[g] + rel[g]
  BY <1>1, <1>2 DEF Bytes
<1>4. SumFunctionOnSet(Bytes, Instances) =
          SumFunctionOnSet(Bytes', Instances) + SumFunctionOnSet(rel, Instances)
  <2> HIDE DEF rel
  <2>q. QED
    BY <1>3, InstancesFinite, SumAdd
<1>5. SumFunctionOnSet(Bytes', Instances) \in Nat /\ SumFunctionOnSet(rel, Instances) \in Nat
  <2> HIDE DEF rel
  <2>q. QED
    BY <1>3, InstancesFinite, SumType
<1>6. inboundBytes' = SatSub(inboundBytes, SumFunctionOnSet(rel, Instances))
  <2>1. DOMAIN rel = Instances
    OBVIOUS
  <2>q. QED
    BY <2>1 DEF reconcile_all_inbound_bytes, finalize_consumed_inbound_ends, SumFunction
<1>7. TotalOK'
  <2> HIDE DEF rel
  <2>q. QED
    BY <1>4, <1>5, <1>6 DEF TotalOK, SatSub
<1>q. QED
  BY <1>2, <1>7 DEF CallsOK

\* One call's counter changes: the total changes by the difference.
LEMMA OneChanged ==
    ASSUME TableType, TableType', TotalOK, NEW g \in Instances,
           \A h \in Instances \ {g} : slot'[h].bytes = slot[h].bytes
    PROVE  /\ inboundBytes + slot'[g].bytes = SumFunctionOnSet(Bytes', Instances) + slot[g].bytes
           /\ slot[g].bytes <= inboundBytes
           /\ SumFunctionOnSet(Bytes', Instances) \in Nat
           /\ slot[g].bytes \in Nat /\ slot'[g].bytes \in Nat /\ inboundBytes \in Nat
<1>1. \A h \in Instances : slot[h].bytes \in Nat /\ slot'[h].bytes \in Nat
  BY DEF TableType, CallSlots
<1>2. \A h \in Instances : /\ Bytes[h] = slot[h].bytes /\ Bytes'[h] = slot'[h].bytes
                           /\ Bytes[h] \in Nat /\ Bytes'[h] \in Nat
  BY <1>1 DEF Bytes
<1>3. \A h \in Instances \ {g} : Bytes[h] = Bytes'[h]
  BY <1>2
<1>4. SumFunctionOnSet(Bytes, Instances) + Bytes'[g] =
          SumFunctionOnSet(Bytes', Instances) + Bytes[g]
  BY <1>2, <1>3, InstancesFinite, SumChange
<1>5. Bytes[g] <= SumFunctionOnSet(Bytes, Instances) /\ SumFunctionOnSet(Bytes', Instances) \in Nat
  BY <1>2, InstancesFinite, SumBound, SumType
<1>q. QED
  BY <1>1, <1>2, <1>4, <1>5 DEF TotalOK, TableType

\* One call's counter goes to 0.
LEMMA OneReleased ==
    ASSUME TableType, TableType', TotalOK, NEW g \in Instances,
           \A h \in Instances \ {g} : slot'[h].bytes = slot[h].bytes, slot'[g].bytes = 0,
           inboundBytes' = SatSub(inboundBytes, slot[g].bytes)
    PROVE  TotalOK'
<1>1. /\ inboundBytes + slot'[g].bytes = SumFunctionOnSet(Bytes', Instances) + slot[g].bytes
      /\ slot[g].bytes <= inboundBytes /\ SumFunctionOnSet(Bytes', Instances) \in Nat
      /\ slot[g].bytes \in Nat /\ inboundBytes \in Nat
  BY OneChanged
<1>q. QED
  BY <1>1 DEF TotalOK, SatSub

\* No counter changes.
LEMMA NoneChanged ==
    ASSUME TotalOK, \A h \in Instances : slot'[h].bytes = slot[h].bytes,
           inboundBytes' = inboundBytes
    PROVE  TotalOK'
<1>1. Bytes' = Bytes
  BY DEF Bytes
<1>q. QED
  BY <1>1 DEF TotalOK

\* remove_call of at most one call.
LEMMA RemovedBytes ==
    ASSUME TypeOK, TableType', TotalOK, CallsOK, NEW g \in Instances,
           NEW G, G \subseteq {g}, RemoveCalls(G), queued' = queued
    PROVE  TotalOK' /\ CallsOK'
<1>0. TableType
  BY DEF TypeOK
<1>1. Drained(EmptySlot)
  BY DEF Drained, EmptySlot
<1>2. \A h \in Instances : slot'[h] = IF h \in G THEN EmptySlot ELSE slot[h]
  BY DEF RemoveCalls
<1>3. CallsOK'
  BY <1>1, <1>2, DrainedOK DEF CallsOK
<1> DEFINE b == [h \in G |-> slot[h].bytes]
<1>4. CASE G = {}
  <2>1. SumFunction(b) = 0
    <3>1. DOMAIN b = G /\ IsFiniteSet(G) /\ \A x \in G : b[x] = 0
      BY <1>4, FS_EmptySet
    <3> HIDE DEF b
    <3>q. QED
      BY <3>1, SumZero DEF SumFunction
  <2>2. inboundBytes' = inboundBytes
    <3> HIDE DEF b
    <3>q. QED
      BY <1>0, <2>1 DEF RemoveCalls, b, SatSub, TableType
  <2>q. QED
    BY <1>2, <1>3, <1>4, <2>2, NoneChanged
<1>5. CASE G = {g}
  <2>1. SumFunction(b) = slot[g].bytes
    <3>1. DOMAIN b = {g} /\ b[g] = slot[g].bytes /\ slot[g].bytes \in Nat
      BY <1>0, <1>5 DEF TableType, CallSlots
    <3>2. IsFiniteSet({g}) /\ IsFiniteSet({}) /\ {g} \ {g} = {}
      BY FS_Singleton, FS_EmptySet
    <3>3. SumFunctionOnSet(b, {}) = 0
      <4> HIDE DEF b
      <4>q. QED
        BY <3>2, SumZero
    <3>4. SumFunctionOnSet(b, {g}) = b[g] + SumFunctionOnSet(b, {g} \ {g})
      <4> HIDE DEF b
      <4>q. QED
        BY <3>1, <3>2, SumRemove
    <3> HIDE DEF b
    <3>q. QED
      BY <3>1, <3>2, <3>3, <3>4 DEF SumFunction
  <2>2. inboundBytes' = SatSub(inboundBytes, slot[g].bytes)
    <3> HIDE DEF b
    <3>q. QED
      BY <2>1 DEF RemoveCalls, b
  <2>3. slot'[g].bytes = 0 /\ \A h \in Instances \ {g} : slot'[h].bytes = slot[h].bytes
    BY <1>2, <1>5 DEF EmptySlot
  <2>4. TotalOK'
    BY <1>0, <2>2, <2>3, OneReleased
  <2>q. QED
    BY <1>3, <2>4
<1>q. QED
  BY <1>4, <1>5

\* Taking an item, or dropping a receiver.
LEMMA FewerQueued ==
    ASSUME TypeOK, TotalOK, CallsOK, UNCHANGED table,
           \A h \in Instances : queued'[h] \in 0..queued[h]
    PROVE  TotalOK' /\ CallsOK'
<1>1. TotalOK'
  BY NoneChanged DEF table
<1>2. \A h \in Instances : queued[h] \in Nat /\ Len(slot[h].sizes) \in Nat
  BY SlotTypes DEF TypeOK
<1>3. CallsOK'
  BY <1>2 DEF CallsOK, CallOK, table
<1>q. QED
  BY <1>1, <1>3

\* A receiver dropped holds no item.
LEMMA DroppedQueue ==
    ASSUME ChannelType, NEW g \in Instances, DropReceiver(g) \/ UNCHANGED chan
    PROVE  \A h \in Instances : queued'[h] \in 0..queued[h]
<1>1. \A h \in Instances : queued[h] \in Nat
  BY DEF ChannelType
<1>2. CASE DropReceiver(g)
  BY <1>1, <1>2 DEF DropReceiver, ChannelType
<1>3. CASE UNCHANGED chan
  BY <1>1, <1>3 DEF chan
<1>q. QED
  BY <1>2, <1>3

\* Every step keeps the byte counters exact.
LEMMA BytesStep ==
    ASSUME ConnInv, TotalOK, CallsOK, [Next]_vars
    PROVE  TotalOK' /\ CallsOK'
<1> USE DEF ConnInv, TypeOK
<1>1. ASSUME NEW i \in Ids, NEW streaming \in BOOLEAN, Request(i, streaming)
      PROVE  TotalOK' /\ CallsOK'
  <2>1. queued' = queued /\ inboundBytes' = inboundBytes
    BY <1>1 DEF Request, table
  <2>2. CASE UNCHANGED slot
    BY <2>1, <2>2, NoneChanged DEF CallsOK
  <2>3. CASE ~UNCHANGED slot
    <3> DEFINE s == [EmptySlot EXCEPT !.inbound = streaming]
    <3>1. made + 1 \in Instances /\ slot' = [slot EXCEPT ![made + 1] = s]
      BY <1>1, <2>3 DEF Request, ServerType, Instances, table
    <3>2. s.sizes = <<>> /\ s.bytes = 0
      BY DEF EmptySlot
    <3>3. queued[made + 1] = 0 /\ slot[made + 1].bytes = 0
      BY <3>1 DEF Fresh, SlotInv, FreshSlots, Drained, ServerType
    <3> HIDE DEF s
    <3>4. slot'[made + 1] = s /\ \A h \in Instances \ {made + 1} : slot'[h] = slot[h]
      BY <3>1 DEF TableType
    <3>5. CallOK(s, 0)
      <4>1. <<>> \in Seq(Nat)
        OBVIOUS
      <4>2. SumFunction(<<>>) = 0
        BY <4>1, SeqSumType
      <4>q. QED
        BY <3>2, <4>2 DEF CallOK
    <3>6. CallsOK'
      BY <2>1, <3>3, <3>4, <3>5 DEF CallsOK
    <3>7. \A h \in Instances : slot'[h].bytes = slot[h].bytes
      BY <3>2, <3>3, <3>4
    <3>q. QED
      BY <2>1, <3>6, <3>7, NoneChanged
  <2>q. QED
    BY <2>2, <2>3
<1>2. ASSUME NEW i \in Ids, NEW n \in PayloadSizes, StreamItem(i, n)
      PROVE  TotalOK' /\ CallsOK'
  <2>1. /\ queued' = queued
        /\ \/ reconcile_all_inbound_bytes \/ finalize_consumed_inbound_ends
           \/ UNCHANGED <<slot, inboundBytes>>
    BY <1>2 DEF StreamItem, chan
  <2>2. CASE UNCHANGED <<slot, inboundBytes>>
    BY <2>1, <2>2, NoneChanged DEF CallsOK
  <2>q. QED
    BY <2>1, <2>2, AllReconciled
<1>3. ASSUME NEW i \in Ids, StreamEnd(i)
      PROVE  TotalOK' /\ CallsOK'
  <2> DEFINE g == calls[i]
             s == IF Reconciled(g).sizes = <<>> THEN [Reconciled(g) EXCEPT !.inbound = FALSE]
                  ELSE [Reconciled(g) EXCEPT !.ending = TRUE]
  <2>1. queued' = queued /\ TableType'
    BY <1>3, TableTypeStep DEF StreamEnd, chan
  <2>2. CASE g = NoCall
    <3>1. UNCHANGED <<slot, inboundBytes>>
      BY <1>3, <2>2 DEF StreamEnd
    <3>q. QED
      BY <2>1, <3>1, NoneChanged DEF CallsOK
  <2>3. CASE g # NoCall
    <3>1. g \in Instances
      BY <2>3 DEF TableType
    <3>2. /\ CallOK(Reconciled(g), queued[g]) /\ Reconciled(g) \in CallSlots
          /\ Reconciled(g).bytes + Released(g) = slot[g].bytes
          /\ Reconciled(g).bytes \in Nat /\ Released(g) \in Nat
      BY <3>1, ReconciledOK, ReconciledSlot DEF CallsOK
    <3>3. /\ s.bytes = Reconciled(g).bytes /\ s.sizes = Reconciled(g).sizes
          /\ s.inbound => Reconciled(g).inbound
      BY <3>2 DEF CallSlots
    <3>4. slot' = [slot EXCEPT ![g] = s] /\ inboundBytes' = SatSub(inboundBytes, Released(g))
      BY <1>3, <2>3 DEF StreamEnd
    <3> HIDE DEF s, g
    <3>5. slot'[g] = s /\ \A h \in Instances \ {g} : slot'[h] = slot[h]
      BY <3>1, <3>4 DEF TableType
    <3>6. CallsOK'
      BY <2>1, <3>2, <3>3, <3>5, SameBytesOK DEF CallsOK
    <3>7. /\ inboundBytes + slot'[g].bytes = SumFunctionOnSet(Bytes', Instances) + slot[g].bytes
          /\ slot[g].bytes <= inboundBytes /\ SumFunctionOnSet(Bytes', Instances) \in Nat
          /\ slot[g].bytes \in Nat /\ inboundBytes \in Nat
      BY <2>1, <3>1, <3>5, OneChanged
    <3>8. TotalOK'
      BY <3>2, <3>3, <3>4, <3>5, <3>7 DEF TotalOK, SatSub
    <3>q. QED
      BY <3>6, <3>8
  <2>q. QED
    BY <2>2, <2>3
<1>4. ASSUME NEW i \in Ids, StreamCancel(i)
      PROVE  TotalOK' /\ CallsOK'
  <2> DEFINE g == calls[i]
  <2>1. queued' = queued /\ TableType'
    BY <1>4, TableTypeStep DEF StreamCancel, chan
  <2>2. CASE Cancellable(g)
    <3>1. RemoveCalls({g}) /\ g \in Instances
      BY <1>4, <2>2 DEF StreamCancel, Cancellable, TableType
    <3> HIDE DEF g
    <3>q. QED
      BY <2>1, <3>1, RemovedBytes
  <2>3. CASE ~Cancellable(g)
    <3>1. UNCHANGED table
      BY <1>4, <2>3 DEF StreamCancel
    <3>q. QED
      BY <2>1, <3>1, NoneChanged DEF table, CallsOK
  <2>q. QED
    BY <2>2, <2>3
<1>5. ASSUME RecvTop
      PROVE  TotalOK' /\ CallsOK'
  <2>1. /\ queued' = queued
        /\ \/ reconcile_all_inbound_bytes \/ finalize_consumed_inbound_ends
           \/ UNCHANGED <<slot, inboundBytes>>
    BY <1>5 DEF RecvTop, chan
  <2>2. CASE UNCHANGED <<slot, inboundBytes>>
    BY <2>1, <2>2, NoneChanged DEF CallsOK
  <2>q. QED
    BY <2>1, <2>2, AllReconciled
<1>6. ASSUME Reap
      PROVE  TotalOK' /\ CallsOK'
  <2> DEFINE c == Head(completions)
  <2>1. queued' = queued /\ TableType' /\ RemoveCalls(Reaped(c))
    BY <1>6, TableTypeStep DEF Reap, chan
  <2>2. c \in Instances /\ Reaped(c) \subseteq {c}
    BY <1>6 DEF Reap, SignalType, Reaped, SameCall
  <2> HIDE DEF c
  <2>q. QED
    BY <2>1, <2>2, RemovedBytes
<1>7. ASSUME ReconcileTimer
      PROVE  TotalOK' /\ CallsOK'
  <2>1. /\ queued' = queued
        /\ \/ reconcile_all_inbound_bytes \/ finalize_consumed_inbound_ends
           \/ UNCHANGED <<slot, inboundBytes>>
    BY <1>7 DEF ReconcileTimer, chan
  <2>2. CASE UNCHANGED <<slot, inboundBytes>>
    BY <2>1, <2>2, NoneChanged DEF CallsOK
  <2>q. QED
    BY <2>1, <2>2, AllReconciled
<1>8. ASSUME RouteDelivered
      PROVE  TotalOK' /\ CallsOK'
  <2> DEFINE g == calls[item.id]
             s == Append(slot[g].sizes, item.size)
             b == slot[g].bytes + item.size
  <2>1. TableType'
    BY TableTypeStep
  <2>2. g \in Instances /\ slot[g] \in CallSlots /\ slot[g].inbound
    BY <1>8, RoutedCall DEF RouteDelivered
  <2>3. item.size \in Nat
    BY <1>8 DEF RouteDelivered, TableNames
  <2>4. /\ slot' = [slot EXCEPT ![g].sizes = s, ![g].bytes = b]
        /\ inboundBytes' = inboundBytes + item.size
        /\ b <= MaxCallBytes /\ inboundBytes + item.size <= MaxConnBytes
    BY <1>8 DEF RouteDelivered, FitsBudget
  <2>5. /\ slot[g].sizes \in Seq(Nat) /\ queued[g] \in Nat /\ slot[g].bytes \in Nat
        /\ CallOK(slot[g], queued[g])
    BY <2>2, SlotTypes DEF CallsOK, CallSlots
  <2>6. SumFunction(s) = SumFunction(slot[g].sizes) + item.size /\ Len(s) = Len(slot[g].sizes) + 1
    BY <2>3, <2>5, SeqSumAppend
  <2>7. queued'[g] = queued[g] + 1 /\ \A h \in Instances \ {g} : queued'[h] = queued[h]
    BY <1>8, <2>2 DEF RouteDelivered, ChannelType
  <2>8. SumFunction(s) = b /\ queued[g] + 1 <= Len(s)
    <3>1. /\ slot[g].bytes = SumFunction(slot[g].sizes) /\ queued[g] <= Len(slot[g].sizes)
          /\ Len(slot[g].sizes) \in Nat
      BY <2>2, <2>5 DEF CallOK
    <3> HIDE DEF s, g
    <3>q. QED
      BY <2>3, <2>5, <2>6, <3>1
  <2> HIDE DEF s, b, g
  <2>9. /\ slot'[g].sizes = s /\ slot'[g].bytes = b
        /\ \A h \in Instances \ {g} : slot'[h] = slot[h]
    BY <2>2, <2>4 DEF TableType, CallSlots
  <2>10. CallsOK'
    <3>1. CallOK(slot'[g], queued'[g])
      BY <2>4, <2>7, <2>8, <2>9 DEF CallOK
    <3>2. ASSUME NEW h \in Instances, h # g PROVE CallOK(slot'[h], queued'[h])
      BY <2>7, <2>9, <3>2 DEF CallsOK
    <3>q. QED
      BY <3>1, <3>2 DEF CallsOK
  <2>11. /\ inboundBytes + slot'[g].bytes = SumFunctionOnSet(Bytes', Instances) + slot[g].bytes
         /\ SumFunctionOnSet(Bytes', Instances) \in Nat /\ inboundBytes \in Nat
    BY <2>1, <2>2, <2>9, OneChanged
  <2>12. /\ SumFunctionOnSet(Bytes', Instances) = inboundBytes'
         /\ inboundBytes' \in Nat /\ inboundBytes' <= MaxConnBytes
    <3>1. b = slot[g].bytes + item.size
      BY DEF b
    <3>2. inboundBytes + b = SumFunctionOnSet(Bytes', Instances) + slot[g].bytes
      BY <2>9, <2>11
    <3>3. \A S, B, I, z \in Nat : I + (B + z) = S + B => S = I + z
      OBVIOUS
    <3>4. SumFunctionOnSet(Bytes', Instances) = inboundBytes + item.size
      <4> DEFINE S == SumFunctionOnSet(Bytes', Instances)
                 B == slot[g].bytes
                 z == item.size
      <4>1. /\ inboundBytes + (B + z) = S + B /\ S \in Nat /\ B \in Nat /\ z \in Nat
            /\ inboundBytes \in Nat
        BY <2>3, <2>5, <2>11, <3>1, <3>2
      <4> HIDE DEF S, B, z
      <4>2. S = inboundBytes + z
        BY <4>1, <3>3
      <4>q. QED
        BY <4>2 DEF S, z
    <3>q. QED
      BY <2>3, <2>4, <2>11, <3>4
  <2>13. TotalOK'
    BY <2>12 DEF TotalOK
  <2>q. QED
    BY <2>10, <2>13
<1>9. ASSUME RouteDiscarded
      PROVE  TotalOK' /\ CallsOK'
  <2> DEFINE g == calls[item.id]
  <2>1. queued' = queued /\ TableType'
    BY <1>9, TableTypeStep DEF RouteDiscarded, chan
  <2>2. g \in Instances /\ slot[g] \in CallSlots
    BY <1>9, RoutedCall DEF RouteDiscarded, Overflows
  <2>3. /\ slot' = [slot EXCEPT ![g] = WithoutInbound(slot[g])]
        /\ inboundBytes' = SatSub(inboundBytes, slot[g].bytes)
    BY <1>9 DEF RouteDiscarded
  <2> HIDE DEF g
  <2>4. slot'[g] = WithoutInbound(slot[g]) /\ \A h \in Instances \ {g} : slot'[h] = slot[h]
    BY <2>2, <2>3 DEF TableType
  <2>5. Drained(slot'[g]) /\ slot'[g].bytes = 0
    BY <2>2, <2>4, WithoutInboundFields DEF Drained
  <2>6. CallsOK'
    BY <2>1, <2>4, <2>5, DrainedOK DEF CallsOK
  <2>7. TotalOK'
    BY <2>1, <2>2, <2>3, <2>4, <2>5, OneReleased
  <2>q. QED
    BY <2>6, <2>7
<1>10. ASSUME RejectLost
      PROVE  TotalOK' /\ CallsOK'
  <2> DEFINE g == calls[item.id]
  <2>1. queued' = queued /\ TableType'
    BY <1>10, TableTypeStep DEF RejectLost, chan
  <2>2. g \in Instances /\ slot[g] \in CallSlots
    BY <1>10, RoutedCall DEF RejectLost, Overflows
  <2>3. /\ slot' = [slot EXCEPT ![g] = WithoutInbound(slot[g])]
        /\ inboundBytes' = SatSub(inboundBytes, slot[g].bytes)
    BY <1>10 DEF RejectLost
  <2> HIDE DEF g
  <2>4. slot'[g] = WithoutInbound(slot[g]) /\ \A h \in Instances \ {g} : slot'[h] = slot[h]
    BY <2>2, <2>3 DEF TableType
  <2>5. Drained(slot'[g]) /\ slot'[g].bytes = 0
    BY <2>2, <2>4, WithoutInboundFields DEF Drained
  <2>6. CallsOK'
    BY <2>1, <2>4, <2>5, DrainedOK DEF CallsOK
  <2>7. TotalOK'
    BY <2>1, <2>2, <2>3, <2>4, <2>5, OneReleased
  <2>q. QED
    BY <2>6, <2>7
<1>11. ASSUME RejectWon
      PROVE  TotalOK' /\ CallsOK'
  <2> DEFINE g == calls[item.id]
  <2>1. PICK G \in SUBSET ControlsOk : Rejects(g, G)
    BY <1>11, Rejected
  <2>2. TableType' /\ queued' = queued /\ inboundBytes' = SatSub(inboundBytes, slot[g].bytes)
    BY <1>11, TableTypeStep DEF RejectWon, chan
  <2>3. \A h \in G : h \in Instances /\ Drained(slot[h])
    BY <2>1 DEF Rejects, ControlsOk, SlotInv, Pending, TombstoneEmpty
  <2>4. Drained(EmptySlot)
    BY DEF Drained, EmptySlot
  <2> HIDE DEF g
  <2>5. /\ g \in Instances /\ Drained(slot'[g])
        /\ \A h \in Instances \ {g} : slot'[h] = slot[h] \/ (Drained(slot[h]) /\ Drained(slot'[h]))
    BY <2>1, <2>3, <2>4 DEF Rejects
  <2>6. CallsOK'
    BY <2>2, <2>5, DrainedOK DEF CallsOK
  <2>7. slot'[g].bytes = 0 /\ \A h \in Instances \ {g} : slot'[h].bytes = slot[h].bytes
    BY <2>5 DEF Drained
  <2>8. TotalOK'
    BY <2>2, <2>5, <2>7, OneReleased
  <2>q. QED
    BY <2>6, <2>8
<1>12. ASSUME NEW g \in Instances, JoinControl(g)
      PROVE  TotalOK' /\ CallsOK'
  <2>1. queued' = queued /\ TableType' /\ rpc # "dropped"
    BY <1>12, TableTypeStep DEF JoinControl, chan, AtSelect
  <2>2. CASE cpc[g] = "ok"
    <3>1. {g} \in SUBSET ControlsOk
      BY <2>2 DEF ControlsOk
    <3>2. FinishedControl({g}) = {g}
      BY <2>1, <3>1, FinishedOwn DEF SlotInv
    <3>3. RemoveCalls({g})
      BY <1>12, <2>2, <3>2 DEF JoinControl
    <3>q. QED
      BY <2>1, <3>3, RemovedBytes
  <2>3. CASE cpc[g] # "ok"
    <3>1. UNCHANGED table
      BY <1>12, <2>3 DEF JoinControl
    <3>q. QED
      BY <2>1, <3>1, NoneChanged DEF table, CallsOK
  <2>q. QED
    BY <2>2, <2>3
<1>13. ASSUME Accept
      PROVE  TotalOK' /\ CallsOK'
  <2>1. UNCHANGED table /\ (DropReceiver(made) \/ UNCHANGED chan) /\ made \in Instances
    BY <1>13 DEF Accept, chan, TableNames
  <2>2. \A h \in Instances : queued'[h] \in 0..queued[h]
    BY <2>1, DroppedQueue
  <2>q. QED
    BY <2>1, <2>2, FewerQueued
<1>14. ASSUME DropConnection
      PROVE  TotalOK' /\ CallsOK'
  <2>1. slot' = [g \in Instances |-> EmptySlot] /\ inboundBytes' = 0
    BY <1>14 DEF DropConnection
  <2>2. Drained(EmptySlot) /\ EmptySlot.bytes = 0
    BY DEF Drained, EmptySlot
  <2>3. CallsOK'
    BY <2>1, <2>2, DrainedOK DEF CallsOK
  <2>4. \A g \in Instances : Bytes'[g] = 0
    BY <2>1, <2>2 DEF Bytes
  <2>5. TotalOK'
    BY <2>1, <2>4, InstancesFinite, SumZero DEF TotalOK
  <2>q. QED
    BY <2>3, <2>5
<1>15. ASSUME NEW g \in Instances, AbortTask(g)
      PROVE  TotalOK' /\ CallsOK'
  <2>1. UNCHANGED table /\ (DropReceiver(g) \/ UNCHANGED chan)
    BY <1>15 DEF AbortTask, chan, TableNames
  <2>2. \A h \in Instances : queued'[h] \in 0..queued[h]
    BY <2>1, DroppedQueue
  <2>q. QED
    BY <2>1, <2>2, FewerQueued
<1>16. ASSUME NEW g \in Instances, TakeItem(g)
      PROVE  TotalOK' /\ CallsOK'
  <2>1. UNCHANGED table /\ queued' = [queued EXCEPT ![g] = queued[g] - 1] /\ queued[g] > 0
    BY <1>16 DEF TakeItem
  <2>2. \A h \in Instances : queued[h] \in Nat
    BY DEF ChannelType
  <2>3. \A h \in Instances : queued'[h] \in 0..queued[h]
    BY <2>1, <2>2 DEF ChannelType
  <2>q. QED
    BY <2>1, <2>3, FewerQueued
<1>17. ASSUME NEW g \in Instances, CloseInbound(g)
      PROVE  TotalOK' /\ CallsOK'
  <2>1. UNCHANGED table /\ (DropReceiver(g) \/ UNCHANGED chan)
    BY <1>17 DEF CloseInbound, chan, TableNames
  <2>2. \A h \in Instances : queued'[h] \in 0..queued[h]
    BY <2>1, DroppedQueue
  <2>q. QED
    BY <2>1, <2>2, FewerQueued
<1>18. ASSUME NEW g \in Instances, SendBegin(g)
      PROVE  TotalOK' /\ CallsOK'
  <2>1. UNCHANGED table /\ (DropReceiver(g) \/ UNCHANGED chan)
    BY <1>18 DEF SendBegin, chan, TableNames
  <2>2. \A h \in Instances : queued'[h] \in 0..queued[h]
    BY <2>1, DroppedQueue
  <2>q. QED
    BY <2>1, <2>2, FewerQueued
<1>19. ASSUME NEW g \in Instances, SendFails(g)
      PROVE  TotalOK' /\ CallsOK'
  <2>1. UNCHANGED table /\ (DropReceiver(g) \/ UNCHANGED chan)
    BY <1>19 DEF SendFails, chan, TableNames
  <2>2. \A h \in Instances : queued'[h] \in 0..queued[h]
    BY <2>1, DroppedQueue
  <2>q. QED
    BY <2>1, <2>2, FewerQueued
<1>20. ASSUME NEW g \in Instances, TermBegin(g)
      PROVE  TotalOK' /\ CallsOK'
  <2>1. UNCHANGED table /\ (DropReceiver(g) \/ UNCHANGED chan)
    BY <1>20 DEF TermBegin, chan, TableNames
  <2>2. \A h \in Instances : queued'[h] \in 0..queued[h]
    BY <2>1, DroppedQueue
  <2>q. QED
    BY <2>1, <2>2, FewerQueued
<1>21. ASSUME NEW g \in Instances, Complete(g)
      PROVE  TotalOK' /\ CallsOK'
  <2>1. UNCHANGED table /\ (DropReceiver(g) \/ UNCHANGED chan)
    BY <1>21 DEF Complete, chan, TableNames
  <2>2. \A h \in Instances : queued'[h] \in 0..queued[h]
    BY <2>1, DroppedQueue
  <2>q. QED
    BY <2>1, <2>2, FewerQueued
<1>22. ASSUME UNCHANGED vars
      PROVE  TotalOK' /\ CallsOK'
  BY <1>22 DEF vars, table, chan, TotalOK, CallsOK, Bytes
<1>23. ASSUME NEW e \in Errors, ReadEnds(e)
      PROVE  TotalOK' /\ CallsOK'
  <2>1. UNCHANGED <<slot, inboundBytes, queued>>
    BY <1>23 DEF ReadEnds, table, chan
  <2>q. QED
    BY <2>1 DEF TotalOK, CallsOK, Bytes
<1>24. ASSUME ShutdownArm \/ RouteIgnored \/ ServerShutdown
      PROVE  TotalOK' /\ CallsOK'
  <2>1. UNCHANGED <<slot, inboundBytes, queued>>
    BY <1>24 DEF ShutdownArm, RouteIgnored, ServerShutdown, table, chan
  <2>q. QED
    BY <2>1 DEF TotalOK, CallsOK, Bytes
<1>25. ASSUME NEW g \in Instances, JoinTask(g) \/ ControlAcquire(g) \/ ControlWritten(g) \/
             ControlFails(g) \/ SendAcquire(g) \/ SendWritten(g) \/ TermAcquire(g) \/
             TermWritten(g) \/ TermFails(g)
      PROVE  TotalOK' /\ CallsOK'
  <2>1. UNCHANGED <<slot, inboundBytes, queued>>
    BY <1>25 DEF JoinTask, ControlAcquire, ControlWritten, ControlFails, SendAcquire, SendWritten,
       TermAcquire, TermWritten, TermFails, table, chan
  <2>q. QED
    BY <2>1 DEF TotalOK, CallsOK, Bytes
<1>q. QED
   BY <1>1, <1>2, <1>3, <1>4, <1>5, <1>6, <1>7, <1>8, <1>9, <1>10, <1>11, <1>12, <1>13, <1>14,
     <1>15, <1>16, <1>17, <1>18, <1>19, <1>20, <1>21, <1>22, <1>23, <1>24, <1>25
      DEF Next, Peer, Recv, Serve, Route, Control, Handler, Ended

\* The byte counters agree with what is buffered, at every moment, for every limit.
THEOREM BytesAlwaysAgree == Spec => []BytesAgree
<1>1. Init => TotalOK /\ CallsOK
  <2> SUFFICES ASSUME Init PROVE TotalOK /\ CallsOK
    OBVIOUS
  <2>1. Drained(EmptySlot) /\ EmptySlot.bytes = 0
    BY DEF Drained, EmptySlot
  <2>2. CallsOK
    BY <2>1, DrainedOK DEF Init, CallsOK
  <2>3. \A g \in Instances : Bytes[g] = 0
    BY <2>1 DEF Init, Bytes
  <2>q. QED
    BY <2>2, <2>3, InstancesFinite, SumZero DEF Init, TotalOK
<1>2. ConnInv /\ TotalOK /\ CallsOK /\ [Next]_vars => (TotalOK /\ CallsOK)'
  BY BytesStep
<1>3. TotalOK /\ CallsOK => BytesAgree
  <2>1. SumFunction(Bytes) = SumFunctionOnSet(Bytes, Instances)
    BY DEF Bytes, SumFunction
  <2>q. QED
    BY <2>1 DEF TotalOK, CallsOK, CallOK, BytesAgree, Bytes
<1>q. QED
  BY <1>1, <1>2, <1>3, ConnInvariant, PTL DEF Spec
=============================================================================
