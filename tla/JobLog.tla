------------------------------- MODULE JobLog -------------------------------
(***************************************************************************)
(* Capture of job logs (jobs/src/log.rs): events inside a run's span are   *)
(* stamped and forwarded through a bounded channel to a drain task, which  *)
(* records them in the bounded in-memory store. Threads stamp and send in  *)
(* two steps, so records may arrive out of the order of their timestamps.  *)
(* A record is its timestamp, its size and its serial number.              *)
(***************************************************************************)
EXTENDS Integers, Sequences, SequencesExt, Vec

CONSTANTS
    Threads,          \* threads that emit events
    LogRuns,          \* the job runs whose spans they are in
    Sizes,            \* sizes of a record, target and message
    CaptureCapacity,  \* CAPTURE_CHANNEL_CAPACITY
    MaxLogRuns,       \* JobLogConfig::max_runs
    MaxLogBytes,      \* JobLogConfig::max_bytes_per_run
    Ttl,              \* JobLogConfig::ttl
    MaxEvents,        \* bound: captured events
    MaxClock          \* bound: the clock

ASSUME LogAssumption ==
    /\ Sizes \subseteq Nat /\ CaptureCapacity \in Nat \ {0}
    /\ MaxLogRuns \in Nat /\ MaxLogBytes \in Nat /\ Ttl \in Nat
    /\ MaxEvents \in Nat /\ MaxClock \in Nat

VARIABLES
    logOn,       \* a layer is installed
    logClock,
    logEvents,   \* events emitted so far
    logHeld,     \* thread -> the record it has stamped and not sent
    logChannel,  \* the capture channel
    logStore,    \* run -> its RunLog: records, bytes, first_seen
    logOrder,    \* the runs in insertion order
    logStored    \* run -> every record that reached the store, in order

logVars == <<logOn, logClock, logEvents, logHeld, logChannel, logStore, logOrder, logStored>>

NoRecord == [run |-> "none"]

LogStart ==
    /\ logClock = 0 /\ logEvents = 0 /\ logHeld = [t \in Threads |-> NoRecord]
    /\ logChannel = <<>> /\ logStore = <<>> /\ logOrder = <<>>
    /\ logStored = [run \in LogRuns |-> <<>>]
LogInit == logOn = TRUE /\ LogStart
LogOff == logOn = FALSE /\ LogStart

(* on_event: below the level or outside a run's span nothing is captured, so
   only the captured ones are steps. *)
Stamp(t, run, size) ==
    /\ logHeld[t] = NoRecord /\ logEvents < MaxEvents
    /\ logEvents' = logEvents + 1
    /\ logHeld' = [logHeld EXCEPT ![t] = [run |-> run, at |-> logClock, size |-> size, id |-> logEvents]]
    /\ UNCHANGED <<logOn, logClock, logChannel, logStore, logOrder, logStored>>

(* try_send: a full channel drops the record. *)
Forward(t) ==
    /\ logHeld[t] # NoRecord
    /\ logHeld' = [logHeld EXCEPT ![t] = NoRecord]
    /\ logChannel' = IF Len(logChannel) < CaptureCapacity THEN Append(logChannel, logHeld[t])
                     ELSE logChannel
    /\ UNCHANGED <<logOn, logClock, logEvents, logStore, logOrder, logStored>>

LogTick ==
    /\ logClock < MaxClock /\ logClock' = logClock + 1
    /\ UNCHANGED <<logOn, logEvents, logHeld, logChannel, logStore, logOrder, logStored>>

(* A run whose first record is older than the ttl; a clock that went back expires none. *)
Expired(log, now) == now > log.first /\ now - log.first > Ttl

LiveRuns(now) == {run \in DOMAIN logStore : ~Expired(logStore[run], now)}

(* The insertion order of the live runs, and of one that is new among them. *)
LiveOrder(live) == retain(logOrder, LogRuns \ live)
OrderWith(run, live) == IF run \in live THEN LiveOrder(live) ELSE Append(LiveOrder(live), run)

(* The log of a run, made for its first record. *)
LogFor(r, live) ==
    IF r.run \in live THEN logStore[r.run] ELSE [records |-> <<>>, bytes |-> 0, first |-> r.at]

SizeOf(records) == SumFunction([i \in DOMAIN records |-> records[i].size])

(* Oldest records are shed until the rest fits; the last one always stays. *)
Shed(records) ==
    LET fits == {n \in 1..Len(records) :
                    SizeOf(SubSeq(records, n, Len(records))) <= MaxLogBytes \/ n = Len(records)}
        from == CHOOSE n \in fits : \A m \in fits : n <= m
    IN SubSeq(records, from, Len(records))

Pushed(log, r) ==
    LET all == Append(log.records, r)
        kept == Shed(all)
        dropped == SubSeq(all, 1, Len(all) - Len(kept))
    IN [records |-> kept, bytes |-> log.bytes + r.size - SizeOf(dropped), first |-> log.first]

(* The drain task: InMemoryJobLogStore::record of the next record. *)
record ==
    LET r == Head(logChannel)
        live == LiveRuns(r.at)
        log == Pushed(LogFor(r, live), r)
        order == OrderWith(r.run, live)
        excess == IF Len(order) > MaxLogRuns THEN Len(order) - MaxLogRuns ELSE 0
        evicted == {order[i] : i \in 1..excess}
    IN /\ logChannel # <<>>
       /\ logChannel' = Tail(logChannel)
       /\ logOrder' = SubSeq(order, excess + 1, Len(order))
       /\ logStore' = [run \in (live \cup {r.run}) \ evicted |->
                          IF run = r.run THEN log ELSE logStore[run]]
       /\ logStored' = [logStored EXCEPT ![r.run] = Append(@, r)]
       /\ UNCHANGED <<logOn, logClock, logEvents, logHeld>>

(* records: up to limit of the most recent ones, oldest first. *)
RecordsOf(run, limit) ==
    IF run \notin DOMAIN logStore THEN <<>>
    ELSE LET all == logStore[run].records
             skip == IF Len(all) > limit THEN Len(all) - limit ELSE 0
         IN SubSeq(all, skip + 1, Len(all))

LogNext ==
    /\ logOn
    /\ \/ \E t \in Threads, run \in LogRuns, size \in Sizes : Stamp(t, run, size)
       \/ \E t \in Threads : Forward(t)
       \/ LogTick
       \/ record

LogSpec == logOn \in BOOLEAN /\ LogStart /\ [][LogNext]_logVars
-----------------------------------------------------------------------------
(* What the store answers for a run is the most recent records that reached it,
   with no gap and within the limits, and the eviction order names exactly the
   runs it holds, whatever expired, was shed or was evicted meanwhile
   (InMemoryJobLogStore::record). *)
LogsAreTheLatest ==
    /\ Range(logOrder) = DOMAIN logStore /\ Len(logOrder) = Cardinality(DOMAIN logStore)
    /\ Len(logOrder) <= MaxLogRuns
    /\ \A run \in DOMAIN logStore :
        LET log == logStore[run]
            mine == logStored[run]
        IN /\ IsSuffix(log.records, mine) /\ log.records # <<>>
           /\ log.bytes = SizeOf(log.records)
           /\ log.bytes > MaxLogBytes => Len(log.records) = 1
           /\ RecordsOf(run, 1) = <<Last(mine)>>
=============================================================================
