---------------------------- MODULE LogPipeline -----------------------------
(***************************************************************************)
(* The log pipeline's in-process half (biz/base_log.go): request           *)
(* goroutines emit events into a bounded channel without blocking, one     *)
(* worker drains it into the queue, and the cleanup function takes the     *)
(* pipeline out of use, closes the channel and waits for the worker.       *)
(*                                                                         *)
(* stateMu is a sync.RWMutex: Emit checks closed and sends while it reads  *)
(* the lock, close sets closed and closes the channel while it writes it.  *)
(* A send on a closed channel would panic.                                 *)
(***************************************************************************)
EXTENDS Naturals, Sequences

CONSTANTS
    Emitters,   \* goroutines that call EmitLog
    Closers,    \* goroutines that call the cleanup function
    BufferSize, \* capacity of the channel (logBufferSize)
    MaxEmits    \* bound: EmitLog calls of each emitter

ASSUME PipelineConstants ==
    /\ Emitters \cap Closers = {}
    /\ BufferSize \in Nat \ {0}
    /\ MaxEmits \in Nat

VARIABLES
    installed,  \* the pipeline is the process's LogEmitter
    closed,     \* LogPipeline.closed
    chanClosed, \* the events channel is closed
    events,     \* what the channel holds
    readers,    \* goroutines that read stateMu
    writer,     \* goroutines that write stateMu (at most one)
    epc,        \* where each emitter is
    emits,      \* EmitLog calls each emitter has begun
    outcome,    \* what its last EmitLog returned
    cpc,        \* where each closer is
    wpc,        \* where the worker is
    current,    \* the event the worker took, as a sequence of length 0 or 1
    queue,      \* events appended to the LogEventStream
    dropped,    \* events the worker could not serialize or append
    accepted,   \* history: events Emit returned nil for, in channel order
    handled     \* history: events the worker is done with, in order

chan    == <<events, chanClosed>>
lockRW  == <<readers, writer>>
emitter == <<epc, emits, outcome>>
worker  == <<wpc, current, queue, dropped, handled>>
vars    == <<installed, closed, chan, lockRW, emitter, cpc, worker, accepted>>

\* An event is named by its emitter and the number of its EmitLog call.
Event == Emitters \X (0..MaxEmits)
Outcomes == {"none", "accepted", "ignored", "closed", "full"}

TypeOK ==
    /\ installed \in BOOLEAN /\ closed \in BOOLEAN /\ chanClosed \in BOOLEAN
    /\ events \in Seq(Event) /\ Len(events) \leq BufferSize
    /\ readers \in SUBSET Emitters
    /\ writer \in SUBSET Closers
    /\ epc \in [Emitters -> {"idle", "lock", "check", "send", "unlock"}]
    /\ emits \in [Emitters -> 0..MaxEmits]
    /\ outcome \in [Emitters -> Outcomes]
    /\ cpc \in [Closers -> {"new", "lock", "mark", "close", "unlock", "wait", "done"}]
    /\ wpc \in {"receive", "append", "done"}
    /\ current \in Seq(Event)
    /\ queue \in Seq(Event) /\ dropped \in SUBSET Event
    /\ accepted \in Seq(Event) /\ handled \in Seq(Event)

\* NewLogPipeline: the worker runs and the pipeline is installed.
Init ==
    /\ installed = TRUE /\ closed = FALSE /\ chanClosed = FALSE
    /\ events = <<>> /\ readers = {} /\ writer = {}
    /\ epc = [e \in Emitters |-> "idle"]
    /\ emits = [e \in Emitters |-> 0]
    /\ outcome = [e \in Emitters |-> "none"]
    /\ cpc = [c \in Closers |-> "new"]
    /\ wpc = "receive" /\ current = <<>>
    /\ queue = <<>> /\ dropped = {} /\ accepted = <<>> /\ handled = <<>>

-----------------------------------------------------------------------------
\* EmitLog reads the installed emitter; without one the event is ignored.
EmitLog(e) ==
    /\ epc[e] = "idle" /\ emits[e] < MaxEmits
    /\ emits' = [emits EXCEPT ![e] = @ + 1]
    /\ IF installed
       THEN epc' = [epc EXCEPT ![e] = "lock"] /\ UNCHANGED outcome
       ELSE outcome' = [outcome EXCEPT ![e] = "ignored"] /\ UNCHANGED epc
    /\ UNCHANGED <<installed, closed, chan, lockRW, cpc, worker, accepted>>

\* Emit reads stateMu, which waits for a writer that holds it.
EmitLock(e) ==
    /\ epc[e] = "lock" /\ writer = {}
    /\ readers' = readers \cup {e}
    /\ epc' = [epc EXCEPT ![e] = "check"]
    /\ UNCHANGED <<installed, closed, chan, writer, emits, outcome, cpc, worker, accepted>>

EmitCheck(e) ==
    /\ epc[e] = "check"
    /\ IF closed
       THEN /\ epc' = [epc EXCEPT ![e] = "unlock"]
            /\ outcome' = [outcome EXCEPT ![e] = "closed"]
       ELSE /\ epc' = [epc EXCEPT ![e] = "send"]
            /\ UNCHANGED outcome
    /\ UNCHANGED <<installed, closed, chan, lockRW, emits, cpc, worker, accepted>>

\* The select with a default: the send never waits.
EmitSend(e) ==
    /\ epc[e] = "send"
    /\ IF Len(events) < BufferSize
       THEN /\ events' = Append(events, <<e, emits[e]>>)
            /\ accepted' = Append(accepted, <<e, emits[e]>>)
            /\ outcome' = [outcome EXCEPT ![e] = "accepted"]
       ELSE /\ outcome' = [outcome EXCEPT ![e] = "full"]
            /\ UNCHANGED <<events, accepted>>
    /\ epc' = [epc EXCEPT ![e] = "unlock"]
    /\ UNCHANGED <<installed, closed, chanClosed, lockRW, emits, cpc, worker>>

\* Mutant: the early return on a full buffer keeps the read lock.
EmitUnlockUnlessFull(e) ==
    /\ epc[e] = "unlock"
    /\ readers' = IF outcome[e] = "full" THEN readers ELSE readers \ {e}
    /\ epc' = [epc EXCEPT ![e] = "idle"]
    /\ UNCHANGED <<installed, closed, chan, writer, emits, outcome, cpc, worker, accepted>>

EmitUnlock(e) ==
    /\ epc[e] = "unlock"
    /\ readers' = readers \ {e}
    /\ epc' = [epc EXCEPT ![e] = "idle"]
    /\ UNCHANGED <<installed, closed, chan, writer, emits, outcome, cpc, worker, accepted>>

Emit(e) == EmitLog(e) \/ EmitLock(e) \/ EmitCheck(e) \/ EmitSend(e) \/ EmitUnlock(e)

-----------------------------------------------------------------------------
\* Mutant: the worker stops as soon as the channel is closed.
ReceiveStopsEarly ==
    /\ wpc = "receive"
    /\ \/ /\ events # <<>> /\ ~chanClosed
          /\ current' = <<Head(events)>>
          /\ events' = Tail(events)
          /\ wpc' = "append"
       \/ /\ chanClosed
          /\ wpc' = "done"
          /\ UNCHANGED <<current, events>>
    /\ UNCHANGED <<installed, closed, chanClosed, lockRW, emitter, cpc,
                   queue, dropped, handled, accepted>>

\* The range loop of run: it ends when the channel is closed and empty.
Receive ==
    /\ wpc = "receive"
    /\ \/ /\ events # <<>>
          /\ current' = <<Head(events)>>
          /\ events' = Tail(events)
          /\ wpc' = "append"
       \/ /\ events = <<>> /\ chanClosed
          /\ wpc' = "done"
          /\ UNCHANGED <<current, events>>
    /\ UNCHANGED <<installed, closed, chanClosed, lockRW, emitter, cpc,
                   queue, dropped, handled, accepted>>

\* The event is serialized and appended to the queue, or dropped for good.
AppendEvent ==
    /\ wpc = "append"
    /\ \/ queue' = queue \o current /\ UNCHANGED dropped
       \/ dropped' = dropped \cup {current[1]} /\ UNCHANGED queue
    /\ handled' = handled \o current
    /\ current' = <<>>
    /\ wpc' = "receive"
    /\ UNCHANGED <<installed, closed, chan, lockRW, emitter, cpc, accepted>>

-----------------------------------------------------------------------------
\* The cleanup function first takes the pipeline out of use.
Uninstall(c) ==
    /\ cpc[c] = "new"
    /\ installed' = FALSE
    /\ cpc' = [cpc EXCEPT ![c] = "lock"]
    /\ UNCHANGED <<closed, chan, lockRW, emitter, worker, accepted>>

CloseLock(c) ==
    /\ cpc[c] = "lock" /\ writer = {} /\ readers = {}
    /\ writer' = {c}
    /\ cpc' = [cpc EXCEPT ![c] = "mark"]
    /\ UNCHANGED <<installed, closed, chan, readers, emitter, worker, accepted>>

\* Mutant: a second close closes the channel again.
MarkAlways(c) ==
    /\ cpc[c] = "mark"
    /\ closed' = TRUE
    /\ cpc' = [cpc EXCEPT ![c] = "close"]
    /\ UNCHANGED <<installed, chan, lockRW, emitter, worker, accepted>>

Mark(c) ==
    /\ cpc[c] = "mark"
    /\ closed' = TRUE
    /\ cpc' = [cpc EXCEPT ![c] = IF closed THEN "unlock" ELSE "close"]
    /\ UNCHANGED <<installed, chan, lockRW, emitter, worker, accepted>>

CloseChannel(c) ==
    /\ cpc[c] = "close"
    /\ chanClosed' = TRUE
    /\ cpc' = [cpc EXCEPT ![c] = "unlock"]
    /\ UNCHANGED <<installed, closed, events, lockRW, emitter, worker, accepted>>

CloseUnlock(c) ==
    /\ cpc[c] = "unlock"
    /\ writer' = {}
    /\ cpc' = [cpc EXCEPT ![c] = "wait"]
    /\ UNCHANGED <<installed, closed, chan, readers, emitter, worker, accepted>>

\* Mutant: close does not wait for the worker.
WaitForNothing(c) ==
    /\ cpc[c] = "wait"
    /\ cpc' = [cpc EXCEPT ![c] = "done"]
    /\ UNCHANGED <<installed, closed, chan, lockRW, emitter, worker, accepted>>

\* worker.Wait
Wait(c) ==
    /\ cpc[c] = "wait" /\ wpc = "done"
    /\ cpc' = [cpc EXCEPT ![c] = "done"]
    /\ UNCHANGED <<installed, closed, chan, lockRW, emitter, worker, accepted>>

Close(c) == Uninstall(c) \/ CloseLock(c) \/ Mark(c) \/ CloseChannel(c)
                \/ CloseUnlock(c) \/ Wait(c)

-----------------------------------------------------------------------------
Next ==
    \/ \E e \in Emitters : Emit(e)
    \/ Receive \/ AppendEvent
    \/ \E c \in Closers : Close(c)

Spec == Init /\ [][Next]_vars

\* Goroutines run, queue.Append returns, and a goroutine waiting for a Go
\* RWMutex gets it in the end; nothing makes a goroutine call EmitLog or the
\* cleanup function.
FairSpec ==
    /\ Spec
    /\ WF_vars(Receive) /\ WF_vars(AppendEvent)
    /\ \A e \in Emitters : /\ SF_vars(EmitLock(e))
                           /\ WF_vars(EmitCheck(e) \/ EmitSend(e) \/ EmitUnlock(e))
    /\ \A c \in Closers : /\ SF_vars(CloseLock(c))
                          /\ WF_vars(Mark(c) \/ CloseChannel(c) \/ CloseUnlock(c) \/ Wait(c))

-----------------------------------------------------------------------------
\* An emitter about to send finds the channel open, and a channel is closed once:
\* neither Emit nor close can panic.
NoChannelPanic ==
    /\ \A e \in Emitters : epc[e] = "send" => ~chanClosed
    /\ \A c \in Closers : cpc[c] = "close" => ~chanClosed

\* What Emit accepted is, in order, what the worker is done with, the event it
\* holds, and what the channel holds: nothing accepted is lost or reordered
\* inside the process.
Conservation == accepted = handled \o current \o events

\* When the cleanup function returns, every accepted event was handed to the
\* queue or dropped with an error log, and the worker has ended.
CleanupDrains ==
    (\E c \in Closers : cpc[c] = "done") =>
        wpc = "done" /\ handled = accepted

\* Every cleanup call returns, and so does every EmitLog call.
CallsReturn ==
    /\ \A c \in Closers : cpc[c] # "new" ~> cpc[c] = "done"
    /\ \A e \in Emitters : epc[e] # "idle" ~> epc[e] = "idle"

\* The pipeline implements the abstract spool: Emit takes, the worker hands on,
\* and the worker ends only with nothing left over.
Buffer == INSTANCE Spool WITH
            Item <- Event,
            in   <- accepted,
            out  <- handled,
            open <- ~closed,
            over <- wpc = "done"
SpoolSpec == Buffer!Spec
=============================================================================
