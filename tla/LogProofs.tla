------------------------------ MODULE LogProofs ------------------------------
(***************************************************************************)
(* Theorems about the two halves of the log pipeline.                      *)
(*                                                                         *)
(* LogPipeline, for any emitters, closers and capacity: no operation       *)
(* panics on the channel, nothing accepted is lost before the worker       *)
(* handles it, and the pipeline implements Spool.                          *)
(*                                                                         *)
(* LogDelivery, for any consumers, messages, key width, hash and number of *)
(* deliveries: persist is idempotent.  A message with a key has a row      *)
(* exactly when its key is in its table (Keyed), since no other message of *)
(* the table has that key; the table refuses a key it has, so the row is   *)
(* written once, and a key that Exists finds is the message's own.         *)
(***************************************************************************)
EXTENDS LogPipeline, LogDelivery, SequenceTheorems, TLAPS

-----------------------------------------------------------------------------
(* The inductive invariant of LogPipeline. *)

\* stateMu: who reads it, who writes it, and that the two exclude each other.
LockInv ==
    /\ readers = {e \in Emitters : epc[e] \in {"check", "send", "unlock"}}
    /\ writer = {c \in Closers : cpc[c] \in {"mark", "close", "unlock"}}
    /\ readers = {} \/ writer = {}
    /\ \A c, d \in writer : c = d

\* closed covers the closed channel, and keeps emitters from sending.
ClosedInv ==
    /\ chanClosed => closed
    /\ \A e \in Emitters : epc[e] = "send" => ~closed
    /\ \A c \in Closers : cpc[c] = "close" => closed /\ ~chanClosed

\* The worker holds one event while it appends, and ends on an empty channel
\* nobody can send to any more.
WorkerInv ==
    /\ wpc = "append" => \E x \in Event : current = <<x>>
    /\ wpc # "append" => current = <<>>
    /\ wpc = "done" => chanClosed /\ events = <<>>
    /\ \A c \in Closers : cpc[c] = "done" => wpc = "done"

PipelineInv == TypeOK /\ LockInv /\ ClosedInv /\ WorkerInv /\ Conservation

-----------------------------------------------------------------------------
\* Sending appends to the tail of what is conserved.
LEMMA SendConserves ==
    \A h, c, q \in Seq(Event) : \A x \in Event :
        Append((h \o c) \o q, x) = (h \o c) \o Append(q, x)
<1> SUFFICES ASSUME NEW h \in Seq(Event), NEW c \in Seq(Event), NEW q \in Seq(Event),
                    NEW x \in Event
             PROVE  Append((h \o c) \o q, x) = (h \o c) \o Append(q, x)
  OBVIOUS
<1>1. (h \o c) \in Seq(Event) /\ ((h \o c) \o q) \in Seq(Event) /\ <<x>> \in Seq(Event)
  BY ConcatProperties
<1>2. ((h \o c) \o q) \o <<x>> = (h \o c) \o (q \o <<x>>)
  BY <1>1, ConcatAssociative
<1> QED
  BY <1>1, <1>2, AppendIsConcat

\* Receiving moves the head of the channel into the worker's hand.
LEMMA ReceiveConserves ==
    ASSUME NEW S, NEW h \in Seq(S), NEW q \in Seq(S), q # <<>>
    PROVE  (h \o <<>>) \o q = (h \o <<Head(q)>>) \o Tail(q)
<1>1. Head(q) \in S /\ Tail(q) \in Seq(S) /\ <<Head(q)>> \in Seq(S)
  BY HeadTailProperties
<1>2. q = <<Head(q)>> \o Tail(q)
  BY <1>1
<1>3. (h \o <<Head(q)>>) \o Tail(q) = h \o (<<Head(q)>> \o Tail(q))
  BY <1>1, ConcatAssociative
<1> QED
  BY <1>2, <1>3, ConcatEmptySeq

-----------------------------------------------------------------------------
\* The pipeline NewLogPipeline builds satisfies the invariant.
LEMMA InitInv == Init => PipelineInv
<1> SUFFICES ASSUME Init PROVE PipelineInv
  OBVIOUS
<1>1. TypeOK
  <2>1. events \in Seq(Event) /\ Len(events) \leq BufferSize
    BY PipelineConstants DEF Init
  <2>2. /\ current \in Seq(Event) /\ queue \in Seq(Event)
        /\ accepted \in Seq(Event) /\ handled \in Seq(Event)
    BY DEF Init
  <2>3. emits \in [Emitters -> 0..MaxEmits]
    BY PipelineConstants DEF Init
  <2> QED
    BY <2>1, <2>2, <2>3 DEF Init, TypeOK, Outcomes
<1>2. LockInv /\ ClosedInv /\ WorkerInv
  BY DEF Init, LockInv, ClosedInv, WorkerInv
<1>3. Conservation
  BY DEF Init, Conservation
<1> QED
  BY <1>1, <1>2, <1>3 DEF PipelineInv

LEMMA EmitLogInv ==
    ASSUME PipelineInv, NEW e \in Emitters, EmitLog(e) PROVE PipelineInv'
<1> USE DEF PipelineInv, chan, lockRW, emitter, worker
<1>1. TypeOK'
  <2>1. emits[e] + 1 \in 0..MaxEmits
    BY PipelineConstants DEF TypeOK, EmitLog
  <2>2. emits' \in [Emitters -> 0..MaxEmits]
    BY <2>1 DEF TypeOK, EmitLog
  <2> QED
    BY <2>2 DEF TypeOK, EmitLog, Outcomes
<1>2. LockInv'
  BY PipelineConstants DEF TypeOK, LockInv, EmitLog
<1>3. ClosedInv'
  BY PipelineConstants DEF TypeOK, LockInv, ClosedInv, EmitLog
<1>4. WorkerInv'
  BY PipelineConstants DEF TypeOK, ClosedInv, WorkerInv, EmitLog
<1>5. Conservation'
  BY DEF Conservation, EmitLog
<1> QED
  BY <1>1, <1>2, <1>3, <1>4, <1>5

LEMMA EmitLockInv ==
    ASSUME PipelineInv, NEW e \in Emitters, EmitLock(e) PROVE PipelineInv'
<1> USE DEF PipelineInv, chan, lockRW, emitter, worker
<1>1. TypeOK'
  BY PipelineConstants DEF TypeOK, EmitLock, Outcomes
<1>2. LockInv'
  BY PipelineConstants DEF TypeOK, LockInv, EmitLock
<1>3. ClosedInv'
  BY PipelineConstants DEF TypeOK, LockInv, ClosedInv, EmitLock
<1>4. WorkerInv'
  BY PipelineConstants DEF TypeOK, ClosedInv, WorkerInv, EmitLock
<1>5. Conservation'
  BY DEF Conservation, EmitLock
<1> QED
  BY <1>1, <1>2, <1>3, <1>4, <1>5

LEMMA EmitCheckInv ==
    ASSUME PipelineInv, NEW e \in Emitters, EmitCheck(e) PROVE PipelineInv'
<1> USE DEF PipelineInv, chan, lockRW, emitter, worker
<1>1. TypeOK'
  BY PipelineConstants DEF TypeOK, EmitCheck, Outcomes
<1>2. LockInv'
  BY PipelineConstants DEF TypeOK, LockInv, EmitCheck
<1>3. ClosedInv'
  BY PipelineConstants DEF TypeOK, LockInv, ClosedInv, EmitCheck
<1>4. WorkerInv'
  BY PipelineConstants DEF TypeOK, ClosedInv, WorkerInv, EmitCheck
<1>5. Conservation'
  BY DEF Conservation, EmitCheck
<1> QED
  BY <1>1, <1>2, <1>3, <1>4, <1>5

LEMMA EmitSendInv ==
    ASSUME PipelineInv, NEW e \in Emitters, EmitSend(e) PROVE PipelineInv'
<1> USE DEF PipelineInv, chan, lockRW, emitter, worker
<1> DEFINE ev == <<e, emits[e]>>
<1>6. ev \in Event
  BY DEF TypeOK, Event
<1>7. \/ Len(events) < BufferSize /\ events' = Append(events, ev) /\ accepted' = Append(accepted, ev)
      \/ UNCHANGED <<events, accepted>>
  BY DEF EmitSend
<1>8. handled' = handled /\ current' = current
  BY DEF EmitSend
<1> HIDE DEF ev
<1>1. TypeOK'
  <2>1. /\ events' \in Seq(Event) /\ Len(events') \leq BufferSize
        /\ accepted' \in Seq(Event)
    <3>1. CASE /\ Len(events) < BufferSize
               /\ events' = Append(events, ev) /\ accepted' = Append(accepted, ev)
      <4>1. events' \in Seq(Event) /\ Len(events') = Len(events) + 1 /\ accepted' \in Seq(Event)
        BY <1>6, <3>1, AppendProperties DEF TypeOK
      <4>2. Len(events) \in Nat
        BY LenProperties DEF TypeOK
      <4> QED
        BY <3>1, <4>1, <4>2, PipelineConstants
    <3>2. CASE UNCHANGED <<events, accepted>>
      BY <3>2 DEF TypeOK
    <3> QED
      BY <1>7, <3>1, <3>2
  <2> QED
    BY <2>1 DEF TypeOK, EmitSend, Outcomes
<1>2. LockInv'
  BY PipelineConstants DEF TypeOK, LockInv, EmitSend
<1>3. ClosedInv'
  BY PipelineConstants DEF TypeOK, LockInv, ClosedInv, EmitSend
<1>4. WorkerInv'
  BY PipelineConstants DEF TypeOK, ClosedInv, WorkerInv, EmitSend
<1>5. Conservation'
  <2>1. CASE events' = Append(events, ev) /\ accepted' = Append(accepted, ev)
    <3>1. /\ handled \in Seq(Event) /\ current \in Seq(Event) /\ events \in Seq(Event)
          /\ accepted = (handled \o current) \o events
      BY DEF TypeOK, Conservation
    <3>2. Append((handled \o current) \o events, ev) = (handled \o current) \o Append(events, ev)
      BY <1>6, <3>1, SendConserves
    <3> QED
      BY <1>6, <1>8, <2>1, <3>1, <3>2 DEF Conservation
  <2>2. CASE UNCHANGED <<events, accepted>>
    BY <1>8, <2>2 DEF Conservation
  <2> QED
    BY <1>7, <2>1, <2>2
<1> QED
  BY <1>1, <1>2, <1>3, <1>4, <1>5

LEMMA EmitUnlockInv ==
    ASSUME PipelineInv, NEW e \in Emitters, EmitUnlock(e) PROVE PipelineInv'
<1> USE DEF PipelineInv, chan, lockRW, emitter, worker
<1>1. TypeOK'
  BY PipelineConstants DEF TypeOK, EmitUnlock
<1>2. LockInv'
  BY PipelineConstants DEF TypeOK, LockInv, EmitUnlock
<1>3. ClosedInv'
  BY PipelineConstants DEF TypeOK, LockInv, ClosedInv, EmitUnlock
<1>4. WorkerInv'
  BY PipelineConstants DEF TypeOK, ClosedInv, WorkerInv, EmitUnlock
<1>5. Conservation'
  BY DEF Conservation, EmitUnlock
<1> QED
  BY <1>1, <1>2, <1>3, <1>4, <1>5

LEMMA ReceiveInv ==
    ASSUME PipelineInv, Receive PROVE PipelineInv'
<1> USE DEF PipelineInv, chan, lockRW, emitter, worker
<1>1. TypeOK'
  <2>1. CASE events # <<>>
    <3>1. Head(events) \in Event /\ Tail(events) \in Seq(Event)
          /\ Len(Tail(events)) = Len(events) - 1
      BY <2>1, HeadTailProperties DEF TypeOK
    <3>2. current' \in Seq(Event) /\ events' \in Seq(Event) /\ Len(events') \leq BufferSize
      <4>1. <<Head(events)>> \in Seq(Event)
        BY <3>1
      <4>2. current' = <<Head(events)>> /\ events' = Tail(events)
        BY <2>1 DEF Receive
      <4>3. Len(events) \in Nat
        BY LenProperties DEF TypeOK
      <4> QED
        BY <3>1, <4>1, <4>2, <4>3, PipelineConstants DEF TypeOK
    <3> QED
      BY <3>2 DEF TypeOK, Receive
  <2>2. CASE events = <<>>
    BY <2>2 DEF TypeOK, Receive
  <2> QED
    BY <2>1, <2>2
<1>2. LockInv'
  BY PipelineConstants DEF TypeOK, LockInv, Receive
<1>3. ClosedInv'
  BY PipelineConstants DEF TypeOK, LockInv, ClosedInv, Receive
<1>4. WorkerInv'
  BY PipelineConstants DEF TypeOK, ClosedInv, WorkerInv, Receive
<1>5. Conservation'
  <2>1. CASE events # <<>>
    <3>1. /\ current = <<>> /\ current' = <<Head(events)>> /\ events' = Tail(events)
          /\ UNCHANGED <<handled, accepted>>
      BY <2>1 DEF Receive, WorkerInv
    <3> QED
      BY <2>1, <3>1, ReceiveConserves DEF Conservation, TypeOK
  <2>2. CASE events = <<>>
    BY <2>2 DEF Conservation, Receive
  <2> QED
    BY <2>1, <2>2
<1> QED
  BY <1>1, <1>2, <1>3, <1>4, <1>5

LEMMA AppendEventInv ==
    ASSUME PipelineInv, AppendEvent PROVE PipelineInv'
<1> USE DEF PipelineInv, chan, lockRW, emitter, worker
<1>1. TypeOK'
  <2>1. current[1] \in Event
    BY DEF WorkerInv, AppendEvent
  <2>2. (queue \o current) \in Seq(Event) /\ (handled \o current) \in Seq(Event)
    BY ConcatProperties DEF TypeOK
  <2>3. queue' \in Seq(Event) /\ dropped' \in SUBSET Event
    BY <2>1, <2>2 DEF TypeOK, AppendEvent
  <2>4. handled' \in Seq(Event) /\ current' \in Seq(Event)
    BY <2>2 DEF AppendEvent
  <2> QED
    BY <2>3, <2>4 DEF TypeOK, AppendEvent
<1>2. LockInv'
  BY PipelineConstants DEF TypeOK, LockInv, AppendEvent
<1>3. ClosedInv'
  BY PipelineConstants DEF TypeOK, LockInv, ClosedInv, AppendEvent
<1>4. WorkerInv'
  BY PipelineConstants DEF TypeOK, ClosedInv, WorkerInv, AppendEvent
<1>5. Conservation'
  <2>1. handled' = handled \o current /\ current' = <<>> /\ UNCHANGED <<events, accepted>>
    BY DEF AppendEvent
  <2>2. (handled \o current) \in Seq(Event)
    BY ConcatProperties DEF TypeOK
  <2> QED
    BY <2>1, <2>2, ConcatEmptySeq DEF Conservation, TypeOK
<1> QED
  BY <1>1, <1>2, <1>3, <1>4, <1>5

LEMMA UninstallInv ==
    ASSUME PipelineInv, NEW c \in Closers, Uninstall(c) PROVE PipelineInv'
<1> USE DEF PipelineInv, chan, lockRW, emitter, worker
<1>1. TypeOK'
  BY PipelineConstants DEF TypeOK, Uninstall
<1>2. LockInv'
  BY PipelineConstants DEF TypeOK, LockInv, Uninstall
<1>3. ClosedInv'
  BY PipelineConstants DEF TypeOK, LockInv, ClosedInv, Uninstall
<1>4. WorkerInv'
  BY PipelineConstants DEF TypeOK, ClosedInv, WorkerInv, Uninstall
<1>5. Conservation'
  BY DEF Conservation, Uninstall
<1> QED
  BY <1>1, <1>2, <1>3, <1>4, <1>5

LEMMA CloseLockInv ==
    ASSUME PipelineInv, NEW c \in Closers, CloseLock(c) PROVE PipelineInv'
<1> USE DEF PipelineInv, chan, lockRW, emitter, worker
<1>1. TypeOK'
  BY PipelineConstants DEF TypeOK, CloseLock
<1>2. LockInv'
  BY PipelineConstants DEF TypeOK, LockInv, CloseLock
<1>3. ClosedInv'
  BY PipelineConstants DEF TypeOK, LockInv, ClosedInv, CloseLock
<1>4. WorkerInv'
  BY PipelineConstants DEF TypeOK, ClosedInv, WorkerInv, CloseLock
<1>5. Conservation'
  BY DEF Conservation, CloseLock
<1> QED
  BY <1>1, <1>2, <1>3, <1>4, <1>5

LEMMA MarkInv ==
    ASSUME PipelineInv, NEW c \in Closers, Mark(c) PROVE PipelineInv'
<1> USE DEF PipelineInv, chan, lockRW, emitter, worker
<1>1. TypeOK'
  BY PipelineConstants DEF TypeOK, Mark
<1>2. LockInv'
  BY PipelineConstants DEF TypeOK, LockInv, Mark
<1>3. ClosedInv'
  BY PipelineConstants DEF TypeOK, LockInv, ClosedInv, Mark
<1>4. WorkerInv'
  BY PipelineConstants DEF TypeOK, ClosedInv, WorkerInv, Mark
<1>5. Conservation'
  BY DEF Conservation, Mark
<1> QED
  BY <1>1, <1>2, <1>3, <1>4, <1>5

LEMMA CloseChannelInv ==
    ASSUME PipelineInv, NEW c \in Closers, CloseChannel(c) PROVE PipelineInv'
<1> USE DEF PipelineInv, chan, lockRW, emitter, worker
<1>1. TypeOK'
  BY PipelineConstants DEF TypeOK, CloseChannel
<1>2. LockInv'
  BY PipelineConstants DEF TypeOK, LockInv, CloseChannel
<1>3. ClosedInv'
  <2>1. c \in writer /\ closed
    <3>1. c \in writer
      BY DEF LockInv, CloseChannel
    <3> QED
      BY <3>1 DEF ClosedInv, CloseChannel
  <2>2. ASSUME NEW d \in Closers, cpc'[d] = "close" PROVE FALSE
    <3>1. d # c /\ cpc[d] = "close"
      BY <2>2 DEF TypeOK, CloseChannel
    <3> QED
      BY <2>1, <3>1 DEF LockInv
  <2> QED
    BY <2>1, <2>2 DEF ClosedInv, CloseChannel
<1>4. WorkerInv'
  BY PipelineConstants DEF TypeOK, ClosedInv, WorkerInv, CloseChannel
<1>5. Conservation'
  BY DEF Conservation, CloseChannel
<1> QED
  BY <1>1, <1>2, <1>3, <1>4, <1>5

LEMMA CloseUnlockInv ==
    ASSUME PipelineInv, NEW c \in Closers, CloseUnlock(c) PROVE PipelineInv'
<1> USE DEF PipelineInv, chan, lockRW, emitter, worker
<1>1. TypeOK'
  BY PipelineConstants DEF TypeOK, CloseUnlock
<1>2. LockInv'
  BY PipelineConstants DEF TypeOK, LockInv, CloseUnlock
<1>3. ClosedInv'
  BY PipelineConstants DEF TypeOK, LockInv, ClosedInv, CloseUnlock
<1>4. WorkerInv'
  BY PipelineConstants DEF TypeOK, ClosedInv, WorkerInv, CloseUnlock
<1>5. Conservation'
  BY DEF Conservation, CloseUnlock
<1> QED
  BY <1>1, <1>2, <1>3, <1>4, <1>5

LEMMA WaitInv ==
    ASSUME PipelineInv, NEW c \in Closers, Wait(c) PROVE PipelineInv'
<1> USE DEF PipelineInv, chan, lockRW, emitter, worker
<1>1. TypeOK'
  BY PipelineConstants DEF TypeOK, Wait
<1>2. LockInv'
  BY PipelineConstants DEF TypeOK, LockInv, Wait
<1>3. ClosedInv'
  BY PipelineConstants DEF TypeOK, LockInv, ClosedInv, Wait
<1>4. WorkerInv'
  BY PipelineConstants DEF TypeOK, ClosedInv, WorkerInv, Wait
<1>5. Conservation'
  BY DEF Conservation, Wait
<1> QED
  BY <1>1, <1>2, <1>3, <1>4, <1>5

\* Every step preserves the invariant.
LEMMA StepInv == PipelineInv /\ [Next]_vars => PipelineInv'
<1> SUFFICES ASSUME PipelineInv, [Next]_vars PROVE PipelineInv'
  OBVIOUS
<1>1. ASSUME NEW e \in Emitters, Emit(e) PROVE PipelineInv'
  BY <1>1, EmitLogInv, EmitLockInv, EmitCheckInv, EmitSendInv, EmitUnlockInv DEF Emit
<1>2. CASE Receive \/ AppendEvent
  BY <1>2, ReceiveInv, AppendEventInv
<1>3. ASSUME NEW c \in Closers, Close(c) PROVE PipelineInv'
  BY <1>3, UninstallInv, CloseLockInv, MarkInv, CloseChannelInv, CloseUnlockInv, WaitInv
     DEF Close
<1>4. CASE UNCHANGED vars
  BY <1>4 DEF vars, chan, lockRW, emitter, worker, PipelineInv, TypeOK, LockInv,
              ClosedInv, WorkerInv, Conservation
<1> QED
  BY <1>1, <1>2, <1>3, <1>4 DEF Next

\* The invariant holds throughout; it contains the type invariant.
THEOREM PipelineInvariant == Spec => []PipelineInv
  BY InitInv, StepInv, PTL DEF Spec

\* Type correctness.
THEOREM TypeCorrect == Spec => []TypeOK
<1>1. PipelineInv => TypeOK
  BY DEF PipelineInv
<1> QED
  BY <1>1, PipelineInvariant, PTL

\* Neither Emit nor close can panic: an emitter about to send finds the channel
\* open, and no closer closes it twice.
THEOREM ChannelSafety == Spec => []NoChannelPanic
<1>1. PipelineInv => NoChannelPanic
  BY DEF PipelineInv, ClosedInv, NoChannelPanic
<1> QED
  BY <1>1, PipelineInvariant, PTL

\* Nothing Emit accepted is lost or reordered before the worker is done with it.
THEOREM NothingLost == Spec => []Conservation
<1>1. PipelineInv => Conservation
  BY DEF PipelineInv
<1> QED
  BY <1>1, PipelineInvariant, PTL

\* Once a cleanup call has returned, every accepted event has been handled.
THEOREM CleanupIsComplete == Spec => []CleanupDrains
<1>1. PipelineInv => CleanupDrains
  <2> SUFFICES ASSUME PipelineInv, NEW c \in Closers, cpc[c] = "done"
               PROVE  wpc = "done" /\ handled = accepted
    BY DEF CleanupDrains
  <2>1. wpc = "done" /\ current = <<>> /\ events = <<>>
    BY DEF PipelineInv, WorkerInv
  <2>2. accepted = (handled \o <<>>) \o <<>>
    BY <2>1 DEF PipelineInv, Conservation
  <2>3. handled \o <<>> = handled
    BY ConcatEmptySeq DEF PipelineInv, TypeOK
  <2> QED
    BY <2>1, <2>2, <2>3
<1> QED
  BY <1>1, PipelineInvariant, PTL

-----------------------------------------------------------------------------
(* The refinement of Spool. *)

\* What the worker holds is the next event the spool has to hand on.
LEMMA NextToHandOn ==
    ASSUME PipelineInv, wpc = "append"
    PROVE  /\ Len(handled) < Len(accepted)
           /\ handled \o current = Append(handled, accepted[Len(handled) + 1])
<1>1. PICK x \in Event : current = <<x>>
  BY DEF PipelineInv, WorkerInv
<1>2. /\ handled \in Seq(Event) /\ events \in Seq(Event)
      /\ handled \o current = Append(handled, x)
  BY <1>1, AppendIsConcat DEF PipelineInv, TypeOK
<1>3. accepted = Append(handled, x) \o events
  BY <1>2 DEF PipelineInv, Conservation
<1>4. /\ Append(handled, x) \in Seq(Event)
      /\ Len(Append(handled, x)) = Len(handled) + 1
      /\ Append(handled, x)[Len(handled) + 1] = x
  BY <1>2, AppendProperties
<1>5. Len(events) \in Nat /\ Len(handled) \in Nat
  BY <1>2, LenProperties
<1>6. Len(accepted) = Len(handled) + 1 + Len(events)
  BY <1>2, <1>3, <1>4, ConcatProperties
<1>7. accepted[Len(handled) + 1] = x
  BY <1>2, <1>3, <1>4, <1>5, ConcatProperties
<1> QED
  BY <1>2, <1>5, <1>6, <1>7

\* Every step of the pipeline is a step of the spool or leaves it alone.
LEMMA SpoolStep == PipelineInv /\ [Next]_vars => [Buffer!Next]_(Buffer!vars)
<1> SUFFICES ASSUME PipelineInv, [Next]_vars
             PROVE  Buffer!Next \/ UNCHANGED Buffer!vars
  OBVIOUS
<1> USE DEF Buffer!Next, Buffer!vars, Buffer!Take, Buffer!HandOn, Buffer!Shut, Buffer!Finish
<1> USE DEF chan, lockRW, emitter, worker
<1>1. ASSUME NEW e \in Emitters, EmitSend(e) PROVE Buffer!Next \/ UNCHANGED Buffer!vars
  <2>1. ~closed /\ UNCHANGED <<handled, closed, wpc>>
    BY <1>1 DEF EmitSend, PipelineInv, ClosedInv
  <2>2. <<e, emits[e]>> \in Event
    BY DEF PipelineInv, TypeOK, Event
  <2>3. accepted' = Append(accepted, <<e, emits[e]>>) \/ UNCHANGED accepted
    BY <1>1 DEF EmitSend
  <2> QED
    BY <2>1, <2>2, <2>3
<1>2. CASE AppendEvent
  <2>1. wpc = "append" /\ wpc' = "receive" /\ handled' = handled \o current
        /\ UNCHANGED <<accepted, closed>>
    BY <1>2 DEF AppendEvent
  <2> QED
    BY <2>1, NextToHandOn
<1>3. CASE Receive
  <2>1. wpc = "receive" /\ UNCHANGED <<accepted, handled, closed>>
    BY <1>3 DEF Receive
  <2>2. CASE wpc' = "append"
    BY <2>1, <2>2
  <2>3. CASE wpc' = "done"
    <3>1. current = <<>> /\ events = <<>> /\ closed
      BY <1>3, <2>3 DEF Receive, PipelineInv, WorkerInv, ClosedInv
    <3>2. handled = accepted
      BY <3>1, ConcatEmptySeq DEF PipelineInv, Conservation, TypeOK
    <3> QED
      BY <2>1, <2>3, <3>1, <3>2
  <2> QED
    BY <1>3, <2>2, <2>3 DEF Receive
<1>4. ASSUME NEW c \in Closers, Mark(c) PROVE Buffer!Next \/ UNCHANGED Buffer!vars
  BY <1>4 DEF Mark, PipelineInv, TypeOK
<1>5. ASSUME NEW e \in Emitters, Emit(e), ~EmitSend(e) PROVE UNCHANGED Buffer!vars
  BY <1>5 DEF Emit, EmitLog, EmitLock, EmitCheck, EmitUnlock
<1>6. ASSUME NEW c \in Closers, Close(c), ~Mark(c) PROVE UNCHANGED Buffer!vars
  BY <1>6 DEF Close, Uninstall, CloseLock, CloseChannel, CloseUnlock, Wait
<1>7. CASE UNCHANGED vars
  BY <1>7 DEF vars
<1> QED
  BY <1>1, <1>2, <1>3, <1>4, <1>5, <1>6, <1>7 DEF Next

\* The pipeline implements the spool: what Emit accepts is handed to the queue, or
\* given up with an error log, once and in order, and the worker ends only when
\* the pipeline is closed and nothing is left.
THEOREM ImplementsSpool == Spec => SpoolSpec
<1>1. Init => Buffer!Init
  BY DEF Init, Buffer!Init
<1> QED
  BY <1>1, SpoolStep, PipelineInvariant, PTL DEF Spec, SpoolSpec, Buffer!Spec

-----------------------------------------------------------------------------
(* The inductive invariant of LogDelivery. *)

\* A message has one row when its key is in its table, and none before.
Keyed ==
    \A m \in Persisted : PrimaryKey(m.id) # 0 =>
        rows[m] = IF PrimaryKey(m.id) \in keys[m.kind] THEN 1 ELSE 0

\* Only messages with a table are written.
Unwritten == \A m \in Messages \ Persisted : rows[m] = 0

DeliveryInv == DeliveryTypeOK /\ Keyed /\ Unwritten /\ AckedIsRecorded

-----------------------------------------------------------------------------
\* The largest time that fits leaves room for every sequence number.
LEMMA RoomInKey ==
    ASSUME NEW t \in Nat, t \leq MaxKey \div SequenceLimit
    PROVE  t * SequenceLimit + SequenceLimit - 1 \leq MaxKey
  <1> DEFINE q == MaxKey \div SequenceLimit
  <1>1. SequenceLimit \in Nat \ {0} /\ MaxKey \in Nat
    BY DeliveryConstants
  <1>2. q \in Nat /\ MaxKey = q * SequenceLimit + SequenceLimit - 1
    BY <1>1, DeliveryConstants, Z3
  <1>3. t * SequenceLimit \leq q * SequenceLimit
    <2> HIDE DEF q
    <2> QED
      BY <1>1, <1>2, Z3, t \leq q DEF q
  <1>4. t * SequenceLimit \in Nat /\ q * SequenceLimit \in Nat
    <2> HIDE DEF q
    <2> QED
      BY <1>1, <1>2, Z3
  <1> HIDE DEF q
  <1> QED
    BY <1>1, <1>2, <1>3, <1>4

\* A time and a sequence number make one number, ordered as the pair is.
LEMMA ShiftedOrder ==
    ASSUME NEW L \in Nat \ {0}, NEW t \in Nat, NEW u \in Nat,
           NEW r \in 0..(L - 1), NEW s \in 0..(L - 1)
    PROVE  t < u \/ (t = u /\ r < s) <=> t * L + r < u * L + s
  <1>1. ASSUME NEW a \in Nat, NEW b \in Nat, a < b,
               NEW c \in 0..(L - 1), NEW d \in 0..(L - 1)
        PROVE  a * L + c < b * L + d
    <2>1. (a + 1) * L \leq b * L /\ (a + 1) * L = a * L + L
      BY <1>1, Z3
    <2>2. a * L \in Nat /\ b * L \in Nat
      BY <1>1, Z3
    <2> QED
      BY <1>1, <2>1, <2>2
  <1>2. t * L \in Nat /\ u * L \in Nat
    BY Z3
  <1>3. CASE t < u
    BY <1>1, <1>3
  <1>4. CASE u < t
    <2>1. u * L + s < t * L + r
      BY <1>1, <1>4
    <2> QED
      BY <1>2, <1>4, <2>1
  <1>5. CASE t = u
    BY <1>2, <1>5
  <1> QED
    BY <1>3, <1>4, <1>5

\* LogMessagePrimaryKey gives every id but the missing one a positive int64.
LEMMA KeyRange ==
    ASSUME NEW m \in Messages
    PROVE  /\ m.id = NoID => PrimaryKey(m.id) = 0
           /\ m.id # NoID => PrimaryKey(m.id) \in 1..MaxKey
  <1>1. CASE m.id = NoID
    BY <1>1 DEF PrimaryKey
  <1>2. CASE m.id # NoID /\ Fits(m.id)
    <2>1. PrimaryKey(m.id) = m.id.ts * SequenceLimit + m.id.seq
      BY <1>2 DEF PrimaryKey
    <2>2. /\ m.id.ts \in Nat \ {0} /\ m.id.seq \in 0..(SequenceLimit - 1)
          /\ m.id.ts \leq MaxKey \div SequenceLimit
          /\ SequenceLimit \in Nat \ {0} /\ MaxKey \in Nat
      BY <1>2, DeliveryConstants DEF Fits, StreamID
    <2>3. m.id.ts * SequenceLimit \in Nat \ {0}
      BY <2>2, Z3
    <2>4. m.id.ts * SequenceLimit + SequenceLimit - 1 \leq MaxKey
      BY <2>2, RoomInKey
    <2> QED
      BY <1>2, <2>1, <2>2, <2>3, <2>4
  <1>3. CASE m.id # NoID /\ ~Fits(m.id)
    BY <1>3, DeliveryConstants DEF PrimaryKey
  <1> QED
    BY <1>1, <1>2, <1>3

\* Keys order the ids that fit as the queue ordered them.
LEMMA KeyOrder ==
    ASSUME NEW m \in Messages, NEW n \in Messages, Fits(m.id), Fits(n.id)
    PROVE  Before(m.id, n.id) <=> PrimaryKey(m.id) < PrimaryKey(n.id)
  <1>1. /\ m.id \in StreamID /\ n.id \in StreamID /\ SequenceLimit \in Nat \ {0}
        /\ m.id # NoID /\ n.id # NoID
    BY DeliveryConstants DEF Fits
  <1>2. /\ PrimaryKey(m.id) = m.id.ts * SequenceLimit + m.id.seq
        /\ PrimaryKey(n.id) = n.id.ts * SequenceLimit + n.id.seq
    BY <1>1 DEF PrimaryKey
  <1>3. /\ m.id.ts \in Nat /\ m.id.seq \in 0..(SequenceLimit - 1)
        /\ n.id.ts \in Nat /\ n.id.seq \in 0..(SequenceLimit - 1)
    BY <1>1 DEF Fits, StreamID
  <1>4. Before(m.id, n.id)
            <=> m.id.ts * SequenceLimit + m.id.seq < n.id.ts * SequenceLimit + n.id.seq
    BY <1>1, <1>3, ShiftedOrder DEF Before
  <1> QED
    BY <1>2, <1>4

-----------------------------------------------------------------------------
LEMMA DeliveryInitInv == DeliveryInit => DeliveryInv
  BY DeliveryConstants DEF DeliveryInit, DeliveryInv, DeliveryTypeOK, Keyed, Unwritten, AckedIsRecorded, Persisted

\* What a successful insert, or one that failed after it wrote, does to the tables.
LEMMA WriteInv ==
    ASSUME DeliveryInv, NEW m \in Persisted, Write(m)
    PROVE  /\ keys' \in [Tables -> SUBSET Int] /\ rows' \in [Messages -> Nat]
           /\ Keyed' /\ Unwritten'
           /\ rows'[m] \geq 1 /\ \A n \in Messages : rows'[n] \geq rows[n]
  <1> DEFINE key == PrimaryKey(m.id)
  <1>1. /\ key \in Int /\ m \in Messages /\ m.kind \in Tables
        /\ keys \in [Tables -> SUBSET Int] /\ rows \in [Messages -> Nat]
    BY KeyRange DEF DeliveryInv, DeliveryTypeOK, Persisted
  <1>2. keys' \in [Tables -> SUBSET Int] /\ rows' \in [Messages -> Nat]
    BY <1>1 DEF Write
  <1>3. rows'[m] = rows[m] + 1 /\ \A n \in Messages \ {m} : rows'[n] = rows[n]
    BY <1>1 DEF Write
  <1>4. Unwritten'
    BY <1>3 DEF Unwritten, DeliveryInv, Persisted
  <1>5. ASSUME NEW n \in Persisted, PrimaryKey(n.id) # 0
        PROVE  rows'[n] = IF PrimaryKey(n.id) \in keys'[n.kind] THEN 1 ELSE 0
    <2>1. n \in Messages /\ n.kind \in Tables
      BY DEF Persisted
    <2>2. rows[n] = IF PrimaryKey(n.id) \in keys[n.kind] THEN 1 ELSE 0
      BY <1>5 DEF DeliveryInv, Keyed
    <2>3. CASE n = m
      BY <1>1, <1>3, <1>5, <2>2, <2>3 DEF Write
    <2>4. CASE n # m
      <3>1. PrimaryKey(n.id) \in keys'[n.kind] <=> PrimaryKey(n.id) \in keys[n.kind]
        BY <1>1, <1>5, <2>1, <2>4, DistinctKeys DEF Write
      <3> QED
        BY <1>3, <2>1, <2>2, <2>4, <3>1
    <2> QED
      BY <2>3, <2>4
  <1>6. Keyed'
    BY <1>5 DEF Keyed, Persisted
  <1> QED
    BY <1>1, <1>2, <1>3, <1>4, <1>6

\* Every step keeps the inductive invariant.
LEMMA DeliveryNextInv == DeliveryInv /\ [DeliveryNext]_deliveryVars => DeliveryInv'
  <1> SUFFICES ASSUME DeliveryInv, [DeliveryNext]_deliveryVars PROVE DeliveryInv'
    OBVIOUS
  <1> USE DEF DeliveryInv
  <1>1. ASSUME NEW c \in Consumers, NEW m \in Messages, Deliver(c, m) PROVE DeliveryInv'
    <2>1. DeliveryTypeOK'
      BY <1>1 DEF Deliver, DeliveryTypeOK, Persisted
    <2> QED
      BY <1>1, <2>1 DEF Deliver, Keyed, Unwritten, AckedIsRecorded, Persisted
  <1>2. ASSUME NEW c \in Consumers, NEW m \in Messages, Create(c, m) PROVE DeliveryInv'
    <2>1. m \in Persisted
      BY <1>2 DEF Create, DeliveryTypeOK
    <2>2. CASE Write(m)
      <3>1. /\ keys' \in [Tables -> SUBSET Int] /\ rows' \in [Messages -> Nat]
            /\ Keyed' /\ Unwritten'
            /\ rows'[m] \geq 1 /\ \A n \in Messages : rows'[n] \geq rows[n]
        BY <2>1, <2>2, WriteInv
      <3>2. DeliveryTypeOK'
        BY <1>2, <2>1, <3>1, KeyRange DEF Create, DeliveryTypeOK, Persisted
      <3>3. AckedIsRecorded'
        BY <1>2, <2>1, <3>1 DEF Create, DeliveryTypeOK, Persisted, AckedIsRecorded
      <3> QED
        BY <3>1, <3>2, <3>3
    <2>3. CASE UNCHANGED <<keys, rows>> /\ acked' = acked
      <3>1. DeliveryTypeOK'
        BY <1>2, <2>1, <2>3, KeyRange DEF Create, DeliveryTypeOK, Persisted
      <3> QED
        BY <2>3, <3>1 DEF Keyed, Unwritten, AckedIsRecorded, Persisted
    <2> QED
      BY <1>2, <2>2, <2>3 DEF Create
  <1>3. ASSUME NEW c \in Consumers, NEW m \in Messages, Exists(c, m) PROVE DeliveryInv'
    <2>1. m \in Persisted /\ m.id # NoID /\ PrimaryKey(m.id) # 0
      BY <1>3, KeyRange DEF Exists, DeliveryTypeOK, Persisted
    <2>2. DeliveryTypeOK'
      BY <1>3, <2>1 DEF Exists, DeliveryTypeOK
    <2>3. Keyed' /\ Unwritten'
      BY <1>3 DEF Exists, Keyed, Unwritten, Persisted
    <2>4. PrimaryKey(m.id) \in keys[m.kind] => rows[m] = 1
      BY <2>1 DEF Keyed
    <2>5. AckedIsRecorded'
      BY <1>3, <2>4 DEF Exists, AckedIsRecorded
    <2> QED
      BY <2>2, <2>3, <2>5
  <1>4. ASSUME NEW c \in Consumers, NEW m \in Messages, Die(c, m) PROVE DeliveryInv'
    <2>1. DeliveryTypeOK'
      BY <1>4 DEF Die, DeliveryTypeOK
    <2> QED
      BY <1>4, <2>1 DEF Die, Keyed, Unwritten, AckedIsRecorded, Persisted
  <1>5. CASE UNCHANGED deliveryVars
    BY <1>5 DEF deliveryVars, DeliveryTypeOK, Keyed, Unwritten, AckedIsRecorded, Persisted
  <1> QED
    BY <1>1, <1>2, <1>3, <1>4, <1>5 DEF DeliveryNext

\* The invariant holds throughout; it contains the type invariant.
THEOREM DeliveryInvariant == DeliverySpec => []DeliveryInv
  BY DeliveryInitInv, DeliveryNextInv, PTL DEF DeliverySpec

\* Type correctness.
THEOREM DeliveryTypeCorrect == DeliverySpec => []DeliveryTypeOK
  <1>1. DeliveryInv => DeliveryTypeOK
    BY DEF DeliveryInv
  <1> QED
    BY <1>1, DeliveryInvariant, PTL

\* persist is idempotent: an event whose message has an id is recorded at most once.
THEOREM Idempotent == DeliverySpec => []RecordedOnce
  <1>1. DeliveryInv => RecordedOnce
    <2> SUFFICES ASSUME DeliveryInv, NEW m \in Messages, m.id # NoID PROVE rows[m] \leq 1
      BY DEF RecordedOnce
    <2>1. PrimaryKey(m.id) # 0
      BY KeyRange
    <2> QED
      BY <2>1 DEF DeliveryInv, Keyed, Unwritten, Persisted
  <1> QED
    BY <1>1, DeliveryInvariant, PTL

\* Rows are found under keys in range, in the order of the queue.
THEOREM OrderedKeys == DeliverySpec => []KeysFollowQueue
  <1>1. DeliveryInv => KeysFollowQueue
    <2> SUFFICES ASSUME DeliveryInv PROVE KeysFollowQueue
      OBVIOUS
    <2>1. ASSUME NEW m \in Messages, rows[m] > 0, m.id # NoID
          PROVE  PrimaryKey(m.id) \in keys[m.kind] \cap 1..MaxKey
      <3>1. PrimaryKey(m.id) \in 1..MaxKey /\ PrimaryKey(m.id) # 0
        BY <2>1, KeyRange
      <3>2. m \in Persisted
        BY <2>1 DEF DeliveryInv, Unwritten
      <3> QED
        BY <2>1, <3>1, <3>2 DEF DeliveryInv, Keyed
    <2> QED
      BY <2>1, KeyOrder DEF KeysFollowQueue
  <1> QED
    BY <1>1, DeliveryInvariant, PTL

\* A message the queue is told to forget is in its table.
THEOREM NothingForgotten == DeliverySpec => []AckedIsRecorded
  <1>1. DeliveryInv => AckedIsRecorded
    BY DEF DeliveryInv
  <1> QED
    BY <1>1, DeliveryInvariant, PTL
=============================================================================
