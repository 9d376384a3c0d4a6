------------------------- MODULE JobSchedulerProofs -------------------------
(***************************************************************************)
(* Theorems about JobScheduler, for any jobs, callers, bounds and number   *)
(* of restarts.                                                            *)
(***************************************************************************)
EXTENDS JobScheduler, TLAPS

-----------------------------------------------------------------------------
(* The inductive invariant. *)

\* Who holds scheduleMu, and which of its holders has a frame.
ReloadPhases == {"list", "each", "stopping", "starting", "rollback", "undoing", "error"}
LockDiscipline ==
    /\ mu = None => frame = NoFrame
    /\ mu = Main <=> phase \in ReloadPhases
    /\ phase \in {"list", "each", "rollback", "error"} => frame = NoFrame
    /\ frame = NoFrame => phase \notin {"stopping", "starting", "undoing"}

\* The rollback never leaves the slice it walks.
UndoInRange ==
    /\ undo \leq Len(startedJobs)
    /\ phase = "undoing" => undo > 0

\* The frame's entry is the row's as long as the row may still name one, and the
\* row is what the operation last wrote.
FrameKnowsRow ==
    /\ frame.pc \in {"stop.update", "start.register", "start.update"} =>
            (row[frame.job] > 0 => frame.entry = row[frame.job])
    /\ frame.pc = "stop.remove" => row[frame.job] = 0
    /\ frame.pc = "start.replace" => row[frame.job] = frame.new

SchedulerInv ==
    TypeOK /\ LockDiscipline /\ UndoInRange /\ FrameKnowsRow /\ TimersAccounted

-----------------------------------------------------------------------------
\* A frame whose pc is not "none" belongs to a startJob or stopJob under way.
LEMMA FrameActive ==
    ASSUME NEW f \in Frame, f.pc # "none" PROVE f \in ActiveFrame
  BY DEF Frame, NoFrame

\* The fields of such a frame, which is never the empty one.
LEMMA ActiveFields ==
    ASSUME NEW f \in ActiveFrame
    PROVE  /\ f # NoFrame /\ f.pc # "none"
           /\ f.job \in Jobs /\ f.entry \in Nat /\ f.new \in Nat
  BY DEF ActiveFrame, NoFrame

\* FrameAt builds such a frame.
LEMMA FrameAtActive ==
    ASSUME NEW pc \in {"stop.find", "start.find"}, NEW j \in Jobs, NEW e \in Nat
    PROVE  /\ FrameAt(pc, j, e) \in ActiveFrame
           /\ FrameAt(pc, j, e).pc = pc
  BY DEF ActiveFrame, FrameAt

\* A first process on a fresh store satisfies the invariant.
LEMMA InitInv == Init => SchedulerInv
<1> SUFFICES ASSUME Init PROVE SchedulerInv
  OBVIOUS
<1> USE DEF Init, ProcessInit
<1>1. TypeOK
  <2>1. calls \in [Callers -> Call] /\ frame \in Frame
    BY DEF Call, Frame
  <2>2. timers \in SUBSET Timer /\ startedJobs \in Seq(JobRecord)
    OBVIOUS
  <2> QED
    BY <2>1, <2>2 DEF TypeOK, Phases
<1>2. LockDiscipline
  BY SchedulerConstants DEF LockDiscipline, ReloadPhases
<1>3. UndoInRange /\ FrameKnowsRow /\ TimersAccounted
  BY DEF UndoInRange, FrameKnowsRow, TimersAccounted, NoFrame
<1> QED
  BY <1>1, <1>2, <1>3 DEF SchedulerInv

LEMMA StopFindInv == SchedulerInv /\ StopFind => SchedulerInv'
<1> SUFFICES ASSUME SchedulerInv, StopFind PROVE SchedulerInv'
  OBVIOUS
<1> USE DEF SchedulerInv, store, cronVars, reloading, server
<1>1. frame \in ActiveFrame
  BY FrameActive DEF TypeOK, StopFind
<1>2. frame # NoFrame /\ frame.job \in Jobs /\ frame.entry \in Nat /\ frame.new \in Nat
  BY <1>1, ActiveFields
<1>3. frame' \in ActiveFrame /\ frame'.job = frame.job
  BY <1>1, <1>2 DEF TypeOK, StopFind, EffectiveEntry, Goto, ActiveFrame
<1>4. frame' # NoFrame
  BY <1>3, ActiveFields
<1>5. TypeOK'
  <2>1. frame' \in Frame
    BY <1>3 DEF Frame
  <2> QED
    BY <1>2, <2>1 DEF TypeOK, StopFind, EffectiveEntry, Goto, Timer
<1>6. LockDiscipline' /\ UndoInRange'
  BY <1>2, <1>4 DEF StopFind, LockDiscipline, UndoInRange
<1>7. FrameKnowsRow'
  BY <1>1, <1>2 DEF TypeOK, StopFind, EffectiveEntry, Goto, FrameKnowsRow, ActiveFrame
<1>8. TimersAccounted'
  <2> SUFFICES ASSUME NEW t \in timers'
               PROVE  (row[t.job] = t.id \/ BeingRegistered(t) \/ BeingRemoved(t))'
    BY DEF TimersAccounted
  <2> QED
    BY <1>1, <1>2 DEF TypeOK, StopFind, EffectiveEntry, Goto, FrameKnowsRow, TimersAccounted,
                  BeingRegistered, BeingRemoved, ActiveFrame, Timer
<1> QED
  BY <1>5, <1>6, <1>7, <1>8

LEMMA StopUpdateInv == SchedulerInv /\ StopUpdate => SchedulerInv'
<1> SUFFICES ASSUME SchedulerInv, StopUpdate PROVE SchedulerInv'
  OBVIOUS
<1> USE DEF SchedulerInv, store, cronVars, reloading, server
<1>1. frame \in ActiveFrame
  BY FrameActive DEF TypeOK, StopUpdate
<1>2. frame # NoFrame /\ frame.job \in Jobs /\ frame.entry \in Nat /\ frame.new \in Nat
  BY <1>1, ActiveFields
<1>3. frame' \in ActiveFrame /\ frame'.job = frame.job
  BY <1>1, <1>2 DEF TypeOK, StopUpdate, Goto, ActiveFrame
<1>4. frame' # NoFrame
  BY <1>3, ActiveFields
<1>5. TypeOK'
  <2>1. frame' \in Frame
    BY <1>3 DEF Frame
  <2>2. row \in [Jobs -> Nat]
    BY DEF TypeOK
  <2>3. row' = [row EXCEPT ![frame.job] = 0] \/ row' = row
    BY DEF StopUpdate
  <2>4. row' \in [Jobs -> Nat]
    BY <2>2, <2>3
  <2> QED
    BY <2>1, <2>4 DEF TypeOK, StopUpdate, Timer
<1>6. LockDiscipline' /\ UndoInRange'
  BY <1>2, <1>4 DEF StopUpdate, LockDiscipline, UndoInRange
<1>7. FrameKnowsRow'
  BY <1>1, <1>2 DEF TypeOK, StopUpdate, Goto, FrameKnowsRow, ActiveFrame
<1>8. TimersAccounted'
  <2> SUFFICES ASSUME NEW t \in timers'
               PROVE  (row[t.job] = t.id \/ BeingRegistered(t) \/ BeingRemoved(t))'
    BY DEF TimersAccounted
  <2> QED
    BY <1>1, <1>2 DEF TypeOK, StopUpdate, Goto, FrameKnowsRow, TimersAccounted,
                  BeingRegistered, BeingRemoved, ActiveFrame, Timer
<1> QED
  BY <1>5, <1>6, <1>7, <1>8

LEMMA StopRemoveInv == SchedulerInv /\ StopRemove => SchedulerInv'
<1> SUFFICES ASSUME SchedulerInv, StopRemove PROVE SchedulerInv'
  OBVIOUS
<1> USE DEF SchedulerInv, store, cronVars, reloading, server
<1>1. frame \in ActiveFrame
  BY FrameActive DEF TypeOK, StopRemove
<1>2. frame # NoFrame /\ frame.job \in Jobs /\ frame.entry \in Nat /\ frame.new \in Nat
  BY <1>1, ActiveFields
<1>3. frame' \in ActiveFrame /\ frame'.job = frame.job
  BY <1>1, <1>2 DEF TypeOK, StopRemove, StopTimerJob, ActiveFrame
<1>4. frame' # NoFrame
  BY <1>3, ActiveFields
<1>5. TypeOK'
  <2>1. frame' \in Frame
    BY <1>3 DEF Frame
  <2> QED
    BY <1>2, <2>1 DEF TypeOK, StopRemove, StopTimerJob, Timer
<1>6. LockDiscipline' /\ UndoInRange'
  BY <1>2, <1>4 DEF StopRemove, LockDiscipline, UndoInRange
<1>7. FrameKnowsRow'
  BY <1>1, <1>2 DEF TypeOK, StopRemove, StopTimerJob, FrameKnowsRow, ActiveFrame
<1>8. TimersAccounted'
  <2> SUFFICES ASSUME NEW t \in timers'
               PROVE  (row[t.job] = t.id \/ BeingRegistered(t) \/ BeingRemoved(t))'
    BY DEF TimersAccounted
  <2> QED
    BY <1>1, <1>2 DEF TypeOK, StopRemove, StopTimerJob, FrameKnowsRow, TimersAccounted,
                  BeingRegistered, BeingRemoved, ActiveFrame, Timer
<1> QED
  BY <1>5, <1>6, <1>7, <1>8

LEMMA StartFindInv == SchedulerInv /\ StartFind => SchedulerInv'
<1> SUFFICES ASSUME SchedulerInv, StartFind PROVE SchedulerInv'
  OBVIOUS
<1> USE DEF SchedulerInv, store, cronVars, reloading, server
<1>1. frame \in ActiveFrame
  BY FrameActive DEF TypeOK, StartFind
<1>2. frame # NoFrame /\ frame.job \in Jobs /\ frame.entry \in Nat /\ frame.new \in Nat
  BY <1>1, ActiveFields
<1>3. frame' \in ActiveFrame /\ frame'.job = frame.job
  BY <1>1, <1>2 DEF TypeOK, StartFind, EffectiveEntry, Goto, ActiveFrame
<1>4. frame' # NoFrame
  BY <1>3, ActiveFields
<1>5. TypeOK'
  <2>1. frame' \in Frame
    BY <1>3 DEF Frame
  <2> QED
    BY <1>2, <2>1 DEF TypeOK, StartFind, EffectiveEntry, Goto, Timer
<1>6. LockDiscipline' /\ UndoInRange'
  BY <1>2, <1>4 DEF StartFind, LockDiscipline, UndoInRange
<1>7. FrameKnowsRow'
  BY <1>1, <1>2 DEF TypeOK, StartFind, EffectiveEntry, Goto, FrameKnowsRow, ActiveFrame
<1>8. TimersAccounted'
  <2> SUFFICES ASSUME NEW t \in timers'
               PROVE  (row[t.job] = t.id \/ BeingRegistered(t) \/ BeingRemoved(t))'
    BY DEF TimersAccounted
  <2> QED
    BY <1>1, <1>2 DEF TypeOK, StartFind, EffectiveEntry, Goto, FrameKnowsRow, TimersAccounted,
                  BeingRegistered, BeingRemoved, ActiveFrame, Timer
<1> QED
  BY <1>5, <1>6, <1>7, <1>8

LEMMA StartRegisterInv == SchedulerInv /\ StartRegister => SchedulerInv'
<1> SUFFICES ASSUME SchedulerInv, StartRegister PROVE SchedulerInv'
  OBVIOUS
<1> USE DEF SchedulerInv, store, cronVars, reloading, server
<1>1. frame \in ActiveFrame
  BY FrameActive DEF TypeOK, StartRegister
<1>2. frame # NoFrame /\ frame.job \in Jobs /\ frame.entry \in Nat /\ frame.new \in Nat
  BY <1>1, ActiveFields
<1>9. lastID + 1 \in Nat \ {0}
  BY DEF TypeOK
<1>10. \/ frame' = [frame EXCEPT !.pc = "start.update", !.new = lastID + 1]
      \/ frame' = [frame EXCEPT !.pc = "fail"]
  BY DEF StartRegister, Goto
<1>3. frame' \in ActiveFrame /\ frame'.job = frame.job
  BY <1>1, <1>9, <1>10 DEF ActiveFrame
<1>4. frame' # NoFrame
  BY <1>3, ActiveFields
<1>5. TypeOK'
  <2>1. frame' \in Frame
    BY <1>3 DEF Frame
  <2> QED
    BY <1>2, <2>1 DEF TypeOK, StartRegister, ExecutionContext, Goto, Timer
<1>6. LockDiscipline' /\ UndoInRange'
  BY <1>2, <1>4 DEF StartRegister, LockDiscipline, UndoInRange
<1>7. FrameKnowsRow'
  BY <1>1, <1>2 DEF TypeOK, StartRegister, ExecutionContext, Goto, FrameKnowsRow, ActiveFrame
<1>8. TimersAccounted'
  <2> SUFFICES ASSUME NEW t \in timers'
               PROVE  (row[t.job] = t.id \/ BeingRegistered(t) \/ BeingRemoved(t))'
    BY DEF TimersAccounted
  <2>1. frame.pc = "start.register" /\ row' = row
    BY DEF StartRegister
  <2>2. CASE t \in timers
    BY <2>1, <2>2 DEF TimersAccounted, BeingRegistered, BeingRemoved
  <2>3. CASE t \notin timers
    <3>1. /\ t = [id |-> lastID + 1, job |-> frame.job, ctx |-> ExecutionContext]
          /\ frame' = [frame EXCEPT !.pc = "start.update", !.new = lastID + 1]
      BY <2>3 DEF StartRegister
    <3>2. frame'.pc = "start.update" /\ frame'.new = lastID + 1
      BY <3>1, <1>1 DEF ActiveFrame
    <3> QED
      BY <3>1, <3>2, <1>3 DEF BeingRegistered
  <2> QED
    BY <2>2, <2>3
<1> QED
  BY <1>5, <1>6, <1>7, <1>8

LEMMA StartUpdateInv == SchedulerInv /\ StartUpdate => SchedulerInv'
<1> SUFFICES ASSUME SchedulerInv, StartUpdate PROVE SchedulerInv'
  OBVIOUS
<1> USE DEF SchedulerInv, store, cronVars, reloading, server
<1>1. frame \in ActiveFrame
  BY FrameActive DEF TypeOK, StartUpdate
<1>2. frame # NoFrame /\ frame.job \in Jobs /\ frame.entry \in Nat /\ frame.new \in Nat
  BY <1>1, ActiveFields
<1>3. frame' \in ActiveFrame /\ frame'.job = frame.job
  BY <1>1, <1>2 DEF TypeOK, StartUpdate, Goto, ActiveFrame
<1>4. frame' # NoFrame
  BY <1>3, ActiveFields
<1>5. TypeOK'
  <2>1. frame' \in Frame
    BY <1>3 DEF Frame
  <2> QED
    BY <1>2, <2>1 DEF TypeOK, StartUpdate, Goto, Timer
<1>6. LockDiscipline' /\ UndoInRange'
  BY <1>2, <1>4 DEF StartUpdate, LockDiscipline, UndoInRange
<1>7. FrameKnowsRow'
  BY <1>1, <1>2 DEF TypeOK, StartUpdate, Goto, FrameKnowsRow, ActiveFrame
<1>8. TimersAccounted'
  <2> SUFFICES ASSUME NEW t \in timers'
               PROVE  (row[t.job] = t.id \/ BeingRegistered(t) \/ BeingRemoved(t))'
    BY DEF TimersAccounted
  <2> QED
    BY <1>1, <1>2 DEF TypeOK, StartUpdate, Goto, FrameKnowsRow, TimersAccounted,
                  BeingRegistered, BeingRemoved, ActiveFrame, Timer
<1> QED
  BY <1>5, <1>6, <1>7, <1>8

LEMMA StartUndoInv == SchedulerInv /\ StartUndo => SchedulerInv'
<1> SUFFICES ASSUME SchedulerInv, StartUndo PROVE SchedulerInv'
  OBVIOUS
<1> USE DEF SchedulerInv, store, cronVars, reloading, server
<1>1. frame \in ActiveFrame
  BY FrameActive DEF TypeOK, StartUndo
<1>2. frame # NoFrame /\ frame.job \in Jobs /\ frame.entry \in Nat /\ frame.new \in Nat
  BY <1>1, ActiveFields
<1>3. frame' \in ActiveFrame /\ frame'.job = frame.job
  BY <1>1, <1>2 DEF TypeOK, StartUndo, StopTimerJob, Goto, ActiveFrame
<1>4. frame' # NoFrame
  BY <1>3, ActiveFields
<1>5. TypeOK'
  <2>1. frame' \in Frame
    BY <1>3 DEF Frame
  <2> QED
    BY <1>2, <2>1 DEF TypeOK, StartUndo, StopTimerJob, Goto, Timer
<1>6. LockDiscipline' /\ UndoInRange'
  BY <1>2, <1>4 DEF StartUndo, LockDiscipline, UndoInRange
<1>7. FrameKnowsRow'
  BY <1>1, <1>2 DEF TypeOK, StartUndo, StopTimerJob, Goto, FrameKnowsRow, ActiveFrame
<1>8. TimersAccounted'
  <2> SUFFICES ASSUME NEW t \in timers'
               PROVE  (row[t.job] = t.id \/ BeingRegistered(t) \/ BeingRemoved(t))'
    BY DEF TimersAccounted
  <2> QED
    BY <1>1, <1>2 DEF TypeOK, StartUndo, StopTimerJob, Goto, FrameKnowsRow, TimersAccounted,
                  BeingRegistered, BeingRemoved, ActiveFrame, Timer
<1> QED
  BY <1>5, <1>6, <1>7, <1>8

LEMMA StartReplaceInv == SchedulerInv /\ StartReplace => SchedulerInv'
<1> SUFFICES ASSUME SchedulerInv, StartReplace PROVE SchedulerInv'
  OBVIOUS
<1> USE DEF SchedulerInv, store, cronVars, reloading, server
<1>1. frame \in ActiveFrame
  BY FrameActive DEF TypeOK, StartReplace
<1>2. frame # NoFrame /\ frame.job \in Jobs /\ frame.entry \in Nat /\ frame.new \in Nat
  BY <1>1, ActiveFields
<1>3. frame' \in ActiveFrame /\ frame'.job = frame.job
  BY <1>1, <1>2 DEF TypeOK, StartReplace, StopTimerJob, ActiveFrame
<1>4. frame' # NoFrame
  BY <1>3, ActiveFields
<1>5. TypeOK'
  <2>1. frame' \in Frame
    BY <1>3 DEF Frame
  <2> QED
    BY <1>2, <2>1 DEF TypeOK, StartReplace, StopTimerJob, Timer
<1>6. LockDiscipline' /\ UndoInRange'
  BY <1>2, <1>4 DEF StartReplace, LockDiscipline, UndoInRange
<1>7. FrameKnowsRow'
  BY <1>1, <1>2 DEF TypeOK, StartReplace, StopTimerJob, FrameKnowsRow, ActiveFrame
<1>8. TimersAccounted'
  <2> SUFFICES ASSUME NEW t \in timers'
               PROVE  (row[t.job] = t.id \/ BeingRegistered(t) \/ BeingRemoved(t))'
    BY DEF TimersAccounted
  <2> QED
    BY <1>1, <1>2 DEF TypeOK, StartReplace, StopTimerJob, FrameKnowsRow, TimersAccounted,
                  BeingRegistered, BeingRemoved, ActiveFrame, Timer
<1> QED
  BY <1>5, <1>6, <1>7, <1>8

LEMMA CallJobInv ==
    ASSUME SchedulerInv, NEW c \in Callers, NEW kind \in {"start", "stop"}, NEW j \in Jobs,
           NEW entry \in {0, row[j]}, CallJob(c, kind, j, entry) PROVE SchedulerInv'
<1> USE DEF SchedulerInv, store, cronVars, reloading, server
<1>3. TypeOK'
  BY SchedulerConstants DEF TypeOK, CallJob, Frame, Phases, Call
<1>4. LockDiscipline'
  BY SchedulerConstants DEF TypeOK, CallJob, LockDiscipline, ReloadPhases
<1>5. UndoInRange'
  BY DEF TypeOK, CallJob, UndoInRange
<1>6. FrameKnowsRow' /\ TimersAccounted'
  BY DEF TypeOK, CallJob, FrameKnowsRow, TimersAccounted, BeingRegistered, BeingRemoved, LockDiscipline, NoFrame
<1> QED
  BY <1>3, <1>4, <1>5, <1>6

LEMMA LockCallInv ==
    ASSUME SchedulerInv, NEW c \in Callers, LockCall(c) PROVE SchedulerInv'
<1> USE DEF SchedulerInv, store, cronVars, reloading, server
<1>1. frame' \in ActiveFrame /\ frame'.pc \in {"stop.find", "start.find"}
  BY FrameAtActive DEF TypeOK, LockCall, Call
<1>2. frame' # NoFrame /\ frame'.job \in Jobs
  BY <1>1, ActiveFields
<1>3. TypeOK'
  BY <1>1, <1>2, SchedulerConstants DEF TypeOK, LockCall, Frame, Phases, Call
<1>4. LockDiscipline'
  BY <1>1, <1>2, SchedulerConstants DEF TypeOK, LockCall, LockDiscipline, ReloadPhases
<1>5. UndoInRange'
  BY <1>1, <1>2 DEF TypeOK, LockCall, UndoInRange
<1>6. FrameKnowsRow' /\ TimersAccounted'
  BY <1>1, <1>2 DEF TypeOK, LockCall, FrameKnowsRow, TimersAccounted, BeingRegistered, BeingRemoved, LockDiscipline, NoFrame
<1> QED
  BY <1>3, <1>4, <1>5, <1>6

LEMMA ReturnCallInv ==
    ASSUME SchedulerInv, NEW c \in Callers, ReturnCall(c) PROVE SchedulerInv'
<1> USE DEF SchedulerInv, store, cronVars, reloading, server
<1>3. TypeOK'
  BY SchedulerConstants DEF TypeOK, ReturnCall, Frame, Phases, Call
<1>4. LockDiscipline'
  BY SchedulerConstants DEF TypeOK, ReturnCall, LockDiscipline, ReloadPhases
<1>5. UndoInRange'
  BY DEF TypeOK, ReturnCall, UndoInRange
<1>6. FrameKnowsRow' /\ TimersAccounted'
  BY DEF TypeOK, ReturnCall, FrameKnowsRow, TimersAccounted, BeingRegistered, BeingRemoved, LockDiscipline, NoFrame
<1> QED
  BY <1>3, <1>4, <1>5, <1>6

LEMMA ServerStartInv ==
    ASSUME SchedulerInv, ServerStart PROVE SchedulerInv'
<1> USE DEF SchedulerInv, store, cronVars, reloading, server
<1>3. TypeOK'
  BY SchedulerConstants DEF TypeOK, ServerStart, Frame, Phases
<1>4. LockDiscipline'
  BY SchedulerConstants DEF TypeOK, ServerStart, LockDiscipline, ReloadPhases
<1>5. UndoInRange'
  BY DEF TypeOK, ServerStart, UndoInRange
<1>6. FrameKnowsRow' /\ TimersAccounted'
  BY DEF TypeOK, ServerStart, FrameKnowsRow, TimersAccounted, BeingRegistered, BeingRemoved, LockDiscipline, NoFrame
<1> QED
  BY <1>3, <1>4, <1>5, <1>6

LEMMA ReloadLockInv ==
    ASSUME SchedulerInv, ReloadLock PROVE SchedulerInv'
<1> USE DEF SchedulerInv, store, cronVars, reloading, server
<1>3. TypeOK'
  BY SchedulerConstants DEF TypeOK, ReloadLock, Frame, Phases
<1>4. LockDiscipline'
  BY SchedulerConstants DEF TypeOK, ReloadLock, LockDiscipline, ReloadPhases
<1>5. UndoInRange'
  BY DEF TypeOK, ReloadLock, UndoInRange
<1>6. FrameKnowsRow' /\ TimersAccounted'
  BY DEF TypeOK, ReloadLock, FrameKnowsRow, TimersAccounted, BeingRegistered, BeingRemoved, LockDiscipline, NoFrame
<1> QED
  BY <1>3, <1>4, <1>5, <1>6

LEMMA ReloadListInv ==
    ASSUME SchedulerInv, ReloadList PROVE SchedulerInv'
<1> USE DEF SchedulerInv, store, cronVars, reloading, server
<1>1. startedJobs' \in Seq(JobRecord) /\ undo' \in Nat /\ listed' \in [Jobs -> Nat]
  <2>1. CASE startedJobs' = <<>> /\ undo' = 0 /\ listed' = row
    BY <2>1 DEF TypeOK
  <2>2. CASE UNCHANGED reloading
    BY <2>2 DEF TypeOK
  <2> QED
    BY <2>1, <2>2 DEF ReloadList
<1>3. TypeOK'
  BY <1>1, SchedulerConstants DEF TypeOK, ReloadList, Frame, Phases
<1>4. LockDiscipline'
  BY SchedulerConstants DEF TypeOK, ReloadList, LockDiscipline, ReloadPhases
<1>5. UndoInRange'
  BY DEF TypeOK, ReloadList, UndoInRange
<1>6. FrameKnowsRow' /\ TimersAccounted'
  BY DEF TypeOK, ReloadList, FrameKnowsRow, TimersAccounted, BeingRegistered, BeingRemoved, LockDiscipline, NoFrame
<1> QED
  BY <1>3, <1>4, <1>5, <1>6

LEMMA ReloadNextInv ==
    ASSUME SchedulerInv, NEW j \in Jobs, ReloadNext(j) PROVE SchedulerInv'
<1> USE DEF SchedulerInv, store, cronVars, reloading, server
<1>1. frame' \in ActiveFrame /\ frame'.pc = "stop.find"
  BY FrameAtActive DEF TypeOK, ReloadNext
<1>2. frame' # NoFrame /\ frame'.job \in Jobs
  BY <1>1, ActiveFields
<1>3. TypeOK'
  BY <1>1, <1>2, SchedulerConstants DEF TypeOK, ReloadNext, Frame, Phases
<1>4. LockDiscipline'
  BY <1>1, <1>2, SchedulerConstants DEF TypeOK, ReloadNext, LockDiscipline, ReloadPhases
<1>5. UndoInRange'
  BY <1>1, <1>2 DEF TypeOK, ReloadNext, UndoInRange
<1>6. FrameKnowsRow' /\ TimersAccounted'
  BY <1>1, <1>2 DEF TypeOK, ReloadNext, FrameKnowsRow, TimersAccounted, BeingRegistered, BeingRemoved, LockDiscipline, NoFrame
<1> QED
  BY <1>3, <1>4, <1>5, <1>6

LEMMA ReloadStoppedInv ==
    ASSUME SchedulerInv, ReloadStopped PROVE SchedulerInv'
<1> USE DEF SchedulerInv, store, cronVars, reloading, server
<1>1. frame \in ActiveFrame /\ frame.job \in Jobs /\ frame.entry \in Nat
  BY FrameActive, ActiveFields DEF TypeOK, ReloadStopped
<1>2. \/ /\ phase' \in {"each", "error"} /\ frame' = NoFrame
      \/ /\ phase' = "starting" /\ frame' \in ActiveFrame /\ frame' # NoFrame
         /\ frame'.pc = "start.find"
  BY <1>1, FrameAtActive, ActiveFields DEF ReloadStopped
<1>3. TypeOK'
  BY <1>2 DEF TypeOK, ReloadStopped, Frame, Phases
<1>4. LockDiscipline'
  BY <1>2, SchedulerConstants DEF TypeOK, ReloadStopped, LockDiscipline, ReloadPhases
<1>5. UndoInRange'
  BY DEF TypeOK, ReloadStopped, FrameAt, UndoInRange
<1>6. FrameKnowsRow' /\ TimersAccounted'
  BY DEF TypeOK, ReloadStopped, FrameAt, FrameKnowsRow, TimersAccounted, BeingRegistered, BeingRemoved, LockDiscipline, NoFrame
<1> QED
  BY <1>3, <1>4, <1>5, <1>6

LEMMA ReloadStartedInv ==
    ASSUME SchedulerInv, ReloadStarted PROVE SchedulerInv'
<1> USE DEF SchedulerInv, store, cronVars, reloading, server
<1>1. frame \in ActiveFrame /\ frame.job \in Jobs /\ frame.entry \in Nat
  BY FrameActive, ActiveFields DEF TypeOK, ReloadStarted
<1>2. [job |-> frame.job, entry |-> frame.entry] \in JobRecord
  BY <1>1 DEF JobRecord
<1>7. startedJobs' \in Seq(JobRecord) /\ undo' \in Nat
  <2> DEFINE started == [job |-> frame.job, entry |-> frame.entry]
  <2>1. startedJobs \in Seq(JobRecord) /\ undo \in Nat
    BY DEF TypeOK
  <2>2. Append(startedJobs, started) \in Seq(JobRecord) /\ Len(startedJobs) \in Nat
    BY <2>1, <1>2
  <2>3. \/ startedJobs' = Append(startedJobs, started) /\ undo' = undo
        \/ startedJobs' = startedJobs /\ undo' = Len(startedJobs)
    BY DEF ReloadStarted
  <2> QED
    BY <2>1, <2>2, <2>3, Zenon
<1>3. TypeOK'
  BY <1>7 DEF TypeOK, ReloadStarted, Frame, Phases
<1>4. LockDiscipline'
  BY SchedulerConstants DEF TypeOK, ReloadStarted, LockDiscipline, ReloadPhases
<1>5. UndoInRange'
  BY DEF TypeOK, ReloadStarted, UndoInRange
<1>6. FrameKnowsRow' /\ TimersAccounted'
  BY DEF TypeOK, ReloadStarted, FrameKnowsRow, TimersAccounted, BeingRegistered, BeingRemoved, LockDiscipline, NoFrame
<1> QED
  BY <1>3, <1>4, <1>5, <1>6

LEMMA RollbackNextInv ==
    ASSUME SchedulerInv, RollbackNext PROVE SchedulerInv'
<1> USE DEF SchedulerInv, store, cronVars, reloading, server
<1>1. frame' \in ActiveFrame /\ frame'.pc = "stop.find"
  <2>1. startedJobs[undo] \in JobRecord
    BY DEF TypeOK, RollbackNext, UndoInRange
  <2> QED
    BY <2>1, FrameAtActive DEF RollbackNext, JobRecord
<1>2. frame' # NoFrame /\ frame'.job \in Jobs
  BY <1>1, ActiveFields
<1>3. TypeOK'
  BY <1>1, <1>2, SchedulerConstants DEF TypeOK, RollbackNext, Frame, Phases, UndoInRange
<1>4. LockDiscipline'
  BY <1>1, <1>2, SchedulerConstants DEF TypeOK, RollbackNext, LockDiscipline, ReloadPhases
<1>5. UndoInRange'
  BY <1>1, <1>2 DEF TypeOK, RollbackNext, UndoInRange
<1>6. FrameKnowsRow' /\ TimersAccounted'
  BY <1>1, <1>2 DEF TypeOK, RollbackNext, FrameKnowsRow, TimersAccounted, BeingRegistered, BeingRemoved, LockDiscipline, NoFrame
<1> QED
  BY <1>3, <1>4, <1>5, <1>6

LEMMA RollbackStoppedInv ==
    ASSUME SchedulerInv, RollbackStopped PROVE SchedulerInv'
<1> USE DEF SchedulerInv, store, cronVars, reloading, server
<1>3. TypeOK'
  BY SchedulerConstants DEF TypeOK, RollbackStopped, Frame, Phases, UndoInRange
<1>4. LockDiscipline'
  BY SchedulerConstants DEF TypeOK, RollbackStopped, LockDiscipline, ReloadPhases
<1>5. UndoInRange'
  BY DEF TypeOK, RollbackStopped, UndoInRange
<1>6. FrameKnowsRow' /\ TimersAccounted'
  BY DEF TypeOK, RollbackStopped, FrameKnowsRow, TimersAccounted, BeingRegistered, BeingRemoved, LockDiscipline, NoFrame
<1> QED
  BY <1>3, <1>4, <1>5, <1>6

LEMMA RollbackDoneInv ==
    ASSUME SchedulerInv, RollbackDone PROVE SchedulerInv'
<1> USE DEF SchedulerInv, store, cronVars, reloading, server
<1>3. TypeOK'
  BY SchedulerConstants DEF TypeOK, RollbackDone, Frame, Phases, UndoInRange
<1>4. LockDiscipline'
  BY SchedulerConstants DEF TypeOK, RollbackDone, LockDiscipline, ReloadPhases
<1>5. UndoInRange'
  BY DEF TypeOK, RollbackDone, UndoInRange
<1>6. FrameKnowsRow' /\ TimersAccounted'
  BY DEF TypeOK, RollbackDone, FrameKnowsRow, TimersAccounted, BeingRegistered, BeingRemoved, LockDiscipline, NoFrame
<1> QED
  BY <1>3, <1>4, <1>5, <1>6

LEMMA ReloadDoneInv ==
    ASSUME SchedulerInv, ReloadDone PROVE SchedulerInv'
<1> USE DEF SchedulerInv, store, cronVars, reloading, server
<1>3. TypeOK'
  BY SchedulerConstants DEF TypeOK, ReloadDone, ForgetReload, Frame, Phases
<1>4. LockDiscipline'
  BY SchedulerConstants DEF TypeOK, ReloadDone, ForgetReload, LockDiscipline, ReloadPhases
<1>5. UndoInRange'
  BY DEF TypeOK, ReloadDone, ForgetReload, UndoInRange
<1>6. FrameKnowsRow' /\ TimersAccounted'
  BY DEF TypeOK, ReloadDone, ForgetReload, FrameKnowsRow, TimersAccounted, BeingRegistered, BeingRemoved, LockDiscipline, NoFrame
<1> QED
  BY <1>3, <1>4, <1>5, <1>6

LEMMA ReloadFailedInv ==
    ASSUME SchedulerInv, ReloadFailed PROVE SchedulerInv'
<1> USE DEF SchedulerInv, store, cronVars, reloading, server
<1>1. startedJobs' \in Seq(JobRecord) /\ undo' \in Nat /\ listed' \in [Jobs -> Nat]
  BY DEF TypeOK, ForgetReload, ReloadFailed
<1>3. TypeOK'
  BY <1>1, SchedulerConstants DEF TypeOK, ReloadFailed, ForgetReload, Frame, Phases
<1>4. LockDiscipline'
  BY SchedulerConstants DEF TypeOK, ReloadFailed, ForgetReload, LockDiscipline, ReloadPhases
<1>5. UndoInRange'
  BY DEF TypeOK, ReloadFailed, ForgetReload, UndoInRange
<1>6. FrameKnowsRow' /\ TimersAccounted'
  BY DEF TypeOK, ReloadFailed, ForgetReload, FrameKnowsRow, TimersAccounted, BeingRegistered, BeingRemoved, LockDiscipline, NoFrame
<1> QED
  BY <1>3, <1>4, <1>5, <1>6

LEMMA ServerStopInv ==
    ASSUME SchedulerInv, ServerStop PROVE SchedulerInv'
<1> USE DEF SchedulerInv, store, cronVars, reloading, server
<1>3. TypeOK'
  BY SchedulerConstants DEF TypeOK, ServerStop, Frame, Phases
<1>4. LockDiscipline'
  BY SchedulerConstants DEF TypeOK, ServerStop, LockDiscipline, ReloadPhases
<1>5. UndoInRange'
  BY DEF TypeOK, ServerStop, UndoInRange
<1>6. FrameKnowsRow' /\ TimersAccounted'
  BY DEF TypeOK, ServerStop, FrameKnowsRow, TimersAccounted, BeingRegistered, BeingRemoved, LockDiscipline, NoFrame
<1> QED
  BY <1>3, <1>4, <1>5, <1>6

LEMMA RemoveAllJobsInv ==
    ASSUME SchedulerInv, RemoveAllJobs PROVE SchedulerInv'
<1> USE DEF SchedulerInv, store, cronVars, reloading, server
<1>3. TypeOK'
  BY SchedulerConstants DEF TypeOK, RemoveAllJobs, Frame, Phases
<1>4. LockDiscipline'
  BY SchedulerConstants DEF TypeOK, RemoveAllJobs, LockDiscipline, ReloadPhases
<1>5. UndoInRange'
  BY DEF TypeOK, RemoveAllJobs, UndoInRange
<1>6. FrameKnowsRow' /\ TimersAccounted'
  BY DEF TypeOK, RemoveAllJobs, FrameKnowsRow, TimersAccounted, BeingRegistered, BeingRemoved, LockDiscipline, NoFrame
<1> QED
  BY <1>3, <1>4, <1>5, <1>6

LEMMA ClearExecutionContextInv ==
    ASSUME SchedulerInv, ClearExecutionContext PROVE SchedulerInv'
<1> USE DEF SchedulerInv, store, cronVars, reloading, server
<1>3. TypeOK'
  BY SchedulerConstants DEF TypeOK, ClearExecutionContext, Frame, Phases
<1>4. LockDiscipline'
  BY SchedulerConstants DEF TypeOK, ClearExecutionContext, LockDiscipline, ReloadPhases
<1>5. UndoInRange'
  BY DEF TypeOK, ClearExecutionContext, UndoInRange
<1>6. FrameKnowsRow' /\ TimersAccounted'
  BY DEF TypeOK, ClearExecutionContext, FrameKnowsRow, TimersAccounted, BeingRegistered, BeingRemoved, LockDiscipline, NoFrame
<1> QED
  BY <1>3, <1>4, <1>5, <1>6

LEMMA RestartInv ==
    ASSUME SchedulerInv, Restart PROVE SchedulerInv'
<1> USE DEF SchedulerInv, store, cronVars, reloading, server
<1>1. startedJobs' \in Seq(JobRecord) /\ undo' \in Nat /\ listed' \in [Jobs -> Nat]
  BY DEF TypeOK, ForgetReload, Restart
<1>2. calls' \in [Callers -> Call] /\ frame' \in Frame /\ timers' \in SUBSET Timer
  BY DEF Restart, Call, Frame
<1>3. row' = row /\ enabled' = enabled /\ todo' = {} /\ lastID' = 0 /\ mu' = None
  BY DEF Restart, ForgetReload
<1>4. /\ phase' \in Phases /\ runContext' \in {"nil", "run"} /\ begun' \in SUBSET {"start", "stop"}
      /\ cronOn' \in BOOLEAN /\ cancelled' \in BOOLEAN /\ serving' \in BOOLEAN
      /\ lockerOpen' \in BOOLEAN
  BY DEF Restart, Phases
<1>5. life' \in Nat /\ life' = life + 1
  BY DEF Restart, TypeOK
<1>6. TypeOK'
  BY <1>1, <1>2, <1>3, <1>4, <1>5 DEF TypeOK
<1>7. LockDiscipline'
  BY SchedulerConstants DEF TypeOK, Restart, ForgetReload, LockDiscipline, ReloadPhases
<1>8. UndoInRange'
  BY DEF TypeOK, Restart, ForgetReload, UndoInRange
<1>9. FrameKnowsRow' /\ TimersAccounted'
  BY DEF TypeOK, Restart, ForgetReload, FrameKnowsRow, TimersAccounted, BeingRegistered, BeingRemoved, LockDiscipline, NoFrame
<1> QED
  BY <1>6, <1>7, <1>8, <1>9

\* Every step preserves the invariant.
LEMMA StepInv == SchedulerInv /\ [Next]_vars => SchedulerInv'
<1> SUFFICES ASSUME SchedulerInv, [Next]_vars PROVE SchedulerInv'
  OBVIOUS
<1>1. CASE HolderStep
  BY <1>1, StopFindInv, StopUpdateInv, StopRemoveInv, StartFindInv, StartRegisterInv,
     StartUpdateInv, StartUndoInv, StartReplaceInv DEF HolderStep
<1>2. CASE Calling \/ Locking \/ Returning
  BY <1>2, CallJobInv, LockCallInv, ReturnCallInv DEF Calling, Locking, Returning
<1>3. CASE Reloading
  BY <1>3, ReloadLockInv, ReloadListInv, ReloadNextInv, ReloadStoppedInv, ReloadStartedInv,
     RollbackNextInv, RollbackStoppedInv, RollbackDoneInv, ReloadDoneInv, ReloadFailedInv
     DEF Reloading
<1>4. CASE LifeCycle \/ Restart
  BY <1>4, ServerStartInv, ServerStopInv, RemoveAllJobsInv, ClearExecutionContextInv,
     RestartInv DEF LifeCycle
<1>5. CASE UNCHANGED vars
  BY <1>5 DEF vars, store, cronVars, reloading, server, SchedulerInv, TypeOK, LockDiscipline,
              UndoInRange, FrameKnowsRow, TimersAccounted, BeingRegistered, BeingRemoved
<1> QED
  BY <1>1, <1>2, <1>3, <1>4, <1>5 DEF Next

\* The variables keep their types: the rollback index never leaves the slice, and
\* an entry number is never read from a frame that does not hold one.
THEOREM SchedulerInvariant == Spec => []SchedulerInv
  BY InitInv, StepInv, PTL DEF Spec

\* Type correctness.
THEOREM TypeCorrect == Spec => []TypeOK
<1>1. SchedulerInv => TypeOK
  BY DEF SchedulerInv
<1> QED
  BY <1>1, SchedulerInvariant, PTL

\* At every step, whatever store call failed and wherever an earlier process
\* died, an entry of the cron service is the one its job's row names, the one
\* startJob is registering, or the one the operation under way removes next.
THEOREM AccountedTimers == Spec => []TimersAccounted
<1>1. SchedulerInv => TimersAccounted
  BY DEF SchedulerInv
<1> QED
  BY <1>1, SchedulerInvariant, PTL

\* No orphan timer: with scheduleMu free, Stop and the next Start find every
\* entry of the cron service through its job's row.
THEOREM OrphanFree == Spec => []NoOrphanTimer
<1>1. SchedulerInv => NoOrphanTimer
  BY DEF SchedulerInv, LockDiscipline, TimersAccounted, BeingRegistered, BeingRemoved,
         NoOrphanTimer, NoFrame
<1> QED
  BY <1>1, SchedulerInvariant, PTL

-----------------------------------------------------------------------------
(* The life cycle of the server, on top of the invariant. *)

\* What a server that loads or serves still has.
ServerState ==
    /\ life > 0
    /\ begun = {} => phase = "idle" /\ lockerOpen /\ ~cancelled
    /\ serving => phase = "idle" /\ "start" \in begun
    /\ phase \in {"lock"} \cup ReloadPhases => "start" \in begun
    /\ serving \/ phase \in ReloadPhases => runContext = "run"
    /\ serving \/ phase \in {"lock"} \cup ReloadPhases =>
            "stop" \in begun \/ (cronOn /\ lockerOpen /\ ~cancelled)

\* An operation under scheduleMu leaves the life cycle alone.
LEMMA HolderKeeps == HolderStep => UNCHANGED <<mu, calls, enabled, cronOn, phase, reloading, server, life>>
  BY DEF HolderStep, StopFind, StopUpdate, StopRemove, StartFind, StartRegister, StartUpdate,
         StartUndo, StartReplace, store, cronVars, reloading, server

\* So do the calls of the host, which change nothing but the lock and the frame.
LEMMA CallersKeep ==
    Calling \/ Locking \/ Returning => UNCHANGED <<store, cronVars, phase, reloading, server, life>>
  BY DEF Calling, Locking, Returning, CallJob, LockCall, ReturnCall

\* A reload changes the store and the cron service only through such operations.
LEMMA ReloadKeeps == Reloading => UNCHANGED <<store, timers, lastID, calls, life, begun, lockerOpen>>
  BY DEF Reloading, ReloadLock, ReloadList, ReloadNext, ReloadStopped, ReloadStarted, RollbackNext,
         RollbackStopped, RollbackDone, ReloadDone, ReloadFailed, store, cronVars, server

LEMMA ServerStateStep == SchedulerInv /\ ServerState /\ [Next]_vars => ServerState'
<1> SUFFICES ASSUME SchedulerInv, ServerState, [Next]_vars PROVE ServerState'
  OBVIOUS
<1>0. /\ life \in Nat /\ begun \in SUBSET {"start", "stop"}
      /\ serving \in BOOLEAN /\ cancelled \in BOOLEAN /\ cronOn \in BOOLEAN /\ lockerOpen \in BOOLEAN
  BY DEF SchedulerInv, TypeOK
<1> USE DEF ServerState, ReloadPhases, store, cronVars, reloading, server
<1>1. CASE HolderStep
  BY <1>1, HolderKeeps
<1>2. CASE Calling \/ Locking \/ Returning
  BY <1>2, CallersKeep
<1>3. CASE ReloadLock
  BY <1>3 DEF ReloadLock
<1>4. CASE ReloadList
  BY <1>4 DEF ReloadList
<1>5. CASE \E j \in Jobs : ReloadNext(j)
  BY <1>5 DEF ReloadNext
<1>6. CASE ReloadStopped
  BY <1>6 DEF ReloadStopped
<1>7. CASE ReloadStarted
  BY <1>7 DEF ReloadStarted
<1>8. CASE RollbackNext \/ RollbackStopped \/ RollbackDone
  BY <1>8 DEF RollbackNext, RollbackStopped, RollbackDone
<1>9. CASE ReloadDone
  BY <1>9 DEF ReloadDone
<1>10. CASE ReloadFailed
  BY <1>10 DEF ReloadFailed
<1>11. CASE ServerStart
  BY <1>0, <1>11 DEF ServerStart
<1>12. CASE ServerStop
  BY <1>12 DEF ServerStop
<1>13. CASE RemoveAllJobs \/ ClearExecutionContext
  BY <1>13 DEF RemoveAllJobs, ClearExecutionContext
<1>14. CASE Restart
  BY <1>0, <1>14 DEF Restart
<1>15. CASE UNCHANGED vars
  BY <1>15 DEF vars
<1> QED
  BY <1>1, <1>2, <1>3, <1>4, <1>5, <1>6, <1>7, <1>8, <1>9, <1>10, <1>11, <1>12, <1>13, <1>14, <1>15
     DEF Next, Reloading, LifeCycle

-----------------------------------------------------------------------------
(* What the operations that a reload makes have done. *)

\* The frame before and after a step of startJob or stopJob.
LEMMA HolderFrame ==
    ASSUME SchedulerInv, HolderStep
    PROVE  /\ frame \in ActiveFrame /\ frame' \in ActiveFrame
           /\ frame.job \in Jobs /\ frame'.job = frame.job
           /\ frame.entry \in Nat /\ frame.new \in Nat
           /\ frame # NoFrame /\ frame' # NoFrame
<1>1. frame \in ActiveFrame /\ lastID + 1 \in Nat
  BY FrameActive DEF SchedulerInv, TypeOK, HolderStep, StopFind, StopUpdate, StopRemove, StartFind,
     StartRegister, StartUpdate, StartUndo, StartReplace
<1>2. frame.job \in Jobs /\ frame.entry \in Nat /\ frame.new \in Nat
  BY <1>1, ActiveFields
<1>3. EffectiveEntry(frame.job, frame.entry) \in Nat
  BY <1>2 DEF SchedulerInv, TypeOK, EffectiveEntry
<1>4. frame' \in ActiveFrame /\ frame'.job = frame.job
  <2>1. CASE StopFind \/ StartFind
    BY <1>1, <1>3, <2>1 DEF StopFind, StartFind, Goto, ActiveFrame
  <2>2. CASE StopUpdate \/ StartUpdate \/ StartUndo
    BY <1>1, <2>2 DEF StopUpdate, StartUpdate, StartUndo, Goto, ActiveFrame
  <2>4. CASE StopRemove
    BY <1>1, <2>4 DEF StopRemove, ActiveFrame
  <2>3. CASE StartRegister \/ StartReplace
    BY <1>1, <1>2, <2>3 DEF StartRegister, StartReplace, Goto, ActiveFrame
  <2> QED
    BY <2>1, <2>2, <2>3, <2>4 DEF HolderStep
<1> QED
  BY <1>1, <1>2, <1>4, ActiveFields

\* A stop that a reload asked for and that succeeded left neither a number in the row
\* nor an entry of its job.
StopFrames ==
    phase \in {"stopping", "undoing"} =>
        /\ frame.pc \in {"stop.find", "stop.update", "stop.remove", "ok", "fail"}
        /\ frame.pc = "ok" => row[frame.job] = 0 /\ \A t \in timers : t.job # frame.job

LEMMA StopFramesStep == SchedulerInv /\ StopFrames /\ [Next]_vars => StopFrames'
<1> SUFFICES ASSUME SchedulerInv, StopFrames, [Next]_vars, phase' \in {"stopping", "undoing"}
             PROVE  StopFrames'
  BY DEF StopFrames
<1>1. CASE HolderStep
  <2>1. phase \in {"stopping", "undoing"} /\ phase' = phase
    BY <1>1, HolderKeeps
  <2>2. frame \in ActiveFrame /\ frame.job \in Jobs /\ frame'.job = frame.job
    BY <1>1, HolderFrame
  <2>3. CASE StopFind \/ StopUpdate
    BY <2>1, <2>2, <2>3 DEF StopFind, StopUpdate, Goto, StopFrames, ActiveFrame
  \* An entry its row does not name is the one that is removed here.
  <2>4. CASE StopRemove
    <3>1. frame.pc = "stop.remove" /\ frame'.pc = "ok" /\ row' = row
      BY <2>2, <2>4 DEF StopRemove, store, ActiveFrame
    <3>2. row[frame.job] = 0
      BY <3>1 DEF SchedulerInv, FrameKnowsRow
    <3>3. ASSUME NEW t \in timers', t.job = frame.job PROVE FALSE
      <4>1. t \in timers /\ t.id \in Nat \ {0}
        BY <2>4, <3>3 DEF StopRemove, StopTimerJob, SchedulerInv, TypeOK, Timer
      <4>2. t.id = frame.entry
        BY <3>1, <3>2, <3>3, <4>1 DEF SchedulerInv, TimersAccounted, BeingRegistered, BeingRemoved
      <4> QED
        BY <2>4, <4>1, <4>2 DEF StopRemove, StopTimerJob
    <3> QED
      BY <2>2, <3>1, <3>2, <3>3 DEF StopFrames
  <2>5. CASE StartFind \/ StartRegister \/ StartUpdate \/ StartUndo \/ StartReplace
    BY <2>1, <2>5 DEF StartFind, StartRegister, StartUpdate, StartUndo, StartReplace, StopFrames
  <2> QED
    BY <1>1, <2>3, <2>4, <2>5 DEF HolderStep
<1>2. CASE Calling \/ Locking \/ Returning
  BY <1>2, SchedulerConstants DEF Calling, Locking, Returning, CallJob, LockCall, ReturnCall,
     SchedulerInv, LockDiscipline, ReloadPhases, StopFrames, store, cronVars
<1>3. CASE Reloading
  <2>1. (\E j \in Jobs : ReloadNext(j)) \/ RollbackNext
    BY <1>3 DEF Reloading, ReloadLock, ReloadList, ReloadStopped, ReloadStarted,
       RollbackStopped, RollbackDone, ReloadDone, ReloadFailed
  <2>2. frame'.pc = "stop.find"
    BY <2>1 DEF ReloadNext, RollbackNext, FrameAt
  <2> QED
    BY <2>2 DEF StopFrames
<1>4. CASE LifeCycle \/ Restart
  BY <1>4 DEF LifeCycle, ServerStart, ServerStop, RemoveAllJobs, ClearExecutionContext, Restart
<1>5. CASE UNCHANGED vars
  BY <1>5 DEF vars, store, cronVars, StopFrames
<1> QED
  BY <1>1, <1>2, <1>3, <1>4, <1>5 DEF Next

\* An entry registered before the run context was there belongs to a row the reload
\* has still to visit, or to stop.
CallerTimers ==
    \A t \in timers : t.ctx # "run" =>
        /\ ~serving
        /\ phase \in {"each", "stopping", "starting"} =>
             \/ t.job \in todo
             \/ phase = "stopping" /\ frame.job = t.job /\ frame.pc # "ok"

LEMMA CallerTimersStep ==
    SchedulerInv /\ ServerState /\ StopFrames /\ StopFrames' /\ CallerTimers /\ [Next]_vars
        => CallerTimers'
<1> SUFFICES ASSUME SchedulerInv, ServerState, StopFrames, StopFrames', CallerTimers, [Next]_vars,
                    NEW t \in timers', t.ctx # "run"
             PROVE  (/\ ~serving
                     /\ phase \in {"each", "stopping", "starting"} =>
                          \/ t.job \in todo
                          \/ phase = "stopping" /\ frame.job = t.job /\ frame.pc # "ok")'
  BY DEF CallerTimers
<1>1. CASE HolderStep
  <2>1. UNCHANGED <<phase, todo, serving>> /\ frame'.job = frame.job
    BY <1>1, HolderKeeps, HolderFrame DEF reloading, server
  \* With a run context startJob registers with it.
  <2>2. CASE t \notin timers
    <3>1. StartRegister /\ runContext # "run"
      BY <1>1, <2>2 DEF HolderStep, StopFind, StopUpdate, StopRemove, StartFind, StartRegister,
         StartUpdate, StartUndo, StartReplace, StopTimerJob, cronVars, ExecutionContext
    <3> QED
      BY <2>1, <3>1 DEF ServerState, ReloadPhases
  <2>3. CASE t \in timers
    BY <2>1, <2>3 DEF CallerTimers, StopFrames
  <2> QED
    BY <2>2, <2>3
<1>2. CASE Calling \/ Locking \/ Returning
  <2>1. UNCHANGED <<timers, phase, todo, serving>>
    BY <1>2, CallersKeep DEF cronVars, reloading, server
  <2>2. phase # "stopping" \/ frame' = frame
    BY <1>2, SchedulerConstants DEF Calling, Locking, Returning, CallJob, LockCall, ReturnCall,
       SchedulerInv, LockDiscipline, ReloadPhases
  <2> QED
    BY <2>1, <2>2 DEF CallerTimers
<1>3. CASE Reloading
  <2>1. t \in timers /\ t.job \in Jobs
    BY <1>3, ReloadKeeps DEF SchedulerInv, TypeOK, Timer
  <2>2. CASE ReloadLock \/ ReloadList \/ ReloadDone
    BY <2>1, <2>2 DEF ReloadLock, ReloadList, ReloadDone, ServerState, ReloadPhases, CallerTimers,
       server, SchedulerInv, LockDiscipline
  <2>3. CASE \E j \in Jobs : ReloadNext(j)
    BY <2>1, <2>3 DEF ReloadNext, FrameAt, CallerTimers, server
  <2>4. CASE ReloadStopped
    <3>1. ~serving /\ (t.job \in todo \/ frame.pc # "ok")
      BY <2>1, <2>4 DEF ReloadStopped, CallerTimers
    <3>2. frame.pc # "ok" => phase' = "error"
      BY <2>4 DEF ReloadStopped
    <3> QED
      BY <2>4, <3>1, <3>2 DEF ReloadStopped, reloading, server
  <2>5. CASE ReloadStarted \/ RollbackNext \/ RollbackStopped \/ RollbackDone \/ ReloadFailed
    BY <2>1, <2>5 DEF ReloadStarted, RollbackNext, RollbackStopped, RollbackDone, ReloadFailed,
       CallerTimers, server
  <2> QED
    BY <1>3, <2>2, <2>3, <2>4, <2>5 DEF Reloading
<1>4. CASE LifeCycle \/ Restart
  BY <1>4 DEF LifeCycle, ServerStart, ServerStop, RemoveAllJobs, ClearExecutionContext, Restart,
     CallerTimers, cronVars, server
<1>5. CASE UNCHANGED vars
  BY <1>5 DEF vars, cronVars, reloading, server, CallerTimers
<1> QED
  BY <1>1, <1>2, <1>3, <1>4, <1>5 DEF Next

\* The steps of stopJob only take away.
LEMMA StopTakesAway ==
    ASSUME SchedulerInv, HolderStep, frame.pc \in {"stop.find", "stop.update", "stop.remove", "ok", "fail"}
    PROVE  timers' \subseteq timers /\ \A j \in Jobs : row'[j] \in {row[j], 0}
<1>1. StopFind \/ StopUpdate \/ StopRemove
  BY DEF HolderStep, StartFind, StartRegister, StartUpdate, StartUndo, StartReplace
<1>2. timers' \subseteq timers
  BY <1>1 DEF StopFind, StopUpdate, StopRemove, StopTimerJob, cronVars
<1>3. row' = row \/ row' = [row EXCEPT ![frame.job] = 0]
  BY <1>1 DEF StopFind, StopUpdate, StopRemove, store
<1> QED
  BY <1>2, <1>3 DEF SchedulerInv, TypeOK

\* The rollback has cleared the rows and the entries of the jobs it has passed.
Undone ==
    /\ phase = "undoing" => frame.job = startedJobs[undo].job
    /\ phase \in {"rollback", "undoing"} =>
        \A i \in DOMAIN startedJobs : i > undo =>
            /\ row[startedJobs[i].job] = 0
            /\ \A t \in timers : t.job # startedJobs[i].job

LEMMA UndoneStep == SchedulerInv /\ StopFrames /\ Undone /\ [Next]_vars => Undone'
<1> SUFFICES ASSUME SchedulerInv, StopFrames, Undone, [Next]_vars, phase' \in {"rollback", "undoing"}
             PROVE  Undone'
  BY DEF Undone
<1>0. /\ startedJobs \in Seq(JobRecord) /\ undo \in Nat /\ undo \leq Len(startedJobs)
      /\ \A i \in DOMAIN startedJobs : i \in Nat /\ startedJobs[i].job \in Jobs
  <2>1. startedJobs \in Seq(JobRecord) /\ undo \in Nat /\ undo \leq Len(startedJobs)
    BY DEF SchedulerInv, TypeOK, UndoInRange
  <2>2. ASSUME NEW i \in DOMAIN startedJobs PROVE i \in Nat /\ startedJobs[i] \in JobRecord
    BY <2>1
  <2> QED
    BY <2>1, <2>2 DEF JobRecord
<1>1. CASE HolderStep
  <2>1. UNCHANGED <<phase, startedJobs, undo>> /\ frame'.job = frame.job
    BY <1>1, HolderKeeps, HolderFrame DEF reloading
  <2>2. phase = "undoing"
    BY <1>1, <2>1, HolderFrame DEF SchedulerInv, LockDiscipline
  <2>3. timers' \subseteq timers /\ \A j \in Jobs : row'[j] \in {row[j], 0}
    BY <1>1, <2>2, StopTakesAway DEF StopFrames
  <2> QED
    BY <1>0, <2>1, <2>2, <2>3 DEF Undone
<1>2. CASE Calling \/ Locking \/ Returning
  <2>1. UNCHANGED <<row, timers, phase, startedJobs, undo>>
    BY <1>2, CallersKeep DEF store, cronVars, reloading
  <2>2. frame' = frame
    BY <1>2, <2>1, SchedulerConstants DEF Calling, Locking, Returning, CallJob, LockCall, ReturnCall,
       SchedulerInv, LockDiscipline, ReloadPhases
  <2> QED
    BY <2>1, <2>2 DEF Undone
<1>3. CASE Reloading
  <2>1. UNCHANGED <<row, timers>>
    BY <1>3, ReloadKeeps DEF store
  <2>2. CASE ReloadStarted
    <3>1. phase' = "rollback" /\ startedJobs' = startedJobs /\ undo' = Len(startedJobs)
      BY <2>2 DEF ReloadStarted
    <3> QED
      BY <1>0, <3>1 DEF Undone
  <2>3. CASE RollbackNext
    <3>1. /\ phase = "rollback" /\ UNCHANGED <<startedJobs, undo>>
          /\ frame'.job = startedJobs[undo].job
      BY <2>3 DEF RollbackNext, FrameAt, reloading
    <3> QED
      BY <2>1, <3>1 DEF Undone
  \* The job just stopped is the one at the index that is passed now.
  <2>4. CASE RollbackStopped
    <3>1. /\ phase = "undoing" /\ phase' = "rollback" /\ frame.pc = "ok"
          /\ startedJobs' = startedJobs /\ undo' = undo - 1
      BY <2>4 DEF RollbackStopped
    <3>2. /\ row[startedJobs[undo].job] = 0
          /\ \A t \in timers : t.job # startedJobs[undo].job
      BY <3>1 DEF StopFrames, Undone
    <3>3. ASSUME NEW i \in DOMAIN startedJobs, i > undo - 1
          PROVE  row[startedJobs[i].job] = 0 /\ \A t \in timers : t.job # startedJobs[i].job
      <4>1. i = undo \/ i > undo
        BY <1>0, <3>3
      <4> QED
        BY <3>1, <3>2, <4>1 DEF Undone
    <3> QED
      BY <2>1, <3>1, <3>3 DEF Undone
  <2>5. CASE \/ ReloadLock \/ ReloadList \/ (\E j \in Jobs : ReloadNext(j)) \/ ReloadStopped
             \/ RollbackDone \/ ReloadDone \/ ReloadFailed
    BY <2>5 DEF ReloadLock, ReloadList, ReloadNext, ReloadStopped, RollbackDone, ReloadDone, ReloadFailed
  <2> QED
    BY <1>3, <2>2, <2>3, <2>4, <2>5 DEF Reloading
<1>4. CASE LifeCycle \/ Restart
  BY <1>4 DEF LifeCycle, ServerStart, ServerStop, RemoveAllJobs, ClearExecutionContext, Restart
<1>5. CASE UNCHANGED vars
  BY <1>5 DEF vars, store, cronVars, reloading, Undone
<1> QED
  BY <1>1, <1>2, <1>3, <1>4, <1>5 DEF Next

\* A start that a reload asked for is one of an enabled job, and has stored a number
\* when it returns.
StartFrames ==
    /\ frame.pc \in {"start.update", "start.undo", "start.replace"} => frame.new > 0
    /\ phase = "starting" =>
        /\ frame.job \in enabled
        /\ frame.pc \in {"start.find", "start.register", "start.update", "start.undo",
                         "start.replace", "ok", "fail"}
        /\ frame.pc = "ok" => row[frame.job] > 0

LEMMA StartFramesStep == SchedulerInv /\ StartFrames /\ [Next]_vars => StartFrames'
<1> SUFFICES ASSUME SchedulerInv, StartFrames, [Next]_vars PROVE StartFrames'
  OBVIOUS
<1>1. CASE HolderStep
  <2>1. UNCHANGED <<phase, enabled>>
    BY <1>1, HolderKeeps
  <2>2. frame \in ActiveFrame /\ frame' \in ActiveFrame /\ frame.job \in Jobs /\ frame'.job = frame.job
    BY <1>1, HolderFrame
  <2>3. CASE StopFind \/ StopUpdate \/ StopRemove \/ StartFind
    <3>1. frame'.pc \in {"stop.update", "stop.remove", "start.register", "ok", "fail"}
      BY <2>2, <2>3 DEF StopFind, StopUpdate, StopRemove, StartFind, Goto, ActiveFrame
    <3>2. phase # "starting" \/ frame'.pc \in {"start.register", "fail"}
      BY <2>2, <2>3 DEF StopFind, StopUpdate, StopRemove, StartFind, Goto, ActiveFrame, StartFrames
    <3> QED
      BY <2>1, <2>2, <3>1, <3>2 DEF StartFrames
  <2>4. CASE StartRegister
    <3>1. frame'.pc = "fail" \/ (frame'.pc = "start.update" /\ frame'.new = lastID + 1)
      BY <2>2, <2>4 DEF StartRegister, Goto, ActiveFrame
    <3>2. lastID + 1 > 0
      BY DEF SchedulerInv, TypeOK
    <3> QED
      BY <2>1, <2>2, <3>1, <3>2 DEF StartFrames
  <2>5. CASE StartUpdate \/ StartUndo
    <3>1. frame'.pc \in {"start.undo", "start.replace", "fail"} /\ frame'.new = frame.new
      BY <2>2, <2>5 DEF StartUpdate, StartUndo, Goto, ActiveFrame
    <3>2. frame.new > 0
      BY <2>5 DEF StartUpdate, StartUndo, StartFrames
    <3> QED
      BY <2>1, <2>2, <3>1, <3>2 DEF StartFrames
  <2>6. CASE StartReplace
    <3>1. frame.pc = "start.replace" /\ frame'.pc = "ok" /\ row' = row
      BY <2>2, <2>6 DEF StartReplace, store, ActiveFrame
    <3>2. row[frame.job] > 0
      BY <3>1 DEF SchedulerInv, FrameKnowsRow, StartFrames
    <3> QED
      BY <2>1, <2>2, <3>1, <3>2 DEF StartFrames
  <2> QED
    BY <1>1, <2>3, <2>4, <2>5, <2>6 DEF HolderStep
<1>2. CASE Calling \/ Locking \/ Returning
  <2>1. UNCHANGED <<row, enabled, phase>>
    BY <1>2, CallersKeep DEF store
  <2>2. frame' = frame \/ (phase # "starting" /\ frame'.pc \in {"none", "start.find", "stop.find"})
    BY <1>2, SchedulerConstants DEF Calling, Locking, Returning, CallJob, LockCall, ReturnCall,
       SchedulerInv, LockDiscipline, ReloadPhases, FrameAt, NoFrame
  <2> QED
    BY <2>1, <2>2 DEF StartFrames
<1>3. CASE Reloading
  <2>1. UNCHANGED <<row, enabled>>
    BY <1>3, ReloadKeeps DEF store
  <2>2. CASE ReloadStopped
    <3>1. \/ phase' = "starting" /\ frame.job \in enabled /\ frame'.pc = "start.find" /\ frame'.job = frame.job
          \/ phase' # "starting" /\ frame'.pc = "none"
      BY <2>2 DEF ReloadStopped, FrameAt, NoFrame
    <3> QED
      BY <2>1, <3>1 DEF StartFrames
  <2>3. CASE ~ReloadStopped
    <3>1. phase' # "starting" \/ UNCHANGED <<phase, frame>>
      BY <1>3, <2>3 DEF Reloading, ReloadLock, ReloadList, ReloadNext, ReloadStarted, RollbackNext,
         RollbackStopped, RollbackDone, ReloadDone, ReloadFailed
    <3>2. frame' = frame \/ frame'.pc \in {"none", "stop.find"}
      BY <1>3, <2>3 DEF Reloading, ReloadLock, ReloadList, ReloadNext, ReloadStarted, RollbackNext,
         RollbackStopped, RollbackDone, ReloadDone, ReloadFailed, FrameAt, NoFrame
    <3> QED
      BY <2>1, <3>1, <3>2 DEF StartFrames
  <2> QED
    BY <2>2, <2>3
<1>4. CASE LifeCycle \/ Restart
  <2>1. phase' # "starting" /\ (frame' = frame \/ frame'.pc = "none")
    BY <1>4 DEF LifeCycle, ServerStart, ServerStop, RemoveAllJobs, ClearExecutionContext, Restart, NoFrame
  <2> QED
    BY <2>1 DEF StartFrames
<1>5. CASE UNCHANGED vars
  BY <1>5 DEF vars, store, StartFrames
<1> QED
  BY <1>1, <1>2, <1>3, <1>4, <1>5 DEF Next

\* An operation writes the row of its own job only.
LEMMA HolderRow ==
    ASSUME SchedulerInv, HolderStep
    PROVE  \A j \in Jobs : j # frame.job => row'[j] = row[j]
<1>1. row' = row \/ \E n \in Nat : row' = [row EXCEPT ![frame.job] = n]
  BY HolderFrame DEF HolderStep, StopFind, StopUpdate, StopRemove, StartFind, StartRegister, StartUpdate,
     StartUndo, StartReplace, store
<1> QED
  BY <1>1 DEF SchedulerInv, TypeOK

\* The rows a reload has visited have a number exactly when their job is enabled.
Processed ==
    phase \in {"each", "stopping", "starting"} => \A j \in Jobs \ todo :
        frame.job = j \/ IF j \in enabled THEN row[j] > 0 ELSE row[j] = 0

LEMMA ProcessedStep ==
    SchedulerInv /\ StopFrames /\ StartFrames /\ Processed /\ [Next]_vars => Processed'
<1> SUFFICES ASSUME SchedulerInv, StopFrames, StartFrames, Processed, [Next]_vars,
                    phase' \in {"each", "stopping", "starting"}
             PROVE  Processed'
  BY DEF Processed
<1>0. phase = "each" => frame = NoFrame /\ \A j \in Jobs : frame.job # j
  BY SchedulerConstants DEF SchedulerInv, LockDiscipline, NoFrame
<1>1. CASE HolderStep
  <2>1. UNCHANGED <<phase, enabled, todo>> /\ frame'.job = frame.job
    BY <1>1, HolderKeeps, HolderFrame DEF reloading
  <2> QED
    BY <1>1, <2>1, HolderRow DEF Processed
<1>2. CASE Calling \/ Locking \/ Returning
  <2>1. UNCHANGED <<row, enabled, phase, todo>>
    BY <1>2, CallersKeep DEF store, reloading
  <2>2. frame' = frame
    BY <1>2, <2>1, SchedulerConstants DEF Calling, Locking, Returning, CallJob, LockCall, ReturnCall,
       SchedulerInv, LockDiscipline, ReloadPhases
  <2> QED
    BY <2>1, <2>2 DEF Processed
<1>3. CASE Reloading
  <2>1. UNCHANGED <<row, enabled>>
    BY <1>3, ReloadKeeps DEF store
  <2>2. CASE ReloadList
    BY <2>2 DEF ReloadList, Processed
  <2>3. CASE \E j \in Jobs : ReloadNext(j)
    <3> PICK j \in Jobs : ReloadNext(j)
      BY <2>3
    <3>1. phase = "each" /\ todo' = todo \ {j} /\ frame'.job = j
      BY DEF ReloadNext, FrameAt
    <3> QED
      BY <1>0, <2>1, <3>1 DEF Processed
  <2>4. CASE ReloadStopped
    <3>1. phase = "stopping" /\ todo' = todo /\ frame.pc = "ok"
      BY <2>4 DEF ReloadStopped, reloading
    <3>2. frame'.job = frame.job \/ frame.job \notin enabled
      BY <2>4, <3>1 DEF ReloadStopped, FrameAt
    <3> QED
      BY <2>1, <3>1, <3>2 DEF Processed, StopFrames
  <2>5. CASE ReloadStarted
    <3>1. phase = "starting" /\ todo' = todo /\ frame.pc = "ok"
      BY <2>5 DEF ReloadStarted
    <3> QED
      BY <2>1, <3>1 DEF Processed, StartFrames
  <2>6. CASE \/ ReloadLock \/ RollbackNext \/ RollbackStopped \/ RollbackDone \/ ReloadDone \/ ReloadFailed
    BY <2>6 DEF ReloadLock, RollbackNext, RollbackStopped, RollbackDone, ReloadDone, ReloadFailed
  <2> QED
    BY <1>3, <2>2, <2>3, <2>4, <2>5, <2>6 DEF Reloading
<1>4. CASE LifeCycle \/ Restart
  BY <1>4 DEF LifeCycle, ServerStart, ServerStop, RemoveAllJobs, ClearExecutionContext, Restart
<1>5. CASE UNCHANGED vars
  BY <1>5 DEF vars, store, reloading, Processed
<1> QED
  BY <1>1, <1>2, <1>3, <1>4, <1>5 DEF Next

-----------------------------------------------------------------------------
(* The numbers of entries, in the first process on a store. *)

\* Somebody holds e for a number of job j: its row, the list of a reload, the operation
\* under way, an entry, the caller of an operation or the slice of a reload.
Numbered(j, e) ==
    \/ row[j] = e \/ listed[j] = e
    \/ frame.job = j /\ (frame.entry = e \/ frame.new = e)
    \/ \E t \in timers : t.job = j /\ t.id = e
    \/ \E c \in Callers : calls[c].job = j /\ calls[c].entry = e
    \/ \E i \in DOMAIN startedJobs : startedJobs[i].job = j /\ startedJobs[i].entry = e

\* However stale, a number is never taken for one of another job.
OneOwner ==
    life = 1 => \A e \in Nat \ {0} : \A i, j \in Jobs :
        Numbered(i, e) => e \leq lastID /\ (Numbered(j, e) => i = j)

\* An operation makes up no number but that of the entry it registers.
LEMMA HolderNumbers ==
    ASSUME SchedulerInv, HolderStep, NEW j \in Jobs, NEW e \in Nat \ {0}, Numbered(j, e)'
    PROVE  Numbered(j, e) \/ (j = frame.job /\ e = lastID + 1 /\ lastID' = lastID + 1)
<1>1. frame.job \in Jobs /\ frame'.job = frame.job /\ frame \in ActiveFrame
  BY HolderFrame
<1>2. UNCHANGED <<listed, calls, startedJobs>>
  BY HolderKeeps DEF reloading
<1>3. row'[j] = e => Numbered(j, e)
  <2>1. row' = row \/ row' = [row EXCEPT ![frame.job] = 0] \/ row' = [row EXCEPT ![frame.job] = frame.new]
    BY DEF HolderStep, StopFind, StopUpdate, StopRemove, StartFind, StartRegister, StartUpdate,
       StartUndo, StartReplace, store
  <2> QED
    BY <1>1, <2>1 DEF SchedulerInv, TypeOK, Numbered
<1>4. ASSUME NEW t \in timers', t \notin timers
      PROVE  t.job = frame.job /\ t.id = lastID + 1 /\ lastID' = lastID + 1
  BY <1>4 DEF HolderStep, StopFind, StopUpdate, StopRemove, StartFind, StartRegister, StartUpdate,
     StartUndo, StartReplace, StopTimerJob, cronVars
<1>5. /\ frame'.entry \in {frame.entry, frame.new, row[frame.job], 0}
      /\ frame'.new = frame.new \/ (frame'.new = lastID + 1 /\ lastID' = lastID + 1)
  <2>1. CASE StopFind \/ StartFind
    BY <1>1, <2>1 DEF StopFind, StartFind, EffectiveEntry, Goto, ActiveFrame
  <2>2. CASE StopUpdate \/ StartUpdate \/ StartUndo
    BY <1>1, <2>2 DEF StopUpdate, StartUpdate, StartUndo, Goto, ActiveFrame
  <2>3. CASE StopRemove \/ StartReplace
    BY <1>1, <2>3 DEF StopRemove, StartReplace, ActiveFrame
  <2>4. CASE StartRegister
    BY <1>1, <2>4 DEF StartRegister, Goto, ActiveFrame
  <2> QED
    BY <2>1, <2>2, <2>3, <2>4 DEF HolderStep
<1> QED
  BY <1>1, <1>2, <1>3, <1>4, <1>5 DEF Numbered

\* Every other step hands numbers on, or forgets them.
LEMMA OtherNumbers ==
    ASSUME SchedulerInv, Calling \/ Locking \/ Returning \/ Reloading \/ LifeCycle,
           NEW j \in Jobs, NEW e \in Nat \ {0}, Numbered(j, e)'
    PROVE  Numbered(j, e) /\ lastID' = lastID
<1>0. calls \in [Callers -> Call] /\ startedJobs \in Seq(JobRecord)
  BY DEF SchedulerInv, TypeOK
<1>1. CASE Calling
  <2> PICK c \in Callers, i \in Jobs, kind \in {"start", "stop"} :
           \E entry \in {0, row[i]} : CallJob(c, kind, i, entry)
    BY <1>1 DEF Calling
  <2> PICK entry \in {0, row[i]} : CallJob(c, kind, i, entry)
    OBVIOUS
  <2>1. /\ UNCHANGED <<row, listed, frame, timers, startedJobs, lastID>>
        /\ \A d \in Callers : d # c => calls'[d] = calls[d]
        /\ calls'[c].job = i /\ calls'[c].entry = entry
    BY <1>0 DEF CallJob, store, cronVars, reloading
  <2>2. entry = 0 \/ Numbered(i, entry)
    BY DEF Numbered
  <2> QED
    BY <2>1, <2>2 DEF Numbered
<1>2. CASE Locking
  <2> PICK c \in Callers : LockCall(c)
    BY <1>2 DEF Locking
  <2>1. /\ UNCHANGED <<row, listed, calls, timers, startedJobs, lastID>>
        /\ frame'.job = calls[c].job /\ frame'.entry = calls[c].entry /\ frame'.new = 0
    BY DEF LockCall, FrameAt, store, cronVars, reloading
  <2> QED
    BY <2>1 DEF Numbered
<1>3. CASE Returning
  <2> PICK c \in Callers : ReturnCall(c)
    BY <1>3 DEF Returning
  <2>1. /\ UNCHANGED <<row, listed, timers, startedJobs, lastID>>
        /\ frame'.entry = 0 /\ frame'.new = 0
        /\ \A d \in Callers : calls'[d] = calls[d] \/ calls'[d].entry = 0
    BY <1>0 DEF ReturnCall, NoFrame, NoCall, store, cronVars, reloading
  <2> QED
    BY <2>1 DEF Numbered
<1>4. CASE Reloading
  <2>1. UNCHANGED <<row, timers, lastID, calls>>
    BY <1>4, ReloadKeeps DEF store
  <2>2. CASE ReloadList
    <3>1. frame' = frame
      BY <2>2 DEF ReloadList
    <3>2. \/ listed' = row /\ startedJobs' = <<>>
          \/ UNCHANGED <<listed, startedJobs>>
      BY <2>2 DEF ReloadList, reloading
    <3> QED
      BY <2>1, <3>1, <3>2 DEF Numbered
  <2>3. CASE \E i \in Jobs : ReloadNext(i)
    <3> PICK i \in Jobs : ReloadNext(i)
      BY <2>3
    <3>1. /\ UNCHANGED <<listed, startedJobs>>
          /\ frame'.job = i /\ frame'.entry = listed[i] /\ frame'.new = 0
      BY DEF ReloadNext, FrameAt
    <3> QED
      BY <2>1, <3>1 DEF Numbered
  <2>4. CASE ReloadStopped
    <3>1. /\ UNCHANGED <<listed, startedJobs>>
          /\ \/ frame'.job = frame.job /\ frame'.entry = frame.entry /\ frame'.new = 0
             \/ frame'.entry = 0 /\ frame'.new = 0
      BY <2>4 DEF ReloadStopped, FrameAt, NoFrame, reloading
    <3> QED
      BY <2>1, <3>1 DEF Numbered
  <2>5. CASE ReloadStarted
    <3>1. listed' = listed /\ frame'.entry = 0 /\ frame'.new = 0
      BY <2>5 DEF ReloadStarted, NoFrame
    <3>2. ASSUME NEW i \in DOMAIN startedJobs'
          PROVE  \/ i \in DOMAIN startedJobs /\ startedJobs'[i] = startedJobs[i]
                 \/ startedJobs'[i].job = frame.job /\ startedJobs'[i].entry = frame.entry
      <4>1. startedJobs' = startedJobs \/ startedJobs' = Append(startedJobs, [job |-> frame.job, entry |-> frame.entry])
        BY <2>5 DEF ReloadStarted
      <4> QED
        BY <1>0, <4>1
    <3> QED
      BY <2>1, <3>1, <3>2 DEF Numbered
  <2>6. CASE RollbackNext
    <3>1. undo \in DOMAIN startedJobs
      BY <1>0, <2>6 DEF RollbackNext, SchedulerInv, TypeOK, UndoInRange
    <3>2. /\ UNCHANGED <<listed, startedJobs>> /\ frame'.new = 0
          /\ frame'.job = startedJobs[undo].job /\ frame'.entry = startedJobs[undo].entry
      BY <2>6 DEF RollbackNext, FrameAt, reloading
    <3> QED
      BY <2>1, <3>1, <3>2 DEF Numbered
  <2>7. CASE ReloadLock \/ RollbackStopped \/ RollbackDone \/ ReloadDone \/ ReloadFailed
    <3>1. /\ frame' = frame \/ (frame'.entry = 0 /\ frame'.new = 0)
          /\ UNCHANGED <<listed, startedJobs>> \/ (listed'[j] = 0 /\ startedJobs' = <<>>)
      BY <2>7 DEF ReloadLock, RollbackStopped, RollbackDone, ReloadDone, ReloadFailed, ForgetReload,
         NoFrame, reloading
    <3> QED
      BY <2>1, <3>1 DEF Numbered
  <2> QED
    BY <1>4, <2>1, <2>2, <2>3, <2>4, <2>5, <2>6, <2>7 DEF Reloading
<1>5. CASE LifeCycle
  <2>1. UNCHANGED <<row, listed, frame, calls, startedJobs, lastID>> /\ timers' \subseteq timers
    BY <1>5 DEF LifeCycle, ServerStart, ServerStop, RemoveAllJobs, ClearExecutionContext, store, cronVars, reloading
  <2> QED
    BY <2>1 DEF Numbered
<1> QED
  BY <1>1, <1>2, <1>3, <1>4, <1>5

LEMMA OneOwnerStep == SchedulerInv /\ ServerState /\ OneOwner /\ [Next]_vars => OneOwner'
<1> SUFFICES ASSUME SchedulerInv, ServerState, OneOwner, [Next]_vars, life' = 1,
                    NEW e \in Nat \ {0}, NEW i \in Jobs, NEW j \in Jobs, Numbered(i, e)'
             PROVE  e \leq lastID' /\ (Numbered(j, e)' => i = j)
  BY DEF OneOwner
<1>0. lastID \in Nat /\ life \in Nat
  BY DEF SchedulerInv, TypeOK
<1>1. CASE HolderStep
  <2>1. life = 1
    BY <1>1, HolderKeeps
  <2>2. lastID \leq lastID' /\ lastID' \in Nat
    BY <1>0, <1>1 DEF HolderStep, StopFind, StopUpdate, StopRemove, StartFind, StartRegister,
       StartUpdate, StartUndo, StartReplace, cronVars
  <2>3. /\ Numbered(i, e) \/ (i = frame.job /\ e = lastID + 1 /\ lastID' = lastID + 1)
        /\ Numbered(j, e)' => Numbered(j, e) \/ (j = frame.job /\ e = lastID + 1)
    BY <1>1, HolderNumbers
  <2>4. (Numbered(i, e) \/ Numbered(j, e)) => e \leq lastID
    BY <2>1 DEF OneOwner
  <2> QED
    BY <1>0, <2>1, <2>2, <2>3, <2>4 DEF OneOwner
<1>2. CASE Calling \/ Locking \/ Returning \/ Reloading \/ LifeCycle
  <2>1. life = 1
    BY <1>2, CallersKeep, ReloadKeeps DEF LifeCycle, ServerStart, ServerStop, RemoveAllJobs,
       ClearExecutionContext
  <2>2. Numbered(i, e) /\ lastID' = lastID /\ (Numbered(j, e)' => Numbered(j, e))
    BY <1>2, OtherNumbers
  <2> QED
    BY <2>1, <2>2 DEF OneOwner
<1>3. CASE Restart
  BY <1>0, <1>3 DEF Restart, ServerState
<1>4. CASE UNCHANGED vars
  BY <1>4 DEF vars, store, cronVars, reloading, OneOwner, Numbered
<1> QED
  BY <1>1, <1>2, <1>3, <1>4 DEF Next

\* A new entry is there until its number is stored or the operation has given it up.
Registering ==
    life = 1 =>
        /\ frame.pc \in {"start.update", "start.undo"} => row[frame.job] # frame.new
        /\ (/\ serving \/ phase = "starting"
            /\ frame.pc \in {"start.update", "start.undo", "start.replace"}) =>
                \E t \in timers : t.id = frame.new /\ t.job = frame.job

LEMMA RegisteringStep ==
    SchedulerInv /\ ServerState /\ OneOwner /\ Registering /\ [Next]_vars => Registering'
<1> SUFFICES ASSUME SchedulerInv, ServerState, OneOwner, Registering, [Next]_vars, life' = 1
             PROVE  Registering'
  BY DEF Registering
<1>0. lastID \in Nat /\ life \in Nat /\ row \in [Jobs -> Nat]
  BY DEF SchedulerInv, TypeOK
<1>1. CASE HolderStep
  <2>1. UNCHANGED <<life, phase, serving>>
    BY <1>1, HolderKeeps DEF server
  <2>2. frame \in ActiveFrame /\ frame' \in ActiveFrame /\ frame.job \in Jobs /\ frame'.job = frame.job
    BY <1>1, HolderFrame
  <2>3. CASE StopFind \/ StopUpdate \/ StopRemove \/ StartFind \/ StartUndo \/ StartReplace
    <3>1. frame'.pc \in {"stop.update", "stop.remove", "start.register", "ok", "fail"}
      BY <2>2, <2>3 DEF StopFind, StopUpdate, StopRemove, StartFind, StartUndo, StartReplace, Goto, ActiveFrame
    <3> QED
      BY <3>1 DEF Registering
  \* The number is higher than any that was given out.
  <2>4. CASE StartRegister
    <3>1. CASE frame'.pc = "start.update"
      <4>1. /\ frame'.new = lastID + 1 /\ row' = row
            /\ [id |-> lastID + 1, job |-> frame.job, ctx |-> ExecutionContext] \in timers'
        BY <2>2, <2>4, <3>1 DEF StartRegister, Goto, ActiveFrame, store
      <4>2. row[frame.job] # lastID + 1
        <5>1. row[frame.job] \in Nat /\ Numbered(frame.job, row[frame.job])
          BY <1>0, <2>2 DEF Numbered
        <5>2. row[frame.job] = 0 \/ row[frame.job] \leq lastID
          BY <2>1, <2>2, <5>1 DEF OneOwner
        <5> QED
          BY <1>0, <5>1, <5>2
      <4> QED
        BY <2>2, <4>1, <4>2 DEF Registering
    <3>2. CASE frame'.pc = "fail"
      BY <3>2 DEF Registering
    <3> QED
      BY <2>2, <2>4, <3>1, <3>2 DEF StartRegister, Goto, ActiveFrame
  <2>5. CASE StartUpdate
    <3>1. /\ frame.pc = "start.update" /\ frame'.pc \in {"start.replace", "start.undo"}
          /\ frame'.new = frame.new /\ timers' = timers
          /\ frame'.pc = "start.undo" => row' = row
      BY <2>2, <2>5 DEF StartUpdate, Goto, ActiveFrame, cronVars
    <3> QED
      BY <2>1, <2>2, <3>1 DEF Registering
  <2> QED
    BY <1>1, <2>3, <2>4, <2>5 DEF HolderStep
<1>2. CASE Calling \/ Locking \/ Returning
  <2>1. UNCHANGED <<row, timers, life, phase, serving>>
    BY <1>2, CallersKeep DEF store, cronVars, server
  <2>2. frame' = frame \/ frame'.pc \in {"none", "start.find", "stop.find"}
    BY <1>2 DEF Calling, Locking, Returning, CallJob, LockCall, ReturnCall, FrameAt, NoFrame
  <2> QED
    BY <2>1, <2>2 DEF Registering
<1>3. CASE Reloading
  <2>1. UNCHANGED <<row, timers, life>>
    BY <1>3, ReloadKeeps DEF store
  <2>2. \/ frame' = frame /\ frame.pc = "none"
        \/ frame' = frame /\ phase' # "starting" /\ ~serving'
        \/ frame'.pc \in {"none", "start.find", "stop.find"}
    BY <1>3 DEF Reloading, ReloadLock, ReloadList, ReloadNext, ReloadStopped, ReloadStarted, RollbackNext,
       RollbackStopped, RollbackDone, ReloadDone, ReloadFailed, FrameAt, NoFrame, server,
       ServerState, SchedulerInv, LockDiscipline, ReloadPhases
  <2> QED
    BY <2>1, <2>2 DEF Registering
<1>4. CASE LifeCycle
  <2>1. /\ UNCHANGED <<row, frame, life>>
        /\ timers' = timers \/ ~serving
        /\ serving' => serving
        /\ phase' # "starting"
    BY <1>4 DEF LifeCycle, ServerStart, ServerStop, RemoveAllJobs, ClearExecutionContext, store, cronVars,
       server, ServerState
  <2> QED
    BY <2>1 DEF Registering
<1>5. CASE Restart
  BY <1>0, <1>5 DEF Restart, ServerState
<1>6. CASE UNCHANGED vars
  BY <1>6 DEF vars, store, cronVars, server, Registering
<1> QED
  BY <1>1, <1>2, <1>3, <1>4, <1>5, <1>6 DEF Next


\* While the first process serves, and for the rows its reload has visited, a number in a
\* row is that of an entry.
Agreed ==
    life = 1 => \A j \in Jobs :
        /\ serving \/ (phase \in {"each", "stopping", "starting"} /\ j \notin todo)
        /\ row[j] > 0
        => \/ \E t \in timers : t.id = row[j] /\ t.job = j
           \/ phase = "stopping" /\ frame.job = j

\* An operation removes no entry that a row names.
LEMMA NamedTimersStay ==
    ASSUME SchedulerInv, OneOwner, Registering, HolderStep, life = 1,
           NEW t \in timers, row[t.job] = t.id, row'[t.job] = row[t.job]
    PROVE  t \in timers'
<1>1. t.id \in Nat \ {0} /\ t.job \in Jobs
  BY DEF SchedulerInv, TypeOK, Timer
<1>2. frame.job \in Jobs /\ frame.entry \in Nat /\ frame.new \in Nat
  BY HolderFrame
\* A number the frame has is not in the row of another job.
<1>3. t.id \in {frame.entry, frame.new} => t.job = frame.job
  BY <1>1, <1>2 DEF OneOwner, Numbered
<1>4. CASE StopFind \/ StopUpdate \/ StartFind \/ StartRegister \/ StartUpdate
  BY <1>4 DEF StopFind, StopUpdate, StartFind, StartRegister, StartUpdate, cronVars
<1>5. CASE StopRemove
  BY <1>1, <1>3, <1>5 DEF StopRemove, StopTimerJob, SchedulerInv, FrameKnowsRow
<1>6. CASE StartUndo
  BY <1>1, <1>3, <1>6 DEF StartUndo, StopTimerJob, Registering
<1>7. CASE StartReplace
  BY <1>1, <1>3, <1>7 DEF StartReplace, StopTimerJob, SchedulerInv, FrameKnowsRow
<1> QED
  BY <1>4, <1>5, <1>6, <1>7 DEF HolderStep

LEMMA AgreedStep ==
    /\ SchedulerInv /\ ServerState /\ StopFrames /\ OneOwner /\ Registering
    /\ Agreed /\ [Next]_vars
    => Agreed'
<1> SUFFICES ASSUME SchedulerInv, ServerState, StopFrames, OneOwner, Registering, Agreed,
                    [Next]_vars, life' = 1, NEW j \in Jobs, row'[j] > 0,
                    (serving \/ (phase \in {"each", "stopping", "starting"} /\ j \notin todo))'
             PROVE  (\/ \E t \in timers : t.id = row[j] /\ t.job = j
                     \/ phase = "stopping" /\ frame.job = j)'
  BY DEF Agreed
<1>0. life \in Nat /\ row \in [Jobs -> Nat]
  BY DEF SchedulerInv, TypeOK
<1>1. CASE HolderStep
  <2>1. UNCHANGED <<life, phase, serving, todo>> /\ frame'.job = frame.job
    BY <1>1, HolderKeeps, HolderFrame DEF reloading, server
  <2>2. CASE row'[j] = row[j]
    <3>1. CASE phase = "stopping" /\ frame.job = j
      BY <2>1, <3>1
    <3>2. CASE \E t \in timers : t.id = row[j] /\ t.job = j
      <4> PICK t \in timers : t.id = row[j] /\ t.job = j
        BY <3>2
      <4>1. t \in timers'
        BY <1>1, <2>1, <2>2, NamedTimersStay
      <4> QED
        BY <2>2, <4>1
    <3> QED
      BY <2>1, <2>2, <3>1, <3>2 DEF Agreed
  \* The only number an operation writes is that of the entry it has registered.
  <2>3. CASE row'[j] # row[j]
    <3>1. StartUpdate /\ j = frame.job /\ row'[j] = frame.new
      BY <1>0, <1>1, <2>3 DEF HolderStep, StopFind, StopUpdate, StopRemove, StartFind, StartRegister,
         StartUpdate, StartUndo, StartReplace, store
    <3>2. frame.pc = "start.update" /\ timers' = timers /\ phase \notin {"each", "stopping"}
      BY <1>1, <3>1, HolderFrame DEF StartUpdate, StopFrames, SchedulerInv, LockDiscipline, cronVars
    <3> QED
      BY <2>1, <3>1, <3>2 DEF Registering
  <2> QED
    BY <2>2, <2>3
<1>2. CASE Calling \/ Locking \/ Returning
  <2>1. UNCHANGED <<row, timers, life, phase, serving, todo>>
    BY <1>2, CallersKeep DEF store, cronVars, reloading, server
  <2>2. phase # "stopping" \/ frame' = frame
    BY <1>2, SchedulerConstants DEF Calling, Locking, Returning, CallJob, LockCall, ReturnCall,
       SchedulerInv, LockDiscipline, ReloadPhases
  <2> QED
    BY <2>1, <2>2 DEF Agreed
<1>3. CASE Reloading
  <2>1. UNCHANGED <<row, timers, life>>
    BY <1>3, ReloadKeeps DEF store
  <2>2. CASE ReloadList
    BY <2>2 DEF ReloadList, ServerState, server
  <2>3. CASE \E i \in Jobs : ReloadNext(i)
    BY <2>1, <2>3 DEF ReloadNext, FrameAt, Agreed, server
  <2>4. CASE ReloadStopped
    <3>1. phase = "stopping" /\ UNCHANGED <<todo, serving>> /\ ~serving
      BY <2>4 DEF ReloadStopped, reloading, server, ServerState
    <3>2. frame.pc = "ok"
      BY <2>4, <3>1 DEF ReloadStopped
    <3> QED
      BY <2>1, <3>1, <3>2 DEF Agreed, StopFrames
  <2>5. CASE ReloadStarted
    BY <2>1, <2>5 DEF ReloadStarted, Agreed, server
  <2>6. CASE ReloadDone
    BY <2>1, <2>6 DEF ReloadDone, Agreed
  <2>7. CASE ReloadLock \/ RollbackNext \/ RollbackStopped \/ RollbackDone \/ ReloadFailed
    BY <2>7 DEF ReloadLock, RollbackNext, RollbackStopped, RollbackDone, ReloadFailed, server, ServerState, ReloadPhases
  <2> QED
    BY <1>3, <2>2, <2>3, <2>4, <2>5, <2>6, <2>7 DEF Reloading
<1>4. CASE LifeCycle
  BY <1>4 DEF LifeCycle, ServerStart, ServerStop, RemoveAllJobs, ClearExecutionContext,
     store, cronVars, server, reloading, ServerState, Agreed
<1>5. CASE Restart
  BY <1>0, <1>5 DEF Restart, ServerState
<1>6. CASE UNCHANGED vars
  BY <1>6 DEF vars, store, cronVars, reloading, server, Agreed
<1> QED
  BY <1>1, <1>2, <1>3, <1>4, <1>5, <1>6 DEF Next


-----------------------------------------------------------------------------
(* The theorems. *)

\* What a reload and a life of the server have established, together.
ReloadInv ==
    /\ ServerState /\ StopFrames /\ StartFrames /\ CallerTimers
    /\ Undone /\ Processed /\ OneOwner /\ Registering /\ Agreed

LEMMA InitReloadInv == Init => ReloadInv
<1> SUFFICES ASSUME Init PROVE ReloadInv
  OBVIOUS
<1>1. ServerState /\ StopFrames /\ StartFrames /\ CallerTimers /\ Undone /\ Processed
        /\ Registering /\ Agreed
  BY DEF Init, ProcessInit, NoFrame, ServerState, ReloadPhases, StopFrames, StartFrames, CallerTimers,
     Undone, Processed, Registering, Agreed
<1>2. OneOwner
  <2>1. ASSUME NEW e \in Nat \ {0}, NEW j \in Jobs PROVE ~Numbered(j, e)
    BY DEF Init, ProcessInit, NoFrame, NoCall, Numbered
  <2> QED
    BY <2>1 DEF OneOwner
<1> QED
  BY <1>1, <1>2 DEF ReloadInv

\* The conjuncts of ReloadInv are kept together: a registration that carries a
\* stale number could undo the agreement of another job, and only OneOwner says
\* that no number is taken for one of another job.
THEOREM ReloadInvariant == Spec => []ReloadInv
<1>1. SchedulerInv /\ SchedulerInv' /\ ReloadInv /\ [Next]_vars => ReloadInv'
  BY ServerStateStep, StopFramesStep, StartFramesStep, CallerTimersStep, UndoneStep, ProcessedStep,
     OneOwnerStep, RegisteringStep, AgreedStep DEF ReloadInv
<1> QED
  BY <1>1, InitReloadInv, SchedulerInvariant, PTL DEF Spec

\* A server that serves has a running cron service, an open locker and a live run
\* context, and its timers run their jobs with it: Server.Start sets the context
\* before the first entry, and Reload replaces those of earlier callers.
THEOREM ServesOperational == Spec => []ServingIsOperational
<1>1. ReloadInv => ServingIsOperational
  BY DEF ReloadInv, ServerState, CallerTimers, ServingIsOperational
<1> QED
  BY <1>1, ReloadInvariant, PTL

\* A rollback of reloadJobs that ran to its end left neither a row nor an entry of
\* the jobs it had started.
THEOREM RollbackIsComplete == Spec => []RollbackUndoesReload
<1>1. SchedulerInv /\ ReloadInv => RollbackUndoesReload
  <2> SUFFICES ASSUME SchedulerInv, Undone, phase = "rollback", undo = 0,
                      NEW i \in DOMAIN startedJobs
               PROVE  /\ row[startedJobs[i].job] = 0
                      /\ \A t \in timers : t.job # startedJobs[i].job
    BY DEF ReloadInv, RollbackUndoesReload
  <2>1. i > undo
    BY DEF SchedulerInv, TypeOK
  <2> QED
    BY <2>1 DEF Undone
<1> QED
  BY <1>1, SchedulerInvariant, ReloadInvariant, PTL

\* In the first process on a store, every number that a row holds while the server
\* serves is that of an entry of its job.
THEOREM StoreAndCronAgree == Spec => []StoreAgreesWithCron
<1>1. ReloadInv => StoreAgreesWithCron
  BY DEF ReloadInv, ServerState, Agreed, FirstProcess, StoreAgreesWithCron
<1> QED
  BY <1>1, ReloadInvariant, PTL

\* In the first process on a store, a Reload that is about to return without error has
\* registered exactly the enabled jobs, each under the number its row holds.
THEOREM ReloadIsExact == Spec => []FirstReloadRegistersEnabled
<1>1. SchedulerInv /\ ReloadInv => FirstReloadRegistersEnabled
  <2> SUFFICES ASSUME SchedulerInv, ReloadInv, life = 1, phase = "each", todo = {}, NEW j \in Jobs
               PROVE  j \in enabled <=> \E t \in timers : t.job = j /\ t.id = row[j]
    BY DEF FirstReloadRegistersEnabled, FirstProcess, ReloadRegistersEnabled
  <2>1. frame = NoFrame /\ frame.job # j
    BY SchedulerConstants DEF SchedulerInv, LockDiscipline, NoFrame
  <2>2. IF j \in enabled THEN row[j] > 0 ELSE row[j] = 0
    BY <2>1 DEF ReloadInv, Processed
  <2>3. row[j] > 0 => \E t \in timers : t.id = row[j] /\ t.job = j
    BY DEF ReloadInv, Agreed
  <2>4. \A t \in timers : t.id \in Nat \ {0}
    BY DEF SchedulerInv, TypeOK, Timer
  <2> QED
    BY <2>2, <2>3, <2>4
<1> QED
  BY <1>1, SchedulerInvariant, ReloadInvariant, PTL
=============================================================================
