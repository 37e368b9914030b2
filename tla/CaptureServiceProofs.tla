------------------------ MODULE CaptureServiceProofs ------------------------
(***************************************************************************)
(* Safety of CaptureService for every number of threads and retries.        *)
(***************************************************************************)
EXTENDS CaptureService, TLAPS

(* A thread only moves, asks for the end of the service, and handles the    *)
(* rebuild request; it never changes what the main thread and the engine    *)
(* keep.                                                                    *)
LEMMA ThreadStepMoves ==
    ASSUME NEW t \in Threads, ThreadStep(t)
    PROVE  /\ \E to \in ThreadPcs : pc' = [pc EXCEPT ![t] = to]
           /\ stopRequested' \in {stopRequested, TRUE}
           /\ recreateRecorderRequested' \in {recreateRecorderRequested, FALSE}
           /\ \/ givenUp' = givenUp
              \/ givenUp' = givenUp \ {t} /\ pc' = [pc EXCEPT ![t] = "ended"]
           /\ UNCHANGED <<mainPc, isServiceDisposing, mediaProjection,
                          isProcessorDisposing, recorderThread, flagVars,
                          sessionLossRetryCount, nThreads, interrupted,
                          closeVars, syncVars>>
<1> USE DEF Goto, ThreadPcs, flagVars, closeVars, syncVars, historyVars
<1>1. CASE LoopHead(t) BY <1>1 DEF LoopHead
<1>2. CASE ClearRequest(t) BY <1>2 DEF ClearRequest
<1>3. CASE Rebuild(t) BY <1>3 DEF Rebuild
<1>4. CASE Fail(t) BY <1>4 DEF Fail
<1>10. CASE IgnoreIOException(t) BY <1>10 DEF IgnoreIOException
<1>5. CASE Gate(t) BY <1>5 DEF Gate
<1>6. CASE Sleep(t) BY <1>6 DEF Sleep
<1>7. CASE ReadBlock(t) BY <1>7 DEF ReadBlock
<1>8. CASE LeaveProcess(t) BY <1>8 DEF LeaveProcess
<1>9. CASE CleanUp(t) BY <1>9 DEF CleanUp
<1> QED
  BY <1>1, <1>2, <1>3, <1>4, <1>5, <1>6, <1>7, <1>8, <1>9, <1>10
  DEF ThreadStep

(* The flags that a thread changes stay flags, and what it noted stays.     *)
LEMMA ThreadStepFlags ==
    ASSUME NEW t \in Threads, ThreadStep(t),
           fresh \in BOOLEAN, quiet \in BOOLEAN, requestTaken \in BOOLEAN
    PROVE  /\ fresh' \in BOOLEAN /\ quiet' \in BOOLEAN
           /\ requestTaken' \in BOOLEAN
           /\ (fresh => fresh') /\ (quiet => quiet')
           /\ requestTaken => requestTaken'
           /\ t # recorderThread /\ recreateRecorderRequested =>
                 recreateRecorderRequested' \/ requestTaken'
<1> USE DEF historyVars
<1>1. CASE LoopHead(t) BY <1>1 DEF LoopHead
<1>2. CASE ClearRequest(t) BY <1>2, Zenon DEF ClearRequest
<1>3. CASE Rebuild(t) BY <1>3, Zenon DEF Rebuild
<1>4. CASE Fail(t) BY <1>4 DEF Fail
<1>10. CASE IgnoreIOException(t) BY <1>10, Zenon DEF IgnoreIOException
<1>5. CASE Gate(t) BY <1>5 DEF Gate
<1>6. CASE Sleep(t) BY <1>6 DEF Sleep
<1>7. CASE ReadBlock(t) BY <1>7 DEF ReadBlock
<1>8. CASE LeaveProcess(t) BY <1>8 DEF LeaveProcess
<1>9. CASE CleanUp(t) BY <1>9 DEF CleanUp
<1> QED
  BY <1>1, <1>2, <1>3, <1>4, <1>5, <1>6, <1>7, <1>8, <1>9, <1>10
  DEF ThreadStep

(* A thread that ever left "unborn" stays born, and goes to its cleanup     *)
(* only when it was told to stop or has asked for the end of the service.   *)
LEMMA ThreadLeavesForAReason ==
    ASSUME NEW t \in Threads, ThreadStep(t), PlacesOK
    PROVE  /\ pc[t] \notin {"unborn", "ended"}
           /\ pc'[t] # "unborn"
           /\ pc'[t] \in {"cleanup", "ended"} =>
                 \/ pc[t] = "cleanup"
                 \/ isProcessorDisposing \/ interrupted[t] \/ stopRequested'
                 \/ t = recorderThread => quiet'
<1> USE DEF Goto, PlacesOK, historyVars
<1>1. CASE LoopHead(t) BY <1>1 DEF LoopHead
<1>2. CASE ClearRequest(t) BY <1>2 DEF ClearRequest
<1>3. CASE Rebuild(t) BY <1>3 DEF Rebuild
<1>4. CASE Fail(t) BY <1>4 DEF Fail
<1>10. CASE IgnoreIOException(t) BY <1>10 DEF IgnoreIOException
<1>5. CASE Gate(t) BY <1>5 DEF Gate
<1>6. CASE Sleep(t) BY <1>6 DEF Sleep
<1>7. CASE ReadBlock(t) BY <1>7 DEF ReadBlock
<1>8. CASE LeaveProcess(t) BY <1>8 DEF LeaveProcess
<1>9. CASE CleanUp(t) BY <1>9 DEF CleanUp
<1> QED
  BY <1>1, <1>2, <1>3, <1>4, <1>5, <1>6, <1>7, <1>8, <1>9, <1>10
  DEF ThreadStep

(* What a restart request of the main thread can do at once: nothing, tell  *)
(* the current thread to stop, or, without one, go on to start another.     *)
LEMMA RestartRecordingMoves ==
    ASSUME RestartRecording
    PROVE  \/ UNCHANGED <<mainPc, isProcessorDisposing, interrupted>>
           \/ /\ recorderThread # Null
              /\ mainPc' = "restartJoin"
              /\ isProcessorDisposing' = TRUE
              /\ interrupted' = [interrupted EXCEPT ![recorderThread] = TRUE]
           \/ /\ recorderThread = Null
              /\ mainPc' = "start"
              /\ UNCHANGED <<isProcessorDisposing, interrupted>>
  BY DEF RestartRecording, BeginStopRecording

(* The Boolean variables and the others are proved apart: one needs         *)
(* propositional, the other arithmetic reasoning.                           *)
LEMMA FlagsOKStep ==
    ASSUME TypeOK, [Next]_vars PROVE FlagsOK'
<1> USE ConstantsAssumption
    DEF TypeOK, FlagsOK, serviceVars, flagVars,
        threadVars, closeVars, syncVars, historyVars
<1>1. CASE OnStartCommand BY <1>1 DEF OnStartCommand
<1>2. CASE StartRecording BY <1>2 DEF StartRecording
<1>3. CASE StartRecordingFails BY <1>3 DEF StartRecordingFails
<1>4. CASE HardReboot
  BY <1>4 DEF HardReboot, RestartRecording, BeginStopRecording
<1>5. CASE RestartJoined BY <1>5 DEF RestartJoined
<1>6. CASE SessionLost
  BY <1>6, ZenonT(40) DEF SessionLost, RestartRecording, BeginStopRecording
<1>7. CASE StopSelf BY <1>7 DEF StopSelf
<1>8. CASE RequestRecreation BY <1>8 DEF RequestRecreation
<1>9. CASE ChangeIdleFlags BY <1>9, ZenonT(40) DEF ChangeIdleFlags
<1>10. CASE BeginDestroy BY <1>10 DEF BeginDestroy
<1>11. CASE DestroyStops BY <1>11 DEF DestroyStops, BeginStopRecording
<1>12. CASE DestroyJoined BY <1>12 DEF DestroyJoined
<1>13. CASE CloseEngine BY <1>13 DEF CloseEngine
<1>14. CASE CloseStep BY <1>14, ZenonT(40) DEF CloseStep, TimerFires, AwaitAndFree, SyncsLeft
<1>15. CASE LaunchSync BY <1>15 DEF LaunchSync
<1>16. CASE SyncStep
  <2>1. CASE BeginSync BY <2>1 DEF BeginSync
  <2>2. CASE EnterSetter BY <2>2 DEF EnterSetter
  <2>3. CASE LeaveSetter BY <2>3 DEF LeaveSetter
  <2>4. CASE EndSync BY <2>4 DEF EndSync
  <2> QED BY <1>16, <2>1, <2>2, <2>3, <2>4 DEF SyncStep
<1>17. ASSUME NEW t \in Threads, ThreadStep(t) PROVE FlagsOK'
  BY <1>17, ThreadStepMoves, ZenonT(40)
<1>18. CASE UNCHANGED vars BY <1>18 DEF vars
<1> QED
  BY <1>1, <1>2, <1>3, <1>4, <1>5, <1>6, <1>7, <1>8, <1>9, <1>10, <1>11,
     <1>12, <1>13, <1>14, <1>15, <1>16, <1>17, <1>18
  DEF Next, MainStep, DestroyStep

LEMMA NotesOKStep ==
    ASSUME TypeOK, [Next]_vars PROVE NotesOK'
<1> USE DEF TypeOK, NotesOK, historyVars
<1>1. CASE MainStep \/ CloseStep \/ LaunchSync \/ SyncStep
  <2>1. /\ fresh' \in {fresh, TRUE, FALSE}
        /\ quiet' \in {quiet, FALSE}
        /\ requestTaken' \in {requestTaken, FALSE}
    BY <1>1
    DEF MainStep, CloseStep, LaunchSync, SyncStep, DestroyStep,
        OnStartCommand, StartRecording, StartRecordingFails, HardReboot,
        RestartJoined, SessionLost, StopSelf, RequestRecreation,
        ChangeIdleFlags, BeginDestroy, DestroyStops, DestroyJoined,
        CloseEngine, TimerFires, AwaitAndFree, BeginSync, EnterSetter,
        LeaveSetter, EndSync
  <2> QED BY <2>1
<1>2. ASSUME NEW t \in Threads, ThreadStep(t) PROVE NotesOK'
  BY <1>2, ThreadStepFlags
<1>3. CASE UNCHANGED vars BY <1>3 DEF vars
<1> QED BY <1>1, <1>2, <1>3 DEF Next

LEMMA PlacesOKStep ==
    ASSUME TypeOK, [Next]_vars PROVE PlacesOK'
<1> USE ConstantsAssumption
    DEF TypeOK, FlagsOK, PlacesOK, MainPcs, ThreadPcs, Threads, Null,
        serviceVars, flagVars, threadVars, closeVars, syncVars, historyVars
<1>1. CASE OnStartCommand BY <1>1 DEF OnStartCommand
<1>2. CASE StartRecording BY <1>2 DEF StartRecording
<1>3. CASE StartRecordingFails BY <1>3 DEF StartRecordingFails
<1>4. CASE HardReboot BY <1>4, RestartRecordingMoves DEF HardReboot
<1>5. CASE RestartJoined
  <2>1. givenUp' \in SUBSET (0 .. MaxThreads)
    BY <1>5 DEF RestartJoined, NoteGivenUp, Alive
  <2> QED BY <1>5, <2>1 DEF RestartJoined
<1>6. CASE SessionLost
  <2>1. CASE RestartRecording /\ sessionLossRetryCount < MaxRetries
    <3>1. sessionLossRetryCount' \in 0 .. MaxRetries
      BY <1>6, <2>1 DEF SessionLost, MayRetry
    <3>2. interrupted' \in [Threads -> BOOLEAN] /\ mainPc' \in MainPcs
      BY <1>6, <2>1, RestartRecordingMoves
    <3> QED BY <1>6, <3>1, <3>2 DEF SessionLost, MayRetry
  <2>2. CASE ~(RestartRecording /\ sessionLossRetryCount < MaxRetries)
    BY <1>6, <2>2 DEF SessionLost, MayRetry
  <2> QED BY <2>1, <2>2
<1>7. CASE StopSelf BY <1>7 DEF StopSelf
<1>8. CASE RequestRecreation BY <1>8 DEF RequestRecreation
<1>9. CASE ChangeIdleFlags BY <1>9 DEF ChangeIdleFlags
<1>10. CASE BeginDestroy BY <1>10 DEF BeginDestroy
<1>11. CASE DestroyStops BY <1>11 DEF DestroyStops, BeginStopRecording
<1>12. CASE DestroyJoined
  <2>1. givenUp' \in SUBSET (0 .. MaxThreads)
    BY <1>12 DEF DestroyJoined, NoteGivenUp, Alive
  <2> QED BY <1>12, <2>1 DEF DestroyJoined
<1>13. CASE CloseEngine BY <1>13 DEF CloseEngine
<1>14. CASE CloseStep BY <1>14 DEF CloseStep, TimerFires, AwaitAndFree, SyncsLeft
<1>15. CASE LaunchSync BY <1>15 DEF LaunchSync
<1>16. CASE SyncStep
  BY <1>16 DEF SyncStep, BeginSync, EnterSetter, LeaveSetter, EndSync
<1>17. ASSUME NEW t \in Threads, ThreadStep(t) PROVE PlacesOK'
  BY <1>17, ThreadStepMoves
<1>18. CASE UNCHANGED vars BY <1>18 DEF vars
<1> QED
  BY <1>1, <1>2, <1>3, <1>4, <1>5, <1>6, <1>7, <1>8, <1>9, <1>10, <1>11,
     <1>12, <1>13, <1>14, <1>15, <1>16, <1>17, <1>18
  DEF Next, MainStep, DestroyStep

LEMMA InitTypeOK == Init => TypeOK
<1>1. Init => FlagsOK BY DEF Init, FlagsOK
<1>2. Init => PlacesOK
  BY ConstantsAssumption
  DEF Init, PlacesOK, MainPcs, ThreadPcs, Threads, Null
<1>3. Init => NotesOK BY DEF Init, NotesOK
<1> QED BY <1>1, <1>2, <1>3 DEF TypeOK

(* Every variable stays in its type.                                        *)
THEOREM TypeCorrect == Spec => []TypeOK
<1>1. Init => TypeOK
  BY InitTypeOK
<1>2. TypeOK /\ [Next]_vars => TypeOK'
  BY FlagsOKStep, NotesOKStep, PlacesOKStep DEF TypeOK
<1> QED BY <1>1, <1>2, PTL DEF Spec

-----------------------------------------------------------------------------
(* The timer cancels the scope before it waits for the mutex, and a         *)
(* cancelled scope begins no sync: so none is inside when the engine is     *)
(* freed, nor ever after.                                                   *)
CloseInv ==
    /\ timer = "await" => scopeCancelled
    /\ freed => scopeCancelled /\ syncPc = "idle"

(* The engine is freed only when no sync is inside a setter.                *)
THEOREM NoSyncInFreedEngine == Spec => []FreeOnlyWhenSyncsLeft
<1>1. Init => CloseInv
  BY DEF Init, CloseInv
<1>2. CloseInv /\ [Next]_vars => CloseInv'
  <2> SUFFICES ASSUME CloseInv, [Next]_vars PROVE CloseInv'
    OBVIOUS
  <2> USE DEF CloseInv, closeVars, syncVars
  <2>1. CASE MainStep
    <3>1. UNCHANGED <<freed, scopeCancelled, syncPc>>
      BY <2>1
      DEF MainStep, DestroyStep, OnStartCommand, StartRecording,
          StartRecordingFails, HardReboot, RestartJoined, SessionLost,
          StopSelf, RequestRecreation, ChangeIdleFlags, BeginDestroy,
          DestroyStops, DestroyJoined, CloseEngine
    <3>2. timer' \in {timer, "armed"}
      BY <2>1
      DEF MainStep, DestroyStep, OnStartCommand, StartRecording,
          StartRecordingFails, HardReboot, RestartJoined, SessionLost,
          StopSelf, RequestRecreation, ChangeIdleFlags, BeginDestroy,
          DestroyStops, DestroyJoined, CloseEngine
    <3> QED BY <3>1, <3>2
  <2>2. CASE CloseStep
    BY <2>2 DEF CloseStep, TimerFires, AwaitAndFree, SyncsLeft
  <2>3. CASE LaunchSync BY <2>3 DEF LaunchSync
  <2>4. CASE SyncStep
    BY <2>4 DEF SyncStep, BeginSync, EnterSetter, LeaveSetter, EndSync
  <2>5. ASSUME NEW t \in Threads, ThreadStep(t) PROVE CloseInv'
    BY <2>5, ThreadStepMoves
  <2>6. CASE UNCHANGED vars BY <2>6 DEF vars
  <2> QED BY <2>1, <2>2, <2>3, <2>4, <2>5, <2>6 DEF Next
<1>3. CloseInv => FreeOnlyWhenSyncsLeft
  BY DEF CloseInv, FreeOnlyWhenSyncsLeft
<1> QED BY <1>1, <1>2, <1>3, PTL DEF Spec

-----------------------------------------------------------------------------
(* Between callbacks, and when a recording is about to start, the flag that *)
(* refuses restarts is down.                                                *)
DisposingInv == mainPc \in {"idle", "start"} => ~isProcessorDisposing

LEMMA DisposingInvStep ==
    ASSUME DisposingInv, [Next]_vars PROVE DisposingInv'
<1> USE DEF DisposingInv
<1>1. CASE OnStartCommand BY <1>1 DEF OnStartCommand
<1>2. CASE StartRecording BY <1>2 DEF StartRecording
<1>3. CASE StartRecordingFails BY <1>3 DEF StartRecordingFails
<1>4. CASE HardReboot
  BY <1>4, RestartRecordingMoves DEF HardReboot
<1>5. CASE RestartJoined BY <1>5 DEF RestartJoined
<1>6. CASE SessionLost
  BY <1>6, RestartRecordingMoves DEF SessionLost, MayRetry
<1>7. CASE StopSelf BY <1>7 DEF StopSelf
<1>8. CASE RequestRecreation BY <1>8 DEF RequestRecreation
<1>9. CASE ChangeIdleFlags BY <1>9 DEF ChangeIdleFlags
<1>10. CASE DestroyStep
  BY <1>10
  DEF DestroyStep, BeginDestroy, DestroyStops, BeginStopRecording,
      DestroyJoined, CloseEngine
<1>11. CASE CloseStep BY <1>11 DEF CloseStep, TimerFires, AwaitAndFree, SyncsLeft
<1>12. CASE LaunchSync BY <1>12 DEF LaunchSync
<1>13. CASE SyncStep
  BY <1>13 DEF SyncStep, BeginSync, EnterSetter, LeaveSetter, EndSync
<1>14. ASSUME NEW t \in Threads, ThreadStep(t) PROVE DisposingInv'
  BY <1>14, ThreadStepMoves
<1>15. CASE UNCHANGED vars BY <1>15 DEF vars
<1> QED
  BY <1>1, <1>2, <1>3, <1>4, <1>5, <1>6, <1>7, <1>8, <1>9, <1>10, <1>11,
     <1>12, <1>13, <1>14, <1>15
  DEF Next, MainStep

(* No callback leaves the flag set: a restart cannot disable later ones.    *)
THEOREM NeverStuckDisposing == Spec => []NotStuckDisposing
<1>1. Init => DisposingInv
  BY DEF Init, DisposingInv
<1>2. DisposingInv /\ [Next]_vars => DisposingInv'
  BY DisposingInvStep
<1>3. DisposingInv => NotStuckDisposing
  BY DEF DisposingInv, NotStuckDisposing
<1> QED BY <1>1, <1>2, <1>3, PTL DEF Spec

-----------------------------------------------------------------------------
(* Threads are born in the order of their numbers, and the field names a    *)
(* thread that was born; the main thread has dropped it whenever it is      *)
(* about to start another thread or to close the engine.                    *)
FieldInv ==
    /\ \A t \in Threads : pc[t] = "unborn" <=> t > nThreads
    /\ recorderThread <= nThreads
    /\ mainPc \in {"start", "close", "destroyed"} => recorderThread = Null
    /\ mainPc \in {"restartJoin", "destroyJoin"} => recorderThread # Null

LEMMA FieldInvStep ==
    ASSUME TypeOK, FieldInv, [Next]_vars PROVE FieldInv'
<1> USE ConstantsAssumption
    DEF TypeOK, PlacesOK, FieldInv, ThreadPcs, Threads, Null, serviceVars,
        flagVars, threadVars, closeVars, syncVars, historyVars
<1>1. CASE OnStartCommand BY <1>1 DEF OnStartCommand
<1>2. CASE StartRecording BY <1>2 DEF StartRecording
<1>3. CASE StartRecordingFails BY <1>3 DEF StartRecordingFails
<1>4. CASE HardReboot
  BY <1>4, RestartRecordingMoves DEF HardReboot
<1>5. CASE RestartJoined BY <1>5 DEF RestartJoined
<1>6. CASE SessionLost
  <2>1. UNCHANGED <<recorderThread, nThreads, pc>>
    BY <1>6 DEF SessionLost, MayRetry
  <2>2. \/ UNCHANGED mainPc
        \/ mainPc' = "restartJoin" /\ recorderThread # Null
        \/ mainPc' = "start" /\ recorderThread = Null
    BY <1>6, RestartRecordingMoves DEF SessionLost, MayRetry
  <2> QED BY <2>1, <2>2
<1>7. CASE StopSelf \/ RequestRecreation \/ ChangeIdleFlags \/ BeginDestroy
  BY <1>7 DEF StopSelf, RequestRecreation, ChangeIdleFlags, BeginDestroy
<1>8. CASE DestroyStops \/ DestroyJoined \/ CloseEngine
  BY <1>8 DEF DestroyStops, BeginStopRecording, DestroyJoined, CloseEngine
<1>9. CASE CloseStep BY <1>9 DEF CloseStep, TimerFires, AwaitAndFree, SyncsLeft
<1>10. CASE LaunchSync BY <1>10 DEF LaunchSync
<1>11. CASE SyncStep
  BY <1>11 DEF SyncStep, BeginSync, EnterSetter, LeaveSetter, EndSync
<1>12. ASSUME NEW t \in Threads, ThreadStep(t) PROVE FieldInv'
  <2>1. PICK to \in ThreadPcs : pc' = [pc EXCEPT ![t] = to]
    BY <1>12, ThreadStepMoves
  <2>2. UNCHANGED <<recorderThread, nThreads, mainPc>>
    BY <1>12, ThreadStepMoves
  <2>3. pc[t] # "unborn" /\ pc'[t] # "unborn"
    BY <1>12, ThreadLeavesForAReason
  <2> QED BY <2>1, <2>2, <2>3
<1>13. CASE UNCHANGED vars BY <1>13 DEF vars
<1> QED
  BY <1>1, <1>2, <1>3, <1>4, <1>5, <1>6, <1>7, <1>8, <1>9, <1>10, <1>11,
     <1>12, <1>13
  DEF Next, MainStep, DestroyStep

-----------------------------------------------------------------------------
(* A thread alive is the one in the field or one that a join gave up; once  *)
(* the engine is closed no other is.                                        *)
AliveInv ==
    /\ OthersAreGivenUp
    /\ freed => mainPc = "destroyed"
    /\ timer # "off" => mainPc = "destroyed"

ThreadsInv == TypeOK /\ FieldInv /\ AliveInv

LEMMA ThreadsInvHolds == Spec => []ThreadsInv
<1>1. Init => ThreadsInv
  <2>1. Init => FieldInv
    BY ConstantsAssumption DEF Init, FieldInv, Threads, Null
  <2>2. Init => AliveInv
    BY DEF Init, AliveInv, OthersAreGivenUp, Alive
  <2> QED BY <2>1, <2>2, InitTypeOK DEF ThreadsInv
<1>2. ThreadsInv /\ [Next]_vars => ThreadsInv'
  <2> SUFFICES ASSUME ThreadsInv, [Next]_vars PROVE AliveInv'
    BY FlagsOKStep, NotesOKStep, PlacesOKStep, FieldInvStep DEF ThreadsInv, TypeOK
  <2> USE ConstantsAssumption
      DEF ThreadsInv, AliveInv, OthersAreGivenUp, Alive, TypeOK, PlacesOK, FieldInv, ThreadPcs,
          OthersAreGivenUp, Threads, Null, serviceVars, flagVars,
          threadVars, closeVars, syncVars, historyVars
  <2>1. CASE OnStartCommand BY <2>1 DEF OnStartCommand
  <2>2. CASE StartRecording BY <2>2 DEF StartRecording
  <2>3. CASE StartRecordingFails BY <2>3 DEF StartRecordingFails
  <2>4. CASE HardReboot
    BY <2>4, RestartRecordingMoves DEF HardReboot
  <2>5. CASE RestartJoined
    BY <2>5 DEF RestartJoined, NoteGivenUp
  <2>6. CASE SessionLost
    BY <2>6, RestartRecordingMoves DEF SessionLost, MayRetry
  <2>7. CASE StopSelf \/ RequestRecreation \/ ChangeIdleFlags \/ BeginDestroy
    BY <2>7 DEF StopSelf, RequestRecreation, ChangeIdleFlags, BeginDestroy
  <2>8. CASE DestroyStops
    BY <2>8 DEF DestroyStops, BeginStopRecording
  <2>9. CASE DestroyJoined
    BY <2>9 DEF DestroyJoined, NoteGivenUp
  <2>10. CASE CloseEngine BY <2>10 DEF CloseEngine
  <2>11. CASE CloseStep
    BY <2>11 DEF CloseStep, TimerFires, AwaitAndFree, SyncsLeft
  <2>12. CASE LaunchSync BY <2>12 DEF LaunchSync
  <2>13. CASE SyncStep
    BY <2>13 DEF SyncStep, BeginSync, EnterSetter, LeaveSetter, EndSync
  <2>14. ASSUME NEW t \in Threads, ThreadStep(t) PROVE AliveInv'
    <3>1. PICK to \in ThreadPcs : pc' = [pc EXCEPT ![t] = to]
      BY <2>14, ThreadStepMoves
    <3>2. UNCHANGED <<recorderThread, mainPc, freed, timer>>
      BY <2>14, ThreadStepMoves
    <3>3. Alive(t)
      BY <2>14, ThreadLeavesForAReason
    <3>4. \/ givenUp' = givenUp
          \/ givenUp' = givenUp \ {t} /\ pc' = [pc EXCEPT ![t] = "ended"]
      BY <2>14, ThreadStepMoves
    <3> QED BY <3>1, <3>2, <3>3, <3>4
  <2>15. CASE UNCHANGED vars BY <2>15 DEF vars
  <2> QED
    BY <2>1, <2>2, <2>3, <2>4, <2>5, <2>6, <2>7, <2>8, <2>9, <2>10, <2>11,
       <2>12, <2>13, <2>14, <2>15
    DEF Next, MainStep, DestroyStep
<1> QED BY <1>1, <1>2, PTL DEF Spec

(* A thread that captures beside the one in the field is one that a join    *)
(* gave up: nothing else ever starts a second recorder.                     *)
THEOREM OneRecorderButGivenUp == Spec => []OthersAreGivenUp
<1>1. ThreadsInv => OthersAreGivenUp
  BY DEF ThreadsInv, AliveInv
<1> QED BY <1>1, ThreadsInvHolds, PTL

(* Only a thread that a join gave up can be in native code of a freed       *)
(* engine.                                                                  *)
THEOREM FreedEngineNotInUseButByGivenUp == Spec => []FreedUnderGivenUpOnly
<1>1. ThreadsInv => FreedUnderGivenUpOnly
  BY DEF ThreadsInv, AliveInv, OthersAreGivenUp, Alive, FieldInv,
         FreedUnderGivenUpOnly, Null, Threads
<1> QED BY <1>1, ThreadsInvHolds, PTL

-----------------------------------------------------------------------------
(* An interrupt is sent only to the thread of the field while disposing, so *)
(* a thread of the field that leaves its loop for any other reason asked    *)
(* for the end of the service; and without a thread that request was made.  *)
EndingInv ==
    /\ \A t \in Threads : interrupted[t] =>
          t <= nThreads /\ (t # recorderThread \/ isProcessorDisposing)
    /\ mainPc = "idle" /\ nThreads > 0 /\ recorderThread = Null =>
          stopRequested
    /\ recorderThread # Null /\ ~isProcessorDisposing /\ ~stopRequested =>
          \/ pc[recorderThread] \notin {"unborn", "cleanup", "ended"}
          \/ quiet

DeadInv == TypeOK /\ FieldInv /\ DisposingInv /\ EndingInv

(* A service whose recorder thread is gone has asked for its own end.       *)
THEOREM DeadCaptureIsNoticed == Spec => []DeadCaptureMeansStop
<1>1. Init => DeadInv
  <2>1. Init => FieldInv
    BY ConstantsAssumption DEF Init, FieldInv, Threads, Null
  <2>2. Init => EndingInv
    BY DEF Init, EndingInv, Null
  <2>3. Init => DisposingInv BY DEF Init, DisposingInv
  <2> QED BY <2>1, <2>2, <2>3, InitTypeOK DEF DeadInv
<1>2. DeadInv /\ [Next]_vars => DeadInv'
  <2> SUFFICES ASSUME DeadInv, [Next]_vars PROVE EndingInv'
    BY FlagsOKStep, NotesOKStep, PlacesOKStep, FieldInvStep, DisposingInvStep
    DEF DeadInv, TypeOK
  <2> USE ConstantsAssumption
      DEF DeadInv, EndingInv, DisposingInv, TypeOK, NotesOK, FlagsOK, PlacesOK,
          FieldInv, ThreadPcs, Threads, Null, serviceVars, flagVars,
          threadVars, closeVars, syncVars, historyVars
  <2>1. CASE OnStartCommand BY <2>1 DEF OnStartCommand
  <2>2. CASE StartRecording BY <2>2 DEF StartRecording
  <2>3. CASE StartRecordingFails BY <2>3 DEF StartRecordingFails
  <2>4. CASE HardReboot
    BY <2>4, RestartRecordingMoves DEF HardReboot
  <2>5. CASE RestartJoined BY <2>5 DEF RestartJoined
  <2>6. CASE SessionLost
    BY <2>6, RestartRecordingMoves DEF SessionLost, MayRetry
  <2>7. CASE StopSelf \/ RequestRecreation \/ ChangeIdleFlags \/ BeginDestroy
    BY <2>7 DEF StopSelf, RequestRecreation, ChangeIdleFlags, BeginDestroy
  <2>8. CASE DestroyStops
    BY <2>8 DEF DestroyStops, BeginStopRecording
  <2>9. CASE DestroyJoined BY <2>9 DEF DestroyJoined
  <2>10. CASE CloseEngine BY <2>10 DEF CloseEngine
  <2>11. CASE CloseStep
    BY <2>11 DEF CloseStep, TimerFires, AwaitAndFree, SyncsLeft
  <2>12. CASE LaunchSync BY <2>12 DEF LaunchSync
  <2>13. CASE SyncStep
    BY <2>13 DEF SyncStep, BeginSync, EnterSetter, LeaveSetter, EndSync
  <2>14. ASSUME NEW t \in Threads, ThreadStep(t) PROVE EndingInv'
    <3>1. PICK to \in ThreadPcs : pc' = [pc EXCEPT ![t] = to]
      BY <2>14, ThreadStepMoves
    <3>2. /\ UNCHANGED <<recorderThread, mainPc, nThreads, interrupted,
                         isProcessorDisposing>>
          /\ stopRequested => stopRequested'
      BY <2>14, ThreadStepMoves
    <3>3. /\ pc'[t] # "unborn"
          /\ pc'[t] \in {"cleanup", "ended"} =>
                \/ pc[t] = "cleanup"
                \/ isProcessorDisposing \/ interrupted[t] \/ stopRequested'
                \/ t = recorderThread => quiet'
      BY <2>14, ThreadLeavesForAReason
    <3>4. quiet => quiet'
      BY <2>14, ThreadStepFlags
    <3> QED BY <3>1, <3>2, <3>3, <3>4
  <2>15. CASE UNCHANGED vars BY <2>15 DEF vars
  <2> QED
    BY <2>1, <2>2, <2>3, <2>4, <2>5, <2>6, <2>7, <2>8, <2>9, <2>10, <2>11,
       <2>12, <2>13, <2>14, <2>15
    DEF Next, MainStep, DestroyStep
<1>3. DeadInv => DeadCaptureMeansStop
  BY DEF DeadInv, EndingInv, DisposingInv, DeadCaptureMeansStop, Alive
<1> QED BY <1>1, <1>2, <1>3, PTL DEF Spec

-----------------------------------------------------------------------------
(* A rebuild request is refused only once destruction has begun, and only   *)
(* the thread of the field can clear it unnoticed.                          *)
RebuildInv ==
    /\ mainPc \in {"idle", "start", "restartJoin"} => ~isServiceDisposing
    /\ RebuildNotLost

(* What a step of the thread in the field does to its pending rebuild.      *)
LEMMA ThreadKeepsRebuild ==
    ASSUME NEW t \in Threads, ThreadStep(t), PlacesOK, t = recorderThread
    PROVE  (\/ fresh \/ recreateRecorderRequested
            \/ pc[t] \in {"rebuild", "cleanup", "ended"})
           => (\/ fresh' \/ recreateRecorderRequested'
               \/ pc'[t] \in {"rebuild", "cleanup", "ended"})
<1> USE DEF Goto, PlacesOK, historyVars
<1>1. CASE LoopHead(t) BY <1>1 DEF LoopHead
<1>2. CASE ClearRequest(t) BY <1>2 DEF ClearRequest
<1>3. CASE Rebuild(t) BY <1>3 DEF Rebuild
<1>4. CASE Fail(t) BY <1>4 DEF Fail
<1>10. CASE IgnoreIOException(t) BY <1>10 DEF IgnoreIOException
<1>5. CASE Gate(t) BY <1>5 DEF Gate
<1>6. CASE Sleep(t) BY <1>6 DEF Sleep
<1>7. CASE ReadBlock(t) BY <1>7 DEF ReadBlock
<1>8. CASE LeaveProcess(t) BY <1>8 DEF LeaveProcess
<1>9. CASE CleanUp(t) BY <1>9 DEF CleanUp
<1> QED
  BY <1>1, <1>2, <1>3, <1>4, <1>5, <1>6, <1>7, <1>8, <1>9, <1>10
  DEF ThreadStep

(* A change of the capture rules is never lost on the current thread,       *)
(* unless a thread that a join gave up takes the request away.              *)
THEOREM RebuildKept == Spec => []RebuildNotLost
<1>1. Init => DisposingInv /\ RebuildInv
  BY DEF Init, DisposingInv, RebuildInv, RebuildNotLost
<1>2. ThreadsInv /\ ThreadsInv' /\ DisposingInv /\ RebuildInv /\ [Next]_vars
        => DisposingInv' /\ RebuildInv'
  <2> SUFFICES ASSUME ThreadsInv, ThreadsInv', DisposingInv, RebuildInv,
                      [Next]_vars
               PROVE  RebuildInv'
    BY DisposingInvStep
  <2> USE ConstantsAssumption
      DEF ThreadsInv, AliveInv, DisposingInv, RebuildInv, RebuildNotLost,
          TypeOK, PlacesOK, Threads, Null, serviceVars, flagVars, threadVars,
          closeVars, syncVars, historyVars
  <2>1. CASE OnStartCommand BY <2>1 DEF OnStartCommand
  <2>2. CASE StartRecording BY <2>2 DEF StartRecording
  <2>3. CASE StartRecordingFails
    BY <2>3 DEF StartRecordingFails, FieldInv
  <2>4. CASE HardReboot
    BY <2>4 DEF HardReboot, RestartRecording, BeginStopRecording
  <2>5. CASE RestartJoined BY <2>5 DEF RestartJoined
  <2>6. CASE SessionLost
    BY <2>6 DEF SessionLost, RestartRecording, BeginStopRecording
  <2>7. CASE StopSelf BY <2>7 DEF StopSelf
  <2>8. CASE RequestRecreation BY <2>8 DEF RequestRecreation
  <2>9. CASE ChangeIdleFlags BY <2>9 DEF ChangeIdleFlags
  <2>10. CASE DestroyStep
    BY <2>10
    DEF DestroyStep, BeginDestroy, DestroyStops, BeginStopRecording,
        DestroyJoined, CloseEngine
  <2>11. CASE CloseStep
    BY <2>11 DEF CloseStep, TimerFires, AwaitAndFree, SyncsLeft
  <2>12. CASE LaunchSync BY <2>12 DEF LaunchSync
  <2>13. CASE SyncStep
    BY <2>13 DEF SyncStep, BeginSync, EnterSetter, LeaveSetter, EndSync
  <2>14. ASSUME NEW t \in Threads, ThreadStep(t) PROVE RebuildInv'
    <3>1. UNCHANGED <<mainPc, isServiceDisposing, recorderThread>>
      BY <2>14, ThreadStepMoves
    <3>2. CASE t = recorderThread
      <4>1. requestTaken => requestTaken'
        BY <2>14, ThreadStepFlags DEF NotesOK
      <4> QED BY <2>14, <3>1, <3>2, <4>1, ThreadKeepsRebuild
    <3>3. CASE t # recorderThread
      <4>1. PICK to \in ThreadPcs : pc' = [pc EXCEPT ![t] = to]
        BY <2>14, ThreadStepMoves
      <4>2. /\ (fresh => fresh') /\ (requestTaken => requestTaken')
            /\ recreateRecorderRequested =>
                  recreateRecorderRequested' \/ requestTaken'
        BY <2>14, <3>3, ThreadStepFlags DEF NotesOK
      <4> QED BY <3>1, <3>3, <4>1, <4>2
    <3> QED BY <3>2, <3>3
  <2>15. CASE UNCHANGED vars BY <2>15 DEF vars
  <2> QED
    BY <2>1, <2>2, <2>3, <2>4, <2>5, <2>6, <2>7, <2>8, <2>9, <2>10, <2>11,
       <2>12, <2>13, <2>14, <2>15
    DEF Next, MainStep
<1>3. RebuildInv => RebuildNotLost
  BY DEF RebuildInv
<1> QED BY <1>1, <1>2, <1>3, ThreadsInvHolds, PTL DEF Spec
=============================================================================
