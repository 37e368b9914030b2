--------------------------- MODULE CaptureService ---------------------------
(***************************************************************************)
(* The life of the rootless capture pipeline: RootlessAudioProcessorService *)
(* on the main thread, the recorder threads it starts and stops, and the    *)
(* part of JamesDspLocalEngine they share with the preference syncs: the    *)
(* native handle, the coroutine scope and mutex of the syncs, and the timer *)
(* that frees the engine after close().                                     *)
(*                                                                          *)
(* The main thread runs one callback at a time; a callback that waits       *)
(* (join, the engine lock) is cut at the wait, so mainPc is "idle" only     *)
(* between two callbacks.  A recorder thread is cut wherever the other      *)
(* threads can be seen: at the loop condition, around the rebuild of the    *)
(* AudioRecord, in sleep, in the blocking read and in native code.          *)
(***************************************************************************)
EXTENDS Naturals, FiniteSets

CONSTANTS
    MaxThreads,   \* bound: recorder threads born in the life of the service
    MaxRetries    \* SESSION_LOSS_MAX_RETRIES

ASSUME ConstantsAssumption ==
    /\ MaxThreads \in Nat \ {0}
    /\ MaxRetries \in Nat

VARIABLES
    mainPc,                     \* where the main thread is
    stopRequested,              \* stopSelf() was called
    isServiceDisposing,
    isProcessorDisposing,
    recorderThread,             \* the field: a thread, or Null
    recreateRecorderRequested,
    isProcessorIdle,
    suspendOnIdle,
    mediaProjection,            \* is the field set and the projection held?
    sessionLossRetryCount,
    nThreads,                   \* threads born so far
    pc,                         \* where each recorder thread is
    interrupted,                \* the pending interrupt flag of each thread
    fresh,                      \* was the AudioRecord of the current thread
                                \* built after the last change of the rules?
    handle,                     \* is the Kotlin handle nonzero?
    freed,                      \* was the native engine freed?
    timer,                      \* the Timer of close()
    scopeCancelled,             \* syncScope
    syncQueued,                 \* a launched sync waits for the mutex
    syncPc,                     \* the sync that holds the mutex
    givenUp,                    \* history: live threads that join(500) gave up
    quiet,                      \* history: did the current thread leave by the
                                \* branch for IOException?
    requestTaken                \* history: a thread given up has cleared the
                                \* last rebuild request

serviceVars == <<stopRequested, isServiceDisposing, mediaProjection>>
flagVars == <<isProcessorIdle, suspendOnIdle>>
threadVars == <<nThreads, pc, interrupted>>
closeVars == <<handle, freed, timer, scopeCancelled>>
syncVars == <<syncQueued, syncPc>>
historyVars == <<givenUp, quiet, requestTaken>>
vars == <<mainPc, serviceVars, isProcessorDisposing, recorderThread,
          recreateRecorderRequested, flagVars, sessionLossRetryCount,
          threadVars, fresh, closeVars, syncVars, historyVars>>

Null == 0
Threads == 1 .. MaxThreads

ThreadPcs == {"unborn", "loop", "clear", "rebuild", "gate", "sleep", "read",
              "native", "cleanup", "ended"}
MainPcs == {"idle", "restartJoin", "start", "destroyStop", "destroyJoin",
            "close", "destroyed"}

Alive(t) == pc[t] \notin {"unborn", "ended"}

(* A setter that runs in native code may hold the engine lock for all of    *)
(* its work (an impulse response load does), and JamesDSPProcess takes that *)
(* lock for each block.                                                     *)
EngineLockHeld == syncPc = "native"

Init ==
    /\ mainPc = "idle"
    /\ stopRequested = FALSE
    /\ isServiceDisposing = FALSE
    /\ isProcessorDisposing = FALSE
    /\ recorderThread = Null
    /\ recreateRecorderRequested = FALSE
    /\ isProcessorIdle = FALSE
    /\ suspendOnIdle \in BOOLEAN
    /\ mediaProjection = FALSE
    /\ sessionLossRetryCount = 0
    /\ nThreads = 0
    /\ pc = [t \in Threads |-> "unborn"]
    /\ interrupted = [t \in Threads |-> FALSE]
    /\ fresh = FALSE
    /\ handle = TRUE
    /\ freed = FALSE
    /\ timer = "off"
    /\ scopeCancelled = FALSE
    /\ syncQueued = FALSE
    /\ syncPc = "idle"
    /\ givenUp = {}
    /\ quiet = FALSE
    /\ requestTaken = FALSE

-----------------------------------------------------------------------------
(* Main thread: starting.                                                   *)

(* Mutant of OnStartCommand: the thread that runs is not looked at.         *)
OnAnyStartCommand ==
    /\ mainPc = "idle"
    /\ nThreads < MaxThreads
    /\ \E granted \in BOOLEAN :
          /\ mediaProjection' = granted
          /\ mainPc' = IF granted THEN "start" ELSE "idle"
          /\ stopRequested' = (stopRequested \/ ~granted)
    /\ UNCHANGED <<isServiceDisposing, isProcessorDisposing, recorderThread,
                   recreateRecorderRequested, flagVars,
                   sessionLossRetryCount, threadVars, fresh, historyVars,
                   closeVars, syncVars>>

(* A start intent: ignored while a recorder thread is known, else the       *)
(* projection is acquired (or refused) and the recording started.           *)
OnStartCommand ==
    /\ mainPc = "idle"
    /\ recorderThread = Null
    /\ nThreads < MaxThreads
    /\ \E granted \in BOOLEAN :
          /\ mediaProjection' = granted
          /\ mainPc' = IF granted THEN "start" ELSE "idle"
          /\ stopRequested' = (stopRequested \/ ~granted)
    /\ UNCHANGED <<isServiceDisposing, isProcessorDisposing, recorderThread,
                   recreateRecorderRequested, flagVars,
                   sessionLossRetryCount, threadVars, fresh, historyVars,
                   closeVars, syncVars>>

(* startRecording(): permission, recorder and track; setting a new rate     *)
(* takes the engine lock and broadcasts, which launches a full sync.        *)
StartRecording ==
    /\ mainPc = "start"
    /\ mediaProjection
    /\ nThreads < MaxThreads
    /\ \E rateChanged \in BOOLEAN :
          /\ rateChanged => ~EngineLockHeld
          /\ syncQueued' = (syncQueued \/ rateChanged)
    /\ mainPc' = "idle"
    /\ nThreads' = nThreads + 1
    /\ recorderThread' = nThreads + 1
    /\ pc' = [pc EXCEPT ![nThreads + 1] = "loop"]
    /\ fresh' = TRUE
    /\ quiet' = FALSE
    /\ UNCHANGED <<serviceVars, isProcessorDisposing,
                   recreateRecorderRequested, flagVars,
                   sessionLossRetryCount, interrupted, closeVars, syncPc,
                   givenUp, requestTaken>>

(* The permission is missing, or building the recorder or track throws.     *)
StartRecordingFails ==
    /\ mainPc = "start"
    /\ mainPc' = "idle"
    /\ stopRequested' = TRUE
    /\ UNCHANGED <<isServiceDisposing, mediaProjection,
                   isProcessorDisposing, recorderThread,
                   recreateRecorderRequested, flagVars,
                   sessionLossRetryCount, threadVars, fresh, historyVars,
                   closeVars, syncVars>>

-----------------------------------------------------------------------------
(* Main thread: stopping and restarting the recorder thread.                *)

(* The part of stopRecording() before the join.                             *)
BeginStopRecording(joinPc, nextPc) ==
    IF recorderThread = Null
    THEN /\ mainPc' = nextPc
         /\ UNCHANGED <<isProcessorDisposing, interrupted>>
    ELSE /\ mainPc' = joinPc
         /\ isProcessorDisposing' = TRUE
         /\ interrupted' = [interrupted EXCEPT ![recorderThread] = TRUE]

(* A thread can stay longer than any timeout where it waits for another     *)
(* process (building the recorder, the blocking read) or for the engine     *)
(* lock; everything else it does is short.                                  *)
MayBlock(t) ==
    \/ pc[t] \in {"rebuild", "read"}
    \/ pc[t] = "native" /\ EngineLockHeld

(* join(500) returns: the thread has ended, or 500 ms are over.             *)
JoinReturns == pc[recorderThread] = "ended" \/ MayBlock(recorderThread)

(* Kept for the properties: a join that returns before the thread has ended *)
(* gives it up.                                                             *)
NoteGivenUp ==
    givenUp' = IF Alive(recorderThread) THEN givenUp \union {recorderThread}
               ELSE givenUp

(* restartRecording(), refused while disposing.  Without a thread there is  *)
(* no join and the two flags are cleared at once.                           *)
RestartRecording ==
    IF isProcessorDisposing \/ isServiceDisposing
    THEN UNCHANGED <<mainPc, isProcessorDisposing, interrupted,
                     recreateRecorderRequested>>
    ELSE /\ BeginStopRecording("restartJoin", "start")
         /\ recreateRecorderRequested' =
               (recorderThread # Null /\ recreateRecorderRequested)

(* A hard reboot, or another usage of the output track.                     *)
HardReboot ==
    /\ mainPc = "idle"
    /\ nThreads < MaxThreads
    /\ RestartRecording
    /\ UNCHANGED <<serviceVars, recorderThread, flagVars,
                   sessionLossRetryCount, nThreads, pc, fresh, historyVars,
                   closeVars, syncVars>>

(* The second half: the field is dropped, the flags reset.                  *)
RestartJoined ==
    /\ mainPc = "restartJoin"
    /\ JoinReturns
    /\ recorderThread' = Null
    /\ isProcessorDisposing' = FALSE
    /\ recreateRecorderRequested' = FALSE
    /\ mainPc' = "start"
    /\ NoteGivenUp
    /\ UNCHANGED <<serviceVars, flagVars, sessionLossRetryCount, threadVars,
                   fresh, quiet, requestTaken, closeVars, syncVars>>

(* Mutant of MayRetry: an off-by-one.                                       *)
MayRetryOnceMore == sessionLossRetryCount <= MaxRetries

MayRetry == sessionLossRetryCount < MaxRetries

(* onSessionLost: retry, then give up.                                      *)
SessionLost ==
    /\ mainPc = "idle"
    /\ \/ /\ MayRetry
          /\ nThreads < MaxThreads
          /\ sessionLossRetryCount' = sessionLossRetryCount + 1
          /\ RestartRecording
          /\ UNCHANGED stopRequested
       \/ /\ ~MayRetry
          /\ sessionLossRetryCount' = 0
          /\ stopRequested' = TRUE
          /\ UNCHANGED <<mainPc, isProcessorDisposing, interrupted,
                         recreateRecorderRequested>>
    /\ UNCHANGED <<isServiceDisposing, mediaProjection, recorderThread,
                   flagVars, nThreads, pc, fresh, historyVars, closeVars,
                   syncVars>>

-----------------------------------------------------------------------------
(* Main thread: the other callbacks.                                        *)

(* A stop intent, a revoked projection, an app problem.                     *)
StopSelf ==
    /\ mainPc = "idle"
    /\ ~stopRequested
    /\ stopRequested' = TRUE
    /\ UNCHANGED <<mainPc, isServiceDisposing, mediaProjection,
                   isProcessorDisposing, recorderThread,
                   recreateRecorderRequested, flagVars,
                   sessionLossRetryCount, threadVars, fresh, historyVars,
                   closeVars, syncVars>>

(* Mutant of RequestRecreation: nothing to rebuild for while suspended.     *)
RequestUnlessSuspended ==
    /\ mainPc = "idle"
    /\ recreateRecorderRequested' =
          (\/ recreateRecorderRequested
           \/ ~(isProcessorDisposing \/ isServiceDisposing)
              /\ ~(isProcessorIdle /\ suspendOnIdle))
    /\ fresh' = FALSE
    /\ requestTaken' = FALSE
    /\ UNCHANGED <<mainPc, serviceVars, isProcessorDisposing,
                   recorderThread, flagVars, sessionLossRetryCount,
                   threadVars, closeVars, syncVars, givenUp, quiet>>

(* The rules of the capture changed (app list, list mode, restricted apps,  *)
(* soft reboot): ask for another AudioRecord, unless disposing.             *)
RequestRecreation ==
    /\ mainPc = "idle"
    /\ recreateRecorderRequested' =
          (recreateRecorderRequested \/ ~(isProcessorDisposing \/ isServiceDisposing))
    /\ fresh' = FALSE
    /\ requestTaken' = FALSE
    /\ UNCHANGED <<mainPc, serviceVars, isProcessorDisposing,
                   recorderThread, flagVars, sessionLossRetryCount,
                   threadVars, closeVars, syncVars, givenUp, quiet>>

(* onSessionChanged computes isProcessorIdle; the preference listener loads *)
(* suspendOnIdle.                                                           *)
ChangeIdleFlags ==
    /\ mainPc = "idle"
    /\ \/ isProcessorIdle' = ~isProcessorIdle /\ UNCHANGED suspendOnIdle
       \/ suspendOnIdle' = ~suspendOnIdle /\ UNCHANGED isProcessorIdle
    /\ UNCHANGED <<mainPc, serviceVars, isProcessorDisposing,
                   recorderThread, recreateRecorderRequested,
                   sessionLossRetryCount, threadVars, fresh, historyVars,
                   closeVars, syncVars>>

(* onDestroy: the projection is handed back first, then the recorder thread *)
(* is stopped and the engine closed.                                        *)
BeginDestroy ==
    /\ mainPc = "idle"
    /\ stopRequested
    /\ isServiceDisposing' = TRUE
    /\ mediaProjection' = FALSE
    /\ mainPc' = "destroyStop"
    /\ UNCHANGED <<stopRequested, isProcessorDisposing, recorderThread,
                   recreateRecorderRequested, flagVars,
                   sessionLossRetryCount, threadVars, fresh, historyVars,
                   closeVars, syncVars>>

(* Mutant of DestroyStops: the engine is closed under a running thread.     *)
DestroyStopsNothing ==
    /\ mainPc = "destroyStop"
    /\ mainPc' = "close"
    /\ UNCHANGED <<serviceVars, isProcessorDisposing, recorderThread,
                   recreateRecorderRequested, flagVars,
                   sessionLossRetryCount, threadVars, fresh, historyVars,
                   closeVars, syncVars>>

DestroyStops ==
    /\ mainPc = "destroyStop"
    /\ BeginStopRecording("destroyJoin", "close")
    /\ UNCHANGED <<serviceVars, recorderThread, recreateRecorderRequested,
                   flagVars, sessionLossRetryCount, nThreads, pc, fresh,
                   historyVars, closeVars, syncVars>>

DestroyJoined ==
    /\ mainPc = "destroyJoin"
    /\ JoinReturns
    /\ recorderThread' = Null
    /\ mainPc' = "close"
    /\ NoteGivenUp
    /\ UNCHANGED <<serviceVars, isProcessorDisposing,
                   recreateRecorderRequested, flagVars,
                   sessionLossRetryCount, threadVars, fresh, quiet,
                   requestTaken, closeVars, syncVars>>

(* Mutant of CloseEngine: with a sync at work the free is forgotten.        *)
CloseUnlessSyncing ==
    /\ mainPc = "close"
    /\ handle' = FALSE
    /\ timer' = IF syncPc = "idle" THEN "armed" ELSE timer
    /\ mainPc' = "destroyed"
    /\ UNCHANGED <<serviceVars, isProcessorDisposing, recorderThread,
                   recreateRecorderRequested, flagVars,
                   sessionLossRetryCount, threadVars, fresh, historyVars,
                   freed, scopeCancelled, syncVars>>

(* JamesDspLocalEngine.close(): hide the handle, arm the timer.             *)
CloseEngine ==
    /\ mainPc = "close"
    /\ handle' = FALSE
    /\ timer' = "armed"
    /\ mainPc' = "destroyed"
    /\ UNCHANGED <<serviceVars, isProcessorDisposing, recorderThread,
                   recreateRecorderRequested, flagVars,
                   sessionLossRetryCount, threadVars, fresh, historyVars,
                   freed, scopeCancelled, syncVars>>

-----------------------------------------------------------------------------
(* The timer of close(), and the syncs.                                     *)

(* 100 ms later: syncScope.cancel().  A process call that got the engine    *)
(* lock has returned by then; one that waits for the lock need not have.    *)
TimerFires ==
    /\ timer = "armed"
    /\ \A t \in Threads : pc[t] = "native" => EngineLockHeld
    /\ timer' = "await"
    /\ scopeCancelled' = TRUE
    /\ UNCHANGED <<mainPc, serviceVars, isProcessorDisposing,
                   recorderThread, recreateRecorderRequested, flagVars,
                   sessionLossRetryCount, threadVars, fresh, historyVars,
                   handle, freed, syncVars>>

(* Mutant of SyncsLeft: the scope is cancelled, the mutex not waited for.   *)
SyncsOnlyCancelled == TRUE

(* The mutex is free, so no sync is inside.                                 *)
SyncsLeft == syncPc = "idle"

AwaitAndFree ==
    /\ timer = "await"
    /\ SyncsLeft
    /\ timer' = "done"
    /\ freed' = TRUE
    /\ UNCHANGED <<mainPc, serviceVars, isProcessorDisposing,
                   recorderThread, recreateRecorderRequested, flagVars,
                   sessionLossRetryCount, threadVars, fresh, historyVars,
                   handle, scopeCancelled, syncVars>>

(* syncWithPreferences() from a broadcast; the routing callback stays       *)
(* registered after close(), so it can still launch one then.               *)
LaunchSync ==
    /\ mainPc \in {"idle", "destroyed"}
    /\ ~scopeCancelled
    /\ syncQueued' = TRUE
    /\ UNCHANGED <<mainPc, serviceVars, isProcessorDisposing,
                   recorderThread, recreateRecorderRequested, flagVars,
                   sessionLossRetryCount, threadVars, fresh, historyVars,
                   closeVars, syncPc>>

(* A cancelled scope never resumes a sync that waits for the mutex.         *)
BeginSync ==
    /\ syncQueued
    /\ syncPc = "idle"
    /\ ~scopeCancelled
    /\ syncQueued' = FALSE
    /\ syncPc' = "running"
    /\ UNCHANGED <<mainPc, serviceVars, isProcessorDisposing,
                   recorderThread, recreateRecorderRequested, flagVars,
                   sessionLossRetryCount, threadVars, fresh, historyVars,
                   closeVars>>

(* A setter: with handle 0 the native wrapper returns at once.              *)
EnterSetter ==
    /\ syncPc = "running"
    /\ handle
    /\ syncPc' = "native"
    /\ UNCHANGED <<mainPc, serviceVars, isProcessorDisposing,
                   recorderThread, recreateRecorderRequested, flagVars,
                   sessionLossRetryCount, threadVars, fresh, historyVars,
                   closeVars, syncQueued>>

LeaveSetter ==
    /\ syncPc = "native"
    /\ syncPc' = "running"
    /\ UNCHANGED <<mainPc, serviceVars, isProcessorDisposing,
                   recorderThread, recreateRecorderRequested, flagVars,
                   sessionLossRetryCount, threadVars, fresh, historyVars,
                   closeVars, syncQueued>>

EndSync ==
    /\ syncPc = "running"
    /\ syncPc' = "idle"
    /\ UNCHANGED <<mainPc, serviceVars, isProcessorDisposing,
                   recorderThread, recreateRecorderRequested, flagVars,
                   sessionLossRetryCount, threadVars, fresh, historyVars,
                   closeVars, syncQueued>>

-----------------------------------------------------------------------------
(* A recorder thread.  Goto changes only where the thread is.               *)

Goto(t, from, to) ==
    /\ pc[t] = from
    /\ pc' = [pc EXCEPT ![t] = to]
    /\ UNCHANGED <<mainPc, isServiceDisposing, mediaProjection,
                   isProcessorDisposing, recorderThread, flagVars,
                   sessionLossRetryCount, nThreads, interrupted, closeVars,
                   syncVars>>

(* Mutant of LoopHead: while suspended the request is not looked at.        *)
LoopHeadSuspendedFirst(t) ==
    /\ Goto(t, "loop", IF isProcessorDisposing THEN "cleanup"
                       ELSE IF recreateRecorderRequested
                               /\ ~(isProcessorIdle /\ suspendOnIdle)
                       THEN "clear"
                       ELSE "gate")
    /\ UNCHANGED <<stopRequested, recreateRecorderRequested, fresh,
                   historyVars>>

(* The loop condition and the test of the rebuild request.                  *)
LoopHead(t) ==
    /\ Goto(t, "loop", IF isProcessorDisposing THEN "cleanup"
                       ELSE IF recreateRecorderRequested THEN "clear"
                       ELSE "gate")
    /\ UNCHANGED <<stopRequested, recreateRecorderRequested, fresh,
                   historyVars>>

(* The request is cleared before the rules are read, and the old recorder   *)
(* released.                                                                *)
ClearRequest(t) ==
    /\ Goto(t, "clear", "rebuild")
    /\ recreateRecorderRequested' = FALSE
    /\ requestTaken' = (requestTaken \/ t # recorderThread)
    /\ UNCHANGED <<stopRequested, fresh, givenUp, quiet>>

(* buildAudioRecord() with the rules of this moment.                        *)
Rebuild(t) ==
    /\ mediaProjection
    /\ Goto(t, "rebuild", "gate")
    /\ fresh' = (fresh \/ t = recorderThread)
    /\ UNCHANGED <<stopRequested, recreateRecorderRequested, historyVars>>

(* Mutant of Fail: the thread leaves without a word.                        *)
FailSilently(t) ==
    /\ \E from \in {"rebuild", "read"} : Goto(t, from, "cleanup")
    /\ UNCHANGED <<stopRequested, recreateRecorderRequested, fresh,
                   historyVars>>

(* No projection, or an exception while building, resuming or stopping the  *)
(* recorder or the track: ask for the end of the service and leave.         *)
Fail(t) ==
    /\ \E from \in {"rebuild", "read"} : Goto(t, from, "cleanup")
    /\ stopRequested' = TRUE
    /\ UNCHANGED <<recreateRecorderRequested, fresh, historyVars>>

(* An IOException in the same places is only logged: the thread leaves, and *)
(* the service is not asked to end.                                         *)
IgnoreIOException(t) ==
    /\ \E from \in {"rebuild", "read"} : Goto(t, from, "cleanup")
    /\ quiet' = (quiet \/ t = recorderThread)
    /\ UNCHANGED <<stopRequested, recreateRecorderRequested, fresh, givenUp,
                   requestTaken>>

Gate(t) ==
    /\ Goto(t, "gate",
            IF isProcessorIdle /\ suspendOnIdle THEN "sleep" ELSE "read")
    /\ UNCHANGED <<stopRequested, recreateRecorderRequested, fresh,
                   historyVars>>

(* sleep(50): an interrupt, pending or arriving, ends the loop.             *)
Sleep(t) ==
    /\ Goto(t, "sleep", IF interrupted[t] THEN "cleanup" ELSE "loop")
    /\ UNCHANGED <<stopRequested, recreateRecorderRequested, fresh,
                   historyVars>>

(* The blocking read returns; the engine is entered with the handle, or     *)
(* passed by (handle 0) or skipped by the silence gate.                     *)
ReadBlock(t) ==
    /\ \/ handle /\ Goto(t, "read", "native")
       \/ (~handle \/ suspendOnIdle) /\ Goto(t, "read", "loop")
    /\ UNCHANGED <<stopRequested, recreateRecorderRequested, fresh,
                   historyVars>>

LeaveProcess(t) ==
    /\ ~EngineLockHeld
    /\ Goto(t, "native", "loop")
    /\ UNCHANGED <<stopRequested, recreateRecorderRequested, fresh,
                   historyVars>>

CleanUp(t) ==
    /\ Goto(t, "cleanup", "ended")
    /\ givenUp' = givenUp \ {t}
    /\ UNCHANGED <<stopRequested, recreateRecorderRequested, fresh, quiet,
                   requestTaken>>

-----------------------------------------------------------------------------
ThreadStep(t) ==
    \/ LoopHead(t) \/ ClearRequest(t) \/ Rebuild(t) \/ Fail(t)
    \/ IgnoreIOException(t) \/ Gate(t) \/ Sleep(t) \/ ReadBlock(t)
    \/ LeaveProcess(t) \/ CleanUp(t)

CloseStep ==
    TimerFires \/ AwaitAndFree

SyncStep == BeginSync \/ EnterSetter \/ LeaveSetter \/ EndSync

DestroyStep == BeginDestroy \/ DestroyStops \/ DestroyJoined \/ CloseEngine

MainStep ==
    \/ OnStartCommand \/ StartRecording \/ StartRecordingFails
    \/ HardReboot \/ RestartJoined \/ SessionLost
    \/ StopSelf \/ RequestRecreation \/ ChangeIdleFlags
    \/ DestroyStep

Next ==
    \/ MainStep \/ CloseStep \/ LaunchSync \/ SyncStep
    \/ \E t \in Threads : ThreadStep(t)

Spec == Init /\ [][Next]_vars

(* Every thread keeps running and Android delivers a requested onDestroy.   *)
(* A setter returns, so the engine lock is free again and again; the audio  *)
(* thread gets it at last although other setters follow (strong fairness).  *)
(* Callbacks that merely may come (intents, preferences) have no fairness.  *)
Fairness ==
    /\ SF_vars(BeginDestroy)
    /\ WF_vars(DestroyStops \/ DestroyJoined \/ CloseEngine)
    /\ WF_vars(StartRecording \/ StartRecordingFails)
    /\ WF_vars(RestartJoined)
    /\ WF_vars(CloseStep)
    /\ WF_vars(BeginSync) /\ WF_vars(LeaveSetter) /\ SF_vars(EndSync)
    /\ \A t \in Threads :
          /\ WF_vars(ThreadStep(t) /\ pc[t] # "native")
          /\ SF_vars(LeaveProcess(t))

FairSpec == Spec /\ Fairness
-----------------------------------------------------------------------------
(* Properties.                                                              *)

(* Every variable stays in its type.                                        *)
FlagsOK ==
    /\ stopRequested \in BOOLEAN
    /\ isServiceDisposing \in BOOLEAN
    /\ isProcessorDisposing \in BOOLEAN
    /\ recreateRecorderRequested \in BOOLEAN
    /\ isProcessorIdle \in BOOLEAN
    /\ suspendOnIdle \in BOOLEAN
    /\ mediaProjection \in BOOLEAN
    /\ handle \in BOOLEAN
    /\ freed \in BOOLEAN
    /\ scopeCancelled \in BOOLEAN
    /\ syncQueued \in BOOLEAN

NotesOK ==
    /\ fresh \in BOOLEAN
    /\ quiet \in BOOLEAN
    /\ requestTaken \in BOOLEAN

PlacesOK ==
    /\ mainPc \in MainPcs
    /\ recorderThread \in 0 .. MaxThreads
    /\ sessionLossRetryCount \in 0 .. MaxRetries
    /\ nThreads \in 0 .. MaxThreads
    /\ pc \in [Threads -> ThreadPcs]
    /\ interrupted \in [Threads -> BOOLEAN]
    /\ timer \in {"off", "armed", "await", "done"}
    /\ syncPc \in {"idle", "running", "native"}
    /\ givenUp \in SUBSET (0 .. MaxThreads)

TypeOK == FlagsOK /\ NotesOK /\ PlacesOK

(* stopRecording() terminates the recording thread, or gives it up: a thread *)
(* that captures, processes and plays beside the one in the field is one    *)
(* that join(500) gave up, so two other threads never do.                   *)
OthersAreGivenUp ==
    \A t \in Threads : Alive(t) => t = recorderThread \/ t \in givenUp

(* The timer of close() frees the engine only when no process call that     *)
(* read the handle before it was cleared is still in native code.           *)
FreedEngineNotInUse == freed => \A t \in Threads : pc[t] # "native"

(* What the code does ensure: the only thread that can be in native code of *)
(* a freed engine is one that join(500) gave up.                            *)
FreedUnderGivenUpOnly ==
    freed => \A t \in Threads : pc[t] = "native" => t \in givenUp

(* The timer frees the engine only when no sync is inside a setter:         *)
(* cancelling the scope is not enough, the mutex has to be waited for.      *)
FreeOnlyWhenSyncsLeft == freed => syncPc # "native"

(* The flag that makes restartRecording() and the rebuild requests refuse   *)
(* is never left set by a callback: a restart cannot disable later ones.    *)
NotStuckDisposing == mainPc = "idle" => ~isProcessorDisposing

(* Once started, a service whose current recorder thread is gone has asked  *)
(* for its own end: the apps it muted are never left silent for good.  Only *)
(* an IOException, which the loop ignores, ends the thread without a word.  *)
DeadCaptureMeansStop ==
    mainPc = "idle" /\ nThreads > 0 /\ ~stopRequested =>
        /\ recorderThread # Null
        /\ Alive(recorderThread) \/ quiet

(* The capture rules are baked into the AudioRecord, so after any change of *)
(* them the current thread has a newer AudioRecord, or still has to rebuild *)
(* it, or is on its way out.  Only a thread that join(500) gave up can take *)
(* the request away.                                                        *)
RebuildNotLost ==
    mainPc = "idle" /\ recorderThread # Null =>
        \/ fresh
        \/ recreateRecorderRequested
        \/ pc[recorderThread] \in {"rebuild", "cleanup", "ended"}
        \/ requestTaken

(* A service asked to stop gives the projection back, frees the engine and   *)
(* sees all of its recorder threads end, but for those that a join gave up.  *)
CaptureEnds ==
    stopRequested ~>
        /\ mainPc = "destroyed" /\ freed /\ ~mediaProjection
        /\ \A t \in Threads \ givenUp : ~Alive(t)

(* A requested rebuild reaches the current thread, idle or not, unless the  *)
(* service is asked to stop, a thread given up takes the request, or an     *)
(* IOException ended the thread.                                            *)
RebuildServed ==
    recreateRecorderRequested /\ recorderThread # Null ~>
        \/ fresh
        \/ stopRequested
        \/ requestTaken
        \/ quiet
=============================================================================
