---------------------------- MODULE SessionMuting ----------------------------
(***************************************************************************)
(* Which apps are muted and which apps are captured.  Rootless processing   *)
(* mutes an app with an effect on its session and plays the captured audio  *)
(* back processed, so the two sets have to agree: an app that is muted and  *)
(* not captured is silent, one that is captured and not muted is heard      *)
(* twice.                                                                   *)
(*                                                                          *)
(* The main thread polls the sessions of the system (BaseSessionManager),   *)
(* keeps the policies of SessionRecordingPolicyManager and the sessions of  *)
(* BaseSessionDatabase; the recorder thread bakes the uids to capture into  *)
(* a new AudioRecord (buildAudioRecord) and sets the filters of the same    *)
(* database, without a lock.                                                *)
(***************************************************************************)
EXTENDS Naturals, FiniteSets

CONSTANTS
    Uids,                \* apps
    Own,                 \* the app's own uid
    Sids,                \* audio sessions
    Owner,               \* the uid of each session
    ExcludedPackages,    \* apps of the fixed list excludedPackages
    ContinuousPolling,   \* SessionUpdateMode
    PolicyLogReadable,   \* does dumpCaptureAllowlistLog() always find the log?
    MaxChanges           \* bound: changes of the settings and of the system

ASSUME ConstantsAssumption ==
    /\ Own \in Uids
    /\ Owner \in [Sids -> Uids]
    /\ ExcludedPackages \subseteq Uids
    /\ ContinuousPolling \in BOOLEAN
    /\ PolicyLogReadable \in BOOLEAN
    /\ MaxChanges \in Nat

VARIABLES
    playing,             \* recordable sessions of the system
    sysRestricted,       \* apps that forbid playback capture
    excludeRestricted,   \* settings of the service: excludeRestrictedSessions,
    allowlistMode,       \* allowlistMode
    appList,             \* and the blocklist database
    changes,
    policy,              \* restricted uids of the SessionRecordingPolicyManager
    pollPosted,          \* a launched pollOnce(false) that has not run yet
    dump,                \* who has pollingMutex: "none", "reading" on the IO
                         \* dispatcher, "read", or "handling" on main
    dumped,              \* the dump: sessions, restricted uids if it has
                         \* policies, and whether dumpSessions() returned null
    mainPc,
    toAdd,               \* addedSessions still to visit
    toRemove,            \* removedSessions
    accepted,            \* passed the check of addSession, not yet inserted
    sessionList,         \* muted sessions
    allowedUids,         \* null in the code is all of Uids here
    excludedUids,
    isDisposing,
    recreateRecorderRequested,
    rebuildPc,           \* where buildAudioRecord is on the recorder thread
    newAllowed,          \* addMatchingUid: all of Uids when there is none
    newExcluded,         \* excludeUid
    captured,            \* the uids the current AudioRecord captures
    raced                \* history: sessions inserted after filters that
                         \* reject them had been set

systemVars == <<playing, sysRestricted>>
settingVars == <<excludeRestricted, allowlistMode, appList>>
pollVars == <<pollPosted, dump, dumped>>
updateVars == <<mainPc, toAdd, toRemove, accepted>>
filterVars == <<allowedUids, excludedUids>>
rebuildVars == <<rebuildPc, newAllowed, newExcluded, captured>>
vars == <<systemVars, settingVars, changes, policy, pollVars, updateVars,
          sessionList, filterVars, isDisposing, recreateRecorderRequested,
          rebuildVars, raced>>

NoDump ==
    [sessions |-> {}, restricted |-> {}, policies |-> FALSE, null |-> FALSE]

(* The filters of the database: both have to let a uid in.                  *)
Admitted == allowedUids \ excludedUids

(* getRestrictedUids(), read only when restricted apps are left alone.      *)
Restricted == IF excludeRestricted THEN policy ELSE {}

(* The apps to capture in allowlist mode; empty means "not configured".     *)
Allowlisted ==
    IF allowlistMode THEN appList \ (Restricted \union {Own}) ELSE {}

(* The apps to leave alone when there is no allowlist.                      *)
Blocked ==
    Restricted \union (IF allowlistMode THEN {} ELSE appList) \union {Own}

(* What buildAudioRecord() would capture if it ran now.                     *)
Rules == IF Allowlisted # {} THEN Allowlisted ELSE Uids \ Blocked

Init ==
    /\ playing \in SUBSET Sids
    /\ sysRestricted \in SUBSET (Uids \ {Own})
    /\ excludeRestricted \in BOOLEAN
    /\ allowlistMode \in BOOLEAN
    /\ appList \in SUBSET Uids
    /\ changes = 0
    /\ policy = {}
    /\ pollPosted = TRUE
    /\ dump = "none"
    /\ dumped = NoDump
    /\ mainPc = "idle"
    /\ toAdd = {}
    /\ toRemove = {}
    /\ accepted = {}
    /\ sessionList = {}
    /\ newAllowed = IF Allowlisted # {} THEN Allowlisted ELSE Uids
    /\ newExcluded = IF Allowlisted # {} THEN {} ELSE Blocked
    /\ allowedUids = newAllowed
    /\ excludedUids = newExcluded
    /\ captured = newAllowed \ newExcluded
    /\ isDisposing = FALSE
    /\ recreateRecorderRequested = FALSE
    /\ rebuildPc = "steady"
    /\ raced = {}

-----------------------------------------------------------------------------
(* The system and the user.                                                 *)

Change == changes < MaxChanges /\ changes' = changes + 1

(* Sessions appear and vanish; the playback callback posts a poll.          *)
PlaybackChanges ==
    /\ Change
    /\ playing' \in SUBSET Sids
    /\ playing' # playing
    /\ pollPosted' = (pollPosted \/ ~isDisposing)
    /\ UNCHANGED <<sysRestricted, settingVars, policy, dump, dumped,
                   updateVars, sessionList, filterVars, isDisposing,
                   recreateRecorderRequested, rebuildVars, raced>>

(* An app forbids or allows capture: seen only by a later dump.             *)
RestrictionsChange ==
    /\ Change
    /\ sysRestricted' \in SUBSET (Uids \ {Own})
    /\ sysRestricted' # sysRestricted
    /\ UNCHANGED <<playing, settingVars, policy, pollVars, updateVars,
                   sessionList, filterVars, isDisposing,
                   recreateRecorderRequested, rebuildVars, raced>>

(* A setting is loaded, or the app list observed; the AudioRecord has to be *)
(* rebuilt.                                                                 *)
SettingsChange ==
    /\ mainPc = "idle"
    /\ ~isDisposing
    /\ Change
    /\ \/ /\ excludeRestricted' = ~excludeRestricted
          /\ UNCHANGED <<allowlistMode, appList>>
       \/ /\ allowlistMode' = ~allowlistMode
          /\ UNCHANGED <<excludeRestricted, appList>>
       \/ /\ appList' \in SUBSET Uids
          /\ UNCHANGED <<excludeRestricted, allowlistMode>>
    /\ recreateRecorderRequested' = TRUE
    /\ UNCHANGED <<systemVars, policy, pollVars, updateVars, sessionList,
                   filterVars, isDisposing, rebuildVars, raced>>

-----------------------------------------------------------------------------
(* Polling.                                                                 *)

(* pollOnce(false) runs: it gives up when another poll has the mutex.       *)
RunPoll ==
    /\ mainPc = "idle"
    /\ pollPosted
    /\ pollPosted' = FALSE
    /\ dump' = IF dump = "none" THEN "reading" ELSE dump
    /\ UNCHANGED <<systemVars, settingVars, changes, policy, dumped,
                   updateVars, sessionList, filterVars, isDisposing,
                   recreateRecorderRequested, rebuildVars, raced>>

(* A round of the continuous polling job.                                   *)
PollAgain ==
    /\ ContinuousPolling
    /\ mainPc = "idle"
    /\ dump = "none"
    /\ dump' = "reading"
    /\ UNCHANGED <<systemVars, settingVars, changes, policy, pollPosted,
                   dumped, updateVars, sessionList, filterVars, isDisposing,
                   recreateRecorderRequested, rebuildVars, raced>>

(* dumpSessions(): null when every method finds no session at all (other    *)
(* sessions than those of interest may be in the dump).  Only the dump of   *)
(* the audio policy service has policies, the other methods have none.      *)
ReadDump ==
    /\ dump = "reading"
    /\ dump' = "read"
    /\ \E null \in BOOLEAN, policies \in BOOLEAN :
          /\ null => playing = {} /\ ~policies
          /\ dumped' = [sessions |-> playing, null |-> null,
                        restricted |-> IF policies THEN sysRestricted ELSE {},
                        policies |-> policies]
    /\ UNCHANGED <<systemVars, settingVars, changes, policy, pollPosted,
                   updateVars, sessionList, filterVars, isDisposing,
                   recreateRecorderRequested, rebuildVars, raced>>

(* The policies handleSessionDump() gives to update(): those of the dump;   *)
(* without them the capture log is read now, and when there is none the     *)
(* policies stay.                                                           *)
PoliciesRead ==
    IF dumped.policies THEN {dumped.restricted}
    ELSE {sysRestricted} \union (IF PolicyLogReadable THEN {} ELSE {policy})

(* handleSessionDump(): the policies first, the listeners called after the  *)
(* list has changed.                                                        *)
UpdatePolicy ==
    /\ mainPc = "idle"
    /\ dump = "read"
    /\ dump' = "handling"
    /\ policy' \in IF isDisposing THEN {policy} ELSE PoliciesRead
    /\ mainPc' = IF policy' = policy THEN "update" ELSE "notify"
    /\ UNCHANGED <<systemVars, settingVars, changes, pollPosted, dumped,
                   toAdd, toRemove, accepted, sessionList, filterVars,
                   isDisposing, recreateRecorderRequested, rebuildVars,
                   raced>>

(* Mutant of NotifyPolicy: in allowlist mode the rebuild seems needless.    *)
NotifyUnlessAllowlist ==
    /\ mainPc = "notify"
    /\ recreateRecorderRequested' =
          (\/ recreateRecorderRequested
           \/ excludeRestricted /\ ~isDisposing /\ ~allowlistMode)
    /\ mainPc' = "update"
    /\ UNCHANGED <<systemVars, settingVars, changes, policy, pollVars,
                   toAdd, toRemove, accepted, sessionList, filterVars,
                   isDisposing, rebuildVars, raced>>

(* onSessionRecordingPolicyChanged for a major update.                      *)
NotifyPolicy ==
    /\ mainPc = "notify"
    /\ recreateRecorderRequested' =
          (recreateRecorderRequested \/ (excludeRestricted /\ ~isDisposing))
    /\ mainPc' = "update"
    /\ UNCHANGED <<systemVars, settingVars, changes, policy, pollVars,
                   toAdd, toRemove, accepted, sessionList, filterVars,
                   isDisposing, rebuildVars, raced>>

-----------------------------------------------------------------------------
(* BaseSessionDatabase.update() and addSession().                           *)

(* Mutant of DumpIgnored: a dump in flight outlives the service.            *)
OnlyNullIgnored == dumped.null

DumpIgnored == isDisposing \/ dumped.null

(* The two differences are taken; nothing when disposing or without a dump. *)
(* Our own sessions and those of the excluded packages are skipped.         *)
BeginUpdate ==
    /\ mainPc = "update"
    /\ IF DumpIgnored
       THEN /\ mainPc' = "idle"
            /\ dump' = "none"
            /\ dumped' = NoDump
            /\ UNCHANGED <<toAdd, toRemove>>
       ELSE /\ mainPc' = "add"
            /\ toAdd' = {s \in dumped.sessions \ sessionList :
                            /\ Owner[s] \in Admitted
                            /\ Owner[s] \notin {Own} \union ExcludedPackages}
            /\ toRemove' = sessionList \ dumped.sessions
            /\ UNCHANGED <<dump, dumped>>
    /\ UNCHANGED <<systemVars, settingVars, changes, policy, pollPosted,
                   accepted, sessionList, filterVars, isDisposing,
                   recreateRecorderRequested, rebuildVars, raced>>

(* addSession() checks the filters again ...                                *)
AddSession(s) ==
    /\ mainPc = "add"
    /\ s \in toAdd
    /\ toAdd' = toAdd \ {s}
    /\ IF Owner[s] \in Admitted
       THEN accepted' = {s} /\ mainPc' = "insert"
       ELSE UNCHANGED <<accepted, mainPc>>
    /\ UNCHANGED <<systemVars, settingVars, changes, policy, pollVars,
                   toRemove, sessionList, filterVars, isDisposing,
                   recreateRecorderRequested, rebuildVars, raced>>

(* ... and inserts once the muting effect is attached.                      *)
InsertSession ==
    /\ mainPc = "insert"
    /\ sessionList' = sessionList \union accepted
    /\ raced' = {s \in raced \union accepted :
                    s \in accepted => Owner[s] \notin Admitted}
    /\ accepted' = {}
    /\ mainPc' = "add"
    /\ UNCHANGED <<systemVars, settingVars, changes, policy, pollVars, toAdd,
                   toRemove, filterVars, isDisposing,
                   recreateRecorderRequested, rebuildVars>>

(* Mutant of RemoveSessions: the first rejected session ends the update.    *)
RemoveTooEarly ==
    /\ mainPc = "add"
    /\ sessionList' = sessionList \ toRemove
    /\ toRemove' = {}
    /\ mainPc' = "idle"
    /\ dump' = "none"
    /\ dumped' = NoDump
    /\ UNCHANGED <<systemVars, settingVars, changes, policy, pollPosted,
                   toAdd, accepted, filterVars, isDisposing,
                   recreateRecorderRequested, rebuildVars, raced>>

(* Mutant of RemoveSessions: the polling mutex stays locked.                *)
RemoveKeepsMutex ==
    /\ mainPc = "add"
    /\ toAdd = {}
    /\ sessionList' = sessionList \ toRemove
    /\ toRemove' = {}
    /\ mainPc' = "idle"
    /\ UNCHANGED <<systemVars, settingVars, changes, policy, pollVars,
                   toAdd, accepted, filterVars, isDisposing,
                   recreateRecorderRequested, rebuildVars, raced>>

(* The vanished sessions go last, and the mutex is released.                *)
RemoveSessions ==
    /\ mainPc = "add"
    /\ toAdd = {}
    /\ sessionList' = sessionList \ toRemove
    /\ toRemove' = {}
    /\ mainPc' = "idle"
    /\ dump' = "none"
    /\ dumped' = NoDump
    /\ UNCHANGED <<systemVars, settingVars, changes, policy, pollPosted,
                   toAdd, accepted, filterVars, isDisposing,
                   recreateRecorderRequested, rebuildVars, raced>>

(* The end of onDestroy: every effect is released.  The polls go on.        *)
Destroy ==
    /\ mainPc = "idle"
    /\ ~isDisposing
    /\ isDisposing' = TRUE
    /\ sessionList' = {}
    /\ UNCHANGED <<systemVars, settingVars, changes, policy, pollVars,
                   updateVars, filterVars, recreateRecorderRequested,
                   rebuildVars, raced>>

-----------------------------------------------------------------------------
(* buildAudioRecord() on the recorder thread.                               *)

BeginRebuild ==
    /\ rebuildPc = "steady"
    /\ recreateRecorderRequested
    /\ recreateRecorderRequested' = FALSE
    /\ rebuildPc' = "snapshot"
    /\ UNCHANGED <<systemVars, settingVars, changes, policy, pollVars,
                   updateVars, sessionList, filterVars, isDisposing,
                   newAllowed, newExcluded, captured, raced>>

(* The allowlist is worked out; when it is empty the exclusions are.        *)
SnapshotAllowlist ==
    /\ rebuildPc = "snapshot"
    /\ IF Allowlisted # {}
       THEN /\ newAllowed' = Allowlisted
            /\ newExcluded' = {}
            /\ rebuildPc' = "setAllowed"
       ELSE /\ rebuildPc' = "exclude"
            /\ UNCHANGED <<newAllowed, newExcluded>>
    /\ UNCHANGED <<systemVars, settingVars, changes, policy, pollVars,
                   updateVars, sessionList, filterVars, isDisposing,
                   recreateRecorderRequested, captured, raced>>

(* The policies and settings are read a second time here.                   *)
SnapshotExclusions ==
    /\ rebuildPc = "exclude"
    /\ newAllowed' = Uids
    /\ newExcluded' = Blocked
    /\ pollPosted' = (pollPosted \/ ~excludeRestricted)
    /\ rebuildPc' = "setAllowed"
    /\ UNCHANGED <<systemVars, settingVars, changes, policy, dump, dumped,
                   updateVars, sessionList, filterVars, isDisposing,
                   recreateRecorderRequested, captured, raced>>

(* setAllowedUids() and setExcludedUids() also unmute what they reject.     *)
SetAllowedUids ==
    /\ rebuildPc = "setAllowed"
    /\ allowedUids' = newAllowed
    /\ sessionList' = {s \in sessionList : Owner[s] \in newAllowed}
    /\ rebuildPc' = "setExcluded"
    /\ UNCHANGED <<systemVars, settingVars, changes, policy, pollVars,
                   updateVars, excludedUids, isDisposing,
                   recreateRecorderRequested, newAllowed, newExcluded,
                   captured, raced>>

(* Mutant of SetExcludedUids: what is already muted stays muted.            *)
SetExcludedKeepsMuted ==
    /\ rebuildPc = "setExcluded"
    /\ excludedUids' = newExcluded
    /\ pollPosted' = TRUE
    /\ rebuildPc' = "build"
    /\ UNCHANGED <<systemVars, settingVars, changes, policy, dump, dumped,
                   updateVars, sessionList, allowedUids, isDisposing,
                   recreateRecorderRequested, newAllowed, newExcluded,
                   captured, raced>>

SetExcludedUids ==
    /\ rebuildPc = "setExcluded"
    /\ excludedUids' = newExcluded
    /\ sessionList' = {s \in sessionList : Owner[s] \notin newExcluded}
    /\ pollPosted' = TRUE
    /\ rebuildPc' = "build"
    /\ UNCHANGED <<systemVars, settingVars, changes, policy, dump, dumped,
                   updateVars, allowedUids, isDisposing,
                   recreateRecorderRequested, newAllowed, newExcluded,
                   captured, raced>>

(* Mutant of BuildRecord: the request is cleared after the rebuild.         *)
BuildClearsRequest ==
    /\ rebuildPc = "build"
    /\ captured' = newAllowed \ newExcluded
    /\ rebuildPc' = "steady"
    /\ recreateRecorderRequested' = FALSE
    /\ UNCHANGED <<systemVars, settingVars, changes, policy, pollVars,
                   updateVars, sessionList, filterVars, isDisposing,
                   newAllowed, newExcluded, raced>>

BuildRecord ==
    /\ rebuildPc = "build"
    /\ captured' = newAllowed \ newExcluded
    /\ rebuildPc' = "steady"
    /\ UNCHANGED <<systemVars, settingVars, changes, policy, pollVars,
                   updateVars, sessionList, filterVars, isDisposing,
                   recreateRecorderRequested, newAllowed, newExcluded, raced>>

-----------------------------------------------------------------------------
PollStep == RunPoll \/ PollAgain \/ ReadDump

MainStep ==
    \/ UpdatePolicy \/ NotifyPolicy \/ BeginUpdate
    \/ (\E s \in Sids : AddSession(s)) \/ InsertSession \/ RemoveSessions

RecorderStep ==
    \/ BeginRebuild \/ SnapshotAllowlist \/ SnapshotExclusions
    \/ SetAllowedUids \/ SetExcludedUids \/ BuildRecord

Environment ==
    PlaybackChanges \/ RestrictionsChange \/ SettingsChange \/ Destroy

Next == Environment \/ PollStep \/ MainStep \/ RecorderStep

Spec == Init /\ [][Next]_vars

(* The main looper, the IO dispatcher and the recorder thread keep running. *)
Fairness ==
    /\ WF_vars(RunPoll) /\ WF_vars(ReadDump) /\ WF_vars(MainStep)
    /\ SF_vars(PollAgain)
    /\ WF_vars(RecorderStep)

FairSpec == Spec /\ Fairness

-----------------------------------------------------------------------------
(* Properties.                                                              *)

(* Every variable stays in its type.                                        *)
TypeOK ==
    /\ playing \in SUBSET Sids
    /\ sysRestricted \in SUBSET Uids
    /\ excludeRestricted \in BOOLEAN
    /\ allowlistMode \in BOOLEAN
    /\ appList \in SUBSET Uids
    /\ changes \in 0 .. MaxChanges
    /\ policy \in SUBSET Uids
    /\ pollPosted \in BOOLEAN
    /\ dump \in {"none", "reading", "read", "handling"}
    /\ dumped \in [sessions : SUBSET Sids, restricted : SUBSET Uids,
                   policies : BOOLEAN, null : BOOLEAN]
    /\ mainPc \in {"idle", "notify", "update", "add", "insert"}
    /\ toAdd \in SUBSET Sids
    /\ mainPc \in {"idle", "notify", "update"} => toAdd = {}
    /\ toRemove \in SUBSET Sids
    /\ accepted \in SUBSET Sids
    /\ sessionList \in SUBSET Sids
    /\ allowedUids \in SUBSET Uids
    /\ excludedUids \in SUBSET Uids
    /\ isDisposing \in BOOLEAN
    /\ recreateRecorderRequested \in BOOLEAN
    /\ rebuildPc \in {"steady", "snapshot", "exclude", "setAllowed",
                      "setExcluded", "build"}
    /\ newAllowed \in SUBSET Uids
    /\ newExcluded \in SUBSET Uids
    /\ captured \in SUBSET Uids
    /\ raced \in SUBSET Sids

(* While a recorder captures, every muted app is one that it captures, so   *)
(* that no app is silenced.  The one way to be muted all the same is an     *)
(* insertion overtaken by the filters (BaseSessionDatabase.addSession).     *)
MutedIsCaptured ==
    rebuildPc = "steady" => \A s \in sessionList \ raced : Owner[s] \in captured

(* With no rebuild under way, requested or about to be requested, the       *)
(* AudioRecord captures what the settings and the known policies ask for.   *)
ConfigCurrent ==
    rebuildPc = "steady" /\ ~recreateRecorderRequested /\ mainPc # "notify"
        /\ ~isDisposing
        => captured = Rules

(* A dump that arrives after the service is destroyed mutes nothing.        *)
NothingMutedAfterDestroy == isDisposing => sessionList = {}

(* An app that forbids capture is left alone sooner or later, when the user *)
(* wants such apps left alone (the text of the setting).                    *)
RestrictedUnmuted ==
    \A s \in Sids :
        Owner[s] \in sysRestricted /\ excludeRestricted ~>
            \/ s \notin sessionList
            \/ Owner[s] \notin sysRestricted
            \/ ~excludeRestricted

(* What the code does ensure: such an app is left alone sooner or later     *)
(* unless its insertion was overtaken by the filters.                       *)
RestrictedUnmutedButRaced ==
    \A s \in Sids :
        Owner[s] \in sysRestricted /\ excludeRestricted ~>
            \/ s \notin sessionList \ raced
            \/ Owner[s] \notin sysRestricted
            \/ ~excludeRestricted

(* Rootless mode mutes the source and replays it processed (the comment in  *)
(* projectionCallback): while it polls continuously, a playing session of an *)
(* app that is captured is muted sooner or later, so that the app is not     *)
(* heard twice; not so the sessions of the excluded packages, which are      *)
(* captured and never muted.                                                *)
PlayingMuted ==
    \A s \in Sids :
        s \in playing /\ Owner[s] \in captured \ ExcludedPackages ~>
            \/ s \in sessionList
            \/ s \notin playing
            \/ Owner[s] \notin captured
            \/ isDisposing
=============================================================================
