------------------------- MODULE SessionMutingProofs -------------------------
(***************************************************************************)
(* Agreement of muting and capture in SessionMuting, for every set of apps  *)
(* and sessions.                                                            *)
(***************************************************************************)
EXTENDS SessionMuting, TLAPS

(* The two threads the properties are about; everything else leaves the     *)
(* muted sessions, the filters and the recorder alone.                      *)
LEMMA PollAndSystemSteps ==
    ASSUME PlaybackChanges \/ RestrictionsChange \/ PollStep
    PROVE  UNCHANGED <<settingVars, policy, updateVars, sessionList,
                       filterVars, isDisposing, recreateRecorderRequested,
                       rebuildVars, raced>>
  BY DEF PlaybackChanges, RestrictionsChange, PollStep, RunPoll, PollAgain,
         ReadDump

-----------------------------------------------------------------------------
(* An update is under way only before the service is destroyed: the main    *)
(* thread runs one or the other.                                            *)
DestroyInv ==
    isDisposing => sessionList = {} /\ mainPc \notin {"add", "insert"}

(* A dump that arrives after the service is destroyed mutes nothing.        *)
THEOREM DestroyedMutesNothing == Spec => []NothingMutedAfterDestroy
<1>1. Init => DestroyInv
  BY DEF Init, DestroyInv
<1>2. DestroyInv /\ [Next]_vars => DestroyInv'
  <2> SUFFICES ASSUME DestroyInv, [Next]_vars PROVE DestroyInv'
    OBVIOUS
  <2> USE DEF DestroyInv, updateVars
  <2>1. CASE PlaybackChanges \/ RestrictionsChange \/ PollStep
    BY <2>1, PollAndSystemSteps
  <2>2. CASE SettingsChange BY <2>2 DEF SettingsChange
  <2>3. CASE Destroy BY <2>3 DEF Destroy
  <2>4. CASE UpdatePolicy BY <2>4 DEF UpdatePolicy
  <2>5. CASE NotifyPolicy BY <2>5 DEF NotifyPolicy
  <2>6. CASE BeginUpdate BY <2>6 DEF BeginUpdate, DumpIgnored
  <2>7. ASSUME NEW s \in Sids, AddSession(s) PROVE DestroyInv'
    BY <2>7 DEF AddSession
  <2>8. CASE InsertSession BY <2>8 DEF InsertSession
  <2>9. CASE RemoveSessions BY <2>9 DEF RemoveSessions
  <2>10. CASE RecorderStep
    <3>1. UNCHANGED <<mainPc, isDisposing>>
      BY <2>10
      DEF RecorderStep, BeginRebuild, SnapshotAllowlist, SnapshotExclusions,
          SetAllowedUids, SetExcludedUids, BuildRecord
    <3>2. sessionList' \subseteq sessionList
      BY <2>10
      DEF RecorderStep, BeginRebuild, SnapshotAllowlist, SnapshotExclusions,
          SetAllowedUids, SetExcludedUids, BuildRecord
    <3> QED BY <3>1, <3>2
  <2>11. CASE UNCHANGED vars BY <2>11 DEF vars
  <2> QED
    BY <2>1, <2>2, <2>3, <2>4, <2>5, <2>6, <2>7, <2>8, <2>9, <2>10, <2>11
    DEF Next, Environment, MainStep
<1>3. DestroyInv => NothingMutedAfterDestroy
  BY DEF DestroyInv, NothingMutedAfterDestroy
<1> QED BY <1>1, <1>2, <1>3, PTL DEF Spec

-----------------------------------------------------------------------------
(* No change of the rules is on its way to the recorder: nothing requested, *)
(* and no listener still to be told that matters.                           *)
Settled ==
    /\ ~recreateRecorderRequested
    /\ ~isDisposing
    /\ mainPc = "notify" => ~excludeRestricted

(* At each stage of a rebuild, what was worked out so far is still what the *)
(* settings and policies ask for, unless another rebuild was requested.     *)
RulesInv ==
    Settled =>
        /\ rebuildPc = "steady" => captured = Rules
        /\ rebuildPc = "exclude" => Allowlisted = {}
        /\ rebuildPc \in {"setAllowed", "setExcluded", "build"} =>
              newAllowed \ newExcluded = Rules

(* While nobody touches settings and policies the rules stay.               *)
LEMMA SameRules ==
    ASSUME UNCHANGED <<settingVars, policy>>
    PROVE  UNCHANGED <<Allowlisted, Blocked, Rules>>
<1>1. UNCHANGED Restricted
  BY DEF settingVars, Restricted
<1>2. UNCHANGED Allowlisted
  BY <1>1 DEF settingVars, Allowlisted
<1>3. UNCHANGED Blocked
  BY <1>1 DEF settingVars, Blocked
<1> QED BY <1>2, <1>3 DEF Rules

LEMMA SameRulesIfRestrictedIgnored ==
    ASSUME UNCHANGED settingVars, ~excludeRestricted
    PROVE  UNCHANGED <<Allowlisted, Blocked, Rules>>
<1>1. UNCHANGED Restricted
  BY DEF settingVars, Restricted
<1>2. UNCHANGED Allowlisted
  BY <1>1 DEF settingVars, Allowlisted
<1>3. UNCHANGED Blocked
  BY <1>1 DEF settingVars, Blocked
<1> QED BY <1>2, <1>3 DEF Rules

LEMMA RulesInvStep ==
    ASSUME RulesInv, [Next]_vars PROVE RulesInv'
<1> USE DEF RulesInv, Settled, updateVars, rebuildVars
<1>1. CASE PlaybackChanges \/ RestrictionsChange \/ PollStep
  BY <1>1, PollAndSystemSteps, SameRules DEF settingVars
<1>2. CASE SettingsChange BY <1>2 DEF SettingsChange
<1>3. CASE Destroy BY <1>3 DEF Destroy
<1>4. CASE UpdatePolicy
  <2>1. CASE policy' = policy
    BY <1>4, <2>1, SameRules DEF UpdatePolicy
  <2>2. CASE policy' # policy
    <3>1. /\ mainPc = "idle" /\ mainPc' = "notify"
          /\ UNCHANGED <<settingVars, rebuildVars, isDisposing,
                         recreateRecorderRequested>>
      BY <1>4, <2>2 DEF UpdatePolicy
    <3>2. CASE excludeRestricted BY <3>1, <3>2 DEF settingVars
    <3>3. CASE ~excludeRestricted
      BY <3>1, <3>3, SameRulesIfRestrictedIgnored
    <3> QED BY <3>2, <3>3
  <2> QED BY <2>1, <2>2
<1>5. CASE NotifyPolicy
  BY <1>5, SameRules DEF NotifyPolicy
<1>6. CASE BeginUpdate BY <1>6, SameRules DEF BeginUpdate, DumpIgnored
<1>7. ASSUME NEW s \in Sids, AddSession(s) PROVE RulesInv'
  BY <1>7, SameRules DEF AddSession
<1>8. CASE InsertSession BY <1>8, SameRules DEF InsertSession
<1>9. CASE RemoveSessions BY <1>9, SameRules DEF RemoveSessions
<1>10. CASE BeginRebuild BY <1>10 DEF BeginRebuild
<1>11. CASE SnapshotAllowlist
  <2>1. UNCHANGED <<Allowlisted, Blocked, Rules>>
    BY <1>11, SameRules DEF SnapshotAllowlist
  <2>2. UNCHANGED <<recreateRecorderRequested, isDisposing, mainPc,
                    excludeRestricted>>
    BY <1>11 DEF SnapshotAllowlist, settingVars
  <2>3. CASE Allowlisted # {}
    <3>1. newAllowed' \ newExcluded' = Rules
      BY <1>11, <2>3 DEF SnapshotAllowlist, Rules
    <3> QED BY <1>11, <2>1, <2>2, <2>3, <3>1 DEF SnapshotAllowlist
  <2>4. CASE Allowlisted = {}
    BY <1>11, <2>1, <2>2, <2>4 DEF SnapshotAllowlist
  <2> QED BY <2>3, <2>4
<1>12. CASE SnapshotExclusions
  <2>1. UNCHANGED <<Allowlisted, Blocked, Rules>>
    BY <1>12, SameRules DEF SnapshotExclusions
  <2>2. Allowlisted = {} => newAllowed' \ newExcluded' = Rules
    BY <1>12 DEF SnapshotExclusions, Rules
  <2> QED BY <1>12, <2>1, <2>2 DEF SnapshotExclusions, settingVars
<1>13. CASE SetAllowedUids
  BY <1>13, SameRules DEF SetAllowedUids, settingVars
<1>14. CASE SetExcludedUids
  BY <1>14, SameRules DEF SetExcludedUids, settingVars
<1>15. CASE BuildRecord
  <2>1. UNCHANGED Rules
    BY <1>15, SameRules DEF BuildRecord
  <2>2. captured' = newAllowed \ newExcluded /\ rebuildPc' = "steady"
    BY <1>15 DEF BuildRecord
  <2>3. Settled' => Settled
    BY <1>15 DEF BuildRecord, settingVars
  <2> QED BY <1>15, <2>1, <2>2, <2>3 DEF BuildRecord
<1>16. CASE UNCHANGED vars BY <1>16, SameRules DEF vars, settingVars
<1> QED
  BY <1>1, <1>2, <1>3, <1>4, <1>5, <1>6, <1>7, <1>8, <1>9, <1>10, <1>11,
     <1>12, <1>13, <1>14, <1>15, <1>16
  DEF Next, Environment, MainStep, RecorderStep

(* The AudioRecord captures what the settings and the known policies ask    *)
(* for, unless a rebuild is under way, requested or about to be requested.  *)
THEOREM ConfigStaysCurrent == Spec => []ConfigCurrent
<1>1. Init => RulesInv
  <2> SUFFICES ASSUME Init PROVE captured = Rules /\ rebuildPc = "steady"
    BY DEF RulesInv
  <2>1. CASE Allowlisted # {} BY <2>1 DEF Init, Rules
  <2>2. CASE Allowlisted = {} BY <2>2 DEF Init, Rules
  <2> QED BY <2>1, <2>2 DEF Init
<1>2. RulesInv /\ [Next]_vars => RulesInv'
  BY RulesInvStep
<1>3. RulesInv => ConfigCurrent
  BY DEF RulesInv, Settled, ConfigCurrent
<1> QED BY <1>1, <1>2, <1>3, PTL DEF Spec

-----------------------------------------------------------------------------
(* Both filters admit every muted app at all times, but for the sessions    *)
(* they overtook, and outside a rebuild the AudioRecord captures what the   *)
(* filters admit.                                                           *)
FilterInv ==
    /\ \A s \in sessionList \ raced : Owner[s] \in Admitted
    /\ rebuildPc \in {"steady", "snapshot", "exclude", "setAllowed"} =>
          captured = Admitted
    /\ rebuildPc \in {"setExcluded", "build"} => allowedUids = newAllowed
    /\ rebuildPc = "build" => excludedUids = newExcluded

(* No app is muted and not captured, except through a session inserted      *)
(* after the filters that reject it were set: between the check of          *)
(* addSession and its insertion.                                            *)
THEOREM MutedAppsAreCaptured == Spec => []MutedIsCaptured
<1>1. Init => FilterInv
  BY DEF Init, FilterInv, Admitted
<1>2. FilterInv /\ [Next]_vars => FilterInv'
  <2> SUFFICES ASSUME FilterInv, [Next]_vars PROVE FilterInv'
    OBVIOUS
  <2> USE DEF FilterInv, Admitted, updateVars, filterVars, rebuildVars
  <2>1. CASE PlaybackChanges \/ RestrictionsChange \/ PollStep
    BY <2>1, PollAndSystemSteps
  <2>2. CASE SettingsChange BY <2>2 DEF SettingsChange
  <2>3. CASE Destroy BY <2>3 DEF Destroy
  <2>4. CASE UpdatePolicy BY <2>4 DEF UpdatePolicy
  <2>5. CASE NotifyPolicy BY <2>5 DEF NotifyPolicy
  <2>6. CASE BeginUpdate BY <2>6 DEF BeginUpdate, DumpIgnored
  <2>7. ASSUME NEW s \in Sids, AddSession(s) PROVE FilterInv'
    BY <2>7 DEF AddSession
  <2>8. CASE InsertSession
    <3>1. UNCHANGED <<filterVars, rebuildVars>>
      BY <2>8 DEF InsertSession
    <3>2. \A s \in sessionList' \ raced' : Owner[s] \in Admitted
      BY <2>8 DEF InsertSession
    <3> QED BY <3>1, <3>2
  <2>9. CASE RemoveSessions BY <2>9 DEF RemoveSessions
  <2>10. CASE BeginRebuild BY <2>10 DEF BeginRebuild
  <2>11. CASE SnapshotAllowlist BY <2>11 DEF SnapshotAllowlist
  <2>12. CASE SnapshotExclusions BY <2>12 DEF SnapshotExclusions
  <2>13. CASE SetAllowedUids BY <2>13 DEF SetAllowedUids
  <2>14. CASE SetExcludedUids BY <2>14 DEF SetExcludedUids
  <2>15. CASE BuildRecord BY <2>15 DEF BuildRecord
  <2>16. CASE UNCHANGED vars BY <2>16 DEF vars
  <2> QED
    BY <2>1, <2>2, <2>3, <2>4, <2>5, <2>6, <2>7, <2>8, <2>9, <2>10, <2>11,
       <2>12, <2>13, <2>14, <2>15, <2>16
    DEF Next, Environment, MainStep, RecorderStep
<1>3. FilterInv => MutedIsCaptured
  BY DEF FilterInv, MutedIsCaptured
<1> QED BY <1>1, <1>2, <1>3, PTL DEF Spec

-----------------------------------------------------------------------------
(* Where the main thread is between two sessions of an update, nothing is    *)
(* left to add; every filter and every captured set is one of apps.         *)
LEMMA RulesAreApps ==
    ASSUME appList \in SUBSET Uids, policy \in SUBSET Uids
    PROVE  Allowlisted \in SUBSET Uids /\ Blocked \in SUBSET Uids
  BY ConstantsAssumption DEF Allowlisted, Blocked, Restricted

SystemTypes ==
    /\ playing \in SUBSET Sids
    /\ sysRestricted \in SUBSET Uids
    /\ excludeRestricted \in BOOLEAN
    /\ allowlistMode \in BOOLEAN
    /\ appList \in SUBSET Uids
    /\ changes \in 0 .. MaxChanges

DumpTypes ==
    /\ policy \in SUBSET Uids
    /\ pollPosted \in BOOLEAN
    /\ dump \in {"none", "reading", "read", "handling"}
    /\ dumped \in [sessions : SUBSET Sids, restricted : SUBSET Uids,
                   policies : BOOLEAN, null : BOOLEAN]

UpdateTypes ==
    /\ mainPc \in {"idle", "notify", "update", "add", "insert"}
    /\ toAdd \in SUBSET Sids
    /\ mainPc \in {"idle", "notify", "update"} => toAdd = {}
    /\ toRemove \in SUBSET Sids
    /\ accepted \in SUBSET Sids
    /\ sessionList \in SUBSET Sids
    /\ isDisposing \in BOOLEAN
    /\ raced \in SUBSET Sids

RebuildTypes ==
    /\ allowedUids \in SUBSET Uids
    /\ excludedUids \in SUBSET Uids
    /\ recreateRecorderRequested \in BOOLEAN
    /\ rebuildPc \in {"steady", "snapshot", "exclude", "setAllowed",
                      "setExcluded", "build"}
    /\ newAllowed \in SUBSET Uids
    /\ newExcluded \in SUBSET Uids
    /\ captured \in SUBSET Uids

LEMMA TypesInParts ==
    TypeOK <=> SystemTypes /\ DumpTypes /\ UpdateTypes /\ RebuildTypes
  BY DEF TypeOK, SystemTypes, DumpTypes, UpdateTypes, RebuildTypes

LEMMA SystemTypesStay == SystemTypes /\ [Next]_vars => SystemTypes'
<1> SUFFICES ASSUME SystemTypes, [Next]_vars PROVE SystemTypes'
  OBVIOUS
<1> USE ConstantsAssumption DEF SystemTypes
<1>1. CASE UNCHANGED <<systemVars, settingVars, changes>>
  BY <1>1 DEF systemVars, settingVars
<1>2. CASE Destroy BY <1>2 DEF Destroy, systemVars, settingVars
<1>3. CASE PlaybackChanges BY <1>3 DEF PlaybackChanges, Change, settingVars
<1>4. CASE RestrictionsChange BY <1>4 DEF RestrictionsChange, Change, settingVars
<1>5. CASE SettingsChange
  <2>1. changes' \in 0 .. MaxChanges BY <1>5 DEF SettingsChange, Change
  <2>2. appList' \in SUBSET Uids BY <1>5, Zenon DEF SettingsChange
  <2>3. excludeRestricted' \in BOOLEAN BY <1>5, Zenon DEF SettingsChange
  <2>4. allowlistMode' \in BOOLEAN BY <1>5, Zenon DEF SettingsChange
  <2>5. UNCHANGED systemVars BY <1>5 DEF SettingsChange
  <2> QED BY <2>1, <2>2, <2>3, <2>4, <2>5 DEF systemVars
<1> QED
  BY <1>1, <1>2, <1>3, <1>4, <1>5
  DEF Next, Environment, PollStep, MainStep, RecorderStep, RunPoll, PollAgain,
      ReadDump, UpdatePolicy, NotifyPolicy, BeginUpdate, AddSession, InsertSession,
      RemoveSessions, BeginRebuild, SnapshotAllowlist, SnapshotExclusions,
      SetAllowedUids, SetExcludedUids, BuildRecord, vars

LEMMA DumpTypesStay == SystemTypes /\ DumpTypes /\ [Next]_vars => DumpTypes'
<1> SUFFICES ASSUME SystemTypes, DumpTypes, [Next]_vars PROVE DumpTypes'
  OBVIOUS
<1> USE DEF SystemTypes, DumpTypes, pollVars
<1>1. CASE UNCHANGED <<policy, pollVars>> BY <1>1
<1>2. CASE PlaybackChanges BY <1>2 DEF PlaybackChanges
<1>3. CASE RunPoll BY <1>3 DEF RunPoll
<1>4. CASE PollAgain BY <1>4 DEF PollAgain
<1>5. CASE ReadDump
  <2>1. UNCHANGED <<policy, pollPosted>> /\ dump' = "read"
    BY <1>5 DEF ReadDump
  <2>2. PICK null \in BOOLEAN, policies \in BOOLEAN :
          dumped' = [sessions |-> playing, null |-> null,
                     restricted |-> IF policies THEN sysRestricted ELSE {},
                     policies |-> policies]
    BY <1>5 DEF ReadDump
  <2>3. (IF policies THEN sysRestricted ELSE {}) \in SUBSET Uids
    OBVIOUS
  <2> QED BY <2>1, <2>2, <2>3
<1>6. CASE UpdatePolicy
  <2>1. PoliciesRead \subseteq SUBSET Uids
    BY DEF PoliciesRead
  <2> QED BY <1>6, <2>1 DEF UpdatePolicy
<1>7. CASE BeginUpdate \/ RemoveSessions
  <2>1. NoDump \in [sessions : SUBSET Sids, restricted : SUBSET Uids,
                     policies : BOOLEAN, null : BOOLEAN]
    BY DEF NoDump
  <2>2. /\ UNCHANGED <<policy, pollPosted>>
        /\ \/ dump' = dump /\ dumped' = dumped
           \/ dump' = "none" /\ dumped' = NoDump
    BY <1>7 DEF BeginUpdate, RemoveSessions
  <2> QED BY <2>1, <2>2
<1>8. CASE SnapshotExclusions BY <1>8 DEF SnapshotExclusions
<1>9. CASE SetExcludedUids BY <1>9 DEF SetExcludedUids
<1> QED
  BY <1>1, <1>2, <1>3, <1>4, <1>5, <1>6, <1>7, <1>8, <1>9
  DEF Next, Environment, PollStep, MainStep, RecorderStep, RestrictionsChange,
      SettingsChange, Destroy, NotifyPolicy, AddSession, InsertSession, BeginRebuild,
      SnapshotAllowlist, SetAllowedUids, BuildRecord, vars

LEMMA UpdateTypesStay == DumpTypes /\ UpdateTypes /\ [Next]_vars => UpdateTypes'
<1> SUFFICES ASSUME DumpTypes, UpdateTypes, [Next]_vars PROVE UpdateTypes'
  OBVIOUS
<1> USE DEF UpdateTypes, updateVars
<1>1. CASE UNCHANGED <<updateVars, sessionList, isDisposing, raced>> BY <1>1
<1>2. CASE Destroy BY <1>2 DEF Destroy
<1>3. CASE UpdatePolicy BY <1>3 DEF UpdatePolicy
<1>4. CASE NotifyPolicy BY <1>4 DEF NotifyPolicy
<1>5. CASE BeginUpdate BY <1>5 DEF BeginUpdate, DumpTypes
<1>6. ASSUME NEW s \in Sids, AddSession(s) PROVE UpdateTypes'
  <2>1. CASE Owner[s] \notin Admitted BY <1>6, <2>1 DEF AddSession
  <2>2. CASE Owner[s] \in Admitted BY <1>6, <2>2 DEF AddSession
  <2> QED BY <2>1, <2>2
<1>7. CASE InsertSession BY <1>7 DEF InsertSession
<1>8. CASE RemoveSessions BY <1>8 DEF RemoveSessions
<1>9. CASE SetAllowedUids BY <1>9 DEF SetAllowedUids
<1>10. CASE SetExcludedUids BY <1>10 DEF SetExcludedUids
<1> QED
  BY <1>1, <1>2, <1>3, <1>4, <1>5, <1>6, <1>7, <1>8, <1>9, <1>10
  DEF Next, Environment, PollStep, MainStep, RecorderStep, PlaybackChanges,
      RestrictionsChange, SettingsChange, RunPoll, PollAgain, ReadDump, BeginRebuild,
      SnapshotAllowlist, SnapshotExclusions, BuildRecord, vars

LEMMA RebuildTypesStay ==
    SystemTypes /\ DumpTypes /\ RebuildTypes /\ [Next]_vars => RebuildTypes'
<1> SUFFICES ASSUME SystemTypes, DumpTypes, RebuildTypes, [Next]_vars PROVE RebuildTypes'
  OBVIOUS
<1> USE DEF RebuildTypes, filterVars, rebuildVars
<1>1. CASE UNCHANGED <<filterVars, recreateRecorderRequested, rebuildVars>> BY <1>1
<1>2. CASE SettingsChange BY <1>2 DEF SettingsChange
<1>3. CASE NotifyPolicy BY <1>3 DEF NotifyPolicy
<1>4. CASE BeginRebuild BY <1>4 DEF BeginRebuild
<1>5. Allowlisted \in SUBSET Uids /\ Blocked \in SUBSET Uids
  BY RulesAreApps DEF SystemTypes, DumpTypes
<1>6. CASE SnapshotAllowlist BY <1>5, <1>6 DEF SnapshotAllowlist
<1>7. CASE SnapshotExclusions BY <1>5, <1>7 DEF SnapshotExclusions
<1>8. CASE SetAllowedUids BY <1>8 DEF SetAllowedUids
<1>9. CASE SetExcludedUids BY <1>9 DEF SetExcludedUids
<1>10. CASE BuildRecord BY <1>10 DEF BuildRecord
<1> QED
  BY <1>1, <1>2, <1>3, <1>4, <1>6, <1>7, <1>8, <1>9, <1>10
  DEF Next, Environment, PollStep, MainStep, RecorderStep, PlaybackChanges,
      RestrictionsChange, Destroy, RunPoll, PollAgain, ReadDump, UpdatePolicy,
      BeginUpdate, AddSession, InsertSession, RemoveSessions, vars

(* Whatever the two threads do in between, what is muted are sessions, what  *)
(* is captured are apps, and between two updates nothing is left to add.    *)
THEOREM TypeCorrect == Spec => []TypeOK
<1>1. Init => TypeOK
  <2> SUFFICES ASSUME Init PROVE TypeOK
    OBVIOUS
  <2>1. SystemTypes BY ConstantsAssumption DEF Init, SystemTypes
  <2>2. DumpTypes BY DEF Init, DumpTypes, NoDump
  <2>3. UpdateTypes BY DEF Init, UpdateTypes
  <2>4. Allowlisted \in SUBSET Uids /\ Blocked \in SUBSET Uids
    BY <2>1, <2>2, RulesAreApps DEF SystemTypes, DumpTypes
  <2>5. RebuildTypes BY <2>4 DEF Init, RebuildTypes
  <2> QED BY <2>1, <2>2, <2>3, <2>5, TypesInParts
<1>2. TypeOK /\ [Next]_vars => TypeOK'
  <2> SUFFICES ASSUME TypeOK, [Next]_vars PROVE TypeOK'
    OBVIOUS
  <2>1. SystemTypes /\ DumpTypes /\ UpdateTypes /\ RebuildTypes BY TypesInParts
  <2>2. SystemTypes' /\ DumpTypes' /\ UpdateTypes' /\ RebuildTypes'
    BY <2>1, SystemTypesStay, DumpTypesStay, UpdateTypesStay, RebuildTypesStay
  <2> QED BY <2>2 DEF TypeOK, SystemTypes, DumpTypes, UpdateTypes, RebuildTypes
<1> QED BY <1>1, <1>2, PTL DEF Spec
=============================================================================
