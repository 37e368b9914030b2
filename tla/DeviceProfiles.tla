---------------------------- MODULE DeviceProfiles ----------------------------
(***************************************************************************)
(* Settings per output device (ProfileManager, Preset) together with the     *)
(* ViPER4Android-only mode (V4aMode).  A change of output stores the live     *)
(* settings files under the profile that was active, deletes them, unpacks   *)
(* those of the new profile into a scratch folder, copies them over the live *)
(* ones and notes which profile is active; the process may die between any   *)
(* two of these, and what an unpacking that failed leaves in the scratch     *)
(* folder joins the next one.  While the mode is on, the effects that        *)
(* ViPER4Android lacks are switched off and parked in a record.  All of it   *)
(* runs on the main thread.                                                  *)
(***************************************************************************)
EXTENDS Naturals, FiniteSets

CONSTANTS
    Profiles,    \* one for each output
    Original,    \* effects ViPER4Android had
    NonV4a,      \* effects it had not
    Presets,     \* the user's own archives
    None,
    MaxChanges,  \* bound: what the user and the outputs do
    MaxFaults    \* bound: deaths of the process, files that cannot be written

Effects == Original \union NonV4a

(* Settings files: one for each effect, which switches it on or off; without *)
(* one the effect is off.                                                    *)
FileSets == [Effects -> {"missing", "off", "on"}]

ASSUME EffectsAssumption == Original \intersect NonV4a = {}
ASSUME PresetsAssumption == Presets \subseteq FileSets
ASSUME NoneAssumption == None \notin Profiles \union FileSets /\ \A S \in SUBSET Effects : S # None
ASSUME BoundsAssumption == MaxChanges \in Nat /\ MaxFaults \in Nat

VARIABLES
    live,          \* the dsp_*.xml files
    stored,        \* each profile's archive of them, None without one
    residue,       \* what is in cache/preset
    activeProfile, \* in memory
    savedProfile,  \* in profile.json
    currentDevice, \* the output, None until the first route callback
    enabled,       \* device profiles
    modeOn, record,\* the mode, what it has parked (None: no record)
    pc, newProfile,\* of a rotation, and where it goes
    chosen,        \* history: the effects the user has chosen for each profile
    mixed,         \* history: settings came in wholesale while the mode was on
    harmed,        \* history: profiles a fault has struck
    unparked,      \* history: the last load ended before the mode was applied
    changes, faults

files == <<live, stored, residue, savedProfile>>
mode == <<modeOn, record>>
history == <<chosen, mixed, harmed, unparked>>
bounds == <<changes, faults>>
vars == <<files, activeProfile, currentDevice, enabled, mode, pc, newProfile,
          history, bounds>>

-----------------------------------------------------------------------------
NoFiles == [e \in Effects |-> "missing"]
Files(s) == {e \in Effects : s[e] # "missing"}
On(s) == {e \in Effects : s[e] = "on"}

(* File by file over those that are there.                                   *)
CopiedOver(old, new) ==
    [e \in Effects |-> IF new[e] = "missing" THEN old[e] ELSE new[e]]

(* Where that may stop: a file cut off in the middle reads as an empty one.  *)
Midway(old, new) ==
    {s \in FileSets : \A e \in Effects :
        s[e] \in {old[e]} \union (IF new[e] = "missing" THEN {} ELSE {new[e], "off"})}

(* Where their deletion may stop.                                            *)
PartOf(s) == {t \in FileSets : \A e \in Effects : t[e] \in {s[e], "missing"}}

Init ==
    /\ live = NoFiles /\ stored = [p \in Profiles |-> None] /\ residue = NoFiles
    /\ savedProfile = None /\ activeProfile = None /\ currentDevice = None
    /\ enabled = FALSE
    /\ modeOn = FALSE /\ record = None
    /\ pc = "idle" /\ newProfile = None
    /\ chosen = [p \in Profiles |-> {}] /\ mixed = FALSE /\ harmed = {}
    /\ unparked = FALSE
    /\ changes = 0 /\ faults = 0

Change == changes < MaxChanges /\ changes' = changes + 1 /\ UNCHANGED faults
Fault == faults < MaxFaults /\ faults' = faults + 1 /\ UNCHANGED changes

-----------------------------------------------------------------------------
(* The record of the mode.                                                  *)

SwitchedOff(s, effects) == [e \in Effects |-> IF e \in effects THEN "off" ELSE s[e]]

(* parkNonV4aEffectsAfterLoad(), on files that have just been replaced.      *)
Park(loaded) ==
    LET on == On(loaded) \intersect NonV4a IN
    /\ unparked' = FALSE
    /\ IF ~modeOn THEN live' = loaded /\ UNCHANGED record
       ELSE /\ live' = SwitchedOff(loaded, on)
            /\ record' = IF on = {} THEN record
                         ELSE on \union (IF record = None THEN {} ELSE record)

(* disableNonV4aEffects()                                                   *)
TurnModeOn ==
    /\ pc = "idle" /\ ~modeOn /\ Change
    /\ modeOn' = TRUE
    /\ record' = On(live) \intersect NonV4a
    /\ live' = SwitchedOff(live, NonV4a)
    /\ UNCHANGED <<stored, residue, savedProfile, activeProfile, currentDevice,
                   enabled, pc, newProfile, history>>

Restored(s) ==
    [e \in Effects |-> IF record # None /\ e \in record THEN "on" ELSE s[e]]

(* Mutant of TurnModeOff: the record outlives the mode.                     *)
TurnModeOffKeeps ==
    /\ pc = "idle" /\ modeOn /\ Change
    /\ modeOn' = FALSE
    /\ live' = Restored(live)
    /\ unparked' = FALSE
    /\ UNCHANGED <<stored, residue, savedProfile, activeProfile, currentDevice,
                   enabled, record, pc, newProfile, chosen, mixed, harmed>>

(* restoreNonV4aEffects()                                                   *)
TurnModeOff ==
    /\ pc = "idle" /\ modeOn /\ Change
    /\ modeOn' = FALSE
    /\ live' = Restored(live)
    /\ record' = None
    /\ unparked' = FALSE
    /\ UNCHANGED <<stored, residue, savedProfile, activeProfile, currentDevice,
                   enabled, pc, newProfile, chosen, mixed, harmed>>

-----------------------------------------------------------------------------
(* Preset.load().                                                           *)

(* Unpacked over what the scratch folder still holds and copied over what is *)
(* live, then the broadcast; `before` is what was live.                      *)
LoadOver(before, archive) ==
    /\ Park(CopiedOver(before, CopiedOver(residue, archive)))
    /\ residue' = NoFiles

(* What the folder still holds joins what is loaded.                         *)
Tainted(archive) == ~(Files(residue) \subseteq Files(archive))

(* It throws while unpacking, or later but before the broadcast, and leaves  *)
(* the folder as it is.                                                      *)
LoadBreaks(archive) ==
    \/ /\ residue' \in Midway(residue, archive)
       /\ UNCHANGED <<live, unparked, harmed>>
    \/ /\ residue' = CopiedOver(residue, archive)
       /\ live' \in Midway(live, residue')
       /\ unparked' = (unparked \/ modeOn)
       /\ harmed' = harmed \union ({activeProfile} \ {None})

-----------------------------------------------------------------------------
(* The user.                                                                *)

(* A card is switched; the mode hides the cards of the others.              *)
SwitchEffect ==
    /\ pc = "idle" /\ Change
    /\ \E e \in (IF modeOn THEN Original ELSE Effects) :
          LET toggled(S) == IF live[e] = "on" THEN S \ {e} ELSE S \union {e} IN
          /\ live' = [live EXCEPT ![e] = IF @ = "on" THEN "off" ELSE "on"]
          /\ chosen' = IF activeProfile = None THEN chosen
                       ELSE [chosen EXCEPT ![activeProfile] = toggled(@)]
    /\ UNCHANGED <<stored, residue, savedProfile, activeProfile, currentDevice,
                   enabled, mode, pc, newProfile, mixed, harmed, unparked>>

(* Who loads an archive wants what it has files of, for the active profile.  *)
ChooseArchive(archive) ==
    /\ chosen' = IF activeProfile = None THEN chosen
                 ELSE [chosen EXCEPT ![activeProfile] =
                         (@ \ Files(archive)) \union On(archive)]
    /\ harmed' = IF Tainted(archive) THEN harmed \union ({activeProfile} \ {None})
                 ELSE harmed

(* Preset.load() of a preset of the user's, without clearing first.          *)
LoadPreset ==
    /\ pc = "idle" /\ Change
    /\ \E preset \in Presets : LoadOver(live, preset) /\ ChooseArchive(preset)
    /\ mixed' = (mixed \/ modeOn)
    /\ UNCHANGED <<stored, savedProfile, activeProfile, currentDevice, enabled,
                   modeOn, pc, newProfile>>

LoadPresetFails ==
    /\ pc = "idle" /\ Fault
    /\ \E preset \in Presets : LoadBreaks(preset)
    /\ mixed' = (mixed \/ modeOn)
    /\ UNCHANGED <<stored, savedProfile, activeProfile, currentDevice, enabled,
                   mode, pc, newProfile, chosen>>

(* copy(): what is live, or what is stored, becomes another profile.        *)
CopyProfile ==
    /\ pc = "idle" /\ Change
    /\ \E source \in Profiles, dest \in Profiles \ {activeProfile} :
          LET copied == IF source = activeProfile THEN live ELSE stored[source] IN
          /\ source # dest /\ copied # None
          /\ stored' = [stored EXCEPT ![dest] = copied]
          /\ chosen' = [chosen EXCEPT ![dest] = On(copied)]
          /\ harmed' = harmed \ {dest}
    /\ mixed' = (mixed \/ modeOn)
    /\ UNCHANGED <<live, residue, savedProfile, activeProfile, currentDevice,
                   enabled, mode, pc, newProfile, unparked>>

CopiedOntoActive(source) ==
    /\ activeProfile # None /\ source # activeProfile /\ stored[source] # None
    /\ stored' = [stored EXCEPT ![activeProfile] = stored[source]]

(* copy() onto the active profile: it is loaded over the live files, too.    *)
CopyOntoActive ==
    /\ pc = "idle" /\ Change
    /\ \E source \in Profiles :
          /\ CopiedOntoActive(source)
          /\ LoadOver(live, stored[source]) /\ ChooseArchive(stored[source])
    /\ mixed' = (mixed \/ modeOn)
    /\ UNCHANGED <<savedProfile, activeProfile, currentDevice, enabled,
                   modeOn, pc, newProfile>>

(* Its exceptions are only logged.                                          *)
CopyOntoActiveFails ==
    /\ pc = "idle" /\ Fault
    /\ \E source \in Profiles : CopiedOntoActive(source) /\ LoadBreaks(stored[source])
    /\ mixed' = (mixed \/ modeOn)
    /\ UNCHANGED <<savedProfile, activeProfile, currentDevice, enabled,
                   mode, pc, newProfile, chosen>>

(* delete(): the active profile falls back to the defaults.                 *)
DeleteProfile ==
    /\ pc = "idle" /\ Change
    /\ \E p \in Profiles :
          /\ stored' = [stored EXCEPT ![p] = None]
          /\ chosen' = [chosen EXCEPT ![p] = {}]
          /\ harmed' = harmed \ {p}
          /\ IF p = activeProfile THEN live' = NoFiles /\ unparked' = FALSE
             ELSE UNCHANGED <<live, unparked>>
    /\ mixed' = (mixed \/ modeOn)
    /\ UNCHANGED <<residue, savedProfile, activeProfile, currentDevice, enabled,
                   mode, pc, newProfile>>

-----------------------------------------------------------------------------
(* Rotation.                                                                *)

(* rotate() to the output's profile unless it is the active one.            *)
BeginRotation(device) ==
    IF device = activeProfile THEN UNCHANGED <<pc, newProfile>>
    ELSE pc' = "store" /\ newProfile' = device

(* A route callback, which only tells of another output.                    *)
ChangeDevice ==
    /\ pc = "idle" /\ Change
    /\ \E device \in Profiles \ {currentDevice} :
          /\ currentDevice' = device
          /\ IF enabled THEN BeginRotation(device) ELSE UNCHANGED <<pc, newProfile>>
    /\ UNCHANGED <<files, activeProfile, enabled, mode, history>>

(* Switching device profiles on has the output of now announced again.      *)
EnableProfiles ==
    /\ pc = "idle" /\ Change
    /\ enabled' = ~enabled
    /\ IF enabled' /\ currentDevice # None THEN BeginRotation(currentDevice)
       ELSE UNCHANGED <<pc, newProfile>>
    /\ UNCHANGED <<files, activeProfile, currentDevice, mode, history>>

(* Whom the live settings belong to.                                        *)
Owner == IF activeProfile = None THEN currentDevice ELSE activeProfile

(* Settings that were nobody's yet become the output's; if it has some in    *)
(* store, those are lost.                                                    *)
Adopt ==
    IF activeProfile # None THEN UNCHANGED <<chosen, harmed>>
    ELSE IF stored[Owner] = None
    THEN chosen' = [chosen EXCEPT ![Owner] = On(live)] /\ UNCHANGED harmed
    ELSE harmed' = harmed \union {Owner} /\ UNCHANGED chosen

(* Mutant of Store: the live settings are stored under the new profile.     *)
StoreUnderNew ==
    /\ pc = "store"
    /\ stored' = [stored EXCEPT ![newProfile] = live]
    /\ Adopt
    /\ mixed' = (mixed \/ modeOn)
    /\ pc' = "clear"
    /\ UNCHANGED <<live, residue, savedProfile, activeProfile, currentDevice,
                   enabled, mode, newProfile, unparked, bounds>>

(* store()                                                                  *)
Store ==
    /\ pc = "store"
    /\ stored' = [stored EXCEPT ![Owner] = live]
    /\ Adopt
    /\ mixed' = (mixed \/ modeOn)
    /\ pc' = "clear"
    /\ UNCHANGED <<live, residue, savedProfile, activeProfile, currentDevice,
                   enabled, mode, newProfile, unparked, bounds>>

(* The old archive is deleted, the new one cannot be written, or not in full;*)
(* save() says so and nobody asks.                                           *)
StoreFails ==
    /\ pc = "store" /\ Fault
    /\ \E cut \in PartOf(live) \union {None} : stored' = [stored EXCEPT ![Owner] = cut]
    /\ harmed' = harmed \union {Owner}
    /\ mixed' = (mixed \/ modeOn)
    /\ pc' = "clear"
    /\ UNCHANGED <<live, residue, savedProfile, activeProfile, currentDevice,
                   enabled, mode, newProfile, chosen, unparked>>

ClearLive ==
    /\ pc = "clear"
    /\ live' = NoFiles /\ unparked' = FALSE
    /\ pc' = "load"
    /\ UNCHANGED <<stored, residue, savedProfile, activeProfile, currentDevice,
                   enabled, mode, newProfile, chosen, mixed, harmed, bounds>>

(* Mutant of Load: the mode is not applied to what was loaded.              *)
LoadUnparked ==
    /\ pc = "load" /\ stored[newProfile] # None
    /\ live' = CopiedOver(residue, stored[newProfile])
    /\ residue' = NoFiles
    /\ harmed' = IF Tainted(stored[newProfile]) THEN harmed \union {newProfile} ELSE harmed
    /\ pc' = "save"
    /\ UNCHANGED <<stored, savedProfile, activeProfile, currentDevice, enabled,
                   mode, newProfile, chosen, mixed, unparked, bounds>>

(* load() of an archive, up to its broadcast.                               *)
Load ==
    /\ pc = "load" /\ stored[newProfile] # None
    /\ LoadOver(NoFiles, stored[newProfile])
    /\ harmed' = IF Tainted(stored[newProfile]) THEN harmed \union {newProfile} ELSE harmed
    /\ pc' = "save"
    /\ UNCHANGED <<stored, savedProfile, activeProfile, currentDevice, enabled,
                   modeOn, newProfile, chosen, mixed, bounds>>

(* restoreDspSettings() for a profile without one.                          *)
LoadNothing ==
    /\ pc = "load" /\ stored[newProfile] = None
    /\ live' = NoFiles /\ unparked' = FALSE
    /\ pc' = "save"
    /\ UNCHANGED <<stored, residue, savedProfile, activeProfile, currentDevice,
                   enabled, mode, newProfile, chosen, mixed, harmed, bounds>>

(* restoreDspSettings() after any exception, as if it had none.             *)
LoadFails ==
    /\ pc = "load" /\ stored[newProfile] # None /\ Fault
    /\ residue' \in Midway(residue, stored[newProfile])
    /\ live' = NoFiles /\ unparked' = FALSE
    /\ harmed' = harmed \union {newProfile}
    /\ pc' = "save"
    /\ UNCHANGED <<stored, savedProfile, activeProfile, currentDevice, enabled,
                   mode, newProfile, chosen, mixed>>

SaveActive ==
    /\ pc = "save"
    /\ savedProfile' = newProfile /\ activeProfile' = newProfile
    /\ pc' = "idle" /\ newProfile' = None
    /\ UNCHANGED <<live, stored, residue, currentDevice, enabled, mode, history, bounds>>

-----------------------------------------------------------------------------
(* The process dies and starts anew with what the files say.                *)

Restart(saved) ==
    /\ Fault
    /\ savedProfile' = saved /\ activeProfile' = saved
    /\ currentDevice' = None
    /\ pc' = "idle" /\ newProfile' = None
    /\ UNCHANGED <<enabled, mode, chosen, mixed>>

(* What it had not done for the profile it was leaving is lost.             *)
HarmLeft == harmed' = harmed \union ({activeProfile} \ {None})

Die ==
    /\ pc = "idle" /\ Restart(savedProfile)
    /\ UNCHANGED <<live, stored, residue, harmed, unparked>>

(* In the middle of an archive: the live settings are still there.          *)
DieStoring ==
    /\ pc = "store" /\ Restart(savedProfile)
    /\ \E cut \in PartOf(live) \union {None, stored[Owner]} :
          stored' = [stored EXCEPT ![Owner] = cut]
    /\ harmed' = IF activeProfile = None THEN harmed \union {Owner} ELSE harmed
    /\ UNCHANGED <<live, residue, unparked>>

(* In the loop that deletes the live files.                                 *)
DieClearing ==
    /\ pc = "clear" /\ Restart(savedProfile)
    /\ live' \in PartOf(live)
    /\ HarmLeft
    /\ UNCHANGED <<stored, residue, unparked>>

(* While unpacking, or while copying what was unpacked.                     *)
DieLoading ==
    /\ pc = "load" /\ stored[newProfile] # None /\ Restart(savedProfile)
    /\ \/ /\ residue' \in Midway(residue, stored[newProfile])
          /\ UNCHANGED <<live, unparked>>
       \/ /\ residue' = CopiedOver(residue, stored[newProfile])
          /\ live' \in Midway(NoFiles, residue')
          /\ unparked' = modeOn
    /\ HarmLeft
    /\ UNCHANGED stored

(* Before profile.json names the new profile, or with half of it written,    *)
(* which reads as no profile.                                                *)
DieSaving ==
    /\ pc = "save"
    /\ Restart(savedProfile) \/ Restart(None)
    /\ HarmLeft
    /\ UNCHANGED <<live, stored, residue, unparked>>

ProcessDies == Die \/ DieStoring \/ DieClearing \/ DieLoading \/ DieSaving

-----------------------------------------------------------------------------
User == SwitchEffect \/ LoadPreset \/ CopyProfile \/ CopyOntoActive \/ DeleteProfile
        \/ TurnModeOn \/ TurnModeOff \/ EnableProfiles

Next ==
    \/ User \/ LoadPresetFails \/ CopyOntoActiveFails
    \/ ChangeDevice
    \/ Store \/ StoreFails \/ ClearLive \/ Load \/ LoadNothing \/ LoadFails \/ SaveActive
    \/ ProcessDies

Spec == Init /\ [][Next]_vars

-----------------------------------------------------------------------------
(* Properties.                                                              *)

(* Every variable stays in its type; only a mode that is on has a record.   *)
TypeOK ==
    /\ live \in FileSets /\ residue \in FileSets
    /\ stored \in [Profiles -> FileSets \union {None}]
    /\ {activeProfile, savedProfile, currentDevice, newProfile} \subseteq Profiles \union {None}
    /\ {enabled, modeOn, mixed, unparked} \subseteq BOOLEAN
    /\ record \in (SUBSET NonV4a) \union {None}
    /\ record # None => modeOn
    /\ pc \in {"idle", "store", "clear", "load", "save"}
    /\ chosen \in [Profiles -> SUBSET Effects] /\ harmed \subseteq Profiles
    /\ changes \in 0 .. MaxChanges /\ faults \in 0 .. MaxFaults

(* What a profile would play.                                               *)
Played(p) ==
    IF p = activeProfile
    THEN On(live) \union (IF record = None THEN {} ELSE record)
    ELSE IF stored[p] = None THEN {} ELSE On(stored[p])

(* Between rotations each output has exactly what the user has chosen for    *)
(* it, live, parked or stored, whatever outputs came and went and whichever  *)
(* step of a rotation or load failed or was the process's last.  What that   *)
(* costs is named where it happens: the profile that was being left when     *)
(* saving, deleting, loading or noting the new one did not end; the profile  *)
(* that was entered when its archive could not be loaded; the profile that   *)
(* was loaded while the scratch folder still held another's files; the one   *)
(* whose archive gives way to settings left without a profile; and none but  *)
(* these, until they are copied onto or deleted.  Where settings came in     *)
(* wholesale while the mode was on, that is so for the effects of            *)
(* ViPER4Android, as the others of several profiles share one record.        *)
SettingsKept ==
    pc = "idle" =>
        \A p \in Profiles \ harmed :
            /\ Played(p) \intersect Original = chosen[p] \intersect Original
            /\ ~mixed => Played(p) = chosen[p]

(* Between rotations no effect runs that the mode hides, whatever was loaded *)
(* or switched while it was on and whichever load failed or was the          *)
(* process's last, unless that load had copied files and did not come to its *)
(* broadcast, and then only until the next load or rotation.                 *)
NoHiddenEffect ==
    pc = "idle" /\ modeOn /\ ~unparked => On(live) \intersect NonV4a = {}
=============================================================================
