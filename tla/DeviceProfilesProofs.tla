------------------------ MODULE DeviceProfilesProofs ------------------------
(***************************************************************************)
(* Theorems about DeviceProfiles, for any outputs, effects and presets and   *)
(* any number of changes and faults.                                         *)
(***************************************************************************)
EXTENDS DeviceProfiles, TLAPS

-----------------------------------------------------------------------------
(* What the operations on settings files do to the effects that are on.      *)

LEMMA NoFilesAre == NoFiles \in FileSets /\ On(NoFiles) = {} /\ Files(NoFiles) = {}
  BY DEF NoFiles, FileSets, On, Files

LEMMA OnIsOfFiles ==
    ASSUME NEW s \in FileSets
    PROVE  On(s) \subseteq Effects /\ On(s) \subseteq Files(s)
  BY DEF FileSets, On, Files

LEMMA CopyingOver ==
    ASSUME NEW old \in FileSets, NEW new \in FileSets
    PROVE  /\ CopiedOver(old, new) \in FileSets
           /\ On(CopiedOver(old, new)) = (On(old) \ Files(new)) \union On(new)
           /\ Files(CopiedOver(old, new)) = Files(old) \union Files(new)
  BY DEF FileSets, On, Files, CopiedOver

LEMMA SwitchingOff ==
    ASSUME NEW s \in FileSets, NEW E
    PROVE  SwitchedOff(s, E) \in FileSets /\ On(SwitchedOff(s, E)) = On(s) \ E
  BY DEF FileSets, On, SwitchedOff

LEMMA Toggling ==
    ASSUME NEW s \in FileSets, NEW e \in Effects, NEW t,
           t = [s EXCEPT ![e] = IF @ = "on" THEN "off" ELSE "on"]
    PROVE  /\ t \in FileSets
           /\ On(t) = IF s[e] = "on" THEN On(s) \ {e} ELSE On(s) \union {e}
           /\ s[e] = "on" <=> e \in On(s)
  BY DEF FileSets, On

LEMMA StoppingHalfway ==
    ASSUME NEW old \in FileSets, NEW new \in FileSets
    PROVE  Midway(old, new) \subseteq FileSets /\ PartOf(old) \subseteq FileSets
  BY DEF Midway, PartOf

LEMMA PartIsLess ==
    ASSUME NEW s \in FileSets, NEW t \in PartOf(s)
    PROVE  On(t) \subseteq On(s)
  BY DEF PartOf, On

-----------------------------------------------------------------------------
FlagsOK == enabled \in BOOLEAN /\ modeOn \in BOOLEAN /\ mixed \in BOOLEAN /\ unparked \in BOOLEAN

PlacesOK ==
    /\ live \in FileSets /\ residue \in FileSets
    /\ stored \in [Profiles -> FileSets \union {None}]
    /\ activeProfile \in Profiles \union {None}
    /\ savedProfile \in Profiles \union {None}
    /\ currentDevice \in Profiles \union {None}
    /\ newProfile \in Profiles \union {None}
    /\ record \in (SUBSET NonV4a) \union {None}
    /\ record # None => modeOn
    /\ pc \in {"idle", "store", "clear", "load", "save"}
    /\ chosen \in [Profiles -> SUBSET Effects] /\ harmed \subseteq Profiles
    /\ changes \in 0 .. MaxChanges /\ faults \in 0 .. MaxFaults

(* A rotation is under way only between an output and a profile.             *)
PlacesInv ==
    /\ PlacesOK
    /\ pc # "idle" => newProfile \in Profiles /\ currentDevice \in Profiles

LEMMA PartsOfTypeOK == FlagsOK /\ PlacesOK => TypeOK
  BY DEF FlagsOK, PlacesOK, TypeOK

Parked == IF record = None THEN {} ELSE record
StoredOn(p) == IF stored[p] = None THEN {} ELSE On(stored[p])

LEMMA Restoring ==
    ASSUME PlacesOK
    PROVE  Restored(live) \in FileSets /\ On(Restored(live)) = On(live) \union Parked
  BY DEF PlacesOK, FileSets, On, Restored, Parked, Effects

LEMMA OwnerIsProfile ==
    ASSUME PlacesInv, pc # "idle"
    PROVE  Owner \in Profiles
  BY DEF PlacesInv, PlacesOK, Owner

LEMMA Parking ==
    ASSUME PlacesOK, NEW loaded \in FileSets, Park(loaded)
    PROVE  /\ live' \in FileSets
           /\ record' \in (SUBSET NonV4a) \union {None}
           /\ record' # None => modeOn
           /\ On(live') \intersect Original = On(loaded) \intersect Original
           /\ ~modeOn => live' = loaded /\ record' = record
           /\ modeOn => On(live') \intersect NonV4a = {}
  <1>1. CASE ~modeOn
    BY <1>1 DEF Park, PlacesOK
  <1>2. CASE modeOn
    <2>1. live' = SwitchedOff(loaded, On(loaded) \intersect NonV4a)
      BY <1>2 DEF Park
    <2>2. live' \in FileSets /\ On(live') = On(loaded) \ (On(loaded) \intersect NonV4a)
      BY <2>1, SwitchingOff
    <2>3. record' \in (SUBSET NonV4a) \union {None}
      BY <1>2 DEF Park, PlacesOK
    <2> QED BY <1>2, <2>2, <2>3, EffectsAssumption
  <1> QED BY <1>1, <1>2

(* What is loaded over some files, where the scratch folder is as good as    *)
(* empty and where it is not.                                                *)
LEMMA LoadingOver ==
    ASSUME PlacesOK, NEW before \in FileSets, NEW archive \in FileSets,
           LoadOver(before, archive)
    PROVE  /\ live' \in FileSets /\ residue' \in FileSets
           /\ record' \in (SUBSET NonV4a) \union {None}
           /\ record' # None => modeOn
           /\ modeOn => On(live') \intersect NonV4a = {}
           /\ ~Tainted(archive) =>
                /\ On(live') \intersect Original =
                     ((On(before) \ Files(archive)) \union On(archive)) \intersect Original
                /\ ~modeOn => On(live') = (On(before) \ Files(archive)) \union On(archive)
  <1>0. residue \in FileSets BY DEF PlacesOK
  <1> DEFINE unpacked == CopiedOver(residue, archive)
             loaded == CopiedOver(before, unpacked)
  <1>1. /\ unpacked \in FileSets
        /\ On(unpacked) = (On(residue) \ Files(archive)) \union On(archive)
        /\ Files(unpacked) = Files(residue) \union Files(archive)
    BY <1>0, CopyingOver
  <1>2. loaded \in FileSets /\ On(loaded) = (On(before) \ Files(unpacked)) \union On(unpacked)
    <2> HIDE DEF unpacked
    <2> QED BY <1>1, CopyingOver
  <1>3. On(residue) \subseteq Files(residue) BY <1>0, OnIsOfFiles
  <1>4. ~Tainted(archive) => On(loaded) = (On(before) \ Files(archive)) \union On(archive)
    <2> HIDE DEF unpacked, loaded
    <2> QED BY <1>1, <1>2, <1>3 DEF Tainted
  <1>5. Park(loaded) /\ residue' = NoFiles BY DEF LoadOver
  <1> HIDE DEF loaded
  <1> QED BY <1>2, <1>4, <1>5, Parking, NoFilesAre

LEMMA Breaking ==
    ASSUME PlacesOK, NEW archive \in FileSets, LoadBreaks(archive)
    PROVE  live' \in FileSets /\ residue' \in FileSets /\ harmed' \subseteq Profiles
  <1>1. CASE residue' \in Midway(residue, archive) /\ UNCHANGED <<live, unparked, harmed>>
    BY <1>1, StoppingHalfway DEF PlacesOK
  <1>2. CASE /\ residue' = CopiedOver(residue, archive)
             /\ live' \in Midway(live, residue')
             /\ harmed' = harmed \union ({activeProfile} \ {None})
    <2>1. residue' \in FileSets BY <1>2, CopyingOver DEF PlacesOK
    <2> QED BY <1>2, <2>1, StoppingHalfway DEF PlacesOK
  <1> QED BY <1>1, <1>2 DEF LoadBreaks

LEMMA ChoosingArchive ==
    ASSUME PlacesOK, NEW archive \in FileSets, ChooseArchive(archive)
    PROVE  chosen' \in [Profiles -> SUBSET Effects] /\ harmed' \subseteq Profiles
  <1>1. On(archive) \subseteq Effects BY OnIsOfFiles
  <1>2. chosen' \in [Profiles -> SUBSET Effects] BY <1>1 DEF PlacesOK, ChooseArchive
  <1>3. harmed' \subseteq Profiles BY DEF PlacesOK, ChooseArchive
  <1> QED BY <1>2, <1>3

-----------------------------------------------------------------------------
LEMMA FlagsStay == FlagsOK /\ [Next]_vars => FlagsOK'
<1> SUFFICES ASSUME FlagsOK, [Next]_vars PROVE FlagsOK'
  OBVIOUS
<1> USE DEF FlagsOK, mode, history
<1>1. CASE SwitchEffect \/ LoadPreset \/ CopyProfile \/ CopyOntoActive
  BY <1>1, Zenon DEF SwitchEffect, LoadPreset, CopyProfile, CopyOntoActive, LoadOver, Park
<1>2. CASE DeleteProfile \/ TurnModeOn \/ TurnModeOff \/ EnableProfiles
  BY <1>2, Zenon DEF DeleteProfile, TurnModeOn, TurnModeOff, EnableProfiles
<1>3. CASE LoadPresetFails \/ CopyOntoActiveFails
  BY <1>3, Zenon DEF LoadPresetFails, CopyOntoActiveFails, LoadBreaks
<1>4. CASE ChangeDevice \/ Store \/ StoreFails \/ ClearLive
  BY <1>4, Zenon DEF ChangeDevice, Store, StoreFails, ClearLive
<1>5. CASE Load \/ LoadNothing \/ LoadFails \/ SaveActive
  BY <1>5, Zenon DEF Load, LoadOver, Park, LoadNothing, LoadFails, SaveActive
<1>6. CASE ProcessDies
  BY <1>6, Zenon DEF ProcessDies, Die, DieStoring, DieClearing, DieLoading, DieSaving, Restart
<1>7. CASE UNCHANGED vars BY <1>7, Zenon DEF vars
<1> QED BY <1>1, <1>2, <1>3, <1>4, <1>5, <1>6, <1>7 DEF Next, User

LEMMA PlacesStay == PlacesInv /\ [Next]_vars => PlacesInv'
<1> SUFFICES ASSUME PlacesInv, [Next]_vars PROVE PlacesInv'
  OBVIOUS
<1>0. PlacesOK BY DEF PlacesInv
<1> USE BoundsAssumption DEF PlacesInv, PlacesOK, Change, Fault, mode, files, history, bounds
<1>1. CASE SwitchEffect
  <2>1. PICK e \in Effects :
          /\ live' = [live EXCEPT ![e] = IF @ = "on" THEN "off" ELSE "on"]
          /\ chosen' = IF activeProfile = None THEN chosen
                       ELSE [chosen EXCEPT ![activeProfile] =
                               IF live[e] = "on" THEN @ \ {e} ELSE @ \union {e}]
    BY <1>1 DEF SwitchEffect, Effects
  <2>2. live' \in FileSets BY <2>1, Toggling
  <2>3. chosen' \in [Profiles -> SUBSET Effects] BY <2>1
  <2> QED BY <1>1, <2>2, <2>3 DEF SwitchEffect
<1>2. CASE LoadPreset
  <2>1. PICK preset \in FileSets : LoadOver(live, preset) /\ ChooseArchive(preset)
    BY <1>2, PresetsAssumption DEF LoadPreset
  <2> QED BY <1>0, <1>2, <2>1, LoadingOver, ChoosingArchive DEF LoadPreset
<1>3. CASE LoadPresetFails
  <2>1. PICK preset \in FileSets : LoadBreaks(preset)
    BY <1>3, PresetsAssumption DEF LoadPresetFails
  <2> QED BY <1>0, <1>3, <2>1, Breaking DEF LoadPresetFails
<1>4. CASE CopyProfile
  <2>1. PICK copied \in FileSets, dest \in Profiles :
          /\ stored' = [stored EXCEPT ![dest] = copied]
          /\ chosen' = [chosen EXCEPT ![dest] = On(copied)]
          /\ harmed' = harmed \ {dest}
    BY <1>4 DEF CopyProfile
  <2>2. stored' \in [Profiles -> FileSets \union {None}] BY <2>1
  <2>3. chosen' \in [Profiles -> SUBSET Effects] BY <2>1, OnIsOfFiles
  <2>4. harmed' \subseteq Profiles BY <2>1
  <2> QED BY <1>4, <2>2, <2>3, <2>4 DEF CopyProfile
<1>5. CASE CopyOntoActive
  <2>1. PICK archive \in FileSets :
          /\ LoadOver(live, archive) /\ ChooseArchive(archive)
          /\ stored' = [stored EXCEPT ![activeProfile] = archive]
    BY <1>5 DEF CopyOntoActive, CopiedOntoActive
  <2>2. stored' \in [Profiles -> FileSets \union {None}] BY <2>1
  <2> QED BY <1>0, <1>5, <2>1, <2>2, LoadingOver, ChoosingArchive DEF CopyOntoActive
<1>6. CASE CopyOntoActiveFails
  <2>1. PICK archive \in FileSets :
          /\ LoadBreaks(archive)
          /\ stored' = [stored EXCEPT ![activeProfile] = archive]
    BY <1>6 DEF CopyOntoActiveFails, CopiedOntoActive
  <2>2. stored' \in [Profiles -> FileSets \union {None}] BY <2>1
  <2> QED BY <1>0, <1>6, <2>1, <2>2, Breaking DEF CopyOntoActiveFails
<1>7. CASE DeleteProfile
  <2>1. PICK p \in Profiles :
          /\ stored' = [stored EXCEPT ![p] = None]
          /\ chosen' = [chosen EXCEPT ![p] = {}]
          /\ harmed' = harmed \ {p}
          /\ live' = NoFiles \/ live' = live
    BY <1>7 DEF DeleteProfile
  <2>2. stored' \in [Profiles -> FileSets \union {None}] BY <2>1
  <2>3. chosen' \in [Profiles -> SUBSET Effects] BY <2>1
  <2>4. live' \in FileSets /\ harmed' \subseteq Profiles BY <2>1, NoFilesAre
  <2> QED BY <1>7, <2>2, <2>3, <2>4 DEF DeleteProfile
<1>8. CASE TurnModeOn
  <2>1. live' \in FileSets /\ record' \in SUBSET NonV4a BY <1>8, SwitchingOff DEF TurnModeOn
  <2> QED BY <1>8, <2>1 DEF TurnModeOn
<1>9. CASE TurnModeOff
  <2>1. live' \in FileSets BY <1>0, <1>9, Restoring DEF TurnModeOff
  <2> QED BY <1>9, <2>1 DEF TurnModeOff
<1>10. CASE EnableProfiles BY <1>10 DEF EnableProfiles, BeginRotation
<1>11. CASE ChangeDevice BY <1>11 DEF ChangeDevice, BeginRotation
<1>12. CASE Store
  <2>1. stored' \in [Profiles -> FileSets \union {None}] BY <1>12 DEF Store
  <2>2. On(live) \subseteq Effects BY OnIsOfFiles
  <2>3. chosen' \in [Profiles -> SUBSET Effects]
    BY <1>12, <2>2, OwnerIsProfile DEF Store, Adopt
  <2>4. harmed' \subseteq Profiles BY <1>12, OwnerIsProfile DEF Store, Adopt
  <2> QED BY <1>12, <2>1, <2>3, <2>4 DEF Store
<1>13. CASE StoreFails
  <2>1. stored' \in [Profiles -> FileSets \union {None}]
    BY <1>13, StoppingHalfway DEF StoreFails
  <2> QED BY <1>13, <2>1, OwnerIsProfile DEF StoreFails
<1>14. CASE ClearLive BY <1>14, NoFilesAre DEF ClearLive
<1>15. CASE Load
  <2>1. stored[newProfile] \in FileSets /\ LoadOver(NoFiles, stored[newProfile])
    BY <1>15 DEF Load
  <2>2. harmed' \subseteq Profiles BY <1>15 DEF Load
  <2> QED BY <1>0, <1>15, <2>1, <2>2, NoFilesAre, LoadingOver DEF Load
<1>16. CASE LoadNothing BY <1>16, NoFilesAre DEF LoadNothing
<1>17. CASE LoadFails
  <2>1. residue' \in FileSets BY <1>17, StoppingHalfway DEF LoadFails
  <2> QED BY <1>17, <2>1, NoFilesAre DEF LoadFails
<1>18. CASE SaveActive BY <1>18 DEF SaveActive
<1>19. CASE Die BY <1>19 DEF Die, Restart
<1>20. CASE DieStoring
  <2>1. stored' \in [Profiles -> FileSets \union {None}]
    BY <1>20, StoppingHalfway, OwnerIsProfile DEF DieStoring
  <2>2. harmed' \subseteq Profiles BY <1>20, OwnerIsProfile DEF DieStoring
  <2> QED BY <1>20, <2>1, <2>2 DEF DieStoring, Restart
<1>21. CASE DieClearing
  <2>1. live' \in FileSets BY <1>21, StoppingHalfway DEF DieClearing
  <2> QED BY <1>21, <2>1 DEF DieClearing, Restart, HarmLeft
<1>22. CASE DieLoading
  <2>1. stored[newProfile] \in FileSets BY <1>22 DEF DieLoading
  <2>2. residue' \in FileSets BY <1>22, <2>1, StoppingHalfway, CopyingOver DEF DieLoading
  <2>3. live' \in FileSets BY <1>22, <2>2, StoppingHalfway, NoFilesAre DEF DieLoading
  <2> QED BY <1>22, <2>2, <2>3 DEF DieLoading, Restart, HarmLeft
<1>23. CASE DieSaving BY <1>23 DEF DieSaving, Restart, HarmLeft
<1>24. CASE UNCHANGED vars BY <1>24 DEF vars
<1> QED
  BY <1>1, <1>2, <1>3, <1>4, <1>5, <1>6, <1>7, <1>8, <1>9, <1>10, <1>11, <1>12, <1>13,
     <1>14, <1>15, <1>16, <1>17, <1>18, <1>19, <1>20, <1>21, <1>22, <1>23, <1>24
  DEF Next, User, ProcessDies

(* Every variable stays in its type.                                        *)
THEOREM TypeCorrect == Spec => []TypeOK
<1>1. Init => FlagsOK /\ PlacesInv
  <2>1. Init => FlagsOK BY Zenon DEF Init, FlagsOK
  <2>2. Init => PlacesInv BY BoundsAssumption, NoFilesAre DEF Init, PlacesInv, PlacesOK
  <2> QED BY <2>1, <2>2
<1>2. PlacesInv /\ FlagsOK => TypeOK
  BY PartsOfTypeOK DEF PlacesInv
<1> QED BY <1>1, <1>2, FlagsStay, PlacesStay, PTL DEF Spec

-----------------------------------------------------------------------------
(* What is parked is out of the settings at every step of a rotation, too,   *)
(* until a load ends before its broadcast.                                   *)
HiddenInv == modeOn /\ ~unparked => On(live) \intersect NonV4a = {}

LEMMA BreakingIsNoted ==
    ASSUME NEW archive, LoadBreaks(archive), modeOn, ~unparked'
    PROVE  live' = live /\ ~unparked
  <1>1. CASE UNCHANGED <<live, unparked, harmed>> BY <1>1, Zenon
  <1>2. CASE unparked' = (unparked \/ modeOn) BY <1>2, Zenon
  <1> QED BY <1>1, <1>2, Zenon DEF LoadBreaks

LEMMA HiddenStay == PlacesInv /\ HiddenInv /\ [Next]_vars => HiddenInv'
<1> SUFFICES ASSUME PlacesInv, HiddenInv, [Next]_vars PROVE HiddenInv'
  OBVIOUS
<1> USE DEF HiddenInv, mode, files, history
<1>0. PlacesOK /\ live \in FileSets BY DEF PlacesInv, PlacesOK
<1>1. CASE SwitchEffect
  <2>1. PICK e \in Effects :
          /\ modeOn => e \in Original
          /\ live' = [live EXCEPT ![e] = IF @ = "on" THEN "off" ELSE "on"]
    BY <1>1 DEF SwitchEffect, Effects
  <2>2. PICK t : t = live' OBVIOUS
  <2>3. t = [live EXCEPT ![e] = IF @ = "on" THEN "off" ELSE "on"] BY <2>1, <2>2
  <2>4. On(t) = IF live[e] = "on" THEN On(live) \ {e} ELSE On(live) \union {e}
    BY ONLY <1>0, <2>3, e \in Effects, Toggling
  <2>5. On(live') \subseteq On(live) \union {e} BY <2>2, <2>4
  <2> QED BY <1>1, <2>1, <2>5, EffectsAssumption DEF SwitchEffect
<1>2. CASE LoadPreset
  <2>1. PICK preset \in FileSets : LoadOver(live, preset)
    BY <1>2, PresetsAssumption DEF LoadPreset
  <2> QED BY <1>0, <1>2, <2>1, LoadingOver DEF LoadPreset
<1>3. CASE LoadPresetFails
  <2>1. PICK preset \in Presets : LoadBreaks(preset) BY <1>3, Zenon DEF LoadPresetFails
  <2>2. modeOn' = modeOn BY <1>3, Zenon DEF LoadPresetFails
  <2> QED BY <2>1, <2>2, BreakingIsNoted
<1>4. CASE CopyProfile BY <1>4 DEF CopyProfile
<1>5. CASE CopyOntoActive
  <2>1. PICK source \in Profiles : CopiedOntoActive(source) /\ LoadOver(live, stored[source])
    BY <1>5 DEF CopyOntoActive
  <2>2. stored[source] \in FileSets BY <1>0, <2>1 DEF PlacesOK, CopiedOntoActive
  <2> QED BY <1>0, <1>5, <2>1, <2>2, LoadingOver DEF CopyOntoActive
<1>6. CASE CopyOntoActiveFails
  <2>1. PICK source \in Profiles : LoadBreaks(stored[source]) BY <1>6, Zenon DEF CopyOntoActiveFails
  <2>2. modeOn' = modeOn BY <1>6, Zenon DEF CopyOntoActiveFails
  <2> QED BY <2>1, <2>2, BreakingIsNoted
<1>7. CASE DeleteProfile
  <2>1. live' = NoFiles \/ (live' = live /\ unparked' = unparked) BY <1>7 DEF DeleteProfile
  <2> QED BY <1>7, <2>1, NoFilesAre DEF DeleteProfile
<1>8. CASE TurnModeOn
  <2>1. On(live') = On(live) \ NonV4a BY <1>0, <1>8, SwitchingOff DEF TurnModeOn
  <2> QED BY <2>1
<1>9. CASE TurnModeOff BY <1>9 DEF TurnModeOff
<1>10. CASE EnableProfiles BY <1>10 DEF EnableProfiles
<1>11. CASE ChangeDevice BY <1>11 DEF ChangeDevice
<1>12. CASE Store BY <1>12 DEF Store
<1>13. CASE StoreFails BY <1>13 DEF StoreFails
<1>14. CASE ClearLive BY <1>14, NoFilesAre DEF ClearLive
<1>15. CASE Load
  <2>1. stored[newProfile] \in FileSets /\ LoadOver(NoFiles, stored[newProfile])
    BY <1>15 DEF Load, PlacesInv, PlacesOK
  <2> QED BY <1>0, <1>15, <2>1, NoFilesAre, LoadingOver DEF Load
<1>16. CASE LoadNothing BY <1>16, NoFilesAre DEF LoadNothing
<1>17. CASE LoadFails BY <1>17, NoFilesAre DEF LoadFails
<1>18. CASE SaveActive BY <1>18 DEF SaveActive
<1>19. CASE Die BY <1>19 DEF Die, Restart
<1>20. CASE DieStoring BY <1>20 DEF DieStoring, Restart
<1>21. CASE DieClearing
  <2>1. On(live') \subseteq On(live) BY <1>0, <1>21, PartIsLess DEF DieClearing
  <2> QED BY <1>21, <2>1 DEF DieClearing, Restart
<1>22. CASE DieLoading
  <2>1. modeOn' = modeOn BY <1>22, Zenon DEF DieLoading, Restart
  <2>2. (live' = live /\ unparked' = unparked) \/ unparked' = modeOn
    BY <1>22, Zenon DEF DieLoading
  <2> QED BY <2>1, <2>2, Zenon
<1>23. CASE DieSaving BY <1>23 DEF DieSaving, Restart
<1>24. CASE UNCHANGED vars BY <1>24 DEF vars
<1> QED
  BY <1>1, <1>2, <1>3, <1>4, <1>5, <1>6, <1>7, <1>8, <1>9, <1>10, <1>11, <1>12, <1>13,
     <1>14, <1>15, <1>16, <1>17, <1>18, <1>19, <1>20, <1>21, <1>22, <1>23, <1>24
  DEF Next, User, ProcessDies

(* Between rotations no effect runs that the mode hides, whatever was loaded *)
(* or switched while it was on, but after a load that copied files and did   *)
(* not come to its broadcast (V4aMode, ProfileManager, Preset.load).         *)
THEOREM HiddenEffectsStayOff == Spec => []NoHiddenEffect
<1>1. Init => PlacesInv /\ HiddenInv
  BY BoundsAssumption, NoFilesAre DEF Init, PlacesInv, PlacesOK, HiddenInv
<1>2. HiddenInv => NoHiddenEffect
  BY DEF HiddenInv, NoHiddenEffect
<1> QED BY <1>1, <1>2, PlacesStay, HiddenStay, PTL DEF Spec
-----------------------------------------------------------------------------
(* Where the settings of each output are to be found at every step.          *)
Agree(S, p) ==
    /\ S \intersect Original = chosen[p] \intersect Original
    /\ ~mixed => S = chosen[p]

KeptInv ==
    /\ savedProfile = activeProfile
    /\ pc \in {"idle", "store"} => \A p \in Profiles \ harmed : Agree(Played(p), p)
    /\ pc \in {"clear", "load", "save"} =>
          /\ \A p \in Profiles \ harmed : Agree(StoredOn(p), p)
          /\ ~mixed => ~modeOn
    /\ pc = "save" /\ newProfile \notin harmed =>
          /\ On(live) \intersect Original = StoredOn(newProfile) \intersect Original
          /\ ~mixed => On(live) = StoredOn(newProfile)

LEMMA ParkedIsHidden ==
    ASSUME PlacesOK
    PROVE  /\ Parked \subseteq NonV4a
           /\ ~modeOn => Parked = {}
           /\ \A S : (S \union Parked) \intersect Original = S \intersect Original
  BY EffectsAssumption DEF PlacesOK, Parked

LEMMA PlayedIs ==
    ASSUME NEW p \in Profiles
    PROVE  Played(p) = IF p = activeProfile THEN On(live) \union Parked ELSE StoredOn(p)
  BY DEF Played, Parked, StoredOn

(* The two ways the settings of a profile agree after a step: in the store, *)
(* or as the live settings.                                                  *)
LEMMA OthersAgree ==
    ASSUME NEW p \in Profiles, p # activeProfile',
           Agree(StoredOn(p), p), stored'[p] = stored[p], chosen'[p] = chosen[p],
           mixed => mixed'
    PROVE  Agree(Played(p), p)'
  <1>1. Played(p)' = StoredOn(p) BY DEF Played, StoredOn
  <1> QED BY <1>1 DEF Agree

LEMMA ActiveAgrees ==
    ASSUME PlacesOK', NEW p \in Profiles, activeProfile' = p,
           On(live') \intersect Original = chosen'[p] \intersect Original,
           ~mixed' => ~modeOn' /\ On(live') = chosen'[p]
    PROVE  Agree(Played(p), p)'
  <1>1. Played(p)' = On(live') \union Parked' BY DEF Played, Parked
  <1>2. Parked' \subseteq NonV4a /\ (~modeOn' => Parked' = {})
    BY DEF PlacesOK, Parked
  <1>3. (On(live') \union Parked') \intersect Original = On(live') \intersect Original
    BY <1>2, EffectsAssumption
  <1> QED BY <1>1, <1>2, <1>3 DEF Agree

LEMMA StoredAgree ==
    ASSUME KeptInv, pc \in {"idle", "store"},
           NEW p \in Profiles \ harmed, p # activeProfile
    PROVE  Agree(StoredOn(p), p)
  BY PlayedIs DEF KeptInv

(* An archive that was loaded over the live settings of the active profile.  *)
LEMMA LoadedAgrees ==
    ASSUME PlacesOK, PlacesOK', KeptInv, pc = "idle", NEW archive \in FileSets,
           LoadOver(live, archive), ChooseArchive(archive),
           mixed' = (mixed \/ modeOn), activeProfile' = activeProfile, modeOn' = modeOn,
           activeProfile \in Profiles \ harmed'
    PROVE  Agree(Played(activeProfile), activeProfile)'
  <1> DEFINE a == activeProfile
  <1>1. a \in Profiles \ harmed /\ ~Tainted(archive)
    BY NoneAssumption DEF ChooseArchive
  <1>2. Agree(On(live) \union Parked, a) BY <1>1, PlayedIs DEF KeptInv
  <1>3. chosen'[a] = (chosen[a] \ Files(archive)) \union On(archive)
    BY <1>1, NoneAssumption DEF ChooseArchive, PlacesOK
  <1>4. live \in FileSets BY DEF PlacesOK
  <1>5. /\ On(live') \intersect Original =
             ((On(live) \ Files(archive)) \union On(archive)) \intersect Original
        /\ ~modeOn => On(live') = (On(live) \ Files(archive)) \union On(archive)
    BY <1>1, <1>4, LoadingOver
  <1>6. On(live') \intersect Original = chosen'[a] \intersect Original
    <2>1. On(live) \intersect Original = chosen[a] \intersect Original
      BY <1>2, ParkedIsHidden DEF Agree
    <2> QED BY <1>3, <1>5, <2>1
  <1>7. ~mixed' => ~mixed /\ ~modeOn BY Zenon
  <1>8. ~mixed' => ~modeOn' /\ On(live') = chosen'[a]
    <2>1. ~mixed' => On(live) = chosen[a] BY <1>2, <1>7, ParkedIsHidden DEF Agree
    <2> QED BY <1>3, <1>5, <1>7, <2>1
  <1> QED BY <1>1, <1>6, <1>8, ActiveAgrees

LEMMA KeptStay == PlacesInv /\ KeptInv /\ [Next]_vars => KeptInv'
<1> SUFFICES ASSUME PlacesInv, KeptInv, [Next]_vars PROVE KeptInv'
  OBVIOUS
<1> USE DEF mode, files, history
<1>0. PlacesOK /\ PlacesOK' BY PlacesStay DEF PlacesInv
<1>00. live \in FileSets BY <1>0 DEF PlacesOK
<1>1. CASE SwitchEffect
  <2>1. PICK e \in Effects :
          /\ modeOn => e \in Original
          /\ live' = [live EXCEPT ![e] = IF @ = "on" THEN "off" ELSE "on"]
          /\ chosen' = IF activeProfile = None THEN chosen
                       ELSE [chosen EXCEPT ![activeProfile] =
                               IF live[e] = "on" THEN @ \ {e} ELSE @ \union {e}]
    BY <1>1 DEF SwitchEffect, Effects
  <2>0. On(live') = IF live[e] = "on" THEN On(live) \ {e} ELSE On(live) \union {e}
    <3>1. PICK t : t = live' OBVIOUS
    <3>2. t = [live EXCEPT ![e] = IF @ = "on" THEN "off" ELSE "on"] BY <2>1, <3>1
    <3>3. On(t) = IF live[e] = "on" THEN On(live) \ {e} ELSE On(live) \union {e}
      BY ONLY <1>00, <3>2, e \in Effects, Toggling
    <3> QED BY <3>1, <3>3
  <2>2. ASSUME NEW p \in Profiles \ harmed PROVE Agree(Played(p), p)'
    <3>1. Agree(Played(p), p) BY <1>1 DEF SwitchEffect, KeptInv
    <3>2. CASE p = activeProfile
      <4>1. chosen'[p] = IF live[e] = "on" THEN chosen[p] \ {e} ELSE chosen[p] \union {e}
        BY <1>0, <2>1, <3>2, NoneAssumption DEF PlacesOK
      <4>2. e \notin Parked BY <1>0, <2>1, ParkedIsHidden, EffectsAssumption
      <4>3. Played(p) = On(live) \union Parked /\ Played(p)' = On(live') \union Parked
        BY <1>0, <1>1, <3>2 DEF SwitchEffect, Played, Parked
      <4>4. mixed' = mixed BY <1>1 DEF SwitchEffect
      <4> QED BY <2>0, <3>1, <4>1, <4>2, <4>3, <4>4 DEF Agree
    <3>3. CASE p # activeProfile
      <4>1. Played(p)' = Played(p) BY <1>1, <3>3 DEF SwitchEffect, Played
      <4>2. chosen'[p] = chosen[p] BY <1>0, <2>1, <3>3 DEF PlacesOK
      <4> QED BY <1>1, <3>1, <4>1, <4>2 DEF SwitchEffect, Agree
    <3> QED BY <3>2, <3>3
  <2> QED BY <1>1, <2>2 DEF SwitchEffect, KeptInv
<1>2. CASE LoadPreset
  <2>1. PICK preset \in FileSets : LoadOver(live, preset) /\ ChooseArchive(preset)
    BY <1>2, PresetsAssumption DEF LoadPreset
  <2>2. ASSUME NEW p \in Profiles \ harmed' PROVE Agree(Played(p), p)'
    <3>1. CASE p = activeProfile
      BY <1>0, <1>2, <2>1, <3>1, LoadedAgrees DEF LoadPreset
    <3>2. CASE p # activeProfile
      <4>1. chosen'[p] = chosen[p] BY <1>0, <2>1, <3>2 DEF ChooseArchive, PlacesOK
      <4>2. p \in Profiles \ harmed BY <2>1 DEF ChooseArchive
      <4>3. Agree(StoredOn(p), p) BY <1>2, <3>2, <4>2, StoredAgree DEF LoadPreset
      <4> QED BY <1>2, <3>2, <4>1, <4>3, OthersAgree DEF LoadPreset
    <3> QED BY <3>1, <3>2
  <2> QED BY <1>2, <2>2 DEF LoadPreset, KeptInv
<1>3. CASE LoadPresetFails
  <2>1. PICK preset \in Presets : LoadBreaks(preset) BY <1>3, Zenon DEF LoadPresetFails
  <2>2. ASSUME NEW p \in Profiles \ harmed' PROVE Agree(Played(p), p)'
    <3>1. /\ harmed \subseteq harmed'
          /\ live' = live \/ p # activeProfile
      BY <2>1, NoneAssumption DEF LoadBreaks
    <3>2. Agree(Played(p), p) BY <1>3, <3>1 DEF LoadPresetFails, KeptInv
    <3>3. Played(p)' = Played(p) BY <1>3, <3>1 DEF LoadPresetFails, Played
    <3> QED BY <1>3, <3>2, <3>3 DEF LoadPresetFails, Agree
  <2> QED BY <1>3, <2>2 DEF LoadPresetFails, KeptInv
<1>4. CASE CopyProfile
  <2>1. PICK copied \in FileSets, dest \in Profiles \ {activeProfile} :
          /\ stored' = [stored EXCEPT ![dest] = copied]
          /\ chosen' = [chosen EXCEPT ![dest] = On(copied)]
          /\ harmed' = harmed \ {dest}
    BY <1>0, <1>4 DEF CopyProfile, PlacesOK
  <2>2. ASSUME NEW p \in Profiles \ harmed' PROVE Agree(Played(p), p)'
    <3>1. CASE p = dest
      <4>1. Played(p)' = chosen'[p]
        BY <1>0, <1>4, <2>1, <3>1, NoneAssumption DEF CopyProfile, Played, PlacesOK
      <4> QED BY <4>1 DEF Agree
    <3>2. CASE p # dest
      <4>1. chosen'[p] = chosen[p] /\ stored'[p] = stored[p] BY <1>0, <2>1, <3>2 DEF PlacesOK
      <4>2. Played(p)' = Played(p) BY <1>4, <4>1 DEF CopyProfile, Played
      <4>3. p \in Profiles \ harmed BY <2>1, <3>2
      <4> QED BY <1>4, <4>1, <4>2, <4>3 DEF CopyProfile, KeptInv, Agree
    <3> QED BY <3>1, <3>2
  <2> QED BY <1>4, <2>2 DEF CopyProfile, KeptInv
<1>5. CASE CopyOntoActive
  <2>1. PICK source \in Profiles :
          /\ CopiedOntoActive(source)
          /\ LoadOver(live, stored[source]) /\ ChooseArchive(stored[source])
    BY <1>5 DEF CopyOntoActive
  <2>0. stored[source] \in FileSets BY <1>0, <2>1 DEF PlacesOK, CopiedOntoActive
  <2>2. ASSUME NEW p \in Profiles \ harmed' PROVE Agree(Played(p), p)'
    <3>1. CASE p = activeProfile
      BY <1>0, <1>5, <2>0, <2>1, <3>1, LoadedAgrees DEF CopyOntoActive
    <3>2. CASE p # activeProfile
      <4>1. chosen'[p] = chosen[p] /\ stored'[p] = stored[p]
        BY <1>0, <2>1, <3>2 DEF ChooseArchive, CopiedOntoActive, PlacesOK
      <4>2. p \in Profiles \ harmed BY <2>1 DEF ChooseArchive
      <4>3. Agree(StoredOn(p), p) BY <1>5, <3>2, <4>2, StoredAgree DEF CopyOntoActive
      <4> QED BY <1>5, <3>2, <4>1, <4>3, OthersAgree DEF CopyOntoActive
    <3> QED BY <3>1, <3>2
  <2> QED BY <1>5, <2>2 DEF CopyOntoActive, KeptInv
<1>6. CASE CopyOntoActiveFails
  <2>1. PICK source \in Profiles : CopiedOntoActive(source) /\ LoadBreaks(stored[source])
    BY <1>6, Zenon DEF CopyOntoActiveFails
  <2>2. ASSUME NEW p \in Profiles \ harmed' PROVE Agree(Played(p), p)'
    <3>1. /\ harmed \subseteq harmed'
          /\ live' = live \/ p # activeProfile
      BY <2>1, NoneAssumption DEF LoadBreaks
    <3>2. Agree(Played(p), p) BY <1>6, <3>1 DEF CopyOntoActiveFails, KeptInv
    <3>3. p # activeProfile => stored'[p] = stored[p]
      BY <1>0, <2>1 DEF CopiedOntoActive, PlacesOK
    <3>4. Played(p)' = Played(p) BY <1>6, <3>1, <3>3 DEF CopyOntoActiveFails, Played
    <3> QED BY <1>6, <3>2, <3>4 DEF CopyOntoActiveFails, Agree
  <2> QED BY <1>6, <2>2 DEF CopyOntoActiveFails, KeptInv
<1>7. CASE DeleteProfile
  <2>1. PICK d \in Profiles :
          /\ stored' = [stored EXCEPT ![d] = None]
          /\ chosen' = [chosen EXCEPT ![d] = {}]
          /\ harmed' = harmed \ {d}
          /\ live' = IF d = activeProfile THEN NoFiles ELSE live
    BY <1>7 DEF DeleteProfile
  <2>2. ASSUME NEW p \in Profiles \ harmed' PROVE Agree(Played(p), p)'
    <3>1. CASE p = d /\ p = activeProfile
      <4>1. chosen'[p] = {} /\ On(live') = {} BY <1>0, <2>1, <3>1, NoFilesAre DEF PlacesOK
      <4>2. ~mixed' => ~modeOn' BY <1>7, Zenon DEF DeleteProfile
      <4>3. activeProfile' = p BY <1>7, <3>1 DEF DeleteProfile
      <4> QED BY <1>0, <4>1, <4>2, <4>3, ActiveAgrees
    <3>2. CASE p = d /\ p # activeProfile
      <4>1. chosen'[p] = {} /\ Played(p)' = {}
        BY <1>0, <1>7, <2>1, <3>2 DEF PlacesOK, DeleteProfile, Played
      <4> QED BY <4>1 DEF Agree
    <3>3. CASE p # d
      <4>1. chosen'[p] = chosen[p] /\ stored'[p] = stored[p] BY <1>0, <2>1, <3>3 DEF PlacesOK
      <4>2. Played(p)' = Played(p) BY <1>7, <2>1, <3>3, <4>1 DEF DeleteProfile, Played
      <4>3. p \in Profiles \ harmed BY <2>1, <3>3
      <4> QED BY <1>7, <4>1, <4>2, <4>3 DEF DeleteProfile, KeptInv, Agree
    <3> QED BY <3>1, <3>2, <3>3
  <2> QED BY <1>7, <2>2 DEF DeleteProfile, KeptInv
<1>8. CASE TurnModeOn \/ TurnModeOff
  <2>1. On(live') \union Parked' = On(live) \union Parked
    <3>1. CASE TurnModeOn
      <4>1. Parked = {} BY <1>0, <3>1, ParkedIsHidden DEF TurnModeOn
      <4>2. On(live') = On(live) \ NonV4a BY <1>00, <3>1, SwitchingOff DEF TurnModeOn
      <4>3. On(live) \intersect NonV4a # None BY NoneAssumption DEF Effects
      <4>4. Parked' = On(live) \intersect NonV4a BY <3>1, <4>3 DEF TurnModeOn, Parked
      <4> QED BY <4>1, <4>2, <4>4
    <3>2. CASE TurnModeOff
      <4>1. On(live') = On(live) \union Parked BY <1>0, <3>2, Restoring DEF TurnModeOff
      <4>2. Parked' = {} BY <3>2 DEF TurnModeOff, Parked
      <4> QED BY <4>1, <4>2
    <3> QED BY <1>8, <3>1, <3>2
  <2>2. UNCHANGED <<stored, savedProfile, activeProfile, chosen, mixed, harmed, pc>> /\ pc = "idle"
    BY <1>8 DEF TurnModeOn, TurnModeOff
  <2>3. ASSUME NEW p \in Profiles PROVE Played(p)' = Played(p)
    BY <2>1, <2>2 DEF Played, Parked
  <2> QED BY <2>2, <2>3 DEF KeptInv, Agree
<1>9. CASE EnableProfiles \/ ChangeDevice \/ UNCHANGED vars
  <2>1. UNCHANGED <<live, stored, savedProfile, activeProfile, record, modeOn, chosen, mixed, harmed>>
    BY <1>9 DEF EnableProfiles, ChangeDevice, vars
  <2>2. (pc' = pc /\ newProfile' = newProfile) \/ (pc = "idle" /\ pc' = "store")
    <3>1. CASE EnableProfiles BY <3>1, Zenon DEF EnableProfiles, BeginRotation
    <3>2. CASE ChangeDevice BY <3>2, Zenon DEF ChangeDevice, BeginRotation
    <3>3. CASE UNCHANGED vars BY <3>3 DEF vars
    <3> QED BY <1>9, <3>1, <3>2, <3>3
  <2>3. ASSUME NEW p
        PROVE  Played(p)' = Played(p) /\ StoredOn(p)' = StoredOn(p)
    BY <2>1 DEF Played, StoredOn
  <2>5. ASSUME NEW p, NEW S, Agree(S, p)
        PROVE  /\ S \intersect Original = chosen'[p] \intersect Original
               /\ ~mixed' => S = chosen'[p]
    BY <2>1, <2>5 DEF Agree
  <2>6. CASE pc' = pc /\ newProfile' = newProfile
    BY <2>1, <2>3, <2>5, <2>6 DEF KeptInv, Agree
  <2>7. CASE pc = "idle" /\ pc' = "store"
    BY <2>1, <2>3, <2>5, <2>7 DEF KeptInv, Agree
  <2> QED BY <2>2, <2>6, <2>7
<1>10. CASE Store
  <2>1. live # None BY <1>00, NoneAssumption
  <2>2. ASSUME NEW p \in Profiles \ harmed' PROVE Agree(StoredOn(p), p)'
    <3>0. p \in Profiles \ harmed BY <1>10 DEF Store, Adopt
    <3>1. CASE p = Owner
      <4>1. StoredOn(p)' = On(live) BY <1>0, <1>10, <2>1, <3>1 DEF Store, StoredOn, PlacesOK
      <4>2. CASE activeProfile = None
        <5>1. chosen'[p] = On(live)
          BY <1>0, <1>10, <3>1, <4>2 DEF Store, Adopt, PlacesOK
        <5> QED BY <4>1, <5>1 DEF Agree
      <4>3. CASE activeProfile # None
        <5>1. p = activeProfile BY <3>1, <4>3 DEF Owner
        <5>2. Agree(On(live) \union Parked, p) BY <1>10, <3>0, <5>1, PlayedIs DEF Store, KeptInv
        <5>3. ~mixed' => ~mixed /\ ~modeOn BY <1>10, Zenon DEF Store
        <5>4. chosen'[p] = chosen[p] BY <1>10, <4>3 DEF Store, Adopt
        <5> QED BY <1>0, <4>1, <5>2, <5>3, <5>4, ParkedIsHidden DEF Agree
      <4> QED BY <4>2, <4>3
    <3>2. CASE p # Owner
      <4>1. p # activeProfile BY <3>2, NoneAssumption DEF Owner
      <4>2. Agree(StoredOn(p), p) BY <1>10, <3>0, <4>1, StoredAgree DEF Store
      <4>3. chosen'[p] = chosen[p] /\ stored'[p] = stored[p]
        BY <1>0, <1>10, <3>2 DEF Store, Adopt, PlacesOK
      <4> QED BY <1>10, <4>2, <4>3 DEF Store, Agree, StoredOn
    <3> QED BY <3>1, <3>2
  <2>3. ~mixed' => ~modeOn' BY <1>10, Zenon DEF Store
  <2> QED BY <1>10, <2>2, <2>3 DEF Store, KeptInv
<1>11. CASE StoreFails
  <2>1. ASSUME NEW p \in Profiles \ harmed' PROVE Agree(StoredOn(p), p)'
    <3>1. p # Owner /\ p \in Profiles \ harmed BY <1>11 DEF StoreFails
    <3>2. p # activeProfile BY <3>1, NoneAssumption DEF Owner
    <3>3. Agree(StoredOn(p), p) BY <1>11, <3>1, <3>2, StoredAgree DEF StoreFails
    <3>4. chosen'[p] = chosen[p] /\ stored'[p] = stored[p]
      BY <1>0, <1>11, <3>1 DEF StoreFails, PlacesOK
    <3> QED BY <1>11, <3>1, <3>3, <3>4 DEF StoreFails, Agree, StoredOn
  <2>2. ~mixed' => ~modeOn' BY <1>11, Zenon DEF StoreFails
  <2> QED BY <1>11, <2>1, <2>2 DEF StoreFails, KeptInv
<1>12. CASE ClearLive
  BY <1>12 DEF ClearLive, KeptInv, Agree, StoredOn
<1>13. CASE Load
  <2>1. newProfile \in Profiles /\ stored[newProfile] \in FileSets
        /\ LoadOver(NoFiles, stored[newProfile])
    BY <1>13 DEF Load, PlacesInv, PlacesOK
  <2>2. StoredOn(newProfile) = On(stored[newProfile]) BY <1>13 DEF Load, StoredOn
  <2>3. newProfile \notin harmed' =>
          /\ On(live') \intersect Original = StoredOn(newProfile) \intersect Original
          /\ ~modeOn => On(live') = StoredOn(newProfile)
    <3>1. SUFFICES ASSUME newProfile \notin harmed'
                   PROVE  /\ On(live') \intersect Original = StoredOn(newProfile) \intersect Original
                          /\ ~modeOn => On(live') = StoredOn(newProfile)
      OBVIOUS
    <3>2. ~Tainted(stored[newProfile]) BY <1>13, <3>1 DEF Load
    <3>3. (On(NoFiles) \ Files(stored[newProfile])) \union On(stored[newProfile])
            = On(stored[newProfile])
      BY NoFilesAre
    <3> QED BY <1>0, <2>1, <2>2, <3>2, <3>3, NoFilesAre, LoadingOver
  <2>4. harmed \subseteq harmed' BY <1>13 DEF Load
  <2> QED BY <1>13, <2>3, <2>4 DEF Load, KeptInv, Agree, StoredOn
<1>14. CASE LoadNothing
  <2>1. StoredOn(newProfile) = {} /\ On(live') = {}
    BY <1>14, NoFilesAre DEF LoadNothing, StoredOn
  <2> QED BY <1>14, <2>1 DEF LoadNothing, KeptInv, Agree, StoredOn
<1>15. CASE LoadFails
  <2>1. harmed \subseteq harmed' /\ newProfile \in harmed' BY <1>15 DEF LoadFails
  <2> QED BY <1>15, <2>1 DEF LoadFails, KeptInv, Agree, StoredOn
<1>16. CASE SaveActive
  <2>1. newProfile \in Profiles BY <1>16 DEF SaveActive, PlacesInv
  <2>2. ASSUME NEW p \in Profiles \ harmed PROVE Agree(Played(p), p)'
    <3>1. Agree(StoredOn(p), p) BY <1>16 DEF SaveActive, KeptInv
    <3>2. CASE p = newProfile
      <4>1. /\ On(live) \intersect Original = chosen[p] \intersect Original
            /\ ~mixed => ~modeOn /\ On(live) = chosen[p]
        BY <1>16, <3>1, <3>2 DEF SaveActive, KeptInv, Agree
      <4> QED BY <1>0, <1>16, <3>2, <4>1, ActiveAgrees DEF SaveActive
    <3>3. CASE p # newProfile BY <1>0, <1>16, <3>1, <3>3, OthersAgree DEF SaveActive
    <3> QED BY <3>2, <3>3
  <2> QED BY <1>16, <2>2 DEF SaveActive, KeptInv
<1>17. CASE Die
  <2>1. UNCHANGED <<live, stored, record, chosen, mixed, harmed>> /\ pc = "idle" /\ pc' = "idle"
    BY <1>17 DEF Die, Restart
  <2>2. savedProfile' = activeProfile' /\ activeProfile' = activeProfile
    BY <1>17 DEF Die, Restart, KeptInv
  <2>3. ASSUME NEW p \in Profiles PROVE Played(p)' = Played(p)
    BY <2>1, <2>2 DEF Played
  <2> QED BY <2>1, <2>2, <2>3 DEF KeptInv, Agree
<1>18. CASE DieStoring
  <2>1. UNCHANGED <<live, record, chosen, mixed>> /\ pc = "store" /\ pc' = "idle"
    BY <1>18 DEF DieStoring, Restart
  <2>2. savedProfile' = activeProfile' /\ activeProfile' = activeProfile
    BY <1>18 DEF DieStoring, Restart, KeptInv
  <2>3. ASSUME NEW p \in Profiles \ harmed' PROVE Agree(Played(p), p)'
    <3>1. p \in Profiles \ harmed BY <1>18 DEF DieStoring
    <3>2. Agree(Played(p), p) BY <2>1, <3>1 DEF KeptInv
    <3>3. p # activeProfile => stored'[p] = stored[p]
      <4>1. p # activeProfile => p # Owner BY <1>18 DEF DieStoring, Owner
      <4> QED BY <1>0, <1>18, <4>1 DEF DieStoring, PlacesOK
    <3>4. Played(p)' = Played(p) BY <2>1, <2>2, <3>3 DEF Played
    <3> QED BY <2>1, <3>2, <3>4 DEF Agree
  <2> QED BY <2>1, <2>2, <2>3 DEF KeptInv
<1>19. CASE DieClearing \/ DieLoading \/ DieSaving
  <2>1. UNCHANGED <<stored, chosen, mixed>> /\ pc \in {"clear", "load", "save"} /\ pc' = "idle"
    BY <1>19 DEF DieClearing, DieLoading, DieSaving, Restart
  <2>2. savedProfile' = activeProfile' /\ activeProfile' \in {activeProfile, None}
    BY <1>19 DEF DieClearing, DieLoading, DieSaving, Restart, KeptInv
  <2>3. harmed' = harmed \union ({activeProfile} \ {None})
    BY <1>19 DEF DieClearing, DieLoading, DieSaving, HarmLeft
  <2>4. ASSUME NEW p \in Profiles \ harmed' PROVE Agree(Played(p), p)'
    <3>1. p \in Profiles \ harmed /\ p # activeProfile BY <2>3, NoneAssumption
    <3>2. Agree(StoredOn(p), p) BY <2>1, <3>1 DEF KeptInv
    <3>3. p # activeProfile' BY <2>2, <3>1, NoneAssumption
    <3> QED BY <2>1, <3>2, <3>3, OthersAgree
  <2> QED BY <2>1, <2>2, <2>4 DEF KeptInv
<1> QED
  BY <1>1, <1>2, <1>3, <1>4, <1>5, <1>6, <1>7, <1>8, <1>9, <1>10, <1>11, <1>12, <1>13,
     <1>14, <1>15, <1>16, <1>17, <1>18, <1>19
  DEF Next, User, ProcessDies

(* Between rotations each output has what the user has chosen for it, live,  *)
(* parked or stored, whatever outputs came and went and whichever step       *)
(* failed or was the process's last, but for the losses that SettingsKept    *)
(* names (ProfileManager.rotate, copy and delete, Preset.load).              *)
THEOREM SettingsSurvive == Spec => []SettingsKept
<1>1. Init => PlacesInv
  BY BoundsAssumption, NoFilesAre DEF Init, PlacesInv, PlacesOK
<1>2. Init => KeptInv
  BY NoFilesAre DEF Init, KeptInv, Agree, Played
<1>3. KeptInv => SettingsKept
  BY DEF KeptInv, SettingsKept, Agree
<1> QED BY <1>1, <1>2, <1>3, PlacesStay, KeptStay, PTL DEF Spec
=============================================================================
