------------------------ MODULE PreferenceSyncProofs ------------------------
(***************************************************************************)
(* Theorems about PreferenceSync, for any cards, keys, values and rates.     *)
(***************************************************************************)
EXTENDS PreferenceSync, TLAPS

Positions == 1 .. Len(KeySeq)

LEMMA KeysByPosition ==
    /\ Len(KeySeq) \in Nat
    /\ \A i \in Positions : KeySeq[i] \in Keys /\ NsOf[KeySeq[i]] \in Namespaces
    /\ \A k \in Keys : \E i \in Positions : KeySeq[i] = k
    /\ \A i, j \in Positions : KeySeq[i] = KeySeq[j] => i = j
  BY ConstantsAssumption DEF Keys, Positions

TypeInv == TypeOK /\ (syncPc = "store" => pos \in Positions)

LEMMA TypeStays == TypeInv /\ [Next]_vars => TypeInv'
<1> SUFFICES ASSUME TypeInv, [Next]_vars PROVE TypeInv'
  OBVIOUS
<1> USE ConstantsAssumption, KeysByPosition
    DEF TypeInv, TypeOK, Positions, userVars, mainVars, engineVars
<1>1. CASE ChangePreference BY <1>1 DEF ChangePreference, Change
<1>2. CASE ChangeSampleRate BY <1>2 DEF ChangeSampleRate, Change
<1>3. CASE ForceSync BY <1>3 DEF ForceSync, Change
<1>4. CASE ReceivePreferencesUpdated BY <1>4 DEF ReceivePreferencesUpdated
<1>5. CASE ReceiveSampleRateUpdated BY <1>5 DEF ReceiveSampleRateUpdated
<1>6. CASE LaunchAfterClear BY <1>6 DEF LaunchAfterClear
<1>7. CASE BeginSync BY <1>7 DEF BeginSync
<1>8. CASE CheckKey
  <2>1. KeySeq[pos] \in Keys /\ pos \in Positions BY <1>8 DEF CheckKey
  <2>2. read' \in [Keys -> Values] BY <1>8, <2>1 DEF CheckKey
  <2>3. changedNamespaces' \in SUBSET Namespaces BY <1>8, <2>1 DEF CheckKey
  <2> QED BY <1>8, <2>1, <2>2, <2>3 DEF CheckKey
<1>9. CASE StoreKey BY <1>9 DEF StoreKey
<1>10. CASE ChooseTargets BY <1>10 DEF ChooseTargets
<1>11. ASSUME NEW ns \in Namespaces, ApplyNamespace(ns) PROVE TypeInv'
  <2>0. CASE failed' = failed \union {ns} /\ UNCHANGED <<applied, appliedRate>>
    BY <1>11, <2>0 DEF ApplyNamespace
  <2>1. CASE /\ applied' = [k \in Keys |-> IF NsOf[k] = ns THEN read[k] ELSE applied[k]]
             /\ appliedRate' = [appliedRate EXCEPT ![ns] = sampleRate]
             /\ failed' = failed \ {ns}
    <3>1. \A k \in Keys : (IF NsOf[k] = ns THEN read[k] ELSE applied[k]) \in Values \union {Absent}
      OBVIOUS
    <3>2. applied' \in [Keys -> Values \union {Absent}] BY <2>1, <3>1
    <3>3. appliedRate' \in [Namespaces -> Rates] BY <2>1
    <3>4. failed' \in SUBSET Namespaces BY <2>1
    <3> QED BY <1>11, <3>2, <3>3, <3>4 DEF ApplyNamespace
  <2> QED BY <1>11, <2>0, <2>1 DEF ApplyNamespace
<1>12. CASE EndSync BY <1>12 DEF EndSync
<1>13. CASE UNCHANGED vars BY <1>13 DEF vars
<1> QED
  BY <1>1, <1>2, <1>3, <1>4, <1>5, <1>6, <1>7, <1>8, <1>9, <1>10, <1>11, <1>12, <1>13
  DEF Next, Environment, MainStep, SyncStep

LEMMA TypeStarts == Init => TypeInv
  BY ConstantsAssumption, KeysByPosition DEF Init, TypeInv, TypeOK, Positions

(* Every variable stays in its type.                                        *)
THEOREM TypeCorrect == Spec => []TypeOK
<1>1. TypeInv => TypeOK BY DEF TypeInv
<1> QED BY <1>1, TypeStarts, TypeStays, PTL DEF Spec

-----------------------------------------------------------------------------
(* What a running sync has put into the cache is what it has read; a key it  *)
(* is about to store is marked, or the engine has that value.                *)
SyncInv ==
    /\ syncPc # "idle" => \A i \in Positions : i < pos =>
          cache[KeySeq[i]] \in {Absent, read[KeySeq[i]]}
    /\ syncPc = "store" =>
          \/ read[KeySeq[pos]] = applied[KeySeq[pos]]
          \/ NsOf[KeySeq[pos]] \in changedNamespaces \union failed
    /\ syncPc = "apply" =>
          /\ pos = Len(KeySeq) + 1
          /\ \A k \in Keys : NsOf[k] \in changedNamespaces \ (targets \union failed) =>
                applied[k] = read[k]

CacheInv == SyncInv /\ CacheMatchesEngine

LEMMA CacheStays == TypeInv /\ CacheInv /\ [Next]_vars => CacheInv'
<1> SUFFICES ASSUME TypeInv, CacheInv, [Next]_vars PROVE CacheInv'
  OBVIOUS
<1> USE KeysByPosition
    DEF CacheInv, SyncInv, CacheMatchesEngine, Positions, userVars, mainVars, engineVars
<1>0. TypeInv' BY TypeStays
<1>1. CASE Environment \/ ReceivePreferencesUpdated \/ LaunchAfterClear \/ UNCHANGED vars
  <2>1. UNCHANGED <<cache, changedNamespaces, syncPc, pos, read, targets, applied, failed>>
    BY <1>1
    DEF Environment, ChangePreference, ChangeSampleRate, ForceSync,
        ReceivePreferencesUpdated, LaunchAfterClear, vars
  <2> QED BY <2>1
<1>2. CASE ReceiveSampleRateUpdated
  <2>1. \A k \in Keys : cache'[k] = Absent BY <1>2 DEF ReceiveSampleRateUpdated
  <2> QED BY <1>2, <2>1 DEF ReceiveSampleRateUpdated, TypeInv, TypeOK
<1>3. CASE BeginSync BY <1>3 DEF BeginSync
<1>4. CASE CheckKey
  <2>1. pos \in Positions BY <1>4 DEF CheckKey, TypeInv, TypeOK
  <2>2. DEFINE k == KeySeq[pos]
  <2>3. read' = [read EXCEPT ![k] = prefs[k]] /\ prefs[k] \in Values /\ prefs[k] # Absent
    BY <1>4, <2>1, ConstantsAssumption, SMTT(30) DEF CheckKey, TypeInv, TypeOK
  <2>4. \A i \in Positions : i < pos => read'[KeySeq[i]] = read[KeySeq[i]]
    BY <2>1, <2>3 DEF TypeInv, TypeOK
  <2>5. read'[k] = prefs[k] BY <2>1, <2>3 DEF TypeInv, TypeOK
  <2>6. read'[k] = applied[k] \/ NsOf[k] \in changedNamespaces' \union failed
    BY <1>4, <2>1, <2>3, <2>5 DEF CheckKey
  <2>7. changedNamespaces \subseteq changedNamespaces' BY <1>4 DEF CheckKey
  <2> QED BY <1>4, <2>4, <2>6, <2>7 DEF CheckKey
<1>5. CASE StoreKey
  <2>1. pos \in Positions BY <1>5 DEF StoreKey, TypeInv
  <2>2. cache' = [cache EXCEPT ![KeySeq[pos]] = read[KeySeq[pos]]] BY <1>5 DEF StoreKey
  <2>3. \A l \in Keys : cache'[l] = IF l = KeySeq[pos] THEN read[l] ELSE cache[l]
    BY <2>1, <2>2 DEF TypeInv, TypeOK
  <2> QED BY <1>5, <2>1, <2>3 DEF StoreKey
<1>6. CASE ChooseTargets BY <1>6 DEF ChooseTargets, TypeInv, TypeOK
<1>7. ASSUME NEW ns \in Namespaces, ApplyNamespace(ns) PROVE CacheInv'
  <2>1. CASE failed' = failed \union {ns} /\ applied' = applied
    BY <1>7, <2>1 DEF ApplyNamespace
  <2>2. CASE /\ applied' = [k \in Keys |-> IF NsOf[k] = ns THEN read[k] ELSE applied[k]]
             /\ failed' = failed \ {ns}
    <3>1. \A k \in Keys : cache[k] \in {Absent, read[k]}
      BY <1>7 DEF ApplyNamespace
    <3>2. \A k \in Keys : applied'[k] = IF NsOf[k] = ns THEN read[k] ELSE applied[k]
      BY <2>2
    <3> QED BY <1>7, <2>2, <3>1, <3>2 DEF ApplyNamespace
  <2> QED BY <1>7, <2>1, <2>2 DEF ApplyNamespace
<1>8. CASE EndSync
  <2>1. \A k \in Keys : cache[k] \in {Absent, read[k]}
    BY <1>8 DEF EndSync
  <2> QED BY <1>8, <2>1 DEF EndSync
<1> QED
  BY <1>1, <1>2, <1>3, <1>4, <1>5, <1>6, <1>7, <1>8 DEF Next, MainStep, SyncStep

(* A remembered value never hides a change from the engine                   *)
(* (PreferenceCache.get), whenever the cache is cleared under a sync.         *)
THEOREM CacheHidesNothing == Spec => []CacheMatchesEngine
<1>1. Init => CacheInv
  BY DEF Init, CacheInv, SyncInv, CacheMatchesEngine
<1>2. CacheInv => CacheMatchesEngine BY DEF CacheInv
<1> QED BY <1>1, <1>2, TypeStarts, TypeStays, CacheStays, PTL DEF Spec

-----------------------------------------------------------------------------
(* Another sync is on its way.                                              *)
Coming == pending # {} \/ mainPc = "launch"

(* The running sync has still to compare the key at i.                       *)
Unread(i) == (syncPc = "check" /\ i >= pos) \/ (syncPc = "store" /\ i > pos)

(* What the running sync will apply, as far as it knows yet.                 *)
Marked ==
    IF syncPc = "apply" THEN targets
    ELSE IF syncPc = "idle" THEN {} ELSE changedNamespaces

(* A value the sync has read is the setting of now, or another sync comes.   *)
ReadsInv ==
    \A i \in Positions :
        syncPc # "idle" /\ ~Unread(i) =>
            read[KeySeq[i]] = prefs[KeySeq[i]] \/ Coming \/ "prefs" \in posted

(* A setting the engine has not been given is on its way to it.              *)
SettingsInv ==
    \A i \in Positions :
        LET k == KeySeq[i] IN
        \/ applied[k] = prefs[k]
        \/ NsOf[k] \in failed \union Marked
        \/ Coming \/ "prefs" \in posted \/ Unread(i)

(* A card set up at an old rate has a forgotten key that a sync will find;    *)
(* one key is not enough, the sync under way may be about to remember it.     *)
RateInv ==
    \A ns \in Namespaces :
        \/ appliedRate[ns] = sampleRate
        \/ ns \in failed \union Marked
        \/ "rate" \in posted
        \/ \E i \in Positions :
              /\ NsOf[KeySeq[i]] = ns /\ cache[KeySeq[i]] = Absent
              /\ Coming \/ Unread(i)
              /\ syncPc = "store" => i # pos

DueInv == ReadsInv /\ SettingsInv /\ RateInv

LEMMA DueStays == TypeInv /\ CacheInv /\ DueInv /\ [Next]_vars => DueInv'
<1> SUFFICES ASSUME TypeInv, CacheInv, DueInv, [Next]_vars PROVE DueInv'
  OBVIOUS
<1> USE KeysByPosition DEF DueInv, Positions, userVars, mainVars, engineVars, Coming, Unread, Marked
<1>1. CASE ChangePreference
  <2>1. /\ UNCHANGED <<sampleRate, mainPc, pending, cache, changedNamespaces, syncPc, pos, read,
                       targets, applied, appliedRate, failed>>
        /\ posted' = posted \union {"prefs"}
    BY <1>1 DEF ChangePreference
  <2> QED BY <2>1 DEF ReadsInv, SettingsInv, RateInv
<1>2. CASE ChangeSampleRate
  <2>1. /\ UNCHANGED <<prefs, mainPc, pending, cache, changedNamespaces, syncPc, pos, read,
                       targets, applied, appliedRate, failed>>
        /\ posted' = posted \union {"rate"}
    BY <1>2 DEF ChangeSampleRate
  <2> QED BY <2>1 DEF ReadsInv, SettingsInv, RateInv
<1>3. CASE ForceSync \/ ReceivePreferencesUpdated \/ LaunchAfterClear
  <2>1. /\ UNCHANGED <<prefs, sampleRate, cache, changedNamespaces, syncPc, pos, read,
                       targets, applied, appliedRate, failed>>
        /\ pending' # {} /\ ("rate" \in posted => "rate" \in posted')
    BY <1>3 DEF ForceSync, ReceivePreferencesUpdated, LaunchAfterClear
  <2> QED BY <2>1 DEF ReadsInv, SettingsInv, RateInv
<1>4. CASE ReceiveSampleRateUpdated
  <2>1. /\ UNCHANGED <<prefs, sampleRate, changedNamespaces, syncPc, pos, read,
                       targets, applied, appliedRate, failed>>
        /\ mainPc' = "launch" /\ \A k \in Keys : cache'[k] = Absent
    BY <1>4 DEF ReceiveSampleRateUpdated
  <2>2. ReadsInv' /\ SettingsInv' BY <2>1 DEF ReadsInv, SettingsInv
  <2>3. ASSUME NEW ns \in Namespaces
        PROVE  \E i \in Positions : NsOf[KeySeq[i]] = ns /\ i # pos
    <3>1. PICK k, l \in Keys : NsOf[k] = ns /\ NsOf[l] = ns /\ k # l
      BY TwoKeysAssumption DEF KeysOf
    <3>2. PICK i \in Positions, j \in Positions : KeySeq[i] = k /\ KeySeq[j] = l BY <3>1
    <3> QED BY <3>1, <3>2
  <2>4. RateInv' BY <2>1, <2>3 DEF RateInv
  <2> QED BY <2>2, <2>4
<1>5. CASE BeginSync
  <2>1. /\ UNCHANGED <<prefs, sampleRate, posted, cache, applied, appliedRate, failed>>
        /\ syncPc = "idle" /\ syncPc' = "check" /\ pos' = 1
    BY <1>5 DEF BeginSync
  <2>2. \A i \in Positions : Unread(i)' BY <2>1
  <2>3. ReadsInv' /\ SettingsInv' BY <2>2 DEF ReadsInv, SettingsInv
  <2>4. RateInv' BY <2>1, <2>2 DEF RateInv
  <2> QED BY <2>3, <2>4
<1>6. CASE CheckKey
  <2>1. pos \in Positions BY <1>6 DEF CheckKey, TypeInv, TypeOK
  <2>2. prefs[KeySeq[pos]] # Absent
    BY <2>1, ConstantsAssumption DEF TypeInv, TypeOK
  <2>3. \A k \in Keys : read'[k] = IF k = KeySeq[pos] THEN prefs[k] ELSE read[k]
    BY <1>6, <2>1 DEF CheckKey, TypeInv, TypeOK
  <2>4. /\ UNCHANGED <<prefs, sampleRate, posted, mainPc, pending, cache, pos, applied, appliedRate, failed>>
        /\ syncPc = "check" /\ syncPc' = "store"
        /\ changedNamespaces \subseteq changedNamespaces'
        /\ cache[KeySeq[pos]] # prefs[KeySeq[pos]] => NsOf[KeySeq[pos]] \in changedNamespaces'
    BY <1>6 DEF CheckKey
  <2>5. ReadsInv' BY <2>1, <2>3, <2>4 DEF ReadsInv
  <2>6. \/ applied[KeySeq[pos]] = prefs[KeySeq[pos]]
        \/ NsOf[KeySeq[pos]] \in changedNamespaces' \union failed
    BY <2>1, <2>2, <2>4 DEF CacheInv, CacheMatchesEngine
  <2>7. SettingsInv' BY <2>1, <2>4, <2>6 DEF SettingsInv
  <2>8. RateInv' BY <2>1, <2>2, <2>4 DEF RateInv
  <2> QED BY <2>5, <2>7, <2>8
<1>7. CASE StoreKey
  <2>1. pos \in Positions BY <1>7 DEF StoreKey, TypeInv
  <2>2. \A k \in Keys : k # KeySeq[pos] => cache'[k] = cache[k]
    BY <1>7, <2>1 DEF StoreKey, TypeInv, TypeOK
  <2>3. /\ UNCHANGED <<prefs, sampleRate, posted, mainPc, pending, changedNamespaces, read,
                       applied, appliedRate, failed>>
        /\ syncPc = "store" /\ syncPc' = "check" /\ pos' = pos + 1
    BY <1>7 DEF StoreKey
  <2>4. \A i \in Positions : Unread(i)' <=> Unread(i) BY <2>1, <2>3
  <2>5. ReadsInv' BY <2>3, <2>4 DEF ReadsInv
  <2>6. SettingsInv' BY <2>3, <2>4 DEF SettingsInv
  <2>7. RateInv' BY <2>1, <2>2, <2>3, <2>4 DEF RateInv
  <2> QED BY <2>5, <2>6, <2>7
<1>8. CASE ChooseTargets
  <2>1. /\ UNCHANGED <<prefs, sampleRate, posted, mainPc, pending, cache, read, applied, appliedRate, failed>>
        /\ syncPc = "check" /\ pos > Len(KeySeq) /\ syncPc' = "apply"
        /\ changedNamespaces \subseteq targets'
    BY <1>8 DEF ChooseTargets
  <2>2. \A i \in Positions : ~Unread(i) /\ ~Unread(i)'
    BY <2>1, ConstantsAssumption DEF TypeInv, TypeOK
  <2>3. ReadsInv' BY <2>1, <2>2 DEF ReadsInv
  <2>4. SettingsInv' BY <2>1, <2>2 DEF SettingsInv
  <2>5. RateInv' BY <2>1, <2>2 DEF RateInv
  <2> QED BY <2>3, <2>4, <2>5
<1>9. ASSUME NEW ns \in Namespaces, ApplyNamespace(ns) PROVE DueInv'
  <2>1. /\ UNCHANGED <<prefs, sampleRate, posted, mainPc, pending, cache, syncPc, read>>
        /\ syncPc = "apply" /\ targets' = targets \ {ns}
    BY <1>9 DEF ApplyNamespace
  <2>2. \A i \in Positions : ~Unread(i) /\ ~Unread(i)' BY <2>1
  <2>3. ReadsInv' BY <2>1, <2>2 DEF ReadsInv
  <2>4. CASE failed' = failed \union {ns} /\ UNCHANGED <<applied, appliedRate>>
    BY <2>1, <2>2, <2>3, <2>4 DEF SettingsInv, RateInv
  <2>5. CASE /\ applied' = [k \in Keys |-> IF NsOf[k] = ns THEN read[k] ELSE applied[k]]
             /\ appliedRate' = [appliedRate EXCEPT ![ns] = sampleRate]
             /\ failed' = failed \ {ns}
    <3>1. \A k \in Keys : applied'[k] = IF NsOf[k] = ns THEN read[k] ELSE applied[k]
      BY <2>5
    <3>2. \A n \in Namespaces : appliedRate'[n] = IF n = ns THEN sampleRate ELSE appliedRate[n]
      BY <2>5 DEF TypeInv, TypeOK
    <3>3. SettingsInv' BY <2>1, <2>2, <2>5, <3>1 DEF SettingsInv, ReadsInv
    <3>4. RateInv' BY <2>1, <2>2, <2>5, <3>2 DEF RateInv
    <3> QED BY <2>3, <3>3, <3>4
  <2> QED BY <1>9, <2>4, <2>5 DEF ApplyNamespace
<1>10. CASE EndSync
  <2>1. /\ UNCHANGED <<prefs, sampleRate, posted, mainPc, pending, cache, applied, appliedRate, failed>>
        /\ syncPc = "apply" /\ targets = {} /\ syncPc' = "idle"
    BY <1>10 DEF EndSync
  <2> QED BY <2>1 DEF ReadsInv, SettingsInv, RateInv
<1>11. CASE UNCHANGED vars
  <2>1. UNCHANGED <<prefs, sampleRate, posted, mainPc, pending, cache, changedNamespaces, syncPc,
                    pos, read, targets, applied, appliedRate, failed>>
    BY <1>11 DEF vars
  <2> QED BY <2>1 DEF ReadsInv, SettingsInv, RateInv
<1> QED
  BY <1>1, <1>2, <1>3, <1>4, <1>5, <1>6, <1>7, <1>8, <1>9, <1>10, <1>11
  DEF Next, Environment, MainStep, SyncStep

(* At rest every setting and the rate have reached the engine, whatever the  *)
(* interleaving of changes, clears and syncs, except where the engine refused *)
(* (syncWithPreferencesAsync).                                                *)
THEOREM NothingIsForgotten == Spec => []NothingForgotten
<1>1. Init => CacheInv
  BY DEF Init, CacheInv, SyncInv, CacheMatchesEngine
<1>2. Init => DueInv
  BY DEF Init, DueInv, ReadsInv, SettingsInv, RateInv, Coming, All
<1>3. DueInv => NothingForgotten
  <2> SUFFICES ASSUME DueInv, Quiet, NEW ns \in Namespaces \ failed PROVE UpToDate(ns)
    BY DEF NothingForgotten
  <2>1. Marked = {} /\ ~Coming /\ posted = {} /\ \A i \in Positions : ~Unread(i)
    BY DEF Quiet, Marked, Coming, Unread
  <2>2. \A k \in KeysOf(ns) : applied[k] = prefs[k]
    BY <2>1, KeysByPosition DEF KeysOf, DueInv, SettingsInv
  <2>3. appliedRate[ns] = sampleRate BY <2>1 DEF DueInv, RateInv
  <2> QED BY <2>2, <2>3 DEF UpToDate
<1> QED BY <1>1, <1>2, <1>3, TypeStarts, TypeStays, CacheStays, DueStays, PTL DEF Spec
=============================================================================
