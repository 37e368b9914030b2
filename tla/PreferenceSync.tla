--------------------------- MODULE PreferenceSync ---------------------------
(***************************************************************************)
(* How the settings reach the engine: JamesDspBaseEngine.syncWithPreferences *)
(* and the PreferenceCache that decides which namespaces (effect cards) are  *)
(* sent.  A sync runs on an IO thread under the mutex: it reads every key    *)
(* through the cache, marking the namespaces in which a value differs from   *)
(* the remembered one, then applies the marked and the forced namespaces.    *)
(* Meanwhile the user changes settings, and the main thread clears the cache *)
(* when the sample rate has changed, without the mutex.                      *)
(***************************************************************************)
EXTENDS Naturals, Sequences, FiniteSets

CONSTANTS
    Namespaces,
    KeySeq,      \* the keys in the order a sync reads them
    NsOf,        \* the namespace of each key
    Values,      \* what a setting can be
    Absent,      \* what the cache has for a key it does not hold
    Rates,       \* sample rates
    Forced,      \* namespaces some events force
    MaxChanges   \* bound: changes of a setting or of the rate, forced syncs

Keys == {KeySeq[i] : i \in 1 .. Len(KeySeq)}
KeysOf(ns) == {k \in Keys : NsOf[k] = ns}

ASSUME ConstantsAssumption ==
    /\ KeySeq \in Seq(Keys)
    /\ \A i, j \in 1 .. Len(KeySeq) : KeySeq[i] = KeySeq[j] => i = j
    /\ NsOf \in [Keys -> Namespaces]
    /\ Absent \notin Values
    /\ Forced \subseteq Namespaces
    /\ MaxChanges \in Nat

(* Every card reads two keys or more.                                       *)
ASSUME TwoKeysAssumption ==
    \A ns \in Namespaces : \E k, l \in KeysOf(ns) : k # l

VARIABLES
    prefs,       \* the shared preferences
    sampleRate,
    changes,
    posted,      \* local broadcasts the main thread has not received:
                 \* "prefs" (PREFERENCES_UPDATED), "rate" (SAMPLE_RATE_UPDATED)
    mainPc,      \* "launch": the cache was cleared, the sync comes next
    pending,     \* launched syncs that wait for the mutex: "all", or the
                 \* namespace they force
    cache,
    changedNamespaces,
    syncPc,      \* "idle", "check" and "store" a key, "apply"
    pos,         \* the key the sync is at
    read,        \* the values the sync has read
    forced,      \* what the running sync forces
    targets,     \* namespaces it has still to apply
    applied,     \* the settings the engine has, for each key
    appliedRate, \* the rate at which each namespace was set up
    failed       \* namespaces whose last application failed

userVars == <<prefs, sampleRate, changes>>
mainVars == <<posted, mainPc>>
engineVars == <<applied, appliedRate, failed>>
vars == <<userVars, mainVars, pending, cache, changedNamespaces, syncPc, pos,
          read, forced, targets, engineVars>>

All == "all"

Init ==
    /\ prefs \in [Keys -> Values]
    /\ sampleRate \in Rates
    /\ changes = 0
    /\ posted = {}
    /\ mainPc = "idle"
    /\ pending = {All}
    /\ cache = [k \in Keys |-> Absent]
    /\ changedNamespaces = {}
    /\ syncPc = "idle"
    /\ pos = 1
    /\ read = prefs
    /\ forced = {}
    /\ targets = {}
    /\ applied = [k \in Keys |-> Absent]
    /\ appliedRate = [ns \in Namespaces |-> sampleRate]
    /\ failed = {}

-----------------------------------------------------------------------------
(* The user, the recorder's rate and the main thread.                       *)

Change == changes < MaxChanges /\ changes' = changes + 1

(* A card stores a setting and broadcasts.                                  *)
ChangePreference ==
    /\ Change
    /\ \E k \in Keys, v \in Values : prefs' = [prefs EXCEPT ![k] = v]
    /\ posted' = posted \union {"prefs"}
    /\ UNCHANGED <<sampleRate, mainPc, pending, cache, changedNamespaces,
                   syncPc, pos, read, forced, targets, engineVars>>

(* The setter of sampleRate: the field, the native engine, the broadcast.   *)
ChangeSampleRate ==
    /\ mainPc = "idle"
    /\ Change
    /\ \E r \in Rates \ {sampleRate} : sampleRate' = r
    /\ posted' = posted \union {"rate"}
    /\ UNCHANGED <<prefs, mainPc, pending, cache, changedNamespaces, syncPc,
                   pos, read, forced, targets, engineVars>>

(* A head set is ready, a Liveprog reloaded, the output changed: a sync that *)
(* forces a namespace.                                                       *)
ForceSync ==
    /\ mainPc = "idle"
    /\ Change
    /\ \E ns \in Forced : pending' = pending \union {ns}
    /\ UNCHANGED <<prefs, sampleRate, mainVars, cache, changedNamespaces,
                   syncPc, pos, read, forced, targets, engineVars>>

(* Mutant of ReceivePreferencesUpdated: a running sync seems enough.        *)
ReceiveUnlessSyncing ==
    /\ mainPc = "idle"
    /\ "prefs" \in posted
    /\ posted' = posted \ {"prefs"}
    /\ pending' = IF syncPc = "idle" THEN pending \union {All} ELSE pending
    /\ UNCHANGED <<userVars, mainPc, cache, changedNamespaces, syncPc, pos,
                   read, forced, targets, engineVars>>

ReceivePreferencesUpdated ==
    /\ mainPc = "idle"
    /\ "prefs" \in posted
    /\ posted' = posted \ {"prefs"}
    /\ pending' = pending \union {All}
    /\ UNCHANGED <<userVars, mainPc, cache, changedNamespaces, syncPc, pos,
                   read, forced, targets, engineVars>>

(* Mutant of ReceiveSampleRateUpdated: the cache is not cleared.            *)
ReceiveRateKeepsCache ==
    /\ mainPc = "idle"
    /\ "rate" \in posted
    /\ posted' = posted \ {"rate"}
    /\ mainPc' = "launch"
    /\ UNCHANGED <<userVars, pending, cache, changedNamespaces, syncPc, pos,
                   read, forced, targets, engineVars>>

(* Clear the cache so that every card counts as changed ...                 *)
ReceiveSampleRateUpdated ==
    /\ mainPc = "idle"
    /\ "rate" \in posted
    /\ posted' = posted \ {"rate"}
    /\ cache' = [k \in Keys |-> Absent]
    /\ mainPc' = "launch"
    /\ UNCHANGED <<userVars, pending, changedNamespaces, syncPc, pos, read,
                   forced, targets, engineVars>>

(* ... and sync.                                                            *)
LaunchAfterClear ==
    /\ mainPc = "launch"
    /\ mainPc' = "idle"
    /\ pending' = pending \union {All}
    /\ UNCHANGED <<userVars, posted, cache, changedNamespaces, syncPc, pos,
                   read, forced, targets, engineVars>>

-----------------------------------------------------------------------------
(* A sync.                                                                  *)

(* Mutant of BeginSync: a sync that forces nothing is not told apart.       *)
BeginForcingAny ==
    /\ syncPc = "idle"
    /\ \E p \in pending : pending' = pending \ {p} /\ forced' = {p}
    /\ syncPc' = "check"
    /\ pos' = 1
    /\ UNCHANGED <<userVars, mainVars, cache, changedNamespaces, read,
                   targets, engineVars>>

BeginSync ==
    /\ syncPc = "idle"
    /\ \E p \in pending :
          /\ pending' = pending \ {p}
          /\ forced' = IF p = All THEN {} ELSE {p}
    /\ syncPc' = "check"
    /\ pos' = 1
    /\ UNCHANGED <<userVars, mainVars, cache, changedNamespaces, read,
                   targets, engineVars>>

(* PreferenceCache.get(): compare with the remembered value, mark ...       *)
CheckKey ==
    /\ syncPc = "check"
    /\ pos <= Len(KeySeq)
    /\ LET k == KeySeq[pos] IN
          /\ read' = [read EXCEPT ![k] = prefs[k]]
          /\ changedNamespaces' =
                IF cache[k] = prefs[k] THEN changedNamespaces
                ELSE changedNamespaces \union {NsOf[k]}
    /\ syncPc' = "store"
    /\ UNCHANGED <<userVars, mainVars, pending, cache, pos, forced, targets,
                   engineVars>>

(* ... and remember.                                                        *)
StoreKey ==
    /\ syncPc = "store"
    /\ LET k == KeySeq[pos] IN cache' = [cache EXCEPT ![k] = read[k]]
    /\ pos' = pos + 1
    /\ syncPc' = "check"
    /\ UNCHANGED <<userVars, mainVars, pending, changedNamespaces, read,
                   forced, targets, engineVars>>

(* Mutant of ChooseTargets: what is forced takes the place of the changed.  *)
ChooseForcedOnly ==
    /\ syncPc = "check"
    /\ pos > Len(KeySeq)
    /\ targets' = IF forced # {} THEN forced ELSE changedNamespaces
    /\ syncPc' = "apply"
    /\ UNCHANGED <<userVars, mainVars, pending, cache, changedNamespaces, pos,
                   read, forced, engineVars>>

ChooseTargets ==
    /\ syncPc = "check"
    /\ pos > Len(KeySeq)
    /\ targets' = changedNamespaces \union forced
    /\ syncPc' = "apply"
    /\ UNCHANGED <<userVars, mainVars, pending, cache, changedNamespaces, pos,
                   read, forced, engineVars>>

(* One setter with the values read, at the rate of this moment; a failure   *)
(* is only logged.                                                          *)
ApplyNamespace(ns) ==
    /\ syncPc = "apply"
    /\ ns \in targets
    /\ targets' = targets \ {ns}
    /\ \/ /\ applied' = [k \in Keys |-> IF NsOf[k] = ns THEN read[k]
                                        ELSE applied[k]]
          /\ appliedRate' = [appliedRate EXCEPT ![ns] = sampleRate]
          /\ failed' = failed \ {ns}
       \/ /\ failed' = failed \union {ns}
          /\ UNCHANGED <<applied, appliedRate>>
    /\ UNCHANGED <<userVars, mainVars, pending, cache, changedNamespaces,
                   syncPc, pos, read, forced>>

(* markChangesAsCommitted(), and the mutex is released.                     *)
EndSync ==
    /\ syncPc = "apply"
    /\ targets = {}
    /\ changedNamespaces' = {}
    /\ syncPc' = "idle"
    /\ UNCHANGED <<userVars, mainVars, pending, cache, pos, read, forced,
                   targets, engineVars>>

-----------------------------------------------------------------------------
MainStep == ReceivePreferencesUpdated \/ ReceiveSampleRateUpdated \/ LaunchAfterClear

SyncStep ==
    \/ BeginSync \/ CheckKey \/ StoreKey \/ ChooseTargets
    \/ (\E ns \in Namespaces : ApplyNamespace(ns)) \/ EndSync

Environment == ChangePreference \/ ChangeSampleRate \/ ForceSync

Next == Environment \/ MainStep \/ SyncStep

Spec == Init /\ [][Next]_vars

(* The main looper and the IO dispatcher keep running.                      *)
FairSpec == Spec /\ WF_vars(MainStep) /\ WF_vars(SyncStep)

-----------------------------------------------------------------------------
(* Properties.                                                              *)

(* Every variable stays in its type.                                        *)
TypeOK ==
    /\ prefs \in [Keys -> Values]
    /\ sampleRate \in Rates
    /\ changes \in 0 .. MaxChanges
    /\ posted \in SUBSET {"prefs", "rate"}
    /\ mainPc \in {"idle", "launch"}
    /\ pending \in SUBSET (Forced \union {All})
    /\ cache \in [Keys -> Values \union {Absent}]
    /\ changedNamespaces \in SUBSET Namespaces
    /\ syncPc \in {"idle", "check", "store", "apply"}
    /\ pos \in 1 .. Len(KeySeq) + 1
    /\ read \in [Keys -> Values]
    /\ forced \in SUBSET Forced
    /\ targets \in SUBSET Namespaces
    /\ applied \in [Keys -> Values \union {Absent}]
    /\ appliedRate \in [Namespaces -> Rates]
    /\ failed \in SUBSET Namespaces

(* The engine has the current settings of the namespace, set up for the     *)
(* current rate.                                                            *)
UpToDate(ns) ==
    /\ \A k \in KeysOf(ns) : applied[k] = prefs[k]
    /\ appliedRate[ns] = sampleRate

Quiet ==
    posted = {} /\ mainPc = "idle" /\ pending = {} /\ syncPc = "idle"

(* Once every broadcast is received and every sync done, the control the    *)
(* user just moved is applied and no effect runs at an old rate, except     *)
(* where the engine refused the settings.                                   *)
NothingForgotten == Quiet => \A ns \in Namespaces \ failed : UpToDate(ns)

(* The cache remembers for a namespace only what the engine was given, or   *)
(* the namespace is marked: a remembered value cannot hide a change.        *)
CacheMatchesEngine ==
    \A k \in Keys :
        \/ cache[k] \in {Absent, applied[k]}
        \/ NsOf[k] \in changedNamespaces \union failed

(* The settings reach the engine in the end.                                *)
EventuallyApplied ==
    \A ns \in Namespaces : []<>(UpToDate(ns) \/ ns \in failed)
=============================================================================
