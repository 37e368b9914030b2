------------------------- MODULE RemoteEffectProofs -------------------------
(***************************************************************************)
(* Theorems about RemoteEffect, for any kinds, files and rates, and any      *)
(* number of changes, deaths and reboots.                                    *)
(***************************************************************************)
EXTENDS RemoteEffect, TLAPS

(* The outcomes of a payload that a buffer is made for.                      *)
Buffered == {"ok", "refused", "kept"}

EmptyEffect(e) ==
    /\ e \in EffectType
    /\ \A b \in {"string", "ir", "hrir"} : e.buffer[b] = Nothing
    /\ \A k \in Kinds : ~e.have[k] /\ ~e.switch[k] /\ e.hash[k] = Nothing
    /\ ~e.hrirLastOk

LEMMA NothingIsPayload == Nothing \in Payloads
  BY DEF Nothing, Payloads

LEMMA NewIsEmpty ==
    ASSUME NEW r \in Rates
    PROVE  EmptyEffect(NewEffect(r)) /\ EmptyEffect(Dead(r)) /\ ~Dead(r).alive
<1>1. NewEffect(r) \in EffectType BY NothingIsPayload DEF NewEffect, EffectType
<1>2. Dead(r) \in EffectType BY <1>1 DEF Dead, EffectType
<1> QED BY <1>1, <1>2 DEF EmptyEffect, NewEffect, Dead, EffectType

-----------------------------------------------------------------------------
(* What the messages change.                                                 *)
LEMMA HeaderEffect ==
    ASSUME NEW e \in EffectType, NEW k \in Kinds, NEW p \in Payloads
    PROVE  /\ Header(e, k, p) \in EffectType
           /\ Header(e, k, p).buffer =
                [e.buffer EXCEPT ![BufferOf(k)] = IF NoBuffer(p) THEN Nothing ELSE p]
           /\ Header(e, k, p).loaded = e.loaded /\ Header(e, k, p).have = e.have
           /\ Header(e, k, p).hash = e.hash /\ Header(e, k, p).switch = e.switch
           /\ Header(e, k, p).linear = e.linear /\ Header(e, k, p).alive = e.alive
           /\ Header(e, k, p).fs = e.fs
           /\ Header(e, k, p).hrirLastOk = (e.hrirLastOk /\ k # "hrir")
<1>1. BufferOf(k) \in {"string", "ir", "hrir"} BY DEF BufferOf, Rated
<1> QED BY <1>1, NothingIsPayload DEF Header, EffectType

CommitLoaded(e, k, p) ==
    CASE Outcome[p[1]] = "refused" -> Nothing
      [] Outcome[p[1]] = "kept" -> e.loaded[k]
      [] k = "geq" -> <<p[1], IF e.linear THEN 1 ELSE 0>>
      [] OTHER -> p

(* The commit of the payload p turns the effect e into f.                    *)
Committed(e, k, p, f) ==
    /\ f \in EffectType
    /\ f.buffer = [e.buffer EXCEPT ![BufferOf(k)] = Nothing]
    /\ f.loaded[k] = CommitLoaded(e, k, p)
    /\ f.have[k] <=> (k = "geq" \/ Outcome[p[1]] = "ok" \/ (e.have[k] /\ k = "hrir"))
    /\ \A l \in Kinds \ {k} : f.loaded[l] = e.loaded[l] /\ (f.have[l] <=> e.have[l])
    /\ f.hash = e.hash /\ f.switch = e.switch
    /\ f.linear = e.linear /\ f.alive = e.alive /\ f.fs = e.fs
    /\ k = "hrir" => (f.hrirLastOk <=> Outcome[p[1]] = "ok")
    /\ k # "hrir" => (f.hrirLastOk <=> e.hrirLastOk)

LEMMA CommitEffect ==
    ASSUME NEW e \in EffectType, NEW k \in Kinds, e.buffer[BufferOf(k)] # Nothing
    PROVE  Committed(e, k, e.buffer[BufferOf(k)], Commit(e, k))
<1> DEFINE p == e.buffer[BufferOf(k)]
<1>1. BufferOf(k) \in {"string", "ir", "hrir"} /\ p \in Payloads
  BY DEF BufferOf, Rated, EffectType
<1>2. CommitLoaded(e, k, p) \in Payloads
  BY <1>1, NothingIsPayload DEF CommitLoaded, EffectType, Payloads
<1> DEFINE have == k = "geq" \/ (Outcome[p[1]] = "ok") \/ (e.have[k] /\ k = "hrir")
           last == IF k = "hrir" THEN Outcome[p[1]] = "ok" ELSE e.hrirLastOk
<1>3. Commit(e, k) =
        [e EXCEPT !.buffer = [e.buffer EXCEPT ![BufferOf(k)] = Nothing],
                  !.loaded = [e.loaded EXCEPT ![k] = CommitLoaded(e, k, p)],
                  !.have = [e.have EXCEPT ![k] = have],
                  !.hrirLastOk = last]
  BY <1>1 DEF Commit, CommitLoaded, EffectType
<1>4. have \in BOOLEAN /\ last \in BOOLEAN BY DEF EffectType
<1> HIDE DEF have, last
<1>5. /\ [e.buffer EXCEPT ![BufferOf(k)] = Nothing] \in [{"string", "ir", "hrir"} -> Payloads]
      /\ [e.loaded EXCEPT ![k] = CommitLoaded(e, k, p)] \in [Kinds -> Payloads]
      /\ [e.have EXCEPT ![k] = have] \in [Kinds -> BOOLEAN]
  BY <1>1, <1>2, <1>4, NothingIsPayload DEF EffectType
<1>6. Commit(e, k) \in EffectType BY <1>3, <1>4, <1>5 DEF EffectType
<1>7. /\ Commit(e, k).buffer = [e.buffer EXCEPT ![BufferOf(k)] = Nothing]
      /\ Commit(e, k).loaded = [e.loaded EXCEPT ![k] = CommitLoaded(e, k, p)]
      /\ Commit(e, k).have = [e.have EXCEPT ![k] = have]
      /\ Commit(e, k).hrirLastOk = last
      /\ Commit(e, k).hash = e.hash /\ Commit(e, k).switch = e.switch
      /\ Commit(e, k).linear = e.linear /\ Commit(e, k).alive = e.alive
      /\ Commit(e, k).fs = e.fs
  BY <1>3 DEF EffectType
<1>8. /\ Commit(e, k).have[k] = have
      /\ Commit(e, k).loaded[k] = CommitLoaded(e, k, p)
      /\ \A l \in Kinds \ {k} : /\ Commit(e, k).loaded[l] = e.loaded[l]
                              /\ Commit(e, k).have[l] = e.have[l]
  BY <1>7 DEF EffectType
<1> QED BY <1>6, <1>7, <1>8 DEF have, last, Committed

LEMMA CommitSwitchesNothing ==
    ASSUME NEW e \in EffectType, NEW k \in Kinds
    PROVE  Commit(e, k).switch = e.switch
<1>1. CASE e.buffer[BufferOf(k)] = Nothing BY <1>1 DEF Commit
<1>2. CASE e.buffer[BufferOf(k)] # Nothing BY <1>2, CommitEffect DEF Committed
<1> QED BY <1>1, <1>2

(* The flag that decides over a hash.                                        *)
Vouched(e, k) == IF k = "hrir" THEN e.hrirLastOk ELSE e.have[k]

LEMMA HashEffect ==
    ASSUME NEW e \in EffectType, NEW k \in Kinds, NEW p \in Payloads
    PROVE  LET f == StoreHash(e, k, p) IN
           /\ f \in EffectType
           /\ f.hash = [e.hash EXCEPT ![k] = IF Vouched(e, k) THEN HashOf(p) ELSE Nothing]
           /\ f.buffer = e.buffer /\ f.loaded = e.loaded /\ f.have = e.have
           /\ f.switch = e.switch /\ f.linear = e.linear /\ f.alive = e.alive
           /\ f.fs = e.fs /\ f.hrirLastOk = e.hrirLastOk
  BY NothingIsPayload DEF StoreHash, EffectType, HashOf, Vouched

LEMMA PhaseEffect ==
    ASSUME NEW e \in EffectType, NEW linear \in BOOLEAN, "geq" \in Kinds
    PROVE  LET f == SetPhase(e, linear) IN
           /\ f \in EffectType
           /\ \A k \in Kinds \ {"geq"} : f.hash[k] = e.hash[k]
           /\ f.hash["geq"] = Nothing \/ (f.hash["geq"] = e.hash["geq"] /\ f.linear = e.linear)
           /\ f.linear = linear
           /\ f.buffer = e.buffer /\ f.loaded = e.loaded /\ f.have = e.have
           /\ f.switch = e.switch /\ f.alive = e.alive
           /\ f.fs = e.fs /\ f.hrirLastOk = e.hrirLastOk
  BY NothingIsPayload DEF SetPhase, EffectType

LEMMA SwitchEffect ==
    ASSUME NEW e \in EffectType, NEW k \in Kinds, NEW on \in BOOLEAN
    PROVE  LET f == SetSwitch(e, k, on) IN
           /\ f \in EffectType
           /\ \A l \in Kinds : f.switch[l] => e.switch[l] \/ e.have[l]
           /\ \A l \in Kinds \ {k} : f.switch[l] <=> e.switch[l]
           /\ ~on => ~f.switch[k]
           /\ on /\ e.have[k] => f.switch[k]
           /\ f.buffer = e.buffer /\ f.loaded = e.loaded /\ f.have = e.have
           /\ f.hash = e.hash /\ f.linear = e.linear /\ f.alive = e.alive
           /\ f.fs = e.fs /\ f.hrirLastOk = e.hrirLastOk
  BY DEF SetSwitch, EffectType

-----------------------------------------------------------------------------
(* What the app sends is of the kind it says.                                *)
AppInv ==
    /\ prefs \in Settings /\ snap \in Settings
    /\ \A k \in Kinds : prefs.file[k] \in FilesOf[k] /\ snap.file[k] \in FilesOf[k]
    /\ dirty \subseteq Kinds /\ forced \subseteq Kinds
    /\ todo \subseteq Kinds /\ again \subseteq Kinds
    /\ kind \in Kinds
    /\ target \in Rates \union {0}
    /\ pc = "phase" => kind = "geq"
    /\ onSpeaker \in BOOLEAN /\ setReady \in BOOLEAN
    /\ prepared \subseteq HeadSets /\ reading \subseteq HeadSets
    /\ failures \subseteq HeadSets
    /\ setReady => "hrir" \in Kinds

(* What an effect that was given nothing says.                               *)
EffectInv ==
    /\ eff \in EffectType
    /\ ~eff.alive => EmptyEffect(eff)

(* A buffer holds a payload that will be loaded or tried; only the head set  *)
(* goes to the buffer of head sets.                                          *)
BufferInv ==
    \A b \in {"string", "ir", "hrir"} :
        \/ eff.buffer[b] = Nothing
        \/ /\ eff.buffer[b][1] \in Files
           /\ Outcome[eff.buffer[b][1]] \in Buffered
           /\ b = "hrir" => Outcome[eff.buffer[b][1]] # "refused"

(* The main thread launches a sync.                                          *)
MainLaunch == HearPreferences \/ HearSetReady \/ ChangeRoute

(* What is marked as loaded is loaded, and nothing else is switched on.      *)
LoadedInv == \A k \in Kinds : eff.have[k] => eff.loaded[k] # Nothing

LEMMA DefaultChosen ==
    /\ DefaultSettings \in Settings
    /\ \A k \in Kinds : DefaultSettings.file[k] \in FilesOf[k]
    /\ AnyKind \in Kinds
<1>1. \A k \in Kinds : (CHOOSE f \in FilesOf[k] : TRUE) \in FilesOf[k]
  BY FilesAssumption
<1>2. \A k \in Kinds : FilesOf[k] \subseteq Files BY DEF Files
<1>3. AnyKind \in Kinds BY KindsAssumption DEF AnyKind
<1> QED BY <1>1, <1>2, <1>3 DEF DefaultSettings, Settings

LEMMA PayloadChosen ==
    ASSUME AppInv
    PROVE  /\ Payload \in Payloads /\ Payload[1] = snap.file[kind]
           /\ Payload[1] \in Files /\ Payload[1] \in FilesOf[kind]
           /\ Payload # Nothing
           /\ Outcome[Payload[1]] \in Outcomes
<1>1. snap.file[kind] \in FilesOf[kind] /\ kind \in Kinds BY DEF AppInv
<1>2. snap.file[kind] \in Files BY <1>1 DEF Files
<1>3. (IF Rated(kind) THEN target ELSE 0) \in Rates \union {0} BY DEF AppInv
<1> QED
  BY <1>1, <1>2, <1>3, FilesAssumption DEF Payload, Payloads, Nothing

-----------------------------------------------------------------------------
LEMMA Starts == Init => AppInv /\ EffectInv /\ BufferInv /\ LoadedInv
<1> SUFFICES ASSUME Init PROVE AppInv /\ EffectInv /\ BufferInv /\ LoadedInv
  OBVIOUS
<1>1. EmptyEffect(eff) BY NewIsEmpty, RatesAssumption DEF Init
<1>2. AppInv BY DefaultChosen, RatesAssumption DEF Init, AppInv
<1> QED BY <1>1, <1>2 DEF EffectInv, BufferInv, LoadedInv, EmptyEffect

(* What is switched on or off is a truth value.                              *)
LEMMA SwitchIsOnOrOff == ASSUME AppInv PROVE SwitchedOn \in BOOLEAN
  BY DEF AppInv, Settings, SwitchedOn

(* What a sync launched by the main thread changes.                          *)
LEMMA Launches ==
    ASSUME AppInv, MainLaunch
    PROVE  /\ UNCHANGED <<prefs, dirty, playback, syncVars, rateVars, overlapped,
                          prepared, reading, failures>>
           /\ \/ RebootEngine
              \/ UNCHANGED <<eff, present, lost, whole>>
           /\ forced \subseteq forced' /\ forced' \subseteq Kinds
           /\ present' => present
           /\ posted' = posted \/ (present => queued')
           /\ queued => queued'
           /\ forced' = forced \/ (present /\ queued')
<1> USE DEF AppInv
<1>1. CASE HearPreferences
  BY <1>1 DEF HearPreferences, SyncWithPreferences, setVars
<1>2. CASE HearSetReady
  BY <1>2 DEF HearSetReady, SyncWithPreferences
<1>3. CASE ChangeRoute
  BY <1>3 DEF ChangeRoute, SyncWithPreferences
<1> QED BY <1>1, <1>2, <1>3 DEF MainLaunch

LEMMA SetsStay ==
    ASSUME AppInv, [Next]_vars
    PROVE  /\ onSpeaker' \in BOOLEAN /\ setReady' \in BOOLEAN
           /\ prepared' \subseteq HeadSets /\ reading' \subseteq HeadSets
           /\ failures' \subseteq HeadSets
           /\ setReady' => "hrir" \in Kinds
<1> USE DEF AppInv, setVars
<1>1. CASE UNCHANGED setVars BY <1>1
<1>2. CASE ChangePreference
  <2>1. failures' = {} \/ failures' = failures BY <1>2 DEF ChangePreference
  <2> QED BY <1>2, <2>1 DEF ChangePreference
<1>3. CASE HearSetReady \/ ChangeRoute
  BY <1>3 DEF HearSetReady, ChangeRoute
<1>4. CASE ReadHeadSet
  <2>1. "hrir" \in Kinds BY <1>4 DEF ReadHeadSet, HeadSets
  <2> QED BY <1>4, <2>1 DEF ReadHeadSet
<1>5. CASE BeginKind
  <2>1. PICK k \in Kinds : reading' = IF k = "hrir" THEN reading \union Requested ELSE reading
    BY <1>5 DEF BeginKind, FirstOf
  <2>2. k = "hrir" => Requested \subseteq HeadSets
    BY DEF Requested, HeadSets
  <2> QED BY <1>5, <2>1, <2>2 DEF BeginKind
<1> QED
  BY <1>1, <1>2, <1>3, <1>4, <1>5 DEF Next, Environment, MainStep, SyncStep, vars, SoftReboot,
     ChangeRate, ServerDies, HardReboot, HearPreferences, ReloadIfRateChanged, BeginSync,
     SendPhase, AskHash, SendHeader, SendCommit, SendHash, SendSwitch, Send, EndSync

LEMMA AppStays == AppInv /\ EffectInv /\ [Next]_vars => AppInv'
<1> SUFFICES ASSUME AppInv, EffectInv, [Next]_vars PROVE AppInv'
  OBVIOUS
<1>0. /\ onSpeaker' \in BOOLEAN /\ setReady' \in BOOLEAN
      /\ prepared' \subseteq HeadSets /\ reading' \subseteq HeadSets
      /\ failures' \subseteq HeadSets
      /\ setReady' => "hrir" \in Kinds
  BY SetsStay
<1> USE <1>0 DEF AppInv, appVars, syncVars
<1>1. CASE ChangePreference
  <2>1. ASSUME NEW k \in Kinds, NEW f \in FilesOf[k], NEW on \in BOOLEAN,
               prefs' = [prefs EXCEPT !.file[k] = f, !.on[k] = on],
               dirty' = dirty \union {k}
        PROVE  AppInv'
    <3>1. f \in Files BY DEF Files
    <3>2. prefs' \in Settings BY <2>1, <3>1 DEF Settings
    <3>3. \A l \in Kinds : prefs'.file[l] = IF l = k THEN f ELSE prefs.file[l]
      BY <2>1 DEF Settings
    <3> QED BY <1>1, <2>1, <3>2, <3>3 DEF ChangePreference
  <2>2. ASSUME prefs' = [prefs EXCEPT !.linear = ~@],
               dirty' = dirty \union ({"geq"} \intersect Kinds)
        PROVE  AppInv'
    <3>1. prefs' \in Settings /\ prefs'.file = prefs.file BY <2>2 DEF Settings
    <3> QED BY <1>1, <2>2, <3>1 DEF ChangePreference
  <2> QED BY <1>1, <2>1, <2>2 DEF ChangePreference
<1>2. CASE SoftReboot BY <1>2 DEF SoftReboot
<1>3. CASE ChangeRate \/ ServerDies \/ HardReboot
  BY <1>3 DEF ChangeRate, ServerDies, HardReboot
<1>4. CASE MainLaunch BY <1>4, Launches
<1>5. CASE ReloadIfRateChanged \/ ReadHeadSet BY <1>5 DEF ReloadIfRateChanged, ReadHeadSet
<1>6. CASE BeginSync BY <1>6 DEF BeginSync
<1>7. CASE BeginKind
  <2>1. eff.fs \in Rates /\ FallbackRate \in Rates
    BY RatesAssumption DEF EffectInv, EffectType
  <2>2. PICK k \in FirstOf(IF todo # {} THEN todo ELSE again) :
            /\ kind' = k /\ todo' = todo \ {k}
            /\ again' = IF todo # {} THEN again ELSE again \ {k}
            /\ pc' = IF k = "geq" THEN "phase" ELSE "ask"
            /\ target' = IF k = "hrir" /\ ~HeadSetUsable THEN 0
                         ELSE IF eff.alive THEN eff.fs
                         ELSE IF k = "hrir" THEN FallbackRate ELSE 0
    BY <1>7 DEF BeginKind
  <2>3. k \in Kinds BY DEF FirstOf
  <2> QED BY <1>7, <2>1, <2>2, <2>3 DEF BeginKind
<1>8. CASE SendPhase BY <1>8 DEF SendPhase
<1>9. CASE AskHash BY <1>9 DEF AskHash
<1>10. CASE SendHeader \/ SendCommit \/ SendHash \/ SendSwitch
  BY <1>10 DEF SendHeader, SendCommit, SendHash, SendSwitch, Send
<1>11. CASE EndSync BY <1>11, DefaultChosen, RatesAssumption DEF EndSync
<1>12. CASE UNCHANGED vars BY <1>12 DEF vars
<1> QED
  BY <1>1, <1>2, <1>3, <1>4, <1>5, <1>6, <1>7, <1>8, <1>9, <1>10, <1>11, <1>12
  DEF Next, Environment, MainStep, SyncStep, MainLaunch

(* A step leaves the effect alone, replaces it by a blank or dead one,       *)
(* changes its rate, or delivers a message of the sync.                      *)
LEMMA EffectSteps ==
    ASSUME AppInv, EffectInv, [Next]_vars
    PROVE  \/ eff' = eff
           \/ EmptyEffect(eff')
           \/ \E r \in Rates : eff' = [eff EXCEPT !.fs = r] /\ pc' = pc /\ kind' = kind
                               /\ snap' = snap /\ target' = target
           \/ eff.alive /\ (SendPhase \/ SendHeader \/ SendCommit \/ SendHash \/ SendSwitch)
<1>1. eff.fs \in Rates BY DEF EffectInv, EffectType
<1>2. CASE ChangeRate BY <1>2 DEF ChangeRate, syncVars
<1>3. CASE ServerDies BY <1>1, <1>3, NewIsEmpty DEF ServerDies
<1>4. CASE HardReboot BY <1>1, <1>4, NewIsEmpty DEF HardReboot, RebootEngine
<1>5. CASE MainLaunch BY <1>1, <1>5, NewIsEmpty, Launches DEF RebootEngine
<1>6. CASE SendPhase \/ SendHeader \/ SendCommit \/ SendHash \/ SendSwitch
  BY <1>6 DEF SendPhase, SendHeader, SendCommit, SendHash, SendSwitch, Send, Deliver
<1> QED
  BY <1>2, <1>3, <1>4, <1>5, <1>6 DEF Next, Environment, MainStep, SyncStep, vars,
     MainLaunch, ChangePreference, SoftReboot, ReloadIfRateChanged, ReadHeadSet, BeginSync,
     BeginKind, AskHash, EndSync

-----------------------------------------------------------------------------
(* The one payload that is refused without a trace: an impulse response at   *)
(* its header.                                                               *)
Overlooked(k, p) == k = "ir" /\ Outcome[p[1]] = "geometry"

(* A commit finds the payload announced, or nothing and a flag that says so. *)
CommitInv ==
    pc = "commit" =>
        \/ /\ eff.buffer[BufferOf(kind)] = Payload
           /\ Outcome[Payload[1]] \in Buffered
        \/ /\ eff.buffer[BufferOf(kind)] = Nothing
           /\ \/ Outcome[Payload[1]] = "empty" \/ Overlooked(kind, Payload)
              \/ ~Vouched(eff, kind)

(* The payload of p as it is loaded.                                         *)
LoadedAs(k, p) == IF k = "geq" THEN <<p[1], IF eff.linear THEN 1 ELSE 0>> ELSE p

(* A hash is kept only for the payload just loaded.                          *)
VouchInv ==
    pc = "hash" =>
        \/ Outcome[Payload[1]] = "empty" \/ Overlooked(kind, Payload)
        \/ ~Vouched(eff, kind)
        \/ eff.loaded[kind] = LoadedAs(kind, Payload)

HashInv == CommitInv /\ VouchInv /\ HashNamesLoaded

LEMMA EmptyKeepsHashes ==
    ASSUME EmptyEffect(eff'), (AppInv)'
    PROVE  HashInv'
<1>1. kind' \in Kinds BY DEF AppInv
<1>2. BufferOf(kind') \in {"string", "ir", "hrir"} BY DEF BufferOf, Rated
<1>3. ~Vouched(eff', kind') /\ eff'.buffer[BufferOf(kind')] = Nothing
  BY <1>1, <1>2 DEF EmptyEffect, Vouched
<1>4. \A k \in Kinds : eff'.hash[k] = Nothing BY DEF EmptyEffect
<1>5. CommitInv' BY <1>3 DEF CommitInv
<1>6. VouchInv' BY <1>3 DEF VouchInv
<1>7. HashNamesLoaded' BY <1>4 DEF HashNamesLoaded
<1> QED BY <1>5, <1>6, <1>7 DEF HashInv

(* What a step that leaves the effect alone keeps.                           *)
LEMMA UnmovedKeepsHashes ==
    ASSUME HashInv, eff'.buffer = eff.buffer, eff'.have = eff.have,
           eff'.hrirLastOk = eff.hrirLastOk, eff'.loaded = eff.loaded,
           eff'.linear = eff.linear, eff'.hash = eff.hash,
           UNCHANGED <<kind, snap, target, pc>> \/ (pc # "hash" /\ pc' \notin {"commit", "hash"})
    PROVE  HashInv'
<1>1. CASE UNCHANGED <<kind, snap, target, pc>>
  <2>1. Payload' = Payload BY <1>1 DEF Payload
  <2> QED
    BY <1>1, <2>1
    DEF HashInv, CommitInv, VouchInv, HashNamesLoaded, Named, LoadedAs, Vouched, Overlooked
<1>2. CASE pc # "hash" /\ pc' \notin {"commit", "hash"}
  BY <1>2 DEF HashInv, CommitInv, VouchInv, HashNamesLoaded, Named
<1> QED BY <1>1, <1>2

LEMMA HeaderKeepsHashes ==
    ASSUME AppInv, EffectInv, HashInv, SendHeader
    PROVE  HashInv'
<1>1. /\ kind \in Kinds /\ Payload \in Payloads /\ Payload # Nothing
      /\ Payload[1] \in FilesOf[kind] /\ Outcome[Payload[1]] \in Outcomes
  BY PayloadChosen DEF AppInv
<1>2. pc = "header" /\ pc' = "commit" /\ UNCHANGED <<kind, snap, target>> /\ Payload' = Payload
  BY DEF SendHeader, Send, Payload
<1>3. BufferOf(kind) \in {"string", "ir", "hrir"} BY DEF BufferOf, Rated
<1>4. CASE ~eff.alive
  <2>1. eff' = eff /\ EmptyEffect(eff) BY <1>4 DEF SendHeader, Send, Deliver, EffectInv
  <2>2. EmptyEffect(eff') BY <2>1
  <2>3. CommitInv' BY <1>1, <1>2, <1>3, <2>1 DEF CommitInv, EmptyEffect, Vouched
  <2> QED BY <1>2, <2>1, <2>3 DEF HashInv, VouchInv, HashNamesLoaded, Named
<1>5. CASE eff.alive
  <2>1. eff' = Header(eff, kind, Payload) BY <1>5 DEF SendHeader, Send, Deliver
  <2>2. /\ eff'.buffer = [eff.buffer EXCEPT ![BufferOf(kind)] =
                             IF NoBuffer(Payload) THEN Nothing ELSE Payload]
        /\ eff'.loaded = eff.loaded /\ eff'.hash = eff.hash /\ eff'.linear = eff.linear
        /\ eff'.hrirLastOk = (eff.hrirLastOk /\ kind # "hrir")
    BY <1>1, <2>1, HeaderEffect DEF EffectInv
  <2>3. eff'.buffer[BufferOf(kind)] = IF NoBuffer(Payload) THEN Nothing ELSE Payload
    BY <1>3, <2>2 DEF EffectInv, EffectType
  <2>4. kind = "hrir" => ~Vouched(eff', kind) BY <2>2 DEF Vouched
  <2>5. Outcome[Payload[1]] = "geometry" => kind \in {"ir", "hrir"}
    BY <1>1, OutcomeAssumption DEF Rated
  <2>6. CommitInv'
    BY <1>1, <1>2, <2>3, <2>4, <2>5 DEF CommitInv, NoBuffer, Outcomes, Buffered, Overlooked
  <2> QED BY <1>2, <2>2, <2>6 DEF HashInv, VouchInv, HashNamesLoaded, Named
<1> QED BY <1>4, <1>5

LEMMA CommitKeepsHashes ==
    ASSUME AppInv, EffectInv, HashInv, SendCommit
    PROVE  HashInv'
<1>1. /\ kind \in Kinds /\ Payload \in Payloads /\ Payload # Nothing
      /\ Payload[1] \in FilesOf[kind]
  BY PayloadChosen DEF AppInv
<1>2. pc = "commit" /\ pc' = "hash" /\ UNCHANGED <<kind, snap, target>> /\ Payload' = Payload
  BY DEF SendCommit, Send, Payload
<1>3. CommitInv' BY <1>2 DEF CommitInv
<1>4. CASE ~eff.alive
  <2>1. eff' = eff /\ EmptyEffect(eff) BY <1>4 DEF SendCommit, Send, Deliver, EffectInv
  <2>2. VouchInv' BY <1>1, <1>2, <2>1 DEF VouchInv, EmptyEffect, Vouched
  <2> QED BY <1>2, <1>3, <2>1, <2>2 DEF HashInv, HashNamesLoaded, Named
<1>5. CASE eff.alive /\ eff.buffer[BufferOf(kind)] = Nothing
  <2>1. eff' = eff BY <1>5 DEF SendCommit, Send, Deliver, Commit
  <2>2. VouchInv' BY <1>1, <1>2, <1>5, <2>1 DEF HashInv, CommitInv, VouchInv
  <2> QED BY <1>2, <1>3, <2>1, <2>2 DEF HashInv, HashNamesLoaded, Named
<1>6. CASE eff.alive /\ eff.buffer[BufferOf(kind)] # Nothing
  <2>1. eff' = Commit(eff, kind) BY <1>6 DEF SendCommit, Send, Deliver
  <2>2. eff.buffer[BufferOf(kind)] = Payload /\ Outcome[Payload[1]] \in Buffered
    BY <1>2, <1>6 DEF HashInv, CommitInv
  <2> DEFINE p == Payload
  <2>3. p \in Payloads /\ p # Nothing /\ p = eff.buffer[BufferOf(kind)]
        /\ Payload' = p /\ Payload = p
    BY <1>1, <1>2, <2>2
  <2> HIDE DEF p
  <2>4. Committed(eff, kind, p, eff') BY <1>1, <1>6, <2>1, <2>3, CommitEffect DEF EffectInv
  <2>5. /\ eff'.loaded[kind] = CommitLoaded(eff, kind, p)
        /\ \A k \in Kinds \ {kind} : eff'.loaded[k] = eff.loaded[k]
        /\ eff'.hash = eff.hash /\ eff'.linear = eff.linear
        /\ kind # "hrir" => (eff'.have[kind] <=> kind = "geq" \/ Outcome[p[1]] = "ok")
        /\ kind = "hrir" => (eff'.hrirLastOk <=> Outcome[p[1]] = "ok")
    BY <2>4 DEF Committed
  <2>6. Vouched(eff', kind) => Outcome[p[1]] = "ok"
    <3>1. kind = "geq" => Outcome[p[1]] = "ok"
      BY <1>1, <2>2, <2>3, OutcomeAssumption DEF Buffered
    <3> QED BY <2>5, <3>1 DEF Vouched
  <2>7. Outcome[p[1]] = "ok" =>
            CommitLoaded(eff, kind, p) =
                IF kind = "geq" THEN <<p[1], IF eff.linear THEN 1 ELSE 0>> ELSE p
    BY DEF CommitLoaded
  <2>8. VouchInv'
    BY <1>2, <2>3, <2>5, <2>6, <2>7 DEF VouchInv, LoadedAs
  <2>9. HashNamesLoaded'
    BY <1>2, <2>5 DEF HashInv, HashNamesLoaded, Named
  <2> QED BY <1>3, <2>8, <2>9 DEF HashInv
<1> QED BY <1>4, <1>5, <1>6

LEMMA HashKeepsHashes ==
    ASSUME AppInv, EffectInv, HashInv, SendHash
    PROVE  HashInv'
<1>1. kind \in Kinds /\ Payload \in Payloads /\ Payload[1] = snap.file[kind]
  BY PayloadChosen DEF AppInv
<1>2. pc = "hash" /\ pc' = "switch" /\ kind' = kind BY DEF SendHash, Send
<1>3. CommitInv' /\ VouchInv' BY <1>2 DEF CommitInv, VouchInv
<1>4. CASE ~eff.alive
  <2>1. EmptyEffect(eff') BY <1>4 DEF SendHash, Send, Deliver, EffectInv
  <2> QED BY <1>3, <2>1 DEF HashInv, HashNamesLoaded, EmptyEffect
<1>5. CASE eff.alive
  <2> DEFINE p == Payload
             h == IF Vouched(eff, kind) THEN HashOf(p) ELSE Nothing
  <2>1. eff' = StoreHash(eff, kind, p) /\ p \in Payloads
    BY <1>1, <1>5 DEF SendHash, Send, Deliver
  <2>2. /\ eff'.hash = [eff.hash EXCEPT ![kind] = h]
        /\ eff'.loaded = eff.loaded /\ eff'.linear = eff.linear
    BY <1>1, <2>1, HashEffect DEF EffectInv
  <2> HIDE DEF p
  <2>3. /\ eff'.hash[kind] = h
        /\ \A k \in Kinds \ {kind} : eff'.hash[k] = eff.hash[k]
    BY <1>1, <2>2 DEF EffectInv, EffectType
  <2>4. \/ Outcome[p[1]] = "empty" \/ Overlooked(kind, p)
        \/ ~Vouched(eff, kind)
        \/ eff.loaded[kind] = LoadedAs(kind, p)
    BY <1>2 DEF HashInv, VouchInv, p
  <2>5. \/ eff'.hash[kind] = Nothing
        \/ eff'.hash[kind] = p /\ (Overlooked(kind, p) \/ eff.loaded[kind] = LoadedAs(kind, p))
    BY <2>3, <2>4 DEF HashOf
  <2>6. HashNamesLoaded'
    BY <1>2, <2>2, <2>3, <2>5 DEF HashInv, HashNamesLoaded, Named, LoadedAs, Overlooked
  <2> QED BY <1>3, <2>6 DEF HashInv
<1> QED BY <1>4, <1>5

LEMMA HashesStart == Init => HashInv
<1> SUFFICES ASSUME Init PROVE HashInv OBVIOUS
<1>1. EmptyEffect(eff) BY NewIsEmpty, RatesAssumption DEF Init
<1> QED
  BY <1>1 DEF Init, HashInv, CommitInv, VouchInv, HashNamesLoaded, EmptyEffect

LEMMA HashesStay ==
    AppInv /\ EffectInv /\ HashInv /\ [Next]_vars => HashInv'
<1> SUFFICES ASSUME AppInv, EffectInv, HashInv, [Next]_vars PROVE HashInv'
  OBVIOUS
<1>1. AppInv' BY AppStays
<1>2. CASE EmptyEffect(eff') BY <1>1, <1>2, EmptyKeepsHashes
<1>3. ASSUME NEW r \in Rates, eff' = [eff EXCEPT !.fs = r],
             UNCHANGED <<kind, snap, target, pc>>
      PROVE  HashInv'
  <2>1. /\ eff'.buffer = eff.buffer /\ eff'.have = eff.have /\ eff'.loaded = eff.loaded
        /\ eff'.hash = eff.hash /\ eff'.linear = eff.linear /\ eff'.hrirLastOk = eff.hrirLastOk
    BY <1>3 DEF EffectInv, EffectType
  <2> QED BY <1>3, <2>1, UnmovedKeepsHashes
<1>4. CASE SendHeader BY <1>4, HeaderKeepsHashes
<1>5. CASE SendCommit BY <1>5, CommitKeepsHashes
<1>6. CASE SendHash BY <1>6, HashKeepsHashes
<1>7. CASE eff.alive /\ SendPhase
  <2>1. eff' = SetPhase(eff, snap.linear) /\ snap.linear \in BOOLEAN /\ "geq" \in Kinds
        /\ pc = "phase" /\ pc' = "ask"
    BY <1>7 DEF SendPhase, Deliver, AppInv, Settings
  <2>2. /\ \A k \in Kinds \ {"geq"} : eff'.hash[k] = eff.hash[k]
        /\ eff'.hash["geq"] = Nothing
              \/ (eff'.hash["geq"] = eff.hash["geq"] /\ eff'.linear = eff.linear)
        /\ eff'.loaded = eff.loaded
    BY <2>1, PhaseEffect DEF EffectInv
  <2> QED BY <2>1, <2>2, ZenonT(40) DEF HashInv, CommitInv, VouchInv, HashNamesLoaded, Named
<1>8. CASE eff.alive /\ SendSwitch
  <2>1. eff' = SetSwitch(eff, kind, SwitchedOn) /\ kind \in Kinds /\ SwitchedOn \in BOOLEAN
        /\ pc = "switch" /\ pc' = "next"
    BY <1>8, SwitchIsOnOrOff DEF SendSwitch, Send, Deliver, AppInv
  <2>2. /\ eff'.buffer = eff.buffer /\ eff'.have = eff.have /\ eff'.loaded = eff.loaded
        /\ eff'.hash = eff.hash /\ eff'.linear = eff.linear /\ eff'.hrirLastOk = eff.hrirLastOk
    BY <2>1, SwitchEffect DEF EffectInv
  <2> QED BY <2>1, <2>2, UnmovedKeepsHashes
<1>9. CASE eff' = eff
  <2>1. \/ SendHeader \/ SendCommit \/ SendHash
        \/ UNCHANGED <<kind, snap, target, pc>>
        \/ pc # "hash" /\ pc' \notin {"commit", "hash"}
    BY Launches
    DEF Next, Environment, MainStep, SyncStep, vars, syncVars, MainLaunch, ChangePreference,
       SoftReboot, ChangeRate, ServerDies, HardReboot, ReloadIfRateChanged, ReadHeadSet, BeginSync,
       BeginKind, SendPhase, AskHash, SendSwitch, Send, EndSync
  <2> QED BY <1>4, <1>5, <1>6, <1>9, <2>1, UnmovedKeepsHashes
<1> QED BY <1>2, <1>3, <1>4, <1>5, <1>6, <1>7, <1>8, <1>9, EffectSteps

-----------------------------------------------------------------------------
LEMMA LoadedStays ==
    AppInv /\ EffectInv /\ BufferInv /\ LoadedInv /\ HashInv /\ [Next]_vars
        => EffectInv' /\ BufferInv' /\ LoadedInv'
<1> SUFFICES ASSUME AppInv, EffectInv, BufferInv, LoadedInv, HashInv, [Next]_vars
             PROVE  EffectInv' /\ BufferInv' /\ LoadedInv'
  OBVIOUS
<1> USE DEF EffectInv, BufferInv, LoadedInv
<1>1. CASE eff' = eff BY <1>1
<1>2. CASE EmptyEffect(eff') BY <1>2 DEF EmptyEffect
<1>3. CASE \E r \in Rates : eff' = [eff EXCEPT !.fs = r]
  <2>1. PICK r \in Rates : eff' = [eff EXCEPT !.fs = r] BY <1>3
  <2>2. eff' \in EffectType BY <2>1 DEF EffectType
  <2>3. /\ eff'.buffer = eff.buffer /\ eff'.have = eff.have /\ eff'.loaded = eff.loaded
        /\ eff'.switch = eff.switch /\ eff'.hash = eff.hash /\ eff'.alive = eff.alive
        /\ eff'.hrirLastOk = eff.hrirLastOk
    BY <2>1 DEF EffectType
  <2> QED BY <2>2, <2>3 DEF EmptyEffect
<1>4. CASE eff.alive /\ SendPhase
  <2>1. eff' = SetPhase(eff, snap.linear) /\ snap.linear \in BOOLEAN /\ "geq" \in Kinds
    BY <1>4 DEF SendPhase, Deliver, AppInv, Settings
  <2> QED BY <1>4, <2>1, PhaseEffect
<1>5. CASE eff.alive /\ SendHeader
  <2>1. eff' = Header(eff, kind, Payload) /\ kind \in Kinds
    BY <1>5 DEF SendHeader, Send, Deliver, AppInv
  <2>2. BufferOf(kind) \in {"string", "ir", "hrir"} BY DEF BufferOf, Rated
  <2>3. Payload \in Payloads BY PayloadChosen
  <2> DEFINE p == Payload
             q == IF NoBuffer(p) THEN Nothing ELSE p
  <2> HIDE DEF p
  <2>4. /\ eff' \in EffectType /\ eff'.buffer = [eff.buffer EXCEPT ![BufferOf(kind)] = q]
        /\ eff'.loaded = eff.loaded /\ eff'.have = eff.have /\ eff'.alive = eff.alive
    BY <2>3, <2>1, HeaderEffect DEF p
  <2> HIDE DEF q
  <2>5. \A b \in {"string", "ir", "hrir"} : eff'.buffer[b] =
            IF b = BufferOf(kind) THEN q ELSE eff.buffer[b]
    BY <2>2, <2>4 DEF EffectType
  <2>6. ~NoBuffer(Payload) => /\ Outcome[Payload[1]] \in Buffered
                              /\ BufferOf(kind) = "hrir" => Outcome[Payload[1]] # "refused"
    BY <2>1, PayloadChosen, OutcomeAssumption
    DEF NoBuffer, Outcomes, Buffered, BufferOf, Rated
  <2>7. BufferInv' BY <2>5, <2>6, PayloadChosen DEF p, q
  <2> QED BY <1>5, <2>7, <2>4
<1>6. CASE eff.alive /\ SendCommit
  <2>1. eff' = Commit(eff, kind) /\ kind \in Kinds
    BY <1>6 DEF SendCommit, Send, Deliver, AppInv
  <2> DEFINE p == eff.buffer[BufferOf(kind)]
  <2>2. BufferOf(kind) \in {"string", "ir", "hrir"} BY DEF BufferOf, Rated
  <2>3. p \in Payloads BY <2>2 DEF EffectType
  <2>4. CASE p = Nothing BY <2>1, <2>4 DEF Commit
  <2>5. CASE p # Nothing
    <3>1. p[1] \in Files /\ Outcome[p[1]] \in Buffered
          /\ (kind = "hrir" => Outcome[p[1]] # "refused")
      BY <2>2, <2>5 DEF BufferOf, Rated
    <3>2. Committed(eff, kind, p, eff') BY <2>1, <2>5, CommitEffect
    <3>3. BufferInv' BY <2>2, <3>2 DEF EffectType, Committed
    <3>4. \A k \in Kinds \ {kind} : /\ eff'.have[k] <=> eff.have[k]
                                    /\ eff'.loaded[k] = eff.loaded[k]
      BY <3>2 DEF Committed
    <3>5. /\ eff'.loaded[kind] = CommitLoaded(eff, kind, p)
          /\ eff'.have[kind] <=> \/ kind = "geq" \/ Outcome[p[1]] = "ok"
                                \/ (eff.have[kind] /\ kind = "hrir")
          /\ eff' \in EffectType /\ eff'.alive = eff.alive
      BY <3>2 DEF Committed
    <3>6. p[1] # NoFile BY <3>1, FilesAssumption
    <3>7. kind = "geq" => Outcome[p[1]] = "ok"
      <4>1. pc = "commit" BY <1>6 DEF SendCommit, Send
      <4>2. p = Payload BY <2>5, <4>1 DEF HashInv, CommitInv
      <4> QED BY <2>1, <3>1, <4>2, PayloadChosen, OutcomeAssumption DEF Buffered
    <3>8. eff'.have[kind] => eff'.loaded[kind] # Nothing
      BY <2>1, <2>5, <3>1, <3>5, <3>6, <3>7, SMTT(30) DEF CommitLoaded, Nothing, Buffered
    <3> QED BY <1>6, <2>1, <3>3, <3>4, <3>5, <3>8
  <2> QED BY <2>4, <2>5
<1>7. CASE eff.alive /\ SendHash
  <2>1. eff' = StoreHash(eff, kind, Payload) /\ kind \in Kinds
    BY <1>7 DEF SendHash, Send, Deliver, AppInv
  <2>2. Payload \in Payloads BY PayloadChosen
  <2>3. /\ eff' \in EffectType /\ eff'.buffer = eff.buffer
        /\ eff'.loaded = eff.loaded /\ eff'.have = eff.have /\ eff'.alive = eff.alive
    BY <2>1, <2>2, HashEffect, ZenonT(40)
  <2> QED BY <1>7, <2>3
<1>8. CASE eff.alive /\ SendSwitch
  <2>1. eff' = SetSwitch(eff, kind, SwitchedOn) /\ kind \in Kinds /\ SwitchedOn \in BOOLEAN
    BY <1>8, SwitchIsOnOrOff DEF SendSwitch, Send, Deliver, AppInv
  <2> QED BY <1>8, <2>1, SwitchEffect, SMTT(30)
<1> QED BY <1>1, <1>2, <1>3, <1>4, <1>5, <1>6, <1>7, <1>8, EffectSteps

(* No subsystem is switched on over nothing loaded (the have flags of        *)
(* JamesDspHalEffect), whatever became of the payloads sent before, of the   *)
(* effect they were sent to, and in whatever order the two fail.             *)
THEOREM SwitchedOnOnlyIfLoaded == Spec => NeverOnEmpty
<1> DEFINE Step == \A k \in Kinds :
                      ~eff.switch[k] /\ eff'.switch[k] => eff'.loaded[k] # Nothing
<1>1. AppInv /\ EffectInv /\ BufferInv /\ LoadedInv /\ [Next]_vars => Step
  <2> SUFFICES ASSUME AppInv, EffectInv, BufferInv, LoadedInv, [Next]_vars,
                      NEW k \in Kinds, ~eff.switch[k], eff'.switch[k]
               PROVE  eff'.loaded[k] # Nothing
    OBVIOUS
  <2>1. eff' # eff /\ ~EmptyEffect(eff') BY DEF EmptyEffect
  <2>2. ASSUME NEW r \in Rates, eff' = [eff EXCEPT !.fs = r] PROVE FALSE
    BY <2>2 DEF EffectInv, EffectType
  <2>3. CASE eff.alive /\ SendPhase
    <3>1. eff' = SetPhase(eff, snap.linear) /\ snap.linear \in BOOLEAN /\ "geq" \in Kinds
      BY <2>3 DEF SendPhase, Deliver, AppInv, Settings
    <3> QED BY <3>1, PhaseEffect DEF EffectInv
  <2>4. CASE eff.alive /\ (SendHeader \/ SendHash)
    <3>1. Payload \in Payloads /\ kind \in Kinds BY PayloadChosen DEF AppInv
    <3>2. CASE eff' = Header(eff, kind, Payload)
      <4>1. eff'.switch = eff.switch BY <3>1, <3>2, HeaderEffect DEF EffectInv
      <4> QED BY <4>1
    <3>3. CASE eff' = StoreHash(eff, kind, Payload)
      <4>1. eff'.switch = eff.switch BY <3>1, <3>3, HashEffect DEF EffectInv
      <4> QED BY <4>1
    <3> QED BY <2>4, <3>2, <3>3 DEF SendHeader, SendHash, Send, Deliver
  <2>5. CASE eff.alive /\ SendCommit
    <3>1. eff' = Commit(eff, kind) /\ kind \in Kinds
      BY <2>5 DEF SendCommit, Send, Deliver, AppInv
    <3>2. eff'.switch = eff.switch BY <3>1, CommitSwitchesNothing DEF EffectInv
    <3> QED BY <3>2
  <2>6. CASE eff.alive /\ SendSwitch
    <3>1. eff' = SetSwitch(eff, kind, SwitchedOn) /\ kind \in Kinds /\ SwitchedOn \in BOOLEAN
      BY <2>6, SwitchIsOnOrOff DEF SendSwitch, Send, Deliver, AppInv
    <3> QED BY <3>1, SwitchEffect DEF EffectInv, LoadedInv
  <2> QED BY <2>1, <2>2, <2>3, <2>4, <2>5, <2>6, EffectSteps
<1> QED
  BY <1>1, Starts, AppStays, LoadedStays, HashesStart, HashesStay, PTL DEF Spec, NeverOnEmpty

(* The stored hash, on whose word the app skips a push (setHash in           *)
(* JamesDspHalEffect, the hash checks of JamesDspRemoteEngine), names what   *)
(* is loaded, through every death, reboot and rate change between the        *)
(* messages of a push; but for an impulse response refused at its header.    *)
THEOREM HashesAreTrue == Spec => []HashNamesLoaded
<1>1. HashInv => HashNamesLoaded BY DEF HashInv
<1> QED
  BY <1>1, HashesStart, Starts, AppStays, LoadedStays, HashesStay, PTL DEF Spec

-----------------------------------------------------------------------------
(* What the app chose is what plays.                                         *)

Stages == {"phase", "ask", "header", "commit", "hash", "switch"}
Sending == pc \in Stages

RestInv ==
    /\ present \in BOOLEAN /\ (eff.alive => present)
    /\ posted \in BOOLEAN /\ playback \in BOOLEAN /\ queued \in BOOLEAN
    /\ whole \in BOOLEAN /\ binauralMissing \in BOOLEAN
    /\ pc \in Stages \union {"idle", "next"}
    /\ convolverSampleRate \in Rates \union {0}
    /\ binauralSampleRate \in Rates \union {0}
    /\ lost \subseteq Kinds /\ overlapped \subseteq Kinds
    /\ changes \in 0 .. MaxChanges /\ faults \in 0 .. MaxFaults

(* What is marked will be sent, as long as there is an effect.               *)
MarkedInv ==
    /\ present /\ dirty # {} => posted \/ queued
    /\ forced # {} => queued
    /\ pc = "idle" => todo = {} /\ again = {} /\ whole
    /\ pc # "idle" =>
          \A k \in Kinds \ dirty :
             /\ snap.file[k] = prefs.file[k] /\ snap.on[k] = prefs.on[k]
             /\ k = "geq" => snap.linear = prefs.linear

(* An effect that is not the one of before has been sent nothing in full.    *)
LostInv ==
    /\ ~eff.alive \/ ~whole => lost = Kinds
    /\ Sending /\ whole => eff.alive /\ (target \in Rates \/ (kind = "hrir" /\ target = 0))

(* A hash is kept, and a head set vouched for, only with something loaded.   *)
HaveInv ==
    \A k \in Kinds :
        /\ eff.hash[k] = Nothing \/ eff.have[k] \/ (kind = k /\ pc = "hash")
        /\ k = "hrir" /\ eff.hrirLastOk => eff.have[k]

(* What the app takes the kind to be made for, and whether that counts.      *)
MadeFor(k) == IF k = "ir" THEN convolverSampleRate ELSE binauralSampleRate
Remembered(k, on) == k = "ir" \/ (k = "hrir" /\ on /\ ~binauralMissing)

(* A rate that changed while a kind was made for it has been noticed, or    *)
(* will be.                                                                  *)
RateInv ==
    Sending /\ whole /\ Rated(kind) /\ kind \notin overlapped =>
        /\ pc = "ask" => target \in {0, eff.fs} \/ playback
        /\ pc # "ask" /\ Remembered(kind, SwitchedOn) =>
              /\ MadeFor(kind) = target
              /\ target = eff.fs \/ playback \/ kind \in forced

Good(k, on) == on /\ (k = "hrir" => ~binauralMissing)

(* How far the kind being sent has come, if the effect is still the one it  *)
(* was begun with.                                                           *)
ProgressInv ==
    Sending /\ whole =>
        /\ pc # "phase" /\ kind = "geq" => eff.linear = snap.linear
        /\ Outcome[snap.file[kind]] = "ok" =>
              /\ pc = "commit" => eff.buffer[BufferOf(kind)] = Payload
              /\ pc = "hash" => Vouched(eff, kind)
              /\ pc = "hash" \/ (pc = "switch" /\ Good(kind, SwitchedOn)) =>
                    eff.have[kind] /\ eff.loaded[kind] = LoadedAs(kind, Payload)

(* The kinds a sync under way or to come sends.                              *)
Pending(k) ==
    \/ k \in dirty \union forced \union todo \union again \/ (Sending /\ kind = k)
    \/ k = "hrir" /\ setReady

(* A head set that is to be heard is there, or being read, or cannot be.     *)
Sought ==
    prefs.on["hrir"] /\ ~onSpeaker =>
        prefs.file["hrir"] \in prepared \union failures \union reading

(* The switch being sent is the one that is due, unless it will be sent      *)
(* again.                                                                    *)
TargetInv ==
    /\ Sending /\ whole /\ kind = "hrir"
    /\ "hrir" \notin dirty \union forced /\ ~setReady
    => (SwitchedOn <=> ToPlay("hrir")) /\ Sought

(* What was sent in full is what was chosen, made for a rate that is the    *)
(* engine's or will be compared with it.                                     *)
Settled(k) ==
    /\ ~ToPlay(k) => ~eff.switch[k]
    /\ Good(k, ToPlay(k)) /\ Outcome[prefs.file[k]] = "ok" =>
          /\ eff.switch[k]
          /\ eff.loaded[k] = <<prefs.file[k], IF k = "geq" /\ prefs.linear THEN 1
                                              ELSE IF Rated(k) THEN MadeFor(k) ELSE 0>>
    /\ Remembered(k, ToPlay(k)) =>
          MadeFor(k) \in Rates /\ (MadeFor(k) = eff.fs \/ playback)
    /\ k = "hrir" => Sought

SettledInv == \A k \in Kinds \ (lost \union overlapped) : Pending(k) \/ Settled(k)

PlayInv ==
    /\ MarkedInv /\ LostInv /\ HaveInv /\ RateInv /\ ProgressInv /\ TargetInv
    /\ SettledInv

-----------------------------------------------------------------------------
LEMMA MessagesKeep ==
  ASSUME AppInv, EffectInv, SendHeader \/ SendCommit \/ SendHash \/ SendSwitch
  PROVE  eff'.alive = eff.alive /\ eff'.fs = eff.fs /\ eff'.linear = eff.linear
<1> DEFINE Kept(f) == f.alive = eff.alive /\ f.fs = eff.fs /\ f.linear = eff.linear
<1>1. Payload \in Payloads /\ kind \in Kinds BY PayloadChosen DEF AppInv
<1>2. Kept(Header(eff, kind, Payload))
  BY <1>1, HeaderEffect, ZenonT(40) DEF EffectInv
<1>3. Kept(Commit(eff, kind))
  <2>1. CASE eff.buffer[BufferOf(kind)] = Nothing BY <2>1 DEF Commit
  <2>2. CASE eff.buffer[BufferOf(kind)] # Nothing
    BY <1>1, <2>2, CommitEffect DEF EffectInv, Committed
  <2> QED BY <2>1, <2>2
<1>4. Kept(StoreHash(eff, kind, Payload))
  BY <1>1, HashEffect, ZenonT(40) DEF EffectInv
<1>5. Kept(SetSwitch(eff, kind, SwitchedOn))
  BY <1>1, SwitchEffect, SwitchIsOnOrOff DEF EffectInv
<1> HIDE DEF Kept
<1>6. Kept(eff')
  <2>1. Kept(eff) BY DEF Kept
  <2> QED
    BY <1>2, <1>3, <1>4, <1>5, <2>1
    DEF SendHeader, SendCommit, SendHash, SendSwitch, Send, Deliver
<1> QED BY <1>6 DEF Kept

(* The messages of a push leave the switches and the other kinds alone.       *)
LEMMA MessagesOfOthers ==
  ASSUME AppInv, EffectInv, SendHeader \/ SendCommit \/ SendHash,
         NEW k \in Kinds, k # kind
  PROVE  (eff'.switch[k] <=> eff.switch[k]) /\ eff'.loaded[k] = eff.loaded[k]
<1> DEFINE Kept(f) == (f.switch[k] <=> eff.switch[k]) /\ f.loaded[k] = eff.loaded[k]
<1>1. Payload \in Payloads /\ kind \in Kinds BY PayloadChosen DEF AppInv
<1>2. Kept(Header(eff, kind, Payload))
  BY <1>1, HeaderEffect, ZenonT(40) DEF EffectInv
<1>3. Kept(Commit(eff, kind))
  <2>1. CASE eff.buffer[BufferOf(kind)] = Nothing BY <2>1 DEF Commit
  <2>2. CASE eff.buffer[BufferOf(kind)] # Nothing
    <3>1. Committed(eff, kind, eff.buffer[BufferOf(kind)], Commit(eff, kind))
      BY <1>1, <2>2, CommitEffect DEF EffectInv
    <3>2. /\ Commit(eff, kind).switch = eff.switch
          /\ \A l \in Kinds \ {kind} : Commit(eff, kind).loaded[l] = eff.loaded[l]
      BY <3>1 DEF Committed
    <3> QED BY <3>2
  <2> QED BY <2>1, <2>2
<1>4. Kept(StoreHash(eff, kind, Payload))
  BY <1>1, HashEffect, ZenonT(40) DEF EffectInv
<1> HIDE DEF Kept
<1>5. Kept(eff')
  <2>1. Kept(eff) BY DEF Kept
  <2> QED
    BY <1>2, <1>3, <1>4, <2>1 DEF SendHeader, SendCommit, SendHash, Send, Deliver
<1> QED BY <1>5 DEF Kept

LEMMA RestStarts == Init => RestInv
<1> SUFFICES ASSUME Init PROVE RestInv OBVIOUS
<1>1. present = TRUE /\ convolverSampleRate \in Rates
  BY RatesAssumption DEF Init
<1>2. changes \in 0 .. MaxChanges /\ faults \in 0 .. MaxFaults
  BY BoundsAssumption DEF Init
<1> QED BY <1>1, <1>2 DEF Init, RestInv, Stages

LEMMA RestStays == AppInv /\ EffectInv /\ RestInv /\ [Next]_vars => RestInv'
<1> SUFFICES ASSUME AppInv, EffectInv, RestInv, [Next]_vars PROVE RestInv'
  OBVIOUS
<1> USE DEF RestInv, appVars, syncVars, rateVars, history, bounds, Stages
<1>0. /\ eff.fs \in Rates /\ kind \in Kinds /\ target \in Rates \union {0}
      /\ changes \in Nat /\ faults \in Nat /\ MaxChanges \in Nat /\ MaxFaults \in Nat
  BY BoundsAssumption DEF EffectInv, EffectType, AppInv
<1>1. CASE ChangePreference \/ SoftReboot
  <2>1. changes' \in 0 .. MaxChanges /\ faults' = faults
    <3>1. Change BY <1>1 DEF ChangePreference, SoftReboot
    <3>2. changes \in 0 .. MaxChanges BY DEF RestInv
    <3> QED BY ONLY <1>0, <3>1, <3>2 DEF Change
  <2>2. posted' = TRUE /\ UNCHANGED <<eff, present, playback, queued, pc, rateVars, history>>
    BY <1>1 DEF ChangePreference, SoftReboot
  <2> QED BY <2>1, <2>2
<1>2. CASE ChangeRate
  <2>1. eff'.alive = eff.alive BY <1>2 DEF ChangeRate, EffectInv, EffectType
  <2> QED BY <1>0, <1>2, <2>1 DEF ChangeRate, Change
<1>3. CASE ServerDies
  <2>1. ~eff'.alive BY <1>0, <1>3, NewIsEmpty DEF ServerDies
  <2> QED BY <1>0, <1>3, <2>1 DEF ServerDies, Fault
<1>4. ASSUME RebootEngine PROVE present' \in BOOLEAN /\ (eff'.alive => present') /\ whole' \in BOOLEAN
                                /\ lost' = Kinds
  BY <1>0, <1>4, NewIsEmpty DEF RebootEngine
<1>5. CASE HardReboot BY <1>0, <1>4, <1>5 DEF HardReboot, Fault
<1>6. CASE MainLaunch
  <2>1. /\ UNCHANGED <<playback, pc, rateVars, overlapped>>
        /\ RebootEngine \/ UNCHANGED <<eff, present, lost, whole>>
    BY <1>6, Launches
  <2>2. posted' \in BOOLEAN /\ queued' \in BOOLEAN
    BY <1>6 DEF MainLaunch, HearPreferences, HearSetReady, ChangeRoute, SyncWithPreferences
  <2>3. changes' \in 0 .. MaxChanges /\ faults' \in 0 .. MaxFaults
    BY <1>0, <1>6 DEF MainLaunch, HearPreferences, HearSetReady, ChangeRoute, Change
  <2> QED BY <1>4, <2>1, <2>2, <2>3
<1>7. CASE ReloadIfRateChanged \/ ReadHeadSet
  BY <1>0, <1>7 DEF ReloadIfRateChanged, ReadHeadSet
<1>8. CASE BeginSync BY <1>8 DEF BeginSync
<1>9. CASE BeginKind
  <2>1. eff.alive \in BOOLEAN BY DEF EffectInv, EffectType
  <2>2. pc' \in {"phase", "ask"} /\ whole' \in BOOLEAN /\ overlapped' \subseteq Kinds
    BY <1>9, <2>1 DEF BeginKind
  <2> QED BY <1>9, <2>2 DEF BeginKind
<1>10. CASE SendPhase
  <2>1. eff'.alive = eff.alive
    BY <1>10, PhaseEffect DEF SendPhase, Deliver, EffectInv, AppInv, Settings
  <2> QED BY <1>10, <2>1 DEF SendPhase
<1>11. CASE AskHash
  <2>1. binauralMissing' \in BOOLEAN
        /\ convolverSampleRate' \in Rates \union {0} /\ binauralSampleRate' \in Rates \union {0}
    BY <1>0, <1>11 DEF AskHash, EffectInv, EffectType
  <2>2. pc' \in {"header", "switch"} BY <1>11 DEF AskHash
  <2> QED BY <1>11, <2>1, <2>2 DEF AskHash
<1>12. CASE SendHeader \/ SendCommit \/ SendHash \/ SendSwitch
  <2>1. eff'.alive = eff.alive BY <1>12, MessagesKeep
  <2>2. /\ pc' \in {"commit", "hash", "switch", "next"}
        /\ UNCHANGED <<present, appVars, rateVars, whole, overlapped, bounds>>
        /\ lost' \subseteq lost
    BY <1>12 DEF SendHeader, SendCommit, SendHash, SendSwitch, Send
  <2> QED BY <2>1, <2>2
<1>13. CASE EndSync BY <1>13 DEF EndSync
<1>14. CASE UNCHANGED vars BY <1>14 DEF vars
<1> QED
  BY <1>1, <1>2, <1>3, <1>5, <1>6, <1>7, <1>8, <1>9, <1>10, <1>11, <1>12, <1>13, <1>14
  DEF Next, Environment, MainStep, SyncStep, MainLaunch

(* Every variable of RemoteEffect stays in its type, and an effect that      *)
(* plays is held by the app.                                                 *)
THEOREM TypeCorrect == Spec => []TypeOK
<1>1. AppInv /\ EffectInv /\ RestInv => TypeOK
  BY DEF AppInv, EffectInv, RestInv, TypeOK, Stages
<1> QED
  BY <1>1, Starts, RestStarts, AppStays, LoadedStays, RestStays, HashesStart, HashesStay, PTL
  DEF Spec

-----------------------------------------------------------------------------
LEMMA MarkedStays ==
  AppInv /\ EffectInv /\ RestInv /\ MarkedInv /\ [Next]_vars => MarkedInv'
<1> SUFFICES ASSUME AppInv, EffectInv, RestInv, MarkedInv, [Next]_vars PROVE MarkedInv'
  OBVIOUS
<1> USE DEF MarkedInv, appVars, syncVars, rateVars, history, bounds
<1>1. CASE ChangePreference
  <2>1. ASSUME NEW k \in Kinds, NEW f \in FilesOf[k], NEW on \in BOOLEAN,
               prefs' = [prefs EXCEPT !.file[k] = f, !.on[k] = on],
               dirty' = dirty \union {k}
        PROVE  MarkedInv'
    <3>1. prefs'.linear = prefs.linear
          /\ \A l \in Kinds \ {k} : prefs'.file[l] = prefs.file[l] /\ prefs'.on[l] = prefs.on[l]
      BY <2>1 DEF AppInv, Settings
    <3> QED BY <1>1, <2>1, <3>1 DEF ChangePreference
  <2>2. ASSUME prefs' = [prefs EXCEPT !.linear = ~@],
               dirty' = dirty \union ({"geq"} \intersect Kinds)
        PROVE  MarkedInv'
    <3>1. prefs'.file = prefs.file /\ prefs'.on = prefs.on BY <2>2 DEF AppInv, Settings
    <3> QED BY <1>1, <2>2, <3>1 DEF ChangePreference
  <2> QED BY <1>1, <2>1, <2>2 DEF ChangePreference
<1>2. CASE SoftReboot BY <1>2 DEF SoftReboot
<1>3. CASE ChangeRate BY <1>3 DEF ChangeRate
<1>4. CASE ServerDies BY <1>4 DEF ServerDies
<1>5. CASE HardReboot BY <1>5 DEF HardReboot, RebootEngine
<1>6. CASE MainLaunch BY <1>6, Launches DEF RebootEngine
<1>7. CASE ReloadIfRateChanged BY <1>7 DEF ReloadIfRateChanged
<1>7a. CASE ReadHeadSet BY <1>7a DEF ReadHeadSet
<1>8. CASE BeginSync BY <1>8 DEF BeginSync
<1>9. CASE BeginKind
  <2>1. pc = "next" /\ pc' # "idle" /\ UNCHANGED <<present, appVars, snap>>
    BY <1>9 DEF BeginKind
  <2> QED BY <2>1
<1>10. CASE SendPhase BY <1>10 DEF SendPhase
<1>11. CASE AskHash BY <1>11 DEF AskHash
<1>12. CASE SendHeader \/ SendCommit \/ SendHash \/ SendSwitch
  BY <1>12 DEF SendHeader, SendCommit, SendHash, SendSwitch, Send
<1>13. CASE EndSync BY <1>13 DEF EndSync
<1>14. CASE UNCHANGED vars BY <1>14 DEF vars
<1> QED
  BY <1>1, <1>2, <1>3, <1>4, <1>5, <1>6, <1>7, <1>7a, <1>8, <1>9, <1>10, <1>11, <1>12, <1>13, <1>14
  DEF Next, Environment, MainStep, SyncStep, MainLaunch

LEMMA LostStays ==
  AppInv /\ EffectInv /\ RestInv /\ MarkedInv /\ LostInv /\ [Next]_vars => LostInv'
<1> SUFFICES ASSUME AppInv, EffectInv, RestInv, MarkedInv, LostInv, [Next]_vars PROVE LostInv'
  OBVIOUS
<1> USE DEF LostInv, appVars, syncVars, rateVars, history, bounds, Sending, Stages
<1>1. eff.fs \in Rates /\ eff.alive \in BOOLEAN BY DEF EffectInv, EffectType
<1>2. CASE ChangePreference BY <1>2 DEF ChangePreference
<1>3. CASE SoftReboot BY <1>3 DEF SoftReboot
<1>4. CASE ChangeRate
  <2>1. eff'.alive = eff.alive BY <1>4 DEF ChangeRate, EffectInv, EffectType
  <2> QED BY <1>4, <2>1 DEF ChangeRate
<1>5. CASE ServerDies BY <1>5 DEF ServerDies
<1>6. CASE HardReboot BY <1>6 DEF HardReboot, RebootEngine
<1>7. CASE MainLaunch
  <2>1. CASE RebootEngine BY <1>7, <2>1, Launches DEF RebootEngine
  <2>2. CASE UNCHANGED <<eff, present, lost, whole>> BY <1>7, <2>2, Launches
  <2> QED BY <1>7, <2>1, <2>2, Launches
<1>8. CASE ReloadIfRateChanged \/ ReadHeadSet BY <1>8 DEF ReloadIfRateChanged, ReadHeadSet
<1>9. CASE BeginSync BY <1>9 DEF BeginSync
<1>10. CASE BeginKind
  <2>1. /\ pc' \in {"phase", "ask"} /\ whole' = eff.alive /\ lost' = lost /\ eff' = eff
        /\ eff.alive => target' = eff.fs \/ (kind' = "hrir" /\ target' = 0)
    BY <1>10 DEF BeginKind
  <2> QED BY <1>1, <2>1
<1>11. CASE SendPhase
  <2>1. eff'.alive = eff.alive
    BY <1>11, PhaseEffect DEF SendPhase, Deliver, EffectInv, AppInv, Settings
  <2> QED BY <1>11, <2>1 DEF SendPhase
<1>12. CASE AskHash BY <1>12 DEF AskHash
<1>13. CASE SendHeader \/ SendCommit \/ SendHash \/ SendSwitch
  <2>1. eff'.alive = eff.alive BY <1>13, MessagesKeep
  <2>2. /\ UNCHANGED <<target, whole, kind>>
        /\ lost' = lost \/ (whole /\ Sending)
        /\ pc \in Stages
    BY <1>13 DEF SendHeader, SendCommit, SendHash, SendSwitch, Send
  <2> QED BY <2>1, <2>2
<1>14. CASE EndSync BY <1>14 DEF EndSync
<1>15. CASE UNCHANGED vars BY <1>15 DEF vars
<1> QED
  BY <1>2, <1>3, <1>4, <1>5, <1>6, <1>7, <1>8, <1>9, <1>10, <1>11, <1>12, <1>13, <1>14, <1>15
  DEF Next, Environment, MainStep, SyncStep, MainLaunch

LEMMA HaveStays == AppInv /\ EffectInv /\ HaveInv /\ [Next]_vars => HaveInv'
<1> SUFFICES ASSUME AppInv, EffectInv, HaveInv, [Next]_vars PROVE HaveInv'
  OBVIOUS
<1>1. kind \in Kinds /\ Payload \in Payloads BY PayloadChosen DEF AppInv
<1>2. CASE EmptyEffect(eff') BY <1>2 DEF EmptyEffect, HaveInv
<1>3. ASSUME eff'.have = eff.have, eff'.hrirLastOk => eff.hrirLastOk,
             \A k \in Kinds : eff'.hash[k] \in {eff.hash[k], Nothing},
             UNCHANGED <<kind, pc>> \/ pc # "hash"
      PROVE  HaveInv'
  BY <1>3 DEF HaveInv
<1>4. ASSUME NEW r \in Rates, eff' = [eff EXCEPT !.fs = r], pc' = pc, kind' = kind
      PROVE  HaveInv'
  <2>1. eff'.have = eff.have /\ eff'.hrirLastOk = eff.hrirLastOk /\ eff'.hash = eff.hash
    BY <1>4 DEF EffectInv, EffectType
  <2> QED BY <1>3, <1>4, <2>1
<1>5. CASE eff.alive /\ SendPhase
  <2>1. eff' = SetPhase(eff, snap.linear) /\ snap.linear \in BOOLEAN /\ "geq" \in Kinds
        /\ pc = "phase"
    BY <1>5 DEF SendPhase, Deliver, AppInv, Settings
  <2>2. /\ \A k \in Kinds \ {"geq"} : eff'.hash[k] = eff.hash[k]
        /\ eff'.hash["geq"] \in {Nothing, eff.hash["geq"]}
        /\ eff'.have = eff.have /\ eff'.hrirLastOk = eff.hrirLastOk
    BY <2>1, PhaseEffect DEF EffectInv
  <2> QED BY <1>3, <2>1, <2>2
<1>6. CASE eff.alive /\ SendHeader
  <2>1. eff' = Header(eff, kind, Payload) /\ pc = "header"
    BY <1>6 DEF SendHeader, Send, Deliver
  <2>2. eff'.have = eff.have /\ eff'.hash = eff.hash /\ (eff'.hrirLastOk => eff.hrirLastOk)
    BY <1>1, <2>1, HeaderEffect DEF EffectInv
  <2> QED BY <1>3, <2>1, <2>2
<1>7. CASE eff.alive /\ SendCommit
  <2>1. eff' = Commit(eff, kind) /\ pc = "commit" /\ pc' = "hash" /\ kind' = kind
    BY <1>7 DEF SendCommit, Send, Deliver
  <2>2. CASE eff.buffer[BufferOf(kind)] = Nothing
    <3>1. eff' = eff BY <2>1, <2>2 DEF Commit
    <3> QED BY <1>3, <2>1, <3>1
  <2>3. CASE eff.buffer[BufferOf(kind)] # Nothing
    <3>1. Committed(eff, kind, eff.buffer[BufferOf(kind)], eff')
      BY <1>1, <2>1, <2>3, CommitEffect DEF EffectInv
    <3> DEFINE ok == Outcome[eff.buffer[BufferOf(kind)][1]] = "ok"
    <3>2. /\ \A k \in Kinds \ {kind} : eff'.have[k] <=> eff.have[k]
          /\ eff'.hash = eff.hash
          /\ eff'.have[kind] <=> kind = "geq" \/ ok \/ (eff.have[kind] /\ kind = "hrir")
          /\ kind = "hrir" => (eff'.hrirLastOk <=> ok)
          /\ kind # "hrir" => (eff'.hrirLastOk <=> eff.hrirLastOk)
      BY <3>1 DEF Committed
    <3> HIDE DEF ok
    <3> QED BY <2>1, <3>2 DEF HaveInv
  <2> QED BY <2>2, <2>3
<1>8. CASE eff.alive /\ SendHash
  <2>1. eff' = StoreHash(eff, kind, Payload) /\ pc = "hash"
    BY <1>8 DEF SendHash, Send, Deliver
  <2>2. /\ eff'.hash = [eff.hash EXCEPT ![kind] = IF Vouched(eff, kind) THEN HashOf(Payload)
                                                  ELSE Nothing]
        /\ eff'.have = eff.have /\ eff'.hrirLastOk = eff.hrirLastOk
    BY <1>1, <2>1, HashEffect DEF EffectInv
  <2>3. /\ eff'.hash[kind] = Nothing \/ Vouched(eff, kind)
        /\ \A k \in Kinds \ {kind} : eff'.hash[k] = eff.hash[k]
    BY <1>1, <2>2 DEF EffectInv, EffectType
  <2>4. Vouched(eff, kind) => eff.have[kind] BY <1>1 DEF HaveInv, Vouched
  <2> QED BY <2>2, <2>3, <2>4 DEF HaveInv
<1>9. CASE eff.alive /\ SendSwitch
  <2>1. eff' = SetSwitch(eff, kind, SwitchedOn) /\ SwitchedOn \in BOOLEAN /\ pc = "switch"
    BY <1>1, <1>9, SwitchIsOnOrOff DEF SendSwitch, Send, Deliver, AppInv
  <2>2. eff'.have = eff.have /\ eff'.hash = eff.hash /\ eff'.hrirLastOk = eff.hrirLastOk
    BY <1>1, <2>1, SwitchEffect DEF EffectInv
  <2> QED BY <1>3, <2>1, <2>2
<1>10. CASE eff' = eff
  <2>1. SendHash \/ UNCHANGED <<kind, pc>> \/ pc # "hash"
    BY Launches
    DEF Next, Environment, MainStep, SyncStep, vars, syncVars, MainLaunch, ChangePreference,
       SoftReboot, ChangeRate, ServerDies, HardReboot, ReloadIfRateChanged, ReadHeadSet, BeginSync,
       BeginKind, SendPhase, AskHash, SendHeader, SendCommit, SendSwitch, Send, EndSync
  <2>2. CASE SendHash /\ ~eff.alive
    <3>1. EmptyEffect(eff) BY <2>2 DEF EffectInv
    <3> QED BY <1>2, <1>10, <3>1
  <2> QED BY <1>3, <1>8, <1>10, <2>1, <2>2 DEF EffectInv, EffectType
<1> QED BY <1>2, <1>4, <1>5, <1>6, <1>7, <1>8, <1>9, <1>10, EffectSteps

LEMMA RateStays ==
  /\ AppInv /\ EffectInv /\ RestInv /\ MarkedInv /\ LostInv /\ LostInv' /\ RateInv /\ [Next]_vars
  => RateInv'
<1> SUFFICES ASSUME AppInv, EffectInv, RestInv, MarkedInv, LostInv, LostInv', RateInv, [Next]_vars
             PROVE  RateInv'
  OBVIOUS
<1> USE DEF appVars, syncVars, rateVars, history, bounds, Stages, Sending
<1>1. eff.fs \in Rates /\ eff.alive \in BOOLEAN /\ kind \in Kinds
  BY DEF EffectInv, EffectType, AppInv
<1>2. CASE ChangePreference \/ SoftReboot \/ ReadHeadSet
  <2>1. UNCHANGED <<eff, forced, playback, syncVars, rateVars, history>>
    BY <1>2 DEF ChangePreference, SoftReboot, ReadHeadSet
  <2> QED BY <2>1 DEF RateInv, MadeFor, Remembered, SwitchedOn
<1>3. CASE ChangeRate
  BY <1>3 DEF ChangeRate, RateInv, MadeFor, Remembered, SwitchedOn
<1>4. CASE ServerDies \/ HardReboot
  BY <1>4 DEF ServerDies, HardReboot, RebootEngine, RateInv
<1>5. CASE MainLaunch
  <2>1. CASE RebootEngine BY <1>5, <2>1, Launches DEF RebootEngine, RateInv
  <2>2. CASE UNCHANGED <<eff, present, lost, whole>>
    BY <1>5, <2>2, Launches DEF RateInv, MadeFor, Remembered, SwitchedOn
  <2> QED BY <1>5, <2>1, <2>2, Launches
<1>6. CASE ReloadIfRateChanged
  <2>1. SUFFICES ASSUME Sending, whole, Rated(kind), kind \notin overlapped, pc # "ask",
                        Remembered(kind, SwitchedOn)
                 PROVE  MadeFor(kind) = target /\ (target = eff.fs \/ kind \in forced')
    BY <1>6 DEF ReloadIfRateChanged, RateInv, MadeFor, Remembered, SwitchedOn
  <2>2. MadeFor(kind) = target /\ eff.alive /\ target \in Rates /\ target # 0
    BY <2>1, RatesAssumption DEF RateInv, LostInv, Remembered, SwitchedOn
  <2>3. ASSUME target # eff.fs PROVE kind \in forced'
    <3>1. \/ kind = "ir" /\ eff.fs # convolverSampleRate
          \/ kind = "hrir" /\ binauralSampleRate \notin {0, eff.fs}
      BY <2>1, <2>2, <2>3 DEF MadeFor, Rated
    <3> QED BY <1>1, <1>6, <2>2, <3>1 DEF ReloadIfRateChanged
  <2> QED BY <2>2, <2>3
<1>7. CASE BeginSync BY <1>7 DEF BeginSync, RateInv
<1>8. CASE BeginKind
  <2>1. /\ pc' = IF kind' = "geq" THEN "phase" ELSE "ask"
        /\ whole' = eff.alive /\ eff' = eff
        /\ eff.alive => target' \in {0, eff.fs}
    BY <1>8 DEF BeginKind
  <2> QED BY <2>1 DEF RateInv, Rated
<1>9. CASE SendPhase
  <2>1. kind = "geq" /\ kind' = kind BY <1>9 DEF SendPhase, AppInv
  <2> QED BY <2>1 DEF RateInv, Rated
<1>10. CASE AskHash
  <2>1. /\ pc = "ask" /\ pc' # "ask" /\ UNCHANGED <<eff, kind, snap, target, playback, forced, history>>
        /\ convolverSampleRate' = IF kind = "ir" THEN target ELSE convolverSampleRate
        /\ kind = "hrir" /\ SwitchedOn /\ ~binauralMissing => binauralSampleRate' = target
        /\ binauralMissing => binauralMissing'
    BY <1>10 DEF AskHash
  <2>2. (SwitchedOn <=> SwitchedOn') /\ (Sending /\ whole /\ kind = "ir" => target # 0)
    BY <2>1, RatesAssumption DEF SwitchedOn, LostInv
  <2> QED BY <2>1, <2>2 DEF RateInv, MadeFor, Remembered, Rated, SwitchedOn
<1>11. CASE SendHeader \/ SendCommit \/ SendHash \/ SendSwitch
  <2>1. eff'.fs = eff.fs BY <1>11, MessagesKeep
  <2>2. /\ pc # "ask" /\ pc' # "ask" /\ pc \in Stages
        /\ UNCHANGED <<kind, snap, target, playback, forced, whole, overlapped, rateVars>>
    BY <1>11 DEF SendHeader, SendCommit, SendHash, SendSwitch, Send
  <2> QED BY <2>1, <2>2 DEF RateInv, MadeFor, Remembered, SwitchedOn
<1>12. CASE EndSync BY <1>12 DEF EndSync, RateInv
<1>13. CASE UNCHANGED vars BY <1>13 DEF vars, RateInv, MadeFor, Remembered, SwitchedOn
<1> QED
  BY <1>2, <1>3, <1>4, <1>5, <1>6, <1>7, <1>8, <1>9, <1>10, <1>11, <1>12, <1>13
  DEF Next, Environment, MainStep, SyncStep, MainLaunch

LEMMA ProgressStays ==
  /\ AppInv /\ EffectInv /\ RestInv /\ MarkedInv /\ LostInv /\ HaveInv /\ HashNamesLoaded
  /\ ProgressInv /\ [Next]_vars
  => ProgressInv'
<1> SUFFICES ASSUME AppInv, EffectInv, RestInv, MarkedInv, LostInv, HaveInv, HashNamesLoaded,
                    ProgressInv, [Next]_vars
             PROVE  ProgressInv'
  OBVIOUS
<1> USE DEF appVars, syncVars, rateVars, history, bounds, Stages, Sending
<1>1. /\ eff \in EffectType /\ kind \in Kinds
      /\ Payload \in Payloads /\ Payload # Nothing /\ Payload[1] = snap.file[kind]
  BY PayloadChosen DEF EffectInv, AppInv
<1>2. ASSUME UNCHANGED <<kind, snap, target, pc, whole, binauralMissing>>,
             eff'.linear = eff.linear, eff'.buffer = eff.buffer, eff'.have = eff.have,
             eff'.loaded = eff.loaded, eff'.hrirLastOk = eff.hrirLastOk
      PROVE  ProgressInv'
  <2>1. Payload' = Payload /\ LoadedAs(kind, Payload)' = LoadedAs(kind, Payload)
        /\ (Vouched(eff, kind) => Vouched(eff, kind)') /\ (SwitchedOn' <=> SwitchedOn)
    BY <1>2 DEF Payload, LoadedAs, Vouched, SwitchedOn
  <2> QED BY <1>2, <2>1 DEF ProgressInv, Good
<1>3. CASE ChangePreference \/ SoftReboot \/ ReloadIfRateChanged \/ ReadHeadSet
  <2>1. UNCHANGED <<eff, kind, snap, target, pc, whole, binauralMissing>>
    BY <1>3 DEF ChangePreference, SoftReboot, ReloadIfRateChanged, ReadHeadSet
  <2> QED BY <1>2, <2>1
<1>4. CASE ChangeRate
  <2>1. PICK r \in Rates : eff' = [eff EXCEPT !.fs = r] BY <1>4 DEF ChangeRate
  <2>2. /\ eff'.linear = eff.linear /\ eff'.buffer = eff.buffer /\ eff'.have = eff.have
        /\ eff'.loaded = eff.loaded /\ eff'.hrirLastOk = eff.hrirLastOk
    BY <1>1, <2>1 DEF EffectType
  <2>3. UNCHANGED <<kind, snap, target, pc, whole, binauralMissing>> BY <1>4 DEF ChangeRate
  <2> QED BY <1>2, <2>2, <2>3
<1>5. CASE ServerDies \/ HardReboot
  BY <1>5 DEF ServerDies, HardReboot, RebootEngine, ProgressInv
<1>6. CASE MainLaunch
  <2>1. CASE RebootEngine BY <1>6, <2>1, Launches DEF RebootEngine, ProgressInv
  <2>2. CASE UNCHANGED <<eff, present, lost, whole>> BY <1>2, <1>6, <2>2, Launches
  <2> QED BY <1>6, <2>1, <2>2, Launches
<1>7. CASE BeginSync \/ EndSync BY <1>7 DEF BeginSync, EndSync, ProgressInv
<1>8. CASE BeginKind
  <2>1. pc' = IF kind' = "geq" THEN "phase" ELSE "ask" BY <1>8 DEF BeginKind
  <2> QED BY <2>1 DEF ProgressInv
<1>9. CASE SendPhase
  <2>1. pc = "phase" /\ pc' = "ask" /\ kind = "geq" /\ UNCHANGED <<whole, kind, snap>>
    BY <1>9 DEF SendPhase, AppInv
  <2>2. whole => eff' = SetPhase(eff, snap.linear)
    BY <1>9, <2>1 DEF SendPhase, Deliver, LostInv
  <2>3. snap.linear \in BOOLEAN BY DEF AppInv, Settings
  <2>4. whole => eff'.linear = snap.linear BY <1>1, <2>1, <2>2, <2>3, PhaseEffect
  <2> QED BY <2>1, <2>4 DEF ProgressInv
<1>10. CASE AskHash
  <2>1. /\ pc = "ask" /\ UNCHANGED <<eff, kind, snap, target, whole>>
        /\ pc' = IF /\ SwitchedOn
                    /\ kind = "hrir" => ~binauralMissing'
                    /\ eff.alive => eff.hash[kind] # HashOf(Payload)
                 THEN "header" ELSE "switch"
    BY <1>10 DEF AskHash
  <2>2. Payload' = Payload /\ LoadedAs(kind, Payload)' = LoadedAs(kind, Payload)
        /\ (SwitchedOn' <=> SwitchedOn)
    BY <2>1 DEF Payload, LoadedAs, SwitchedOn
  <2>3. ASSUME whole, Outcome[snap.file[kind]] = "ok", pc' = "switch",
               Good(kind, SwitchedOn)'
        PROVE  eff.have[kind] /\ eff.loaded[kind] = LoadedAs(kind, Payload)
    <3>1. eff.hash[kind] = HashOf(Payload) BY <2>1, <2>2, <2>3 DEF Good, LostInv
    <3>2. HashOf(Payload) = Payload BY <1>1, <2>3 DEF HashOf
    <3>3. eff.have[kind] BY <1>1, <2>1, <3>1, <3>2 DEF HaveInv
    <3>4. eff.loaded[kind] = Named(kind)
      BY <1>1, <2>1, <2>3, <3>1, <3>2 DEF HashNamesLoaded
    <3> QED BY <3>1, <3>2, <3>3, <3>4 DEF Named, LoadedAs
  <2> QED BY <2>1, <2>2, <2>3 DEF ProgressInv
<1>11. CASE SendHeader
  <2>1. /\ pc = "header" /\ pc' = "commit" /\ UNCHANGED <<kind, snap, target, whole>>
        /\ Payload' = Payload
    BY <1>11 DEF SendHeader, Send, Payload
  <2>2. CASE whole
    <3>1. eff' = Header(eff, kind, Payload) BY <1>11, <2>1, <2>2 DEF SendHeader, Send, Deliver, LostInv
    <3>2. /\ eff'.buffer = [eff.buffer EXCEPT ![BufferOf(kind)] =
                               IF NoBuffer(Payload) THEN Nothing ELSE Payload]
          /\ eff'.linear = eff.linear
      BY <1>1, <3>1, HeaderEffect
    <3>3. BufferOf(kind) \in {"string", "ir", "hrir"} BY DEF BufferOf, Rated
    <3>4. Outcome[snap.file[kind]] = "ok" => eff'.buffer[BufferOf(kind)] = Payload
      BY <1>1, <3>2, <3>3 DEF EffectType, NoBuffer
    <3> QED BY <2>1, <2>2, <3>2, <3>4 DEF ProgressInv
  <2> QED BY <2>1, <2>2 DEF ProgressInv
<1>12. CASE SendCommit
  <2>1. /\ pc = "commit" /\ pc' = "hash" /\ UNCHANGED <<kind, snap, target, whole>>
        /\ Payload' = Payload
    BY <1>12 DEF SendCommit, Send, Payload
  <2>2. CASE whole
    <3>1. eff' = Commit(eff, kind) BY <1>12, <2>1, <2>2 DEF SendCommit, Send, Deliver, LostInv
    <3>2. eff'.linear = eff.linear BY <1>12, MessagesKeep
    <3>3. ASSUME Outcome[snap.file[kind]] = "ok"
          PROVE  /\ eff'.have[kind] /\ Vouched(eff', kind)
                 /\ eff'.loaded[kind] = LoadedAs(kind, Payload)
      <4>1. eff.buffer[BufferOf(kind)] = Payload BY <2>1, <2>2, <3>3 DEF ProgressInv
      <4>2. Committed(eff, kind, Payload, eff') BY <1>1, <3>1, <4>1, CommitEffect
      <4>3. /\ eff'.loaded[kind] = CommitLoaded(eff, kind, Payload)
            /\ eff'.have[kind] /\ (kind = "hrir" => eff'.hrirLastOk)
        BY <1>1, <3>3, <4>2 DEF Committed
      <4>4. CommitLoaded(eff, kind, Payload) = LoadedAs(kind, Payload)
        BY <1>1, <3>3 DEF CommitLoaded, LoadedAs
      <4> QED BY <4>3, <4>4 DEF Vouched
    <3>4. LoadedAs(kind, Payload)' = LoadedAs(kind, Payload) /\ Vouched(eff, kind)' = Vouched(eff', kind)
      BY <2>1, <3>2 DEF LoadedAs, Vouched
    <3> QED BY <2>1, <2>2, <3>2, <3>3, <3>4 DEF ProgressInv
  <2> QED BY <2>1, <2>2 DEF ProgressInv
<1>13. CASE SendHash
  <2>1. /\ pc = "hash" /\ pc' = "switch" /\ UNCHANGED <<kind, snap, target, whole>>
        /\ Payload' = Payload
    BY <1>13 DEF SendHash, Send, Payload
  <2>2. CASE whole
    <3>1. eff' = StoreHash(eff, kind, Payload)
      BY <1>13, <2>1, <2>2 DEF SendHash, Send, Deliver, LostInv
    <3>2. eff'.linear = eff.linear /\ eff'.have = eff.have /\ eff'.loaded = eff.loaded
      BY <1>1, <3>1, HashEffect
    <3>3. LoadedAs(kind, Payload)' = LoadedAs(kind, Payload) BY <2>1, <3>2 DEF LoadedAs
    <3> QED BY <2>1, <2>2, <3>2, <3>3 DEF ProgressInv
  <2> QED BY <2>1, <2>2 DEF ProgressInv
<1>14. CASE SendSwitch
  <2>1. pc' = "next" BY <1>14 DEF SendSwitch, Send
  <2> QED BY <2>1 DEF ProgressInv
<1>15. CASE UNCHANGED vars BY <1>2, <1>15 DEF vars
<1> QED
  BY <1>3, <1>4, <1>5, <1>6, <1>7, <1>8, <1>9, <1>10, <1>11, <1>12, <1>13, <1>14, <1>15
  DEF Next, Environment, MainStep, SyncStep, MainLaunch

LEMMA TargetStays ==
  /\ AppInv /\ EffectInv /\ RestInv /\ MarkedInv /\ LostInv /\ LostInv' /\ TargetInv
  /\ [Next]_vars
  => TargetInv'
<1> SUFFICES ASSUME AppInv, EffectInv, RestInv, MarkedInv, LostInv, LostInv', TargetInv,
                    [Next]_vars,
                    Sending', whole', kind' = "hrir",
                    "hrir" \notin dirty' \union forced', ~setReady'
             PROVE  (SwitchedOn <=> ToPlay("hrir"))' /\ Sought'
  BY DEF TargetInv
<1> USE DEF appVars, syncVars, rateVars, history, bounds, setVars, Stages, Sending
<1>0. "hrir" \in Kinds
  <2>1. kind' \in Kinds BY AppStays DEF AppInv
  <2> QED BY <2>1
<1>1. ASSUME Sending, whole, UNCHANGED <<kind, snap, target, onSpeaker, prepared, failures>>,
             reading \subseteq reading', dirty \subseteq dirty', forced \subseteq forced',
             ~setReady,
             prefs'.file["hrir"] = prefs.file["hrir"], prefs'.on["hrir"] = prefs.on["hrir"]
      PROVE  (SwitchedOn <=> ToPlay("hrir"))' /\ Sought'
  BY <1>1 DEF TargetInv, SwitchedOn, ToPlay, Sought
<1>2. CASE ChangePreference
  <2>1. ASSUME NEW k \in Kinds, NEW f \in FilesOf[k], NEW on \in BOOLEAN,
               prefs' = [prefs EXCEPT !.file[k] = f, !.on[k] = on],
               dirty' = dirty \union {k},
               failures' = IF k = "hrir" /\ prefs' # prefs THEN {} ELSE failures
        PROVE  /\ prefs'.file["hrir"] = prefs.file["hrir"]
               /\ prefs'.on["hrir"] = prefs.on["hrir"] /\ failures' = failures
               /\ dirty \subseteq dirty'
    <3>1. k # "hrir" BY <2>1
    <3> QED BY <1>0, <2>1, <3>1 DEF AppInv, Settings
  <2>2. ASSUME prefs' = [prefs EXCEPT !.linear = ~@],
               dirty' = dirty \union ({"geq"} \intersect Kinds), failures' = failures
        PROVE  prefs'.file = prefs.file /\ prefs'.on = prefs.on /\ dirty \subseteq dirty'
    BY <2>2 DEF AppInv, Settings
  <2>3. /\ prefs'.file["hrir"] = prefs.file["hrir"] /\ prefs'.on["hrir"] = prefs.on["hrir"]
        /\ failures' = failures /\ dirty \subseteq dirty'
    BY <1>2, <2>1, <2>2 DEF ChangePreference
  <2>4. UNCHANGED <<forced, syncVars, onSpeaker, prepared, reading, setReady, whole>>
    BY <1>2 DEF ChangePreference
  <2> QED BY <1>1, <2>3, <2>4
<1>3. CASE SoftReboot BY <1>0, <1>3 DEF SoftReboot
<1>3a. CASE ChangeRate BY <1>1, <1>3a DEF ChangeRate
<1>3b. CASE ReloadIfRateChanged BY <1>1, <1>3b DEF ReloadIfRateChanged
<1>4. CASE ServerDies \/ HardReboot
  BY <1>4 DEF ServerDies, HardReboot, RebootEngine
<1>5. CASE MainLaunch
  <2>1. /\ UNCHANGED <<prefs, dirty, syncVars, prepared, reading, failures>>
        /\ (whole' = whole \/ RebootEngine) /\ forced \subseteq forced'
    BY <1>5, Launches
  <2>2. whole /\ eff.alive /\ present BY <2>1 DEF RebootEngine, LostInv, RestInv
  <2>3. CASE HearPreferences BY <1>1, <2>1, <2>2, <2>3 DEF HearPreferences
  <2>4. CASE HearSetReady BY <2>2, <2>4 DEF HearSetReady, SyncWithPreferences
  <2>5. CASE ChangeRoute
    <3>1. ~prefs.on["hrir"] BY <2>2, <2>5 DEF ChangeRoute, SyncWithPreferences
    <3>2. ~SwitchedOn
      BY <2>1, <2>2, <2>5, <3>1 DEF TargetInv, ToPlay, ChangeRoute
    <3> QED BY <2>1, <3>1, <3>2 DEF SwitchedOn, ToPlay, Sought
  <2> QED BY <1>5, <2>3, <2>4, <2>5 DEF MainLaunch
<1>6. CASE ReadHeadSet BY <1>6 DEF ReadHeadSet
<1>7. CASE BeginSync \/ EndSync BY <1>7 DEF BeginSync, EndSync
<1>8. CASE BeginKind
  <2>1. /\ UNCHANGED <<eff, prefs, dirty, onSpeaker, prepared, failures, snap>> /\ pc = "next"
        /\ target' = IF ~HeadSetUsable THEN 0 ELSE IF eff.alive THEN eff.fs ELSE FallbackRate
        /\ reading' = reading \union Requested
    BY <1>8 DEF BeginKind
  <2>2. /\ snap.file["hrir"] = prefs.file["hrir"]
        /\ snap.on["hrir"] = prefs.on["hrir"]
    BY <1>0, <2>1 DEF MarkedInv
  <2>3. eff.fs # 0 /\ FallbackRate # 0
    BY RatesAssumption DEF EffectInv, EffectType
  <2>4. target' # 0 <=> ToPlay("hrir")
    BY <2>1, <2>2, <2>3 DEF HeadSetUsable, ToPlay
  <2>5. ToPlay("hrir")' <=> ToPlay("hrir") BY <2>1 DEF ToPlay
  <2>6. SwitchedOn' <=> ToPlay("hrir")
    BY <2>1, <2>2, <2>4 DEF SwitchedOn, ToPlay
  <2>7. Sought' BY <2>1, <2>2 DEF Sought, Requested
  <2> QED BY <2>5, <2>6, <2>7
<1>9. CASE SendPhase BY <1>1, <1>9 DEF SendPhase
<1>10. CASE AskHash BY <1>1, <1>10 DEF AskHash
<1>11. CASE SendHeader \/ SendCommit \/ SendHash \/ SendSwitch
  BY <1>1, <1>11 DEF SendHeader, SendCommit, SendHash, SendSwitch, Send
<1>12. CASE UNCHANGED vars BY <1>1, <1>12 DEF vars
<1> QED
  BY <1>2, <1>3, <1>3a, <1>3b, <1>4, <1>5, <1>6, <1>7, <1>8, <1>9, <1>10, <1>11, <1>12
  DEF Next, Environment, MainStep, SyncStep, MainLaunch

(* What a step that sends nothing of the kind keeps.                         *)
LEMMA OthersStaySettled ==
    ASSUME NEW k \in Kinds, Settled(k),
           prefs'.file[k] = prefs.file[k], prefs'.on[k] = prefs.on[k],
           k = "geq" => prefs'.linear = prefs.linear,
           k = "hrir" => /\ UNCHANGED <<onSpeaker, prepared, failures>>
                         /\ reading \subseteq reading',
           eff'.switch[k] <=> eff.switch[k], eff'.loaded[k] = eff.loaded[k],
           MadeFor(k)' = MadeFor(k),
           k = "hrir" /\ ~binauralMissing' => ~binauralMissing,
           MadeFor(k) = eff.fs => MadeFor(k) = eff'.fs \/ playback',
           Remembered(k, ToPlay(k)) /\ playback => playback' \/ MadeFor(k) = eff'.fs
    PROVE  Settled(k)'
<1>0. ToPlay(k)' <=> ToPlay(k) BY DEF ToPlay
<1>1. ~ToPlay(k)' => ~eff'.switch[k] BY <1>0 DEF Settled
<1>2. Good(k, ToPlay(k))' => Good(k, ToPlay(k)) BY <1>0 DEF Good
<1>3. Good(k, ToPlay(k))' /\ Outcome[prefs'.file[k]] = "ok" =>
          /\ eff'.switch[k]
          /\ eff'.loaded[k] = <<prefs'.file[k], IF k = "geq" /\ prefs'.linear THEN 1
                                    ELSE IF Rated(k) THEN MadeFor(k)' ELSE 0>>
  BY <1>2 DEF Settled
<1>4. Remembered(k, ToPlay(k))' => Remembered(k, ToPlay(k)) BY <1>0 DEF Remembered
<1>5. Remembered(k, ToPlay(k))' =>
          MadeFor(k)' \in Rates /\ (MadeFor(k)' = eff'.fs \/ playback')
  BY <1>4 DEF Settled
<1>6. k = "hrir" => Sought' BY DEF Settled, Sought
<1> QED BY <1>1, <1>3, <1>5, <1>6 DEF Settled

(* The last message of a kind settles it.                                    *)
LEMMA SwitchSettles ==
    ASSUME AppInv, EffectInv, RestInv, MarkedInv, LostInv, RateInv, ProgressInv, TargetInv,
           SendSwitch, whole, kind \notin overlapped, kind \notin dirty, kind \notin forced,
           kind = "hrir" => ~setReady
    PROVE  Settled(kind)'
<1>1. /\ kind \in Kinds /\ eff \in EffectType /\ SwitchedOn \in BOOLEAN
      /\ Payload = <<snap.file[kind], IF Rated(kind) THEN target ELSE 0>>
  BY SwitchIsOnOrOff DEF AppInv, EffectInv, Payload
<1>2. /\ pc = "switch" /\ Sending /\ eff.alive
      /\ UNCHANGED <<prefs, kind, rateVars, playback, setVars>>
      /\ eff' = SetSwitch(eff, kind, SwitchedOn)
  BY DEF SendSwitch, Send, Deliver, Sending, Stages, LostInv, appVars
<1>3. /\ snap.file[kind] = prefs.file[kind] /\ snap.on[kind] = prefs.on[kind]
      /\ kind = "geq" => snap.linear = prefs.linear
  BY <1>1, <1>2 DEF MarkedInv
<1>4. SwitchedOn <=> ToPlay(kind)
  <2>1. CASE kind = "hrir" BY <1>2, <2>1 DEF TargetInv
  <2>2. CASE kind # "hrir" BY <1>3, <2>2 DEF SwitchedOn, ToPlay
  <2> QED BY <2>1, <2>2
<1>5. /\ eff'.loaded = eff.loaded /\ eff'.fs = eff.fs
      /\ ~ToPlay(kind) => ~eff'.switch[kind]
      /\ ToPlay(kind) /\ eff.have[kind] => eff'.switch[kind]
  BY <1>1, <1>2, <1>4, SwitchEffect
<1>6. MadeFor(kind)' = MadeFor(kind) /\ (ToPlay(kind)' <=> ToPlay(kind))
      /\ (Good(kind, ToPlay(kind))' <=> Good(kind, ToPlay(kind)))
      /\ (Remembered(kind, ToPlay(kind))' <=> Remembered(kind, ToPlay(kind)))
  BY <1>2 DEF MadeFor, Good, Remembered, rateVars, ToPlay, setVars
<1>7. Remembered(kind, ToPlay(kind)) =>
          MadeFor(kind) \in Rates /\ MadeFor(kind) = target /\ (target = eff.fs \/ playback)
  BY <1>2, <1>4 DEF RateInv, LostInv, Remembered, Rated, SwitchedOn
<1>8. ASSUME Good(kind, ToPlay(kind)), Outcome[prefs.file[kind]] = "ok"
      PROVE  /\ eff'.switch[kind]
             /\ eff'.loaded[kind] = <<prefs.file[kind],
                    IF kind = "geq" /\ prefs.linear THEN 1
                    ELSE IF Rated(kind) THEN MadeFor(kind) ELSE 0>>
  <2>1. eff.have[kind] /\ eff.loaded[kind] = LoadedAs(kind, Payload)
    BY <1>2, <1>3, <1>4, <1>8 DEF ProgressInv, Good
  <2>2. Rated(kind) => Remembered(kind, ToPlay(kind))
    BY <1>8 DEF Rated, Remembered, Good
  <2>3. kind = "geq" => eff.linear = prefs.linear /\ ~Rated(kind)
    BY <1>2, <1>3 DEF ProgressInv, Rated
  <2> QED BY <1>1, <1>3, <1>5, <1>7, <1>8, <2>1, <2>2, <2>3 DEF LoadedAs, Good
<1>9. kind = "hrir" => Sought'
  <2>1. kind = "hrir" => Sought BY <1>2 DEF TargetInv
  <2> QED BY <1>2, <2>1 DEF Sought, setVars
<1> QED BY <1>2, <1>5, <1>6, <1>7, <1>8, <1>9 DEF Settled

LEMMA SettledStays ==
  /\ AppInv /\ EffectInv /\ RestInv /\ MarkedInv /\ LostInv /\ RateInv /\ ProgressInv
  /\ TargetInv /\ SettledInv /\ [Next]_vars
  => SettledInv'
<1> SUFFICES ASSUME AppInv, EffectInv, RestInv, MarkedInv, LostInv, RateInv, ProgressInv,
                    TargetInv, SettledInv, [Next]_vars,
                    NEW k \in Kinds, k \notin lost', k \notin overlapped', ~Pending(k)'
             PROVE  Settled(k)'
  BY DEF SettledInv
<1> USE DEF appVars, syncVars, rateVars, history, bounds, setVars, Stages, Sending
<1>1. /\ eff \in EffectType /\ kind \in Kinds /\ eff.fs \in Rates
      /\ Payload \in Payloads /\ SwitchedOn \in BOOLEAN /\ snap.linear \in BOOLEAN
  BY PayloadChosen, SwitchIsOnOrOff DEF EffectInv, EffectType, AppInv, Settings
<1>2. /\ k \notin dirty' /\ k \notin forced' /\ k \notin todo' /\ k \notin again'
      /\ ~(Sending' /\ kind' = k) /\ ~(k = "hrir" /\ setReady')
  BY DEF Pending
<1>3. k \notin lost /\ k \notin overlapped /\ ~Pending(k) => Settled(k)
  BY DEF SettledInv
<1>4. ASSUME k \notin lost, k \notin overlapped, ~Pending(k),
             UNCHANGED <<eff, prefs, rateVars, playback>>,
             k = "hrir" => /\ UNCHANGED <<onSpeaker, prepared, failures>>
                           /\ reading \subseteq reading'
      PROVE  Settled(k)'
  BY <1>3, <1>4, OthersStaySettled DEF MadeFor
<1>5. CASE ChangePreference
  <2>1. /\ UNCHANGED <<eff, forced, playback, syncVars, rateVars, history, onSpeaker, prepared,
                       reading, setReady>>
        /\ dirty \subseteq dirty'
    BY <1>5 DEF ChangePreference
  <2>2. Settled(k) BY <1>2, <1>3, <2>1 DEF Pending
  <2>3. /\ prefs'.file[k] = prefs.file[k] /\ prefs'.on[k] = prefs.on[k]
        /\ k = "geq" => prefs'.linear = prefs.linear
        /\ k = "hrir" => failures' = failures
    <3>1. ASSUME NEW l \in Kinds, NEW f \in FilesOf[l], NEW on \in BOOLEAN,
                 prefs' = [prefs EXCEPT !.file[l] = f, !.on[l] = on],
                 dirty' = dirty \union {l},
                 failures' = IF l = "hrir" /\ prefs' # prefs THEN {} ELSE failures
          PROVE  /\ prefs'.file[k] = prefs.file[k] /\ prefs'.on[k] = prefs.on[k]
                 /\ prefs'.linear = prefs.linear
                 /\ k = "hrir" => failures' = failures
      <4>1. k # l BY <1>2, <3>1
      <4> QED BY <3>1, <4>1 DEF AppInv, Settings
    <3>2. ASSUME prefs' = [prefs EXCEPT !.linear = ~@],
                 dirty' = dirty \union ({"geq"} \intersect Kinds)
          PROVE  k # "geq" /\ prefs'.file = prefs.file /\ prefs'.on = prefs.on
      <4>1. k # "geq" BY <1>2, <3>2
      <4> QED BY <3>2, <4>1 DEF AppInv, Settings
    <3> QED BY <1>5, <3>1, <3>2 DEF ChangePreference
  <2> QED BY <2>1, <2>2, <2>3, OthersStaySettled DEF MadeFor
<1>6. CASE SoftReboot BY <1>2, <1>6 DEF SoftReboot
<1>7. CASE ChangeRate
  <2>1. UNCHANGED <<prefs, dirty, forced, setVars, syncVars, rateVars, history>> /\ playback'
    BY <1>7 DEF ChangeRate
  <2>2. eff'.switch = eff.switch /\ eff'.loaded = eff.loaded BY <1>1, <1>7 DEF ChangeRate, EffectType
  <2>3. Settled(k) BY <1>2, <1>3, <2>1 DEF Pending
  <2> QED BY <2>1, <2>2, <2>3, OthersStaySettled DEF MadeFor
<1>8. CASE ServerDies \/ HardReboot BY <1>8 DEF ServerDies, HardReboot, RebootEngine
<1>9. CASE MainLaunch
  <2>1. CASE RebootEngine BY <2>1 DEF RebootEngine
  <2>2. CASE UNCHANGED <<eff, present, lost, whole>>
    <3>1. /\ UNCHANGED <<eff, prefs, dirty, playback, syncVars, rateVars, history, prepared,
                         reading, failures>>
          /\ forced \subseteq forced'
      BY <1>9, <2>2, Launches
    <3>2. eff.alive /\ present BY <3>1 DEF LostInv, RestInv
    <3>3. CASE k # "hrir" BY <1>2, <1>4, <3>1, <3>3 DEF Pending
    <3>4. CASE k = "hrir" /\ HearPreferences
      BY <1>2, <1>4, <3>1, <3>4 DEF Pending, HearPreferences
    <3>5. CASE k = "hrir" /\ HearSetReady
      BY <1>2, <3>2, <3>5 DEF HearSetReady, SyncWithPreferences
    <3>6. CASE k = "hrir" /\ ChangeRoute
      <4>1. ~prefs.on["hrir"] /\ setReady' = setReady
        BY <1>2, <3>2, <3>6 DEF ChangeRoute, SyncWithPreferences
      <4>2. Settled(k) BY <1>2, <1>3, <3>1, <4>1 DEF Pending
      <4>3. ~eff.switch[k] /\ ~ToPlay(k) /\ ~ToPlay(k)'
        BY <3>1, <3>6, <4>1, <4>2 DEF Settled, ToPlay
      <4> QED BY <3>1, <3>6, <4>1, <4>3 DEF Settled, Good, Remembered, Sought
    <3> QED BY <1>9, <3>3, <3>4, <3>5, <3>6 DEF MainLaunch
  <2> QED BY <1>9, <2>1, <2>2, Launches
<1>10. CASE ReloadIfRateChanged
  <2>1. /\ UNCHANGED <<eff, prefs, dirty, setVars, syncVars, rateVars, lost>>
        /\ forced \subseteq forced' /\ overlapped \subseteq overlapped' /\ ~playback'
    BY <1>10 DEF ReloadIfRateChanged
  <2>2. Settled(k) BY <1>2, <1>3, <2>1 DEF Pending
  <2>3. eff.alive BY <2>1 DEF LostInv
  <2>4. Remembered(k, ToPlay(k)) => MadeFor(k) = eff.fs
    <3>1. ASSUME Remembered(k, ToPlay(k)), MadeFor(k) # eff.fs PROVE FALSE
      <4>1. MadeFor(k) # 0 BY <2>2, <3>1, RatesAssumption DEF Settled
      <4>2. \/ k = "ir" /\ eff.fs # convolverSampleRate
            \/ k = "hrir" /\ binauralSampleRate \notin {0, eff.fs}
        BY <3>1, <4>1 DEF MadeFor, Remembered
      <4> QED BY <1>2, <1>10, <2>3, <4>2 DEF ReloadIfRateChanged
    <3> QED BY <3>1
  <2> QED BY <2>1, <2>2, <2>4, OthersStaySettled DEF MadeFor
<1>11. CASE BeginSync
  <2>1. /\ UNCHANGED <<eff, prefs, playback, setVars, rateVars, history>> /\ pc = "idle"
        /\ todo' = dirty /\ again' = forced
    BY <1>11 DEF BeginSync
  <2>2. todo = {} /\ again = {} BY <2>1 DEF MarkedInv
  <2> QED BY <1>2, <1>4, <2>1, <2>2 DEF Pending
<1>12. CASE BeginKind
  <2>1. /\ UNCHANGED <<eff, prefs, dirty, forced, playback, rateVars, lost, onSpeaker,
                       prepared, failures, setReady>>
        /\ reading \subseteq reading'
        /\ pc = "next" /\ pc' \in {"phase", "ask"}
        /\ todo \subseteq todo' \union {kind'} /\ again \subseteq again' \union {kind'}
        /\ overlapped \subseteq overlapped' \union {kind'}
    BY <1>12 DEF BeginKind
  <2>2. k # kind' BY <1>2, <2>1
  <2> QED BY <1>2, <1>4, <2>1, <2>2 DEF Pending
<1>13. CASE SendPhase
  <2>1. /\ UNCHANGED <<prefs, dirty, forced, todo, again, playback, kind, setVars, rateVars,
                       history>>
        /\ pc \in Stages /\ pc' \in Stages /\ kind = "geq"
    BY <1>13 DEF SendPhase, AppInv
  <2>2. eff'.switch = eff.switch /\ eff'.loaded = eff.loaded /\ eff'.fs = eff.fs
    BY <1>1, <1>13, <2>1, PhaseEffect DEF SendPhase, Deliver
  <2>3. Settled(k) BY <1>2, <1>3, <2>1 DEF Pending
  <2> QED BY <2>1, <2>2, <2>3, OthersStaySettled DEF MadeFor
<1>14. CASE AskHash
  <2>1. /\ UNCHANGED <<eff, prefs, dirty, forced, todo, again, playback, kind, setVars, history>>
        /\ pc \in Stages /\ pc' \in Stages
        /\ kind # "ir" => convolverSampleRate' = convolverSampleRate
        /\ kind # "hrir" => binauralSampleRate' = binauralSampleRate
                            /\ (binauralMissing' <=> binauralMissing)
    BY <1>14 DEF AskHash, RestInv
  <2>2. k # kind /\ Settled(k) BY <1>2, <1>3, <2>1 DEF Pending
  <2>3. Remembered(k, ToPlay(k)) => k \in {"ir", "hrir"} BY DEF Remembered
  <2>4. CASE k \in {"ir", "hrir"}
    <3>1. MadeFor(k)' = MadeFor(k) /\ (k = "hrir" => (binauralMissing' <=> binauralMissing))
      BY <2>1, <2>2, <2>4 DEF MadeFor
    <3> QED BY <2>1, <2>2, <3>1, OthersStaySettled
  <2>5. CASE k \notin {"ir", "hrir"}
    BY <2>1, <2>2, <2>5 DEF Settled, Good, Rated, Remembered, ToPlay
  <2> QED BY <2>4, <2>5
<1>15. CASE SendHeader \/ SendCommit \/ SendHash
  <2>1. /\ UNCHANGED <<prefs, dirty, forced, todo, again, playback, kind, setVars, rateVars,
                       history>>
        /\ pc \in Stages /\ pc' \in Stages
    BY <1>15 DEF SendHeader, SendCommit, SendHash, Send
  <2>2. k # kind /\ Settled(k) BY <1>2, <1>3, <2>1 DEF Pending
  <2>3. eff'.fs = eff.fs BY <1>15, MessagesKeep
  <2>4. (eff'.switch[k] <=> eff.switch[k]) /\ eff'.loaded[k] = eff.loaded[k]
    BY <1>1, <1>15, <2>2, MessagesOfOthers
  <2> QED BY <2>1, <2>2, <2>3, <2>4, OthersStaySettled DEF MadeFor
<1>16. CASE SendSwitch
  <2>1. /\ UNCHANGED <<prefs, dirty, forced, todo, again, playback, kind, whole, overlapped,
                       setVars, rateVars>>
        /\ pc = "switch" /\ lost' = IF whole THEN lost \ {kind} ELSE lost
    BY <1>16 DEF SendSwitch, Send
  <2>2. whole BY <2>1 DEF LostInv
  <2>3. CASE k = kind BY <1>2, <1>16, <2>1, <2>2, <2>3, SwitchSettles
  <2>4. CASE k # kind
    <3>1. Settled(k) BY <1>2, <1>3, <2>1, <2>4 DEF Pending
    <3>2. eff'.fs = eff.fs BY <1>16, MessagesKeep
    <3>3. (eff'.switch[k] <=> eff.switch[k]) /\ eff'.loaded[k] = eff.loaded[k]
      BY <1>1, <1>16, <2>4, SwitchEffect DEF SendSwitch, Send, Deliver
    <3> QED BY <2>1, <3>1, <3>2, <3>3, OthersStaySettled DEF MadeFor
  <2> QED BY <2>3, <2>4
<1>17. CASE EndSync
  <2>1. /\ UNCHANGED <<eff, prefs, dirty, forced, todo, again, playback, setVars, rateVars,
                       lost, overlapped>>
        /\ pc = "next"
    BY <1>17 DEF EndSync
  <2> QED BY <1>2, <1>4, <2>1 DEF Pending
<1>18. CASE UNCHANGED vars
  <2>1. UNCHANGED <<eff, appVars, setVars, syncVars, rateVars, history>> BY <1>18 DEF vars
  <2> QED BY <1>2, <1>4, <2>1 DEF Pending
<1>19. CASE ReadHeadSet
  <2>1. /\ UNCHANGED <<eff, prefs, dirty, forced, playback, syncVars, rateVars, history>>
        /\ setReady'
    BY <1>19 DEF ReadHeadSet
  <2> QED BY <1>2, <1>4, <2>1 DEF Pending
<1> QED
  BY <1>5, <1>6, <1>7, <1>8, <1>9, <1>10, <1>11, <1>12, <1>13, <1>14, <1>15, <1>16, <1>17, <1>18,
     <1>19
  DEF Next, Environment, MainStep, SyncStep, MainLaunch

-----------------------------------------------------------------------------
LEMMA PlayStarts == Init => PlayInv
<1> SUFFICES ASSUME Init PROVE PlayInv OBVIOUS
<1>1. EmptyEffect(eff) /\ eff.alive /\ eff.fs = StartRate
  BY NewIsEmpty, RatesAssumption DEF Init, NewEffect
<1>2. MarkedInv /\ LostInv /\ RateInv /\ ProgressInv /\ TargetInv
  BY <1>1 DEF Init, MarkedInv, LostInv, RateInv, ProgressInv, TargetInv, Sending, Stages
<1>3. HaveInv BY <1>1 DEF EmptyEffect, HaveInv
<1>4. ASSUME NEW k \in Kinds PROVE Settled(k)
  <2>1. ~prefs.on[k] /\ ~ToPlay(k) BY DEF Init, DefaultSettings, ToPlay
  <2>2. ~eff.switch[k] BY <1>1 DEF EmptyEffect
  <2>3. Remembered(k, ToPlay(k)) => MadeFor(k) = StartRate
    BY <2>1 DEF Remembered, MadeFor, Init
  <2> QED BY <1>1, <2>1, <2>2, <2>3, RatesAssumption DEF Settled, Good, Sought
<1> QED BY <1>2, <1>3, <1>4 DEF PlayInv, SettledInv

(* With nothing under way, an effect that was sent a namespace in full runs  *)
(* what the user chose, in its phase and for the rate of the output          *)
(* (syncWithPreferences and reloadConvolverIfSampleRateChanged against every *)
(* death, reboot and rate change in between), for any kinds, files and rates *)
(* and any number of changes.                                                *)
THEOREM WhatIsChosenPlays == Spec => []PlaysWhatIsChosen
<1>1. AppInv /\ EffectInv /\ RestInv /\ HashInv /\ PlayInv /\ [Next]_vars => PlayInv'
  <2> SUFFICES ASSUME AppInv, EffectInv, RestInv, HashInv, PlayInv, [Next]_vars PROVE PlayInv'
    OBVIOUS
  <2>1. /\ MarkedInv /\ LostInv /\ HaveInv /\ RateInv /\ ProgressInv /\ TargetInv /\ SettledInv
        /\ HashNamesLoaded
    BY DEF PlayInv, HashInv
  <2>2. LostInv' BY <2>1, LostStays
  <2> QED
    BY <2>1, <2>2, MarkedStays, HaveStays, RateStays, ProgressStays, TargetStays,
       SettledStays
    DEF PlayInv
<1>2. AppInv /\ EffectInv /\ RestInv /\ PlayInv => PlaysWhatIsChosen
  <2> SUFFICES ASSUME AppInv, EffectInv, RestInv, MarkedInv, SettledInv, Quiet, eff.alive,
                      NEW k \in Kinds, k \notin lost, k \notin overlapped
               PROVE  /\ ~ToPlay(k) => ~eff.switch[k]
                      /\ /\ ToPlay(k)
                         /\ Outcome[prefs.file[k]] = "ok"
                         /\ k = "hrir" => ~binauralMissing
                         => eff.switch[k] /\ eff.loaded[k] = Wanted(k)
                      /\ k = "hrir" /\ prefs.on[k] /\ ~onSpeaker =>
                            prefs.file[k] \in prepared \union failures
    BY DEF PlaysWhatIsChosen, PlayInv
  <2>1. ~Pending(k)
    BY DEF Quiet, MarkedInv, RestInv, Pending, Sending, Stages
  <2>2. Settled(k) BY <2>1 DEF SettledInv
  <2>3. Rated(k) /\ Good(k, ToPlay(k)) => MadeFor(k) = eff.fs
    BY <2>2 DEF Settled, Remembered, Rated, Good, Quiet
  <2>4. k = "hrir" /\ prefs.on[k] /\ ~onSpeaker => prefs.file[k] \in prepared \union failures
    BY <2>2 DEF Settled, Sought, Quiet
  <2> QED BY <2>2, <2>3, <2>4 DEF Settled, Good, Wanted, Rated
<1> QED
  BY <1>1, <1>2, Starts, RestStarts, PlayStarts, AppStays, LoadedStays, RestStays,
     HashesStart, HashesStay, PTL DEF Spec
=============================================================================
