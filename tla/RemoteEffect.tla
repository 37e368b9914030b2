---------------------------- MODULE RemoteEffect ----------------------------
(***************************************************************************)
(* Root mode: JamesDspRemoteEngine in the app and rv4a_context in the audio  *)
(* server.  Small settings are single messages; a large payload (GraphicEQ   *)
(* curve, DDC file, Liveprog script, impulse response, head set) is a header, *)
(* its parts and a commit, followed by the hash of what was sent and the     *)
(* switch.  The app reads the hash back and pushes again only when it        *)
(* differs.  Every message goes to the effect instance of that moment, which *)
(* may have died with the audio server or been replaced in between.          *)
(***************************************************************************)
EXTENDS Naturals, FiniteSets

CONSTANTS
    Kinds,       \* of payload, out of "geq", "ddc", "prog", "ir", "hrir"
    FilesOf,     \* the files that can be chosen for each kind
    Outcome,     \* what the engine does with each file, see Commit
    NoFile,
    Rates,       \* working rates the device can give the engine
    StartRate,
    FallbackRate,\* what the app takes for a rate it cannot read (48000)
    MaxChanges,  \* bound: changes of a setting or of the rate
    MaxFaults    \* bound: deaths of the audio server, reboots of the effect

(* The files of head sets, which are read and prepared in the background.    *)
HeadSets == IF "hrir" \in Kinds THEN FilesOf["hrir"] ELSE {}

Files == UNION {FilesOf[k] : k \in Kinds}
Outcomes == {"ok", "refused", "kept", "geometry", "empty"}

(* The kinds that are made for a rate.                                      *)
Rated(k) == k \in {"ir", "hrir"}

ASSUME KindsAssumption ==
    Kinds # {} /\ Kinds \subseteq {"geq", "ddc", "prog", "ir", "hrir"}
ASSUME FilesAssumption ==
    /\ \A k \in Kinds : FilesOf[k] # {}
    /\ Outcome \in [Files -> Outcomes]
    /\ NoFile \notin Files
(* Only samples have a geometry; a head set is never taken out of its place; *)
(* whatever is read of a curve is installed.                                 *)
ASSUME OutcomeAssumption ==
    \A k \in Kinds : \A f \in FilesOf[k] :
        /\ Outcome[f] = "geometry" => Rated(k)
        /\ Outcome[f] = "refused" => k # "hrir"
        /\ k = "geq" => Outcome[f] \in {"ok", "empty"}
ASSUME RatesAssumption ==
    Rates \subseteq Nat \ {0} /\ StartRate \in Rates /\ FallbackRate \in Rates
ASSUME BoundsAssumption == MaxChanges \in Nat /\ MaxFaults \in Nat

(* A payload is a file, made for a rate where the kind depends on it; a     *)
(* loaded curve is a file and the phase mode it was built in.                *)
Nothing == <<NoFile, 0>>
Payloads == (Files \union {NoFile}) \X (Rates \union {0, 1})
BufferOf(k) == IF Rated(k) THEN k ELSE "string"
(* The checksum of the empty string is 0, as is "nothing loaded".            *)
HashOf(p) == IF Outcome[p[1]] = "empty" THEN Nothing ELSE p

VARIABLES
    eff,         \* the effect instance
    present,     \* the app holds an effect (effect # null)
    prefs,       \* the settings: file and switch of each kind, phase mode
    dirty,       \* namespaces changed since a sync last read them
    forced,      \* namespaces the next sync is forced to send
    posted,      \* PREFERENCES_UPDATED on its way to the main thread
    playback,    \* a playback configuration change on its way
    queued,      \* a sync waits for the mutex
    onSpeaker,   \* the output is the phone's speaker or HDMI
    prepared,    \* head sets prepared, in memory or on disk
    reading,     \* head sets the worker is asked to read
    failures,    \* head sets it could not, since the user last chose one
    setReady,    \* BINAURAL_SET_READY on its way
    pc,          \* of the sync
    snap,        \* the settings it read
    todo,        \* the changed namespaces it has still to send
    again,       \* the forced ones, which it sends after them
    kind,        \* the one it is sending
    target,      \* the engine's rate, as read for it; 0 for no head set
    convolverSampleRate, binauralSampleRate, binauralMissing,
    whole,       \* no effect was replaced while this namespace was sent
    lost,        \* namespaces not sent in full to the present effect
    overlapped,  \* kinds whose rate was compared while they were being sent
    changes, faults

appVars == <<prefs, dirty, forced, posted, playback, queued>>
setVars == <<onSpeaker, prepared, reading, failures, setReady>>
syncVars == <<pc, snap, todo, again, kind, target>>
rateVars == <<convolverSampleRate, binauralSampleRate, binauralMissing>>
history == <<whole, lost, overlapped>>
bounds == <<changes, faults>>
vars == <<eff, present, appVars, setVars, syncVars, rateVars, history, bounds>>

EffectType ==
    [alive : BOOLEAN, fs : Rates, linear : BOOLEAN,
     buffer : [{"string", "ir", "hrir"} -> Payloads],
     loaded : [Kinds -> Payloads], have : [Kinds -> BOOLEAN],
     hrirLastOk : BOOLEAN, hash : [Kinds -> Payloads],
     switch : [Kinds -> BOOLEAN]]

(* EffectCreate, and the SET_CONFIG that follows with the device's rate.     *)
NewEffect(rate) ==
    [alive |-> TRUE, fs |-> rate, linear |-> FALSE,
     buffer |-> [b \in {"string", "ir", "hrir"} |-> Nothing],
     loaded |-> [k \in Kinds |-> Nothing],
     have |-> [k \in Kinds |-> FALSE],
     hrirLastOk |-> FALSE,
     hash |-> [k \in Kinds |-> Nothing],
     switch |-> [k \in Kinds |-> FALSE]]

(* An effect that died with the audio server, or cannot be created: nothing  *)
(* reaches it, nothing can be read from it.                                  *)
Dead(rate) == [NewEffect(rate) EXCEPT !.alive = FALSE]

Settings == [file : [Kinds -> Files], on : [Kinds -> BOOLEAN], linear : BOOLEAN]

DefaultSettings ==
    [file |-> [k \in Kinds |-> CHOOSE f \in FilesOf[k] : TRUE],
     on |-> [k \in Kinds |-> FALSE], linear |-> FALSE]

AnyKind == CHOOSE k \in Kinds : TRUE

Init ==
    /\ prefs = DefaultSettings
    /\ eff = NewEffect(StartRate)
    /\ present = TRUE
    /\ dirty = {} /\ forced = {} /\ lost = {}
    /\ posted = FALSE /\ playback = FALSE /\ queued = FALSE
    /\ onSpeaker = FALSE /\ prepared = {} /\ reading = {} /\ failures = {}
    /\ setReady = FALSE
    /\ pc = "idle" /\ snap = DefaultSettings /\ todo = {} /\ again = {}
    /\ kind = AnyKind /\ target = StartRate /\ whole = TRUE
    /\ convolverSampleRate = StartRate
    /\ binauralSampleRate = 0
    /\ binauralMissing = FALSE
    /\ overlapped = {}
    /\ changes = 0 /\ faults = 0

-----------------------------------------------------------------------------
(* The effect, EFFECT_CMD_SET_PARAM by parameter id.                         *)

NoBuffer(p) == Outcome[p[1]] \in {"empty", "geometry"}

(* 8888, 9999, 9997: what was gathered is dropped, and a buffer is made     *)
(* unless the geometry is refused (too long, or a string with no parts).     *)
Header(e, k, p) ==
    [e EXCEPT !.buffer[BufferOf(k)] = IF NoBuffer(p) THEN Nothing ELSE p,
              !.hrirLastOk = @ /\ k # "hrir"]

(* Mutant of Commit: a script that did not compile counts as loaded.        *)
CommitAnything(e, k) ==
    LET p == e.buffer[BufferOf(k)]
        outcome == Outcome[p[1]] IN
    IF p = Nothing THEN e
    ELSE [e EXCEPT
        !.buffer[BufferOf(k)] = Nothing,
        !.loaded[k] = CASE outcome = "refused" -> Nothing
                        [] outcome = "kept" -> @
                        [] k = "geq" -> <<p[1], IF e.linear THEN 1 ELSE 0>>
                        [] OTHER -> p,
        !.have[k] = TRUE,
        !.hrirLastOk = IF k = "hrir" THEN outcome = "ok" ELSE @]

(* The parts and the commit id.  A file is loaded; or "refused", with what   *)
(* was loaded before freed (DDC, impulse response, a script that does not    *)
(* compile); or "kept" out, with what was loaded still in place (a script    *)
(* without @init or @sample, a head set with values out of range).           *)
Commit(e, k) ==
    LET p == e.buffer[BufferOf(k)]
        outcome == Outcome[p[1]] IN
    IF p = Nothing THEN e
    ELSE [e EXCEPT
        !.buffer[BufferOf(k)] = Nothing,
        !.loaded[k] = CASE outcome = "refused" -> Nothing
                        [] outcome = "kept" -> @
                        [] k = "geq" -> <<p[1], IF e.linear THEN 1 ELSE 0>>
                        [] OTHER -> p,
        !.have[k] = k = "geq" \/ outcome = "ok" \/ (@ /\ k = "hrir"),
        !.hrirLastOk = IF k = "hrir" THEN outcome = "ok" ELSE @]

(* Mutant of StoreHash: the hash is kept whatever became of the payload.     *)
StoreHashAlways(e, k, p) == [e EXCEPT !.hash[k] = HashOf(p)]

(* 25000 - 25004: kept only when the payload it describes loaded.            *)
StoreHash(e, k, p) ==
    [e EXCEPT !.hash[k] =
        IF (IF k = "hrir" THEN e.hrirLastOk ELSE e.have[k]) THEN HashOf(p)
        ELSE Nothing]

(* 26011: a change rebuilds the generator, the curve has to be sent again.   *)
SetPhase(e, linear) ==
    IF linear = e.linear THEN e
    ELSE [e EXCEPT !.linear = linear, !.hash["geq"] = Nothing]

(* 1205, 1210, 1212, 1213, 26124: refused on with nothing loaded.            *)
SetSwitch(e, k, on) ==
    IF on /\ ~e.have[k] THEN e ELSE [e EXCEPT !.switch[k] = on]

(* A message reaches the effect, or fails without a trace.                  *)
Deliver(message) == eff' = IF eff.alive THEN message ELSE eff

-----------------------------------------------------------------------------
(* The user, the audio server and the main thread.                          *)

Change == changes < MaxChanges /\ changes' = changes + 1 /\ UNCHANGED faults
Fault == faults < MaxFaults /\ faults' = faults + 1 /\ UNCHANGED changes

(* A card stores a setting and broadcasts; a head set that failed gets a     *)
(* fresh try when another is chosen or the card is switched.                 *)
ChangePreference ==
    /\ Change
    /\ \/ \E k \in Kinds : \E f \in FilesOf[k], on \in BOOLEAN :
             /\ prefs' = [prefs EXCEPT !.file[k] = f, !.on[k] = on]
             /\ dirty' = dirty \union {k}
             /\ failures' = IF k = "hrir" /\ prefs' # prefs THEN {} ELSE failures
       \/ /\ prefs' = [prefs EXCEPT !.linear = ~@]
          /\ dirty' = dirty \union ({"geq"} \intersect Kinds)
          /\ UNCHANGED failures
    /\ posted' = TRUE
    /\ UNCHANGED <<eff, present, forced, playback, queued, onSpeaker, prepared,
                   reading, setReady, syncVars, rateVars, history>>

(* SOFT_REBOOT_CORE: the cache is cleared, so everything counts as changed.  *)
SoftReboot ==
    /\ Change
    /\ dirty' = Kinds
    /\ posted' = TRUE
    /\ UNCHANGED <<eff, present, prefs, forced, playback, queued, setVars,
                   syncVars, rateVars, history>>

(* SET_CONFIG at a new output: the rate is followed, payloads and hashes    *)
(* stay; the app hears of a playback configuration change.                   *)
ChangeRate ==
    /\ Change
    /\ \E r \in Rates \ {eff.fs} : eff' = [eff EXCEPT !.fs = r]
    /\ playback' = TRUE
    /\ UNCHANGED <<present, prefs, dirty, forced, posted, queued, setVars,
                   syncVars, rateVars, history>>

ServerDies ==
    /\ Fault
    /\ eff.alive
    /\ eff' = Dead(eff.fs)
    /\ lost' = Kinds
    /\ whole' = (pc = "idle")
    /\ UNCHANGED <<present, appVars, setVars, syncVars, rateVars, overlapped>>

(* Mutant of RebootEngine: the old effect is not released first.            *)
RebootUnreleased ==
    /\ \/ eff' = NewEffect(eff.fs) /\ present' = TRUE
       \/ eff' = eff /\ present' = FALSE
    /\ lost' = Kinds
    /\ whole' = (pc = "idle")

(* rebootEngine(): a blank effect, or none when it cannot be created.        *)
RebootEngine ==
    /\ \/ eff' = NewEffect(eff.fs) /\ present' = TRUE
       \/ eff' = Dead(eff.fs) /\ present' = FALSE
    /\ lost' = Kinds
    /\ whole' = (pc = "idle")

(* HARD_REBOOT_CORE.                                                         *)
HardReboot ==
    /\ Fault
    /\ present
    /\ RebootEngine
    /\ UNCHANGED <<appVars, setVars, syncVars, rateVars, overlapped>>

(* syncWithPreferences(K): rejected without an effect; checkEngine()        *)
(* replaces one that does not answer; then a sync is launched.               *)
SyncWithPreferences(K) ==
    /\ forced' = IF present THEN forced \union K ELSE forced
    /\ queued' = (queued \/ present)
    /\ IF present /\ ~eff.alive THEN RebootEngine
       ELSE UNCHANGED <<eff, present, lost, whole>>

HearPreferences ==
    /\ posted
    /\ posted' = FALSE
    /\ SyncWithPreferences({})
    /\ UNCHANGED <<prefs, dirty, playback, setVars, syncVars, rateVars, overlapped,
                   bounds>>

HearSetReady ==
    /\ setReady
    /\ setReady' = FALSE
    /\ SyncWithPreferences({"hrir"})
    /\ UNCHANGED <<prefs, dirty, posted, playback, onSpeaker, prepared, reading,
                   failures, syncVars, rateVars, overlapped, bounds>>

(* The output changes to the speaker or away from it: the upmix, if it is on, *)
(* is sent again.                                                            *)
ChangeRoute ==
    /\ "hrir" \in Kinds
    /\ Change
    /\ onSpeaker' = ~onSpeaker
    /\ IF prefs.on["hrir"] THEN SyncWithPreferences({"hrir"})
       ELSE UNCHANGED <<forced, queued, eff, present, lost, whole>>
    /\ UNCHANGED <<prefs, dirty, posted, playback, prepared, reading, failures,
                   setReady, syncVars, rateVars, overlapped>>

(* The worker has read a head set and prepared it, or could not.             *)
ReadHeadSet ==
    /\ \E f \in reading :
          /\ reading' = reading \ {f}
          /\ \/ prepared' = prepared \union {f} /\ UNCHANGED failures
             \/ failures' = failures \union {f} /\ UNCHANGED prepared
    /\ setReady' = TRUE
    /\ UNCHANGED <<eff, present, appVars, onSpeaker, syncVars, rateVars, history,
                   bounds>>

(* Mutant of ReloadIfRateChanged: only the convolver is looked at.          *)
ReloadConvolverOnly ==
    /\ playback
    /\ playback' = FALSE
    /\ LET stale == IF ~eff.alive THEN {}
                    ELSE {k \in Kinds \intersect {"ir"} : eff.fs # convolverSampleRate}
       IN forced' = forced \union stale /\ queued' = (queued \/ stale # {})
    /\ UNCHANGED overlapped
    /\ UNCHANGED <<eff, present, prefs, dirty, posted, setVars, syncVars, rateVars,
                   whole, lost, bounds>>

(* reloadConvolverIfSampleRateChanged(): the engine's rate against the rates *)
(* the impulse response and the head set were made for.                      *)
ReloadIfRateChanged ==
    /\ playback
    /\ playback' = FALSE
    /\ LET stale == IF ~eff.alive THEN {} ELSE {k \in Kinds :
                        \/ k = "ir" /\ eff.fs # convolverSampleRate
                        \/ k = "hrir" /\ binauralSampleRate \notin {0, eff.fs}}
       IN forced' = forced \union stale /\ queued' = (queued \/ stale # {})
    /\ overlapped' = overlapped \union (IF pc = "ask" THEN {kind} ELSE {})
    /\ UNCHANGED <<eff, present, prefs, dirty, posted, setVars, syncVars, rateVars,
                   whole, lost, bounds>>

-----------------------------------------------------------------------------
(* A sync, on its own thread.                                               *)

(* The order the namespaces are read and sent in.                           *)
ReadOrder == <<"hrir", "geq", "ddc", "prog", "ir">>
Before(k, l) ==
    \E m, n \in 1 .. 5 : m < n /\ ReadOrder[m] = k /\ ReadOrder[n] = l
FirstOf(K) == {k \in K : \A l \in K : ~Before(l, k)}

BeginSync ==
    /\ queued /\ pc = "idle"
    /\ queued' = FALSE
    /\ todo' = dirty /\ again' = forced
    /\ dirty' = {} /\ forced' = {}
    /\ snap' = prefs
    /\ pc' = "next"
    /\ UNCHANGED <<eff, present, prefs, posted, playback, setVars, kind, target,
                   rateVars, history, bounds>>

(* What the switch of the head set is about to be sent with: off on the     *)
(* speaker, and until the set is prepared.                                   *)
HeadSetUsable ==
    snap.on["hrir"] /\ ~onSpeaker /\ snap.file["hrir"] \in prepared

(* The head set a sync asks the worker for.                                  *)
Requested ==
    IF snap.on["hrir"] /\ ~onSpeaker
    THEN {snap.file["hrir"]} \ (prepared \union failures) ELSE {}

(* One namespace: the impulse response and the head set are made for the    *)
(* rate the engine answers with now.                                         *)
BeginKind ==
    /\ pc = "next"
    /\ \E k \in FirstOf(IF todo # {} THEN todo ELSE again) :
          /\ kind' = k
          /\ todo' = todo \ {k}
          /\ again' = IF todo # {} THEN again ELSE again \ {k}
          /\ pc' = IF k = "geq" THEN "phase" ELSE "ask"
          /\ target' = IF k = "hrir" /\ ~HeadSetUsable THEN 0
                       ELSE IF eff.alive THEN eff.fs
                       ELSE IF k = "hrir" THEN FallbackRate ELSE 0
          /\ reading' = IF k = "hrir" THEN reading \union Requested ELSE reading
          /\ overlapped' = overlapped \ {k}
    /\ whole' = eff.alive
    /\ UNCHANGED <<eff, present, appVars, onSpeaker, prepared, failures, setReady,
                   snap, rateVars, lost, bounds>>

SendPhase ==
    /\ pc = "phase"
    /\ Deliver(SetPhase(eff, snap.linear))
    /\ pc' = "ask"
    /\ UNCHANGED <<present, appVars, setVars, snap, todo, again, kind, target, rateVars,
                   history, bounds>>

Payload == <<snap.file[kind], IF Rated(kind) THEN target ELSE 0>>

(* The switch that goes with the payload.                                    *)
SwitchedOn == snap.on[kind] /\ (kind = "hrir" => target # 0)

(* The stored hash is read and compared.  A head set is not sent to an       *)
(* effect that does not answer, now or ever again.                           *)
AskHash ==
    /\ pc = "ask"
    /\ LET set == kind = "hrir" /\ SwitchedOn /\ ~binauralMissing IN
          /\ convolverSampleRate' = IF kind = "ir" THEN target ELSE convolverSampleRate
          /\ binauralSampleRate' = IF kind # "hrir" THEN binauralSampleRate
                                   ELSE IF set THEN target ELSE 0
          /\ binauralMissing' = (binauralMissing \/ (set /\ ~eff.alive))
          /\ pc' = IF /\ SwitchedOn
                      /\ kind = "hrir" => ~binauralMissing'
                      /\ eff.alive => eff.hash[kind] # HashOf(Payload)
                   THEN "header" ELSE "switch"
    /\ UNCHANGED <<eff, present, appVars, setVars, snap, todo, again, kind, target, history,
                   bounds>>

Send(from, message, to) ==
    /\ pc = from
    /\ pc' = to
    /\ Deliver(message)
    /\ UNCHANGED <<present, appVars, setVars, snap, todo, again, kind, target, rateVars,
                   whole, overlapped, bounds>>

SendHeader == Send("header", Header(eff, kind, Payload), "commit") /\ UNCHANGED lost
SendCommit == Send("commit", Commit(eff, kind), "hash") /\ UNCHANGED lost
SendHash == Send("hash", StoreHash(eff, kind, Payload), "switch") /\ UNCHANGED lost
SendSwitch ==
    /\ Send("switch", SetSwitch(eff, kind, SwitchedOn), "next")
    /\ lost' = IF whole THEN lost \ {kind} ELSE lost

EndSync ==
    /\ pc = "next" /\ todo = {} /\ again = {}
    /\ pc' = "idle" /\ snap' = DefaultSettings /\ kind' = AnyKind
    /\ target' = StartRate /\ whole' = TRUE
    /\ UNCHANGED <<eff, present, appVars, setVars, todo, again, rateVars, lost, overlapped,
                   bounds>>

-----------------------------------------------------------------------------
Environment ==
    \/ ChangePreference \/ SoftReboot \/ ChangeRate \/ ChangeRoute
    \/ ServerDies \/ HardReboot

MainStep == HearPreferences \/ HearSetReady \/ ReloadIfRateChanged

SyncStep ==
    \/ BeginSync \/ BeginKind \/ SendPhase \/ AskHash \/ SendHeader
    \/ SendCommit \/ SendHash \/ SendSwitch \/ EndSync

Next == Environment \/ MainStep \/ ReadHeadSet \/ SyncStep

Spec == Init /\ [][Next]_vars

-----------------------------------------------------------------------------
(* Properties.                                                              *)

(* Every variable stays in its type; an effect that plays is held by the app. *)
TypeOK ==
    /\ eff \in EffectType
    /\ present \in BOOLEAN /\ (eff.alive => present)
    /\ prefs \in Settings /\ snap \in Settings
    /\ dirty \subseteq Kinds /\ forced \subseteq Kinds
    /\ todo \subseteq Kinds /\ again \subseteq Kinds
    /\ {posted, playback, queued, whole, binauralMissing} \subseteq BOOLEAN
    /\ onSpeaker \in BOOLEAN /\ setReady \in BOOLEAN
    /\ prepared \subseteq HeadSets /\ reading \subseteq HeadSets
    /\ failures \subseteq HeadSets
    /\ pc \in {"idle", "next", "phase", "ask", "header", "commit", "hash", "switch"}
    /\ kind \in Kinds
    /\ target \in Rates \union {0}
    /\ convolverSampleRate \in Rates \union {0}
    /\ binauralSampleRate \in Rates \union {0}
    /\ lost \subseteq Kinds /\ overlapped \subseteq Kinds
    /\ changes \in 0 .. MaxChanges /\ faults \in 0 .. MaxFaults

(* What the hash of the kind names, as it would be loaded now.              *)
Named(k) ==
    IF k = "geq" THEN <<eff.hash[k][1], IF eff.linear THEN 1 ELSE 0>> ELSE eff.hash[k]

(* Except between a commit and its hash, a stored hash names what is loaded, *)
(* in the phase of now: the app may skip a push on its word.  Not so for an  *)
(* impulse response refused at its header, which leaves the old one in place *)
(* and is given a hash all the same.                                         *)
HashNamesLoaded ==
    \A k \in Kinds :
        \/ eff.hash[k] = Nothing
        \/ eff.loaded[k] = Named(k)
        \/ kind = k /\ pc = "hash"
        \/ k = "ir" /\ Outcome[eff.hash[k][1]] = "geometry"

(* No subsystem is switched on with nothing loaded that it could run,        *)
(* whatever became of the payloads sent before and of the effect they went   *)
(* to.                                                                       *)
NeverOnEmpty ==
    [][\A k \in Kinds :
          ~eff.switch[k] /\ eff'.switch[k] => eff'.loaded[k] # Nothing]_vars

Quiet ==
    ~posted /\ ~playback /\ ~queued /\ pc = "idle" /\ ~setReady /\ reading = {}

Wanted(k) ==
    <<prefs.file[k], IF k = "geq" /\ prefs.linear THEN 1
                     ELSE IF Rated(k) THEN eff.fs ELSE 0>>

(* Whether the kind is to be heard: a head set not on the speaker, and not   *)
(* before it is prepared.                                                    *)
ToPlay(k) ==
    prefs.on[k] /\ (k = "hrir" => ~onSpeaker /\ prefs.file[k] \in prepared)

(* With nothing under way, an effect that has been sent a namespace in full  *)
(* runs what the user has chosen, in the right phase and for the rate of     *)
(* the output, or is off if the user has it off or the head set is not to be *)
(* heard; and the head set that is to be heard has been read, or the worker  *)
(* said that it cannot.                                                      *)
PlaysWhatIsChosen ==
    Quiet /\ eff.alive =>
        \A k \in Kinds \ (lost \union overlapped) :
            /\ ~ToPlay(k) => ~eff.switch[k]
            /\ /\ ToPlay(k)
               /\ Outcome[prefs.file[k]] = "ok"
               /\ k = "hrir" => ~binauralMissing
               => eff.switch[k] /\ eff.loaded[k] = Wanted(k)
            /\ k = "hrir" /\ prefs.on[k] /\ ~onSpeaker =>
                  prefs.file[k] \in prepared \union failures
=============================================================================
