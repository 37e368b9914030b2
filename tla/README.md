# RootlessViPER4Android: verification project

TLA+ models of the control core of RootlessViPER4Android (RootlessJamesDSP with
ViPER4Android's effects), TLC runs over small instances, and TLAPS proofs for all
instances. Paths below are relative to the repository; `MTR` stands for
`app/src/main/java/me/timschneeberger/rootlessjamesdsp` and `JD` for
`app/src/main/cpp/libjamesdsp/Main/libjamesdsp/jni/jamesdsp/jdsp`.

## 1. The system

The app processes the audio of other apps. In rootless mode it mutes their
sessions with an audio effect, captures their audio with a `MediaProjection`,
runs it through the native engine and plays the result. In root mode the engine
is an effect in the audio server, driven by messages. In global mode the server's
own DynamicsProcessing effect is given a plan that approximates the settings.

| Component | State | Operations | Talks to |
|---|---|---|---|
| Capture service (`MTR/service/RootlessAudioProcessorService.kt`) | recorder thread, disposing flags, rebuild request, idle flags, projection, retry count | start and stop intents, restart, session loss, rebuild request, destroy; the loop of the recorder thread | sessions (listeners), engine (process, close), Android |
| Local engine (`MTR/interop/JamesDspLocalEngine.kt`, the scope and mutex of `JamesDspBaseEngine.kt`, the JNI wrapper) | native handle, sync scope, sync mutex, free timer | process, setters, close, free | capture thread, syncs |
| Session muting (`MTR/session/shared`, `MTR/session/rootless`, `MTR/session/dump`) | muted sessions, uid filters, policies, polling mutex | poll, dump, update, add, remove, set filters, destroy | service (listeners), recorder thread (`buildAudioRecord`) |
| Preference sync (`MTR/interop/PreferenceCache.kt`, `syncWithPreferencesAsync`) | remembered values, marked namespaces | sync, forced sync, clear | broadcasts, engine setters |
| Processing chain (`MTR/utils/ChainOrder.kt`, `JD/jdspController.c`) | chain, its length, engine lock | set an order, process a block | syncs, audio thread |
| Native buffers and rate (`JD/jdspController.c`) | rates, work areas, resampler positions, ring between block sizes, one allocation | set a rate, grow to a block size, process a block | caller of the engine |
| Remote engine and HAL effect (`MTR/interop/JamesDspRemoteEngine.kt`, `JamesDspHalEffect.cpp`) | what is loaded, its hash, the switch of each subsystem; the rates the app remembers | sync, header, parts, commit, hash, switch, reboot | audio server, broadcasts |
| Device profiles (`MTR/utils/ProfileManager.kt`, `MTR/model/preset/Preset.kt`) | live settings files, one archive per output, `profile.json` | change of output, load, save, copy, delete | routes, V4A mode |
| V4A mode (`MTR/utils/V4aMode.kt`) | the mode, the record of parked effects | turn on, turn off, park after a load | settings files |
| Global mode (`MTR/globalfx`, `MTR/activity/EngineLauncherActivity.kt`) | sessions and who asked for them, slots with their effects, the plan, posts to the effect thread; the mode switch, the consent dialog | attach, detach, retarget, take back, push, recreate, sync; switch the mode, ask and answer | audio server, players, capture service |
| Presets, backup, updates, UI, editor | files, views | | |

What is hard here: three kinds of threads (main looper, recorder or effect
thread, IO coroutines) share plain fields; waits are bounded by timeouts
(`join(500)`, a 100 ms timer, three seconds for the other mode to stop) that the
work behind them need not respect; decisions are taken on values read before a
suspension; failures strike in the middle of a restart, a push or a rotation of
files; the audio server dies between two messages; other apps take effects over;
and native memory is freed under other threads. `PROJECT.json` lists each hazard
at its line with the properties that cover it, or the reason why none does.

What makes each component correct:

* capture service: one recorder at a time; a dead capture ends the service (the
  muted apps would stay silent); a change of the capture rules reaches the
  recorder; a stopped service gives everything back;
* engine: never freed under a process call or a setter;
* muting: muted apps are exactly those whose audio comes back processed;
* sync: every setting reaches the engine whatever the interleaving;
* chain: complete, in the user's order, never changed in the middle of a block;
* buffers: no stage writes past its area, the ring is a queue, and every block
  comes back as long as it went in;
* remote engine: a hash stands for what is loaded, nothing is switched on empty,
  and an effect at rest plays what the user chose;
* profiles and V4A mode: every output keeps its settings, no hidden effect runs;
* global mode: every effect in the server has its slot and every slot its
  effect, a session has one while anybody wants it, it follows the settings, and
  the two modes never run side by side.

Some of these the code does not ensure in full. Then the property says what it
does ensure and names the exception; for three of them a run shows the violation
of the full sentence, and section 5 tells the others.

## 2. Modules

| Module | Models | How state and actions correspond |
|---|---|---|
| `CaptureService` | service, recorder threads, engine lifetime | The main thread runs a callback at a time; a callback that waits is cut at the wait (`mainPc`). A recorder thread has a `pc` cut at the loop condition, around the rebuild, in `sleep(50)`, in the blocking read and in native code. The timer of `close()` and the sync that holds the mutex are actors of their own. |
| `SessionMuting` | polling, policies, session database, `buildAudioRecord` | `mainPc` walks through one dump (policies, listener, update, each `addSession`, removals), `rebuildPc` through one rebuild on the recorder thread (two snapshots, two filters, the new record). The filters may be set between the check of `addSession` and its insertion. A null allowlist of the code is the set of all uids. `ExcludedPackages` is the fixed list that is never muted; `PolicyLogReadable` and `ContinuousPolling` are the service's two ways to get policies and to poll. |
| `PreferenceSync` | `PreferenceCache`, `syncWithPreferencesAsync`, broadcasts | A sync checks and stores the keys one by one, then applies the marked and the forced namespaces. Broadcasts are a set of posted intents. A value stands for whatever a key holds. |
| `ChainOrder` | `ChainOrder.complete`, the loops of `JamesDSPSetChainOrder` and `JamesDSPResetChainOrder` | One action per round of a loop: the completion of a saved order places a newer effect (`CompleteOne`) per round, then the ends of the chain (`CompleteEnds`), then the native loops scan and append. The fixed order of V4A mode goes to the native loops as it is (`StartWithV4a`). |
| `EngineChain` | the same composed with the engine lock and the audio thread | The copies into and out of `chainOrder` take an entry per step. |
| `BlockPipeline` | `JamesDSPSetSampleRate`, the allocation, `ProcessResampled`, the ring functions | A step is a call: a rate, or a block of some length with the growth it may need. Samples are numbered; the resamplers are reduced to the number of samples they give, which their phase decides. The ring's indices are numbers below `Width` and wrap. |
| `SampleQueue` | abstract: what the ring promises | `BlockPipeline` implements it (`IsQueue`): the queue is what lies between the two indices, its capacity the size of the ring. |
| `RemoteEffect` | `JamesDspRemoteEngine`, the parameters of the HAL effect, the broadcasts and the audio server around them | A message to the effect is a step, and the effect may die or be replaced before each. A payload is a file (with a rate if it was made for one); what the engine makes of it is `Outcome`. The hash of a payload is the payload. Head sets are read and prepared by a worker in the background (`prepared`, `reading`, `failures`, `setReady`) and are off on the speaker (`onSpeaker`). |
| `DeviceProfiles` | `ProfileManager`, `Preset`, `V4aMode` | Settings are files, one for each effect, that say on or off or are missing. A rotation is four steps (store, clear, load, save the index); each may fail where the code lets it go on, and the process may die within each. A load unpacks into the scratch folder, over its `residue`, and copies that over the live files. |
| `GlobalHost` | `GlobalEffectService`, `GlobalSessionManager`, `GlobalEffectHost`, other apps and the server | The main thread posts to the effect thread's `queue`, and so do the server's notices. `slots` are kept in the order they were opened, `effects` are the server's own. Each start makes a host of its own (`NewHost`). The screens (`SwitchMode`, `AskConsent`, `Answered`) and `CaptureEnds` are there as far as the two modes exclude each other. |
| `MC...` | values of the constants for TLC | |
| `...Proofs` | theorems about the module named | |

Every module holds, next to the definition concerned, its mutants: a variant of an
action or operator with a plausible bug (a comment says which one). TLC finds each
checked property violated when the mutant takes the definition's place, so no
property holds for lack of something to catch.

History variables, which no guard reads, carry what properties compare with:
`givenUp`, `quiet` and `requestTaken` in `CaptureService`, `raced` in
`SessionMuting`, `chosen`, `mixed`, `harmed` and `unparked` in `DeviceProfiles`,
`asked`, `evicted`, `stale`, `late`, `fellBack` and `uninvited` in `GlobalHost`, `whole`,
`lost` and `overlapped` in `RemoteEffect`, `reach`, `longest` and `roomy` in
`BlockPipeline`.

Abstractions. Audio data, formats, notifications and logging are left out.
Fields that are not `@Volatile` are taken to become visible (the recorder loop
calls into JNI and blocks in every round). `HashMap`s shared by two threads are
taken to survive: a `ConcurrentModificationException` is not modelled. Attaching
the muting effect succeeds (its failure is an app problem, which stops the
service). Shared preferences are re-read on each access.

## 3. Runs

Bounds are constants: `MaxThreads` recorder threads in the life of a service,
`MaxRetries` lost sessions, `MaxChanges` changes of settings, rate or system,
`MaxFaults` deaths, refusals and take-overs. They bound counters in the guards,
never the state space by a constraint.

| Run | Instance | Shows |
|---|---|---|
| `capture` | 2 threads, any of which may outlive `join(500)`, 1 retry | only a thread that a join gave up runs beside the current one (`OthersAreGivenUp`) or in a freed engine (`FreedUnderGivenUpOnly`); `FreeOnlyWhenSyncsLeft`, `DeadCaptureMeansStop` and `RebuildNotLost` hold even then; everything is released but what a thread given up holds (`CaptureEnds`); a rebuild is served (`RebuildServed`) |
| `capture_use_after_free` | 2 threads | violation of `FreedEngineNotInUse`, see findings |
| `muting_interleaved` | 2 apps, one of them on the fixed list, and our own; the capture log may be unreadable, polls only on events; 2 changes | `ConfigCurrent`, `NothingMutedAfterDestroy`, `MutedIsCaptured` |
| `muting_live` | 1 app and our own, continuous polling, 2 changes | `RestrictedUnmutedButRaced`, `PlayingMuted` |
| `muting_race` | as `muting_live` | violation of `RestrictedUnmuted` |
| `preference_sync` | 2 cards with 2 keys, 2 values, 2 rates, 2 changes | every setting is applied, the cache hides nothing |
| `engine_chain` | 4 effects, the fixed order of V4A mode and 11 saved orders with unknown, repeated and missing ids | completeness, the user's order, placement, whole blocks, and neither thread starves for the lock |
| `block_pipeline` | rates 48000, 96000, 32000, 64000, 12000, blocks of 1, 2, 3 and 5 samples in any order | `AreasHold`, `WholeBlocks`, and the refinement `IsQueue` |
| `remote_effect` | a curve, a script, an impulse response and a head set, with a file for each outcome; the worker that reads the head set and the route; 2 rates, 3 changes, 1 fault | `HashNamesLoaded`, `NeverOnEmpty`, `PlaysWhatIsChosen` |
| `device_profiles` | 3 outputs, an effect of ViPER4Android's and another, 2 presets, 6 changes, 2 faults | `SettingsKept`, `NoHiddenEffect` |
| `global_host` | 2 apps and session 0, room for 1 app, 4 changes, 1 fault | `NoStrayEffect`, `SourcesKept`, `InStep`, `NotBesideCapture` |
| `global_consent` | 1 app, 3 changes | violation of `NeverBesideCapture` |

Why the bounds are enough. Two threads are one that a join gave up and its
successor, and nothing relates more than two of them. A rebuild, a second
rebuild requested during it and a third party's change fit in two changes; two
apps are enough to tell the listed from the others; two keys per card and two
cards show that the marks of one do not stand for the other. The saved orders
lack each newer effect, each anchor and the maximiser, repeat an id and name an
unknown one, and lengths reach past a full list. The rates cover a working rate
that is lower, higher and equal, with a whole and a broken ratio, and the blocks
every phase of the ratios and a ring that grows while it holds samples. One
fault of the audio server can fall between any two messages of a push, and three
changes are a setting, a rate and another setting while the first is sent; for a
head set they are the choice, the switch and a route or a rate while the worker
reads or the set is sent. Six changes are profiles turned on, two rotations with
a choice between them, a copy or a preset, and the mode; two faults are a load
that leaves something in the scratch folder and a death on the way of the next.
One of the presets lacks a file, so that what is copied over shows. With room
for one app, the second app evicts the first; four changes are a start, a
session, a setting or output, and a stop, a switch of mode or a second session.
What the proofs cover does not depend on these bounds at all. `device_profiles`
and `global_host` use the symmetry of outputs and of apps; they check no
liveness.

Deadlock is checked where the system runs on (`engine_chain`, `block_pipeline`).
The other systems may come to rest: a destroyed service, or nothing changed any
more.

Fairness. Each thread keeps running, and Android delivers a requested
`onDestroy`. Strong fairness is used where another actor can take an
opportunity away again and again: the destroy callback among other callbacks,
the engine lock among setters and blocks, a poll among other polls, the end of a
sync that may enter another setter. Nothing is assumed of the user, of other
apps or of intents that merely may come.

### Findings

Each is a violation run with the shortest trace TLC finds, against a sentence of
the repository that `PROJECT.json` quotes. A finding that has a proved or checked
counterpart names it.

1. *Use after free* (`capture_use_after_free`): a setter holds the engine lock
   for long (loading an impulse response); a process call waits for it;
   `join(500)` and the 100 ms of `close()` pass; the setter and its sync leave,
   the engine is freed, and the process call continues in it. It is a thread that
   a join gave up, and only such a one (`FreedUnderGivenUpOnly`).
2. *Muted for good* (`muting_race`): a filter set while `addSession` attaches
   the effect misses the session, and `update()` never reconsiders a session in
   the list (`RestrictedUnmutedButRaced`, `MutedIsCaptured`).
3. *Both modes at once* (`global_consent`): global mode is switched on while the
   dialog of capture mode is open, and its answer starts capture mode
   (`NotBesideCapture`).

## 4. Proofs

All theorems hold for every value of the constants, from the named assumptions
on them. Each rests on an inductive invariant, which TLC checked on the small
instances before it was proved.

`CaptureServiceProofs`:

* `TypeCorrect`: by a lemma on the Boolean variables and one on the others, each
  with one step per action; `ThreadStepMoves` sums up what any step of a
  recorder thread may change.
* `NoSyncInFreedEngine`: `FreeOnlyWhenSyncsLeft` is not inductive; `CloseInv` adds
  that the scope is cancelled before the mutex is waited for, so that no sync
  begins in between.
* `DeadCaptureIsNoticed`: `DisposingInv` says that no callback leaves the disposing
  flag set, which includes the moment between the two halves of a restart;
  `EndingInv` says who may be interrupted (only the thread of the field, while
  disposing), so a thread of the field that leaves its loop for another reason
  has asked for the end of the service, or went by the branch for `IOException`,
  which asks for nothing (`quiet`). It needs `FieldInv`, that threads are born in
  order and the field names a born thread.
* `OneRecorderButGivenUp` and `FreedEngineNotInUseButByGivenUp`: `AliveInv` adds to the first
  that the engine is closed only once the field is empty, so that whoever is
  still alive then was given up. Nothing is assumed of how long a join takes.
* `RebuildKept`: a request is refused only once destruction has begun, and the thread
  of the field clears it only on its way to a new AudioRecord (`RebuildInv`).

`SessionMutingProofs`:

* `TypeCorrect`: in four parts (the system, a dump, an update, a rebuild), one step
  per action in each; what a rebuild works out is always a set of known apps.
* `DestroyedMutesNothing`: no update is under way once the service is destroyed.
* `ConfigStaysCurrent`: `RulesInv` says for each stage of a rebuild that what was
  worked out so far is still right unless another rebuild is requested or a
  listener is about to request one.
* `MutedAppsAreCaptured`: `FilterInv` says that both filters admit every muted app
  at all times, but for insertions they overtook (`raced`), and that outside the
  last stages of a rebuild the AudioRecord captures what they admit.

`PreferenceSyncProofs`:

* `TypeCorrect`.
* `CacheHidesNothing`: what the running sync has read is what it will apply, so a
  remembered value is the engine's or its namespace is marked.
* `NothingIsForgotten`: while a setting or the rate is not yet applied, a sync is
  on its way, or the running one has still to compare a key of that card, or the
  card is among what it will apply. It rests on `TwoKeysAssumption`: a clear of
  the cache that falls into the middle of a sync may be undone for the key being
  stored, and only a card with another key is marked by it all the same.

`EngineChainProofs`:

* `ChainComplete` (`BuiltChainComplete` of `ChainOrder`): the list built has no
  effect twice, so its length is the number of its effects; a list cut off by
  the room of a chain is therefore full. Nothing is assumed of the saved order.
* `BlocksRunWholeChains`: whoever holds the lock has copied the entries before
  its index; without a setter inside, what is published is whole.
* `SavedOrderIsKept` and `NewEffectsArePlaced`, for saved orders that fit the list
  together with the newer effects (`OrdersFit`; the app's lists hold each effect
  once, 41 and at most 4 newer ones of 48 places). `OrderInv` says what the rounds
  of the completion have done so far: the effects of the saved order are in its
  order, an effect already placed follows its anchor. `ScanInv` relates the part of the chain
  built to the part of the order scanned, so that whatever the scan kept precedes
  what the order names later; `FollowInv` carries the placement through the scan.
  They rest on lemmas about the first place of an element in a list and about
  lists that have been spliced, and on `PlaceAfterAssumption`: an anchor that is
  itself newer is placed before what follows it, as in the table of the code.
* `TypesStay` (`EngineTypeOK`): with the length of the list bounded by the entries
  scanned (`CountInv`) and the indices of setter and audio thread bounded by the
  list (`SetterInv`, `AudioInv`).

`BlockPipelineProofs`:

* `RingStaysInBounds` (`TypeOK`): the difference of the two indices modulo `Width`
  never exceeds the ring's size, across wraps and growth.
* `AreasAlwaysHold`: from bounds on the quotients rounded up, for any ratio.
* `RingIsAQueue` (`IsQueue`): every call is a step of `SampleQueue` or leaves it
  alone. The queue is what lies between the indices; the lemmas say that writing
  at `in` appends to it, reading at `out` takes from it, across wraps of both.
* `BlocksStayWhole` (`WholeBlocks`): `PhaseInv` relates the phases of the two
  resamplers to the number of samples in the ring
  (`decimator + interpolator = Count * Num[rate]`), so the ring holds what the way back needs for
  a whole block. It holds while the ring has room (`roomy`), and a new rate or
  allocation starts it anew.

`RemoteEffectProofs`:

* `TypeCorrect`.
* `SwitchedOnOnlyIfLoaded`: a flag that vouches for a payload means that one is
  loaded; it needs that a buffer never holds what cannot be loaded, and that a
  head set never takes the old one out of its place.
* `HashesAreTrue`: `CommitInv` and `VouchInv` follow one push from its header to
  its hash through the loss of the effect at any point: either the buffer holds
  the payload announced, or the flag says that nothing came of it.
* `WhatIsChosenPlays` (`PlaysWhatIsChosen`): `PlayInv`, a conjunction of seven parts. What
  changed is marked and what is marked will be sent (`MarkedInv`); an effect that
  was replaced counts as lost (`LostInv`); hashes and switches need something
  loaded (`HaveInv`); a rate that changed while a payload was made for it has been
  noticed or will be (`RateInv`); what the push under way has reached so far
  (`ProgressInv`); the switch of a head set under way is the one that is due, or
  the worker's broadcast brings another sync (`TargetInv`); and every kind not to
  be sent again plays as chosen, and a head set that is to be heard is there,
  being read or known to be unreadable (`SettledInv`). TLC checked each part on
  the run first.

`DeviceProfilesProofs`, for any outputs, effects and presets:

* `TypeCorrect`, with where each step may happen (`PlacesInv`).
* `HiddenEffectsStayOff`: `HiddenInv` holds within a rotation as well, since
  whatever replaces the live files parks in the same step, but for a load that
  copied files and did not come to its broadcast (`unparked`).
* `SettingsSurvive`: `KeptInv` says for each stage of a rotation where the settings
  of the profile being left, of the one being loaded and of all others are at
  that moment, and that without a wholesale load the mode is off by then. The
  lemmas say what copying file by file keeps (`CopyingOver`, `LoadingOver`): the
  loaded profile is whole if the scratch folder had nothing that it lacks, and
  whatever a step costs, it costs the profiles that the step names.

`GlobalHostProofs`, for any apps, any cap and any bounds; `AppsAssumption` says that
there are finitely many apps and that session 0 is none of them, `NoneAssumption`
that "none" is told from whatever a variable may hold instead:

* `HostTypeCorrect` (`TypeOK`): `TypeInv`. Its core is `HostInv`: the slots and the
  effects in the server match one to one, whatever is refused, pushed, evicted or
  taken over. `CreateKeeps` proves that once for creating any set of sessions anew;
  attaching, recreating, a granted control and a sync are its cases. `FreshDp`: a
  handle the server gives out is not one in use or named by a waiting notice.
  `Started` says what a start leaves: a host with nothing but its service's posts.
* `NoEffectIsStray` (`NoStrayEffect`): `DownInv` adds that a stopped service has no
  slot or a release still to run, and that a released host attaches nothing.
* `SourcesAreKept` (`SourcesKept`): `KeptInv` holds while posts wait: what the slots
  hold, followed by the posts in the queue, comes to what was asked for. Only the
  last word on a session and source counts (`AskedTaken`, `AskedJoined`), so a post
  may be taken or added without disturbing it; an eviction stops to matter at the
  next post that clears everything.
* `StaysInStep` (`InStep`): `PlanInv` says of a slot without an error that it was sent
  the plan and that its effect has it and is switched as asked, or that the notice
  which tells of the loss is waiting; the effects are of the plan's precision and
  rate. Every step of another app posts its notice and every notice taken is acted on.
  A push sends only what differs, so what a failed one left in the effect may stay
  there; then the slot shows an error. `SyncInv` says that the plan is the wanted
  one when no sync is due, unless the last one failed; of a sync that came before
  the output's rate it says so of all but the rate.
* `CaptureYields` (`NotBesideCapture`): `ModeInv` relates the services and the dialog to
  the switch: a service that is to stay has the mode on, and a dialog that is not
  outdated has it off.

Only model-checked: liveness under fairness, which is out of the prover's reach
(`CaptureEnds`, `RebuildServed`, `RestrictedUnmutedButRaced`, `PlayingMuted`,
`EventuallyApplied`, `LockIsServed`), and the violations above.

## 5. Not modelled, and remarks on the code

Not modelled: the DSP kernels (floating point), the EEL2 virtual machine and
other vendored code, views and the editor, archives, backups and updates (file
and network I/O), the desktop plug-in, the AIDL variant under `src/magisk`.
Within the components modelled:

* native engine: the process-wide tables and their count (`JD/jdspController.c`,
  `JamesDSPGlobalMemoryAllocation`), and `JamesDSPFree`, which unlocks the mutex it
  has destroyed; the sample formats and the buffers of single effects;
* root mode: enabling and disabling, the session database with its delayed close;
  a worker process that dies, and the clearing of old copies of head sets;
* profiles: the write-behind of `apply()`, the power state of a profile, restoring a
  backup; copying from a profile whose folder has no archive throws, which is a
  death of the process like any other;
* global mode: notifications, what a plan contains, control that is granted
  between `hasControl()` and the registration of the listener; a plan that cannot
  be built while an effect is created (the process dies); what becomes of an old
  host after a restart that overlaps its release, which the new one meets as
  another app.

What the modules assume or let happen more freely than the code:

* `RemoteEffect`: bringing a head set to a rate succeeds; forgetting earlier failures
  and storing the choice are one step; a setting that is stored counts as
  changed; the user has head sets off on the speaker.
* `DeviceProfiles`: a settings file cut off in the middle reads as one that has the
  effect off, and more than one file may be cut; an archive that could not be
  written in full may hold any part of the files.
* `GlobalHost`: the service may be started at any time while the mode is on. One
  consent dialog is open at a time; it stands for every way to capture mode, the
  main screen's and the app compatibility screen's too. The cards have two
  values; of an effect that a push failed on, any value not sent again may be
  stuck.

What properties leave out by a named exception, and what was met on the way and
is not a violation of a stated sentence:

* An `IOException` ends the recorder loop without a word to the service (`quiet`);
  nothing the loop calls is known to throw one.
* A restart whose `join(500)` times out forgets the thread and clears the flag that
  would have ended it: it captures on beside the new one (`OthersAreGivenUp`), may
  take a rebuild request away from it (`RebuildNotLost`), and if the new start
  fails, nothing will ever tell it to end (`givenUp` in `CaptureEnds`).
* The packages of `excludedPackages` are not muted, but their audio is captured:
  they are heard twice (the exception of `PlayingMuted`). So is a session whose
  poll finds the mutex taken, when polls come on events only: the dump under way
  may be older than what the poll was for, and none follows. `PlayingMuted` is
  checked with continuous polling.
* An allowlist of apps that all restrict capture counts as not configured. A dump
  without policies falls back to the capture log, and where that cannot be read,
  to the policies known before.
* An impulse response refused at its header leaves the old one in place and is
  given a hash all the same (`JamesDspHalEffect.cpp`; the exception of
  `HashNamesLoaded`). A script that is empty or has no `@init` keeps the old
  program. A head set that could not be asked for once is never sent again to
  any effect (`binauralMissing`).
* After the audio server died or the effect was rebooted, the new effect is blank
  and namespaces that have not changed are not sent again (`lost`). A rate
  changed while its payload is being sent may be missed (`overlapped`): for a head
  set the rate is read, the set made for it and only then noted, and a change
  compared in between is compared with the old note.
* With a ring of exactly a power of two and blocks of varying length, a sample
  is dropped (`roomy`); growing while samples are held gives out fresh memory.
* A profile that cannot be saved is ignored and the live files are deleted after
  it. One that cannot be loaded plays the defaults, which the next rotation
  stores over its archive. What an interrupted load left in the scratch folder
  joins the next profile loaded. Settings left without a profile are stored over
  the output's archive. A preset that throws after it copied files leaves them
  live. `SettingsKept` names each of these costs at its step (`harmed`), and after
  the last a hidden effect may run until the next load (`unparked`). The record
  of V4A mode is one for all profiles (`mixed`). Copying a profile onto the active
  one merges the two: effects that the copied profile has no file of stay as they
  are, although a comment speaks of overwriting (`ProfileManager.kt:124`).
* `InStep` speaks of effects without an error: of one that a push failed on it says
  only that it shows the error. It says nothing after a sync that built no plan
  (`stale`). The sync after a change of output is a plain 500 ms later; a rate
  that comes into force after it reaches no one, and the effects stay made for
  the old rate, but for nothing else of the old plan (`late`). An
  evicted session is not attached again by a scan (`evicted`), and a refused one
  not tried again.
* Three seconds without an answer start global mode although capture mode may
  still be stopping (`fellBack`).
