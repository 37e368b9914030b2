------------------------------ MODULE GlobalHost ------------------------------
(***************************************************************************)
(* Global mode: GlobalEffectService and GlobalSessionManager on the main      *)
(* thread, GlobalEffectHost on the effect thread, and the audio server with   *)
(* the other apps.  The main thread posts to the effect thread, which keeps   *)
(* a slot for each session somebody asked for, with a DynamicsProcessing      *)
(* effect in the server, and sends it the plan made of the cards.  Capture    *)
(* mode and the screens that start it are here as far as the two exclude each *)
(* other.                                                                     *)
(***************************************************************************)
EXTENDS Naturals, Sequences, SequencesExt, FiniteSets

CONSTANTS
    Apps,        \* sessions of apps
    AllSound,    \* session 0
    Cap,         \* MAX_APP_SESSIONS
    None,
    MaxChanges,  \* bound: what users, players and outputs do
    MaxFaults    \* bound: what other apps and the server do to the effects

Sids == Apps \union {AllSound}
Sources == {"all", "announced", "found"}
(* The server's handles: a session and a number.                            *)
Dps == Sids \X Nat
Plans == [cards : 0 .. 1, frame : 0 .. 1, rate : 0 .. 1]

ASSUME AppsAssumption == IsFiniteSet(Apps) /\ AllSound \notin Apps
ASSUME NoneAssumption == None \notin Sids \union Dps \union Plans \union (0 .. 1)
ASSUME CapAssumption == Cap \in Nat \ {0}
ASSUME BoundsAssumption == MaxChanges \in Nat /\ MaxFaults \in Nat

VARIABLES
    service,     \* "down", "waiting" for capture mode to stop, "up", or "failed"
                 \* to go to the foreground
    capture,     \* capture mode: "off", "on", "stopping"
    target, wantedTarget,  \* "all" or "apps": in use, in the settings
    pending,     \* announcements kept while waiting
    found,       \* sessionList of the session manager
    ending,      \* its end has been asked for
    queue,       \* posts to the effect thread
    slots,       \* in the order they were opened
    plan, softOff, released,
    sync,        \* a sync is posted, to run after its delay
    effects,     \* the audio server's effects of ours
    held,        \* sessions whose effects another app wants
    cards, frame, rate,    \* what a plan is made of
    rateMoving,  \* the output has changed, its rate not yet
    asked,       \* history: who asked for which session
    evicted,     \* history: sessions that had to make room
    stale,       \* history: the last sync built no plan
    late,        \* history: it was done before the output's rate was in force
    globalOn,    \* the setting: global mode, not capture mode
    consent,     \* the dialog that leads to capture: "none", "asked", or "outdated"
                 \* by the setting
    fellBack,    \* history: the wait was given up
    uninvited,   \* history: an outdated dialog started capture mode
    changes, faults

serviceVars == <<service, capture, target, wantedTarget, pending, found, ending>>
hostVars == <<slots, plan, softOff>>
world == <<cards, frame, rate, rateMoving>>
requests == <<sync, stale, late>>
modes == <<globalOn, consent, fellBack, uninvited>>
bounds == <<changes, faults>>
vars == <<serviceVars, queue, hostVars, released, requests, effects, held, world,
          asked, evicted, modes, bounds>>

Init ==
    /\ service = "down" /\ globalOn \in BOOLEAN
    /\ capture \in (IF globalOn THEN {"off"} ELSE {"off", "on"})
    /\ target = "all" /\ wantedTarget \in {"all", "apps"}
    /\ pending = <<>> /\ found = {} /\ ending = FALSE
    /\ queue = <<>>
    /\ slots = <<>> /\ plan = None /\ softOff = FALSE /\ released = FALSE
    /\ sync = FALSE /\ stale = FALSE /\ late = FALSE
    /\ effects = {} /\ held = {}
    /\ cards = 0 /\ frame = 0 /\ rate = 0 /\ rateMoving = FALSE
    /\ asked = {} /\ evicted = {}
    /\ consent = "none" /\ fellBack = FALSE /\ uninvited = FALSE
    /\ changes = 0 /\ faults = 0

Change == changes < MaxChanges /\ changes' = changes + 1 /\ UNCHANGED faults
Fault == faults < MaxFaults /\ faults' = faults + 1 /\ UNCHANGED changes

(* buildPlan()                                                              *)
Wanted == [cards |-> cards, frame |-> frame, rate |-> rate]

-----------------------------------------------------------------------------
(* The main thread.                                                         *)

Attach(sid, source) == [op |-> "attach", sid |-> sid, source |-> source]
Detach(sid, source) == [op |-> "detach", sid |-> sid, source |-> source]
Plain(op) == [op |-> op]
(* One for each of S, in an order that a map gives.                          *)
InSomeOrder(S) == {q \in [1 .. Cardinality(S) -> S] : Range(q) = S}
AttachEach(q) == [i \in DOMAIN q |-> Attach(q[i], "found")]
DetachEach(q) == [i \in DOMAIN q |-> Detach(q[i], "found")]

(* What a post does to a source's hold on a session.                        *)
Asks(p, a) == p.op = "attach" /\ a = <<p.sid, p.source>>
Drops(p, a) ==
    \/ p.op = "detach" /\ a = <<p.sid, p.source>>
    \/ p.op \in {"detachAll", "release"}

(* Who has asked for what once the posts have run: the last word counts.    *)
Asked(before, posts) ==
    {a \in Sids \X Sources :
        \/ a \in before /\ \A k \in DOMAIN posts : ~Drops(posts[k], a)
        \/ \E k \in DOMAIN posts :
              Asks(posts[k], a) /\ \A n \in k + 1 .. Len(posts) : ~Drops(posts[n], a)}

PostOn(base, posts) == queue' = base \o posts /\ asked' = Asked(asked, posts)
Post(posts) == PostOn(queue, posts)

(* The service's receivers and listeners are registered.                    *)
Listening == service \in {"waiting", "up"}

(* requestSync(): a later request replaces an earlier one.                  *)
RequestSync == IF Listening THEN sync' = TRUE /\ UNCHANGED <<stale, late>> ELSE UNCHANGED requests

(* Mutant of AttachNow: the old manager's sessions are kept.                *)
AttachKeepsFound(base, to, before, announcements) ==
    /\ service' = "up" /\ target' = to
    /\ pending' = <<>> /\ found' = found
    /\ PostOn(base, before \o (IF to = "all" THEN <<Attach(AllSound, "all")>>
                               ELSE announcements))

(* attachNow() for a target, after the posts that precede it.               *)
AttachNow(base, to, before, announcements) ==
    /\ service' = "up" /\ target' = to
    /\ pending' = <<>> /\ found' = {}
    /\ PostOn(base, before \o (IF to = "all" THEN <<Attach(AllSound, "all")>>
                               ELSE announcements))

(* A new service's own host.  One that has yet to release is another app to *)
(* it, whose effects are on their sessions.                                 *)
NewHost ==
    /\ slots' = <<>> /\ effects' = {} /\ evicted' = {}
    /\ held' = held \union {e.dp[1] : e \in effects}
    /\ released' = FALSE /\ plan' = None /\ softOff' = FALSE
    /\ stale' = FALSE /\ late' = FALSE /\ fellBack' = FALSE /\ uninvited' = FALSE
    /\ UNCHANGED <<wantedTarget, world, globalOn, consent>>

(* onCreate(), with the announcement that woke the service if one did; the   *)
(* devices there are get announced to the callback at once.                  *)
Start ==
    /\ service = "down" /\ globalOn /\ Change
    /\ \E first \in {<<>>} \union
          (IF wantedTarget = "apps" THEN {<<Attach(s, "announced")>> : s \in Apps} ELSE {}) :
          \/ /\ capture = "off"
             /\ AttachNow(<<>>, wantedTarget, <<>>, first) /\ UNCHANGED capture
          \/ /\ capture # "off"
             /\ service' = "waiting" /\ capture' = "stopping"
             /\ pending' = first /\ queue' = <<>>
             /\ UNCHANGED <<target, found, asked>>
    /\ sync' = TRUE /\ ending' = FALSE
    /\ NewHost

(* ... and when Android refuses it the foreground: it has a host, registers  *)
(* nothing, and what is announced to it goes with it.                        *)
StartFails ==
    /\ service = "down" /\ globalOn /\ Change
    /\ service' = "failed" /\ ending' = TRUE
    /\ sync' = FALSE /\ queue' = <<>>
    /\ UNCHANGED <<capture, target, pending, found, asked>>
    /\ NewHost

(* ACTION_SERVICE_STOPPED of capture mode.                                  *)
HearStopped ==
    /\ service = "waiting" /\ capture = "off"
    /\ AttachNow(queue, wantedTarget, <<>>, pending)
    /\ UNCHANGED <<capture, wantedTarget, ending, hostVars, released, requests, effects,
                   held, world, evicted, modes, bounds>>

(* Three seconds without it.                                                *)
FallBack ==
    /\ service = "waiting"
    /\ AttachNow(queue, wantedTarget, <<>>, pending)
    /\ fellBack' = TRUE /\ UNCHANGED <<globalOn, consent, uninvited>>
    /\ UNCHANGED <<capture, wantedTarget, ending, hostVars, released, requests, effects,
                   held, world, evicted, bounds>>

(* A player says hello or goodbye.                                          *)
Announced ==
    /\ Listening /\ Change
    /\ \E s \in Apps, op \in {"attach", "detach"} :
          LET said == [op |-> op, sid |-> s, source |-> "announced"] IN
          IF service = "waiting"
          THEN pending' = Append(pending, said) /\ UNCHANGED <<queue, asked>>
          ELSE target = "apps" /\ Post(<<said>>) /\ UNCHANGED pending
    /\ UNCHANGED <<service, capture, target, wantedTarget, found, ending, hostVars,
                   released, requests, effects, held, world, evicted, modes>>

(* update() with a dump: what is new first.                                 *)
HandleDump ==
    /\ service = "up" /\ target = "apps" /\ Change
    /\ \E playing \in (SUBSET Apps) \ {found} :
          /\ \E added \in InSomeOrder(playing \ found), removed \in InSomeOrder(found \ playing) :
                Post(AttachEach(added) \o DetachEach(removed))
          /\ found' = playing
    /\ UNCHANGED <<service, capture, target, wantedTarget, pending, ending, hostVars,
                   released, requests, effects, held, world, evicted, modes>>

(* retarget(): the session manager is destroyed, every effect detached.     *)
Retarget ==
    /\ Change
    /\ wantedTarget' = IF wantedTarget = "all" THEN "apps" ELSE "all"
    /\ IF service = "up"
       THEN \E q \in InSomeOrder(found) :
                AttachNow(queue, wantedTarget', DetachEach(q) \o <<Plain("detachAll")>>, <<>>)
       ELSE UNCHANGED <<service, target, pending, found, queue, asked>>
    /\ UNCHANGED <<capture, ending, hostVars, released, requests, effects, held, world,
                   evicted, modes>>

(* The notification's "take back"; the profile's soft power.                *)
TakeBack ==
    /\ Listening /\ Change
    /\ Post(<<Plain("recreateAll")>>)
    /\ UNCHANGED <<serviceVars, hostVars, released, requests, effects, held, world,
                   evicted, modes>>

SoftPower ==
    /\ Listening /\ Change
    /\ \E off \in BOOLEAN : Post(<<[op |-> "softOff", off |-> off]>>)
    /\ UNCHANGED <<serviceVars, hostVars, released, requests, effects, held, world,
                   evicted, modes>>

(* A card or the precision is changed.                                      *)
ChangeSettings ==
    /\ Change
    /\ \/ cards' = 1 - cards /\ UNCHANGED frame
       \/ frame' = 1 - frame /\ UNCHANGED cards
    /\ UNCHANGED <<rate, rateMoving>>
    /\ RequestSync
    /\ UNCHANGED <<serviceVars, queue, hostVars, released, effects, held, asked, evicted,
                   modes>>

(* Another output; its sample rate comes into force a little later.         *)
ChangeDevice ==
    /\ Change
    /\ rateMoving' = TRUE /\ UNCHANGED <<cards, frame, rate>>
    /\ RequestSync
    /\ UNCHANGED <<serviceVars, queue, hostVars, released, effects, held, asked, evicted,
                   modes>>

RateSettles ==
    /\ rateMoving /\ rateMoving' = FALSE
    /\ rate' = 1 - rate /\ UNCHANGED <<cards, frame>>
    /\ UNCHANGED <<serviceVars, queue, hostVars, released, requests, effects, held, asked,
                   evicted, modes, bounds>>

(* onDestroy(), on the user's wish or because its end has been asked for.    *)
Stop ==
    /\ service # "down"
    /\ (ending /\ UNCHANGED bounds) \/ Change
    /\ service' = "down" /\ pending' = <<>> /\ found' = {} /\ ending' = FALSE
    /\ released' = TRUE
    /\ sync' = FALSE /\ stale' = FALSE /\ late' = FALSE
    /\ \E q \in InSomeOrder(found) : Post(DetachEach(q) \o <<Plain("release")>>)
    /\ UNCHANGED <<capture, target, wantedTarget, hostVars, effects, held, world, evicted,
                   modes>>

-----------------------------------------------------------------------------
(* The screens, and capture mode's service.                                 *)

Elsewhere == UNCHANGED <<service, target, wantedTarget, pending, found, queue, hostVars,
                         released, requests, effects, held, world, asked, evicted, fellBack>>

(* onSwitchChanged(); a start is the user's or follows by itself.           *)
SwitchMode ==
    /\ Change
    /\ globalOn' = ~globalOn
    /\ consent' = IF consent = "asked" /\ ~globalOn THEN "outdated" ELSE consent
    /\ ending' = (ending \/ (globalOn /\ service # "down"))
    /\ UNCHANGED <<capture, uninvited>> /\ Elsewhere

(* Mutant of AskConsent: startIfGlobal() is not asked first.                *)
AskConsentAlways ==
    /\ consent = "none" /\ Change
    /\ consent' = "asked"
    /\ UNCHANGED <<capture, globalOn, uninvited, ending>> /\ Elsewhere

(* The way to capture mode asks for the mode first, then for consent.       *)
AskConsent ==
    /\ consent = "none" /\ ~globalOn /\ Change
    /\ consent' = "asked"
    /\ UNCHANGED <<capture, globalOn, uninvited, ending>> /\ Elsewhere

(* The answer starts it, whatever the mode is by then.                      *)
Answered ==
    /\ consent # "none" /\ consent' = "none"
    /\ \/ UNCHANGED <<capture, uninvited>>
       \/ /\ capture' = "on"
          /\ uninvited' = (uninvited \/ consent = "outdated")
    /\ UNCHANGED <<globalOn, ending, bounds>> /\ Elsewhere

(* Its onDestroy(), asked for or on the user's wish.                        *)
CaptureEnds ==
    /\ capture # "off" /\ capture' = "off"
    /\ (capture = "stopping" /\ UNCHANGED bounds) \/ Change
    /\ UNCHANGED <<globalOn, consent, uninvited, ending>> /\ Elsewhere

-----------------------------------------------------------------------------
(* The effect thread.                                                       *)

Due == queue[1]
Takes(op) == queue # <<>> /\ Due.op = op /\ queue' = Tail(queue)

SlotOf(s) == {i \in DOMAIN slots : slots[i].sid = s}
AppSlots == {i \in DOMAIN slots : slots[i].sid # AllSound}
DpsOf(I) == {slots[i].dp : i \in I}
(* The slots without the one place in I, if there is one.                   *)
Without(I) == IF I = {} THEN slots ELSE RemoveAt(slots, CHOOSE i \in I : TRUE)

(* The server's handles: those in use or named by a notice are taken.       *)
NewDp(s) ==
    LET Taken == {e.dp : e \in effects} \union
                 {queue[i].dp : i \in {k \in DOMAIN queue : queue[k].op \in {"control", "enable"}}}
    IN  <<s, CHOOSE n \in 0 .. Cardinality(Taken) :
                /\ <<s, n>> \notin Taken
                /\ \A m \in 0 .. n - 1 : <<s, m>> \in Taken>>

EmptySlot(s, source) == [sid |-> s, sources |-> {source}, dp |-> None, control |-> FALSE,
                         sent |-> None, tried |-> FALSE, error |-> FALSE]

(* How creating may end: all well; a value refused; accepted without control *)
(* (another app has it); refused altogether.                                *)
Endings == {"made", "failed", "weak", "refused"}

Outcomes(S) ==
    {o \in [S -> Endings] :
        /\ \A s \in S : o[s] = "weak" => s \in held
        /\ faults + Cardinality({s \in S : o[s] \in {"failed", "refused"}}) <= MaxFaults}

(* create(): the slot afterwards, and the effect in the server.             *)
Created(slot, end, p) ==
    [slot EXCEPT
        !.dp = IF end = "refused" THEN None ELSE NewDp(slot.sid),
        !.sent = IF end = "made" THEN p ELSE None,
        !.control = end \in {"made", "failed"},
        !.tried = FALSE,
        !.error = end # "made"]

NewEffect(s, end, p) ==
    [dp |-> NewDp(s), ours |-> end # "weak",
     cards |-> IF end = "made" THEN p.cards ELSE None,
     shape |-> <<p.frame, p.rate>>,
     on |-> end # "weak" /\ ~softOff]

(* ... for the sessions in S, given the slots and what was released.        *)
CreateIn(base, S, p, dead) ==
    \E o \in Outcomes(S) :
        /\ slots' = [i \in DOMAIN base |->
              IF base[i].sid \in S THEN Created(base[i], o[base[i].sid], p) ELSE base[i]]
        /\ effects' = {e \in effects : e.dp \notin dead} \union
              {NewEffect(s, o[s], p) : s \in {s \in S : o[s] # "refused"}}
        /\ ending' = (service # "down" /\ (ending \/ \E s \in S \ Apps : o[s] = "refused"))
        /\ faults' = faults + Cardinality({s \in S : o[s] \in {"failed", "refused"}})
        /\ UNCHANGED changes

PlanOrBuilt == IF plan = None THEN Wanted ELSE plan
ByPosts == UNCHANGED <<service, capture, target, wantedTarget, pending, found, released,
                       requests, held, world, asked, modes>>

(* Mutant of Oldest: room is made one too late.                             *)
OldestTooLate == {i \in AppSlots : Cardinality(AppSlots) > Cap /\ \A k \in AppSlots : i <= k}

(* evictOverCap()                                                           *)
Oldest == {i \in AppSlots : Cardinality(AppSlots) >= Cap /\ \A k \in AppSlots : i <= k}

RunAttach ==
    /\ Takes("attach")
    /\ LET s == Due.sid IN
       CASE released -> UNCHANGED <<hostVars, effects, ending, evicted, bounds>>
         [] ~released /\ SlotOf(s) # {} ->
              /\ slots' = [i \in DOMAIN slots |->
                              IF i \in SlotOf(s) THEN [slots[i] EXCEPT !.sources = @ \union {Due.source}]
                              ELSE slots[i]]
              /\ UNCHANGED <<plan, softOff, effects, ending, evicted, bounds>>
         [] OTHER ->
              LET out == IF s = AllSound THEN {} ELSE Oldest IN
              /\ CreateIn(Append(Without(out), EmptySlot(s, Due.source)), {s}, PlanOrBuilt, DpsOf(out))
              /\ evicted' = evicted \union {slots[i].sid : i \in out}
              /\ plan' = PlanOrBuilt /\ UNCHANGED softOff
    /\ ByPosts

(* Mutant of RunDetach: whoever lets go, the effect goes.                   *)
RunDetachAny ==
    /\ Takes("detach")
    /\ LET I == SlotOf(Due.sid) IN
       /\ slots' = Without(I)
       /\ effects' = {e \in effects : e.dp \notin DpsOf(I)}
    /\ UNCHANGED <<plan, softOff, ending, evicted, bounds>> /\ ByPosts

RunDetach ==
    /\ Takes("detach")
    /\ LET I == SlotOf(Due.sid)
           last == {i \in I : slots[i].sources \subseteq {Due.source}} IN
       /\ slots' = IF last # {} THEN Without(last)
                   ELSE [i \in DOMAIN slots |->
                           IF i \in I THEN [slots[i] EXCEPT !.sources = @ \ {Due.source}]
                           ELSE slots[i]]
       /\ effects' = {e \in effects : e.dp \notin DpsOf(last)}
    /\ UNCHANGED <<plan, softOff, ending, evicted, bounds>> /\ ByPosts

(* detachAll(), and what release() posts.                                   *)
RunDetachAll ==
    /\ Takes("detachAll") \/ Takes("release")
    /\ slots' = <<>>
    /\ effects' = {e \in effects : e.dp \notin DpsOf(DOMAIN slots)}
    /\ evicted' = {}
    /\ UNCHANGED <<plan, softOff, ending, bounds>> /\ ByPosts

RunRecreateAll ==
    /\ Takes("recreateAll")
    /\ CreateIn(slots, {slots[i].sid : i \in DOMAIN slots}, Wanted, DpsOf(DOMAIN slots))
    /\ plan' = IF slots = <<>> THEN None ELSE Wanted
    /\ UNCHANGED <<softOff, evicted>> /\ ByPosts

RunSoftOff ==
    /\ Takes("softOff")
    /\ softOff' = Due.off
    /\ LET Mine == {e \in effects : e.ours /\ e.dp \in DpsOf(DOMAIN slots)} IN
       /\ effects' = (effects \ Mine) \union {[e EXCEPT !.on = ~Due.off] : e \in Mine}
       /\ slots' = [i \in DOMAIN slots |->
                       [slots[i] EXCEPT !.error = @ \/ \E e \in effects \ Mine : e.dp = slots[i].dp]]
    /\ UNCHANGED <<plan, ending, evicted, bounds>> /\ ByPosts

(* onControl()                                                              *)
RunControl ==
    /\ Takes("control")
    /\ LET I == {i \in DOMAIN slots : slots[i].dp = Due.dp} IN
       IF I = {} THEN UNCHANGED <<hostVars, effects, ending, bounds>>
       ELSE IF Due.granted
       THEN /\ CreateIn(slots, {slots[i].sid : i \in I}, PlanOrBuilt, {Due.dp})
            /\ plan' = PlanOrBuilt /\ UNCHANGED softOff
       ELSE /\ slots' = [i \in DOMAIN slots |->
                            IF i \in I THEN [slots[i] EXCEPT !.control = FALSE, !.error = TRUE]
                            ELSE slots[i]]
            /\ UNCHANGED <<plan, softOff, effects, ending, bounds>>
    /\ UNCHANGED evicted /\ ByPosts

(* onEnable() with FALSE: switched back on once.                            *)
RunEnable ==
    /\ Takes("enable")
    /\ LET I == IF softOff THEN {} ELSE {i \in DOMAIN slots : slots[i].dp = Due.dp}
           again == {i \in I : slots[i].control /\ ~slots[i].tried}
           Mine == {e \in effects : e.ours /\ e.dp \in DpsOf(again)} IN
       /\ effects' = (effects \ Mine) \union {[e EXCEPT !.on = TRUE] : e \in Mine}
       /\ slots' = [i \in DOMAIN slots |->
             IF i \notin I THEN slots[i]
             ELSE [slots[i] EXCEPT !.tried = TRUE,
                      !.error = @ \/ i \notin again \/ slots[i].dp \notin {e.dp : e \in Mine}]]
    /\ UNCHANGED <<plan, softOff, ending, evicted, bounds>> /\ ByPosts

(* push() to each slot; in vain without control or for a refused value.  Only *)
(* what differs from what was sent is sent, so that values of a push that    *)
(* failed may be stuck in the effect.                                        *)
Unsent == {i \in DOMAIN slots : slots[i].dp # None /\ slots[i].sent # Wanted}
EffectOf(i) == {e \in effects : e.dp = slots[i].dp}

PushTo(bad, stuck) ==
    LET fails == {i \in Unsent : i \in bad \/ \A e \in EffectOf(i) : ~e.ours} IN
    /\ slots' = [i \in DOMAIN slots |->
          IF i \in fails THEN [slots[i] EXCEPT !.error = TRUE]
          ELSE IF i \in Unsent THEN [slots[i] EXCEPT !.sent = Wanted] ELSE slots[i]]
    /\ effects' = {CASE e.dp \in DpsOf(Unsent \ (fails \union stuck)) -> [e EXCEPT !.cards = cards]
                     [] e.dp \in DpsOf(bad) -> [e EXCEPT !.cards = None]
                     [] OTHER -> e : e \in effects}

PushAll ==
    \E bad \in SUBSET Unsent :
        /\ faults + Cardinality(bad) <= MaxFaults
        /\ faults' = faults + Cardinality(bad) /\ UNCHANGED <<changes, ending>>
        /\ \E stuck \in SUBSET {i \in Unsent : /\ slots[i].sent # None
                                               /\ \E e \in EffectOf(i) : e.cards = None} :
              PushTo(bad, stuck)

(* Mutant of ShapeChanged: the rate is no reason for a new effect.          *)
FrameChanged == plan # None /\ plan.frame # frame

ShapeChanged == plan # None /\ <<plan.frame, plan.rate>> # <<frame, rate>>

(* syncNow(), when its delay is over, whether the rate is in force or not.  *)
RunSync ==
    /\ sync /\ sync' = FALSE /\ stale' = FALSE /\ late' = rateMoving
    /\ plan' = Wanted /\ UNCHANGED softOff
    /\ IF ShapeChanged
       THEN LET I == {i \in DOMAIN slots : slots[i].dp # None} IN
            CreateIn(slots, {slots[i].sid : i \in I}, Wanted, DpsOf(I))
       ELSE PushAll
    /\ UNCHANGED <<service, capture, target, wantedTarget, pending, found, released, queue,
                   held, world, asked, evicted, modes>>

(* ... and when the plan cannot be built: the old one stays.                *)
SyncFails ==
    /\ sync /\ sync' = FALSE /\ stale' = TRUE /\ Fault
    /\ UNCHANGED <<late, serviceVars, queue, hostVars, released, effects, held, world, asked,
                   evicted, modes>>

-----------------------------------------------------------------------------
(* Other apps and the audio server.                                         *)

Others == UNCHANGED <<serviceVars, hostVars, released, requests, world, asked, evicted,
                      modes>>
Notice(op, dp, granted) == queue' = Append(queue, [op |-> op, dp |-> dp, granted |-> granted])

(* Another app takes an effect of ours over.                                *)
TakeOver ==
    /\ Fault
    /\ \E e \in {e \in effects : e.ours} :
          /\ effects' = (effects \ {e}) \union {[e EXCEPT !.ours = FALSE, !.cards = None]}
          /\ held' = held \union {e.dp[1]}
          /\ Notice("control", e.dp, FALSE)
    /\ Others

(* Another app is first.                                                    *)
BeFirst ==
    /\ Fault
    /\ \E s \in Sids \ held : /\ \A e \in effects : e.dp[1] # s
                             /\ held' = held \union {s}
    /\ UNCHANGED <<effects, queue>> /\ Others

(* It goes, and we are in control again.                                    *)
LetGo ==
    /\ \E s \in held :
          /\ held' = held \ {s}
          /\ LET Lost == {e \in effects : e.dp[1] = s /\ ~e.ours} IN
             IF Lost = {} THEN UNCHANGED <<effects, queue>>
             ELSE \E e \in Lost : /\ effects' = (effects \ {e}) \union {[e EXCEPT !.ours = TRUE]}
                                  /\ Notice("control", e.dp, TRUE)
    /\ UNCHANGED bounds /\ Others

SwitchOff ==
    /\ Fault
    /\ \E e \in {e \in effects : e.on} :
          /\ effects' = (effects \ {e}) \union {[e EXCEPT !.on = FALSE]}
          /\ Notice("enable", e.dp, FALSE)
    /\ UNCHANGED held /\ Others

-----------------------------------------------------------------------------
Main ==
    \/ Start \/ StartFails \/ HearStopped \/ FallBack \/ Announced \/ HandleDump
    \/ Retarget \/ TakeBack \/ SoftPower \/ ChangeSettings \/ Stop

Screens == SwitchMode \/ AskConsent \/ Answered \/ CaptureEnds

EffectThread ==
    \/ RunAttach \/ RunDetach \/ RunDetachAll \/ RunRecreateAll \/ RunSoftOff
    \/ RunControl \/ RunEnable \/ RunSync

System ==
    \/ ChangeDevice \/ RateSettles \/ TakeOver \/ BeFirst \/ LetGo \/ SwitchOff

Next == Main \/ Screens \/ EffectThread \/ SyncFails \/ System

Spec == Init /\ [][Next]_vars

-----------------------------------------------------------------------------
(* Properties.                                                              *)

(* Every variable stays in its type; no two slots share a session.          *)
TypeOK ==
    /\ service \in {"down", "waiting", "up", "failed"} /\ capture \in {"off", "on", "stopping"}
    /\ {target, wantedTarget} \subseteq {"all", "apps"}
    /\ found \subseteq Apps /\ (target = "all" => found = {})
    /\ service = "waiting" \/ pending = <<>>
    /\ {ending, softOff, released, rateMoving, sync, stale, late} \subseteq BOOLEAN
    /\ {globalOn, fellBack, uninvited} \subseteq BOOLEAN
    /\ consent \in {"none", "asked", "outdated"}
    /\ held \subseteq Sids /\ evicted \subseteq Apps
    /\ {cards, frame, rate} \subseteq 0 .. 1
    /\ plan \in Plans \union {None}
    /\ \A i \in DOMAIN slots :
          /\ slots[i].sid \in Sids /\ slots[i].sources # {}
          /\ \A k \in DOMAIN slots : slots[k].sid = slots[i].sid => k = i
    /\ changes \in 0 .. MaxChanges /\ faults \in 0 .. MaxFaults

(* Every effect of ours in the server is the one of its slot, whatever was    *)
(* refused, taken over, made anew or evicted, and no more apps than the cap  *)
(* have one; a stopped service leaves none behind.                           *)
NoStrayEffect ==
    /\ \A e \in effects : \E i \in DOMAIN slots : slots[i].sid = e.dp[1] /\ slots[i].dp = e.dp
    /\ \A i \in DOMAIN slots : slots[i].dp # None => \E e \in effects : e.dp = slots[i].dp
    /\ Cardinality(AppSlots) <= Cap
    /\ (service = "down" /\ queue = <<>>) => (effects = {} /\ slots = <<>>)

(* When the posts have run, a session has a slot for as long as anybody who   *)
(* found it holds it, players and dumps in any order and the target switched  *)
(* in between; only a session that had to make room may lack one.            *)
SourcesKept ==
    (queue = <<>> /\ service # "down") =>
        \A s \in Sids \ evicted :
            UNION {slots[i].sources : i \in SlotOf(s)} = {a[2] : a \in {a \in asked : a[1] = s}}

(* When nothing is left to run, every effect that shows no error is ours, is  *)
(* switched as the profile asks, and has the plan the cards, the precision   *)
(* and the output's rate call for, unless the last sync could build none.    *)
(* Nothing but the rate may be out of date, and only when it came into force *)
(* later than the sync that follows a change of output.                      *)
InStep ==
    (service = "up" /\ queue = <<>> /\ ~sync /\ ~stale) =>
        \A i \in DOMAIN slots : slots[i].error
            \/ \E e \in effects : /\ e.dp = slots[i].dp /\ e.ours
                                   /\ e.on = ~softOff
                                   /\ e.cards = cards /\ e.shape[1] = frame
                                   /\ (e.shape[2] = rate \/ late)

(* A global mode that is to stay never runs beside capture mode, however the  *)
(* switch, the services and the consent dialog interleave, unless three      *)
(* seconds were not enough for capture mode to stop, or a dialog older than  *)
(* the switch started it.                                                    *)
NotBesideCapture ==
    (service = "up" /\ ~ending /\ ~fellBack /\ ~uninvited) => capture = "off"

(* ... whatever dialog is open ("never runs alongside capture mode").       *)
NeverBesideCapture == (service = "up" /\ ~ending /\ ~fellBack) => capture = "off"
=============================================================================
