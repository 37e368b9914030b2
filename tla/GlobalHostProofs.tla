--------------------------- MODULE GlobalHostProofs ---------------------------
(***************************************************************************)
(* Proofs about GlobalHost.  The argument is layered: the slots of the        *)
(* effect thread and the effects in the server match (HostInv), whatever      *)
(* creating, pushing, evicting or another app does; a stopped service leaves  *)
(* nothing once its posts have run (DownInv); the slots and the posts that    *)
(* wait come to what was asked for (KeptInv); and each slot without an error  *)
(* serves its plan, or a notice that says why not is waiting (PlanInv), which *)
(* is the wanted plan when no sync is due (SyncInv).                          *)
(***************************************************************************)
EXTENDS GlobalHost, FiniteSetTheorems, SequenceTheorems, WellFoundedInduction, TLAPS

(* What may wait in the queue: requests of the main thread, and notices.    *)
Posts ==
    [op : {"attach", "detach"}, sid : Sids, source : Sources]
        \union [op : {"detachAll", "release", "recreateAll"}]
        \union [op : {"softOff"}, off : BOOLEAN]
        \union [op : {"control", "enable"}, dp : Dps, granted : BOOLEAN]

(* What a post carries.                                                     *)
LEMMA PostCarries ==
    ASSUME NEW p \in Posts
    PROVE  /\ p.op \in {"attach", "detach", "detachAll", "release", "recreateAll",
                        "softOff", "control", "enable"}
           /\ p.op \in {"attach", "detach"} => p.sid \in Sids /\ p.source \in Sources
           /\ p.op = "softOff" => p.off \in BOOLEAN
           /\ p.op \in {"control", "enable"} => p.dp \in Dps /\ p.granted \in BOOLEAN
  BY DEF Posts

(* What is posted anywhere is a post.                                       *)
LEMMA PostsMade ==
    /\ \A s \in Sids, x \in Sources : Attach(s, x) \in Posts /\ Detach(s, x) \in Posts
    /\ \A op \in {"detachAll", "release", "recreateAll"} : Plain(op) \in Posts
    /\ \A b \in BOOLEAN : [op |-> "softOff", off |-> b] \in Posts
    /\ \A op \in {"control", "enable"}, dp \in Dps, b \in BOOLEAN :
          [op |-> op, dp |-> dp, granted |-> b] \in Posts
  BY DEF Posts, Attach, Detach, Plain

(* The posts for what a dump shows to have come or gone.                    *)
LEMMA OneForEach ==
    ASSUME NEW S \in SUBSET Apps, NEW q \in InSomeOrder(S)
    PROVE  AttachEach(q) \in Seq(Posts) /\ DetachEach(q) \in Seq(Posts)
<1>1. IsFiniteSet(S) /\ Cardinality(S) \in Nat
  BY AppsAssumption, FS_Subset, FS_CardinalityType
<1>2. PICK n \in Nat : n = Cardinality(S) BY <1>1
<1>3. DOMAIN q = 1 .. n /\ \A i \in 1 .. n : q[i] \in Sids
  BY <1>2 DEF InSomeOrder, Sids
<1>4. \A i \in 1 .. n : Attach(q[i], "found") \in Posts /\ Detach(q[i], "found") \in Posts
  BY <1>3, PostsMade DEF Sources
<1>5. AttachEach(q) \in [1 .. n -> Posts] /\ DetachEach(q) \in [1 .. n -> Posts]
  BY <1>3, <1>4 DEF AttachEach, DetachEach
<1> QED BY <1>2, <1>5, SeqDef

-----------------------------------------------------------------------------
(* The main thread's variables and the queue are of their types.            *)
ServiceInv ==
    /\ service \in {"down", "waiting", "up", "failed"} /\ capture \in {"off", "on", "stopping"}
    /\ target \in {"all", "apps"} /\ wantedTarget \in {"all", "apps"}
    /\ found \in SUBSET Apps /\ (target = "all" => found = {})
    /\ pending \in Seq(Posts) /\ queue \in Seq(Posts)
    /\ service = "waiting" \/ pending = <<>>
    /\ sync \in BOOLEAN
    /\ held \in SUBSET Sids /\ asked \in SUBSET (Sids \X Sources)

(* The steps of the main thread and of the system that leave the effects     *)
(* alone; they may add to the queue.                                        *)
Quiet ==
    \/ HearStopped \/ FallBack \/ Announced \/ HandleDump \/ Retarget \/ TakeBack \/ SoftPower
    \/ ChangeSettings \/ Stop \/ Screens \/ SyncFails
    \/ ChangeDevice \/ RateSettles \/ BeFirst

(* A new service, and with it a new host.                                   *)
Starting == Start \/ StartFails

(* Posts are added, and whoever asked in them has asked.                    *)
Posted(posts) == queue' = queue \o posts /\ asked' = Asked(asked, posts)

(* A step that posts nothing posts the empty sequence.                      *)
LEMMA NothingAsked ==
    ASSUME asked \in SUBSET (Sids \X Sources), queue \in Seq(Posts), UNCHANGED <<queue, asked>>
    PROVE  <<>> \in Seq(Posts) /\ Posted(<<>>)
<1>1. <<>> \in Seq(Posts) /\ queue \o <<>> = queue OBVIOUS
<1>2. DOMAIN <<>> = {} OBVIOUS
<1>3. Asked(asked, <<>>) = asked BY <1>2 DEF Asked
<1> QED BY <1>1, <1>3 DEF Posted

(* attachNow() ends the wait and posts.                                     *)
LEMMA AttachNowPosts ==
    ASSUME NEW base, NEW to \in {"all", "apps"}, NEW before \in Seq(Posts),
           NEW announced \in Seq(Posts), AttachNow(base, to, before, announced)
    PROVE  /\ service' = "up" /\ target' = to /\ found' = {} /\ pending' = <<>>
           /\ \E posts \in Seq(Posts) : queue' = base \o posts /\ asked' = Asked(asked, posts)
<1> DEFINE more == IF to = "all" THEN <<Attach(AllSound, "all")>> ELSE announced
<1>1. Attach(AllSound, "all") \in Posts BY PostsMade DEF Sids, Sources
<1>2. more \in Seq(Posts) BY <1>1
<1>3. before \o more \in Seq(Posts) BY <1>2
<1>4. queue' = base \o (before \o more) /\ asked' = Asked(asked, before \o more)
  BY DEF AttachNow, PostOn
<1> QED BY <1>3, <1>4 DEF AttachNow

(* What wakes a new service, posted or kept for later.                      *)
LEMMA WokenBy ==
    ASSUME NEW first \in {<<>>} \union
          (IF wantedTarget = "apps" THEN {<<Attach(s, "announced")>> : s \in Apps} ELSE {})
    PROVE  first \in Seq(Posts)
<1>1. CASE first = <<>> BY <1>1
<1>2. CASE first # <<>>
  <2>1. PICK s \in Apps : first = <<Attach(s, "announced")>> BY <1>2
  <2>2. Attach(s, "announced") \in Posts BY PostsMade DEF Sids, Sources
  <2> QED BY <2>1, <2>2
<1> QED BY <1>1, <1>2

(* A new host starts with nothing but the posts its service makes.           *)
LEMMA Started ==
    ASSUME ServiceInv, Starting
    PROVE  /\ service = "down" /\ service' \in {"waiting", "up", "failed"}
           /\ slots' = <<>> /\ effects' = {} /\ evicted' = {}
           /\ \E posts \in Seq(Posts) : queue' = posts /\ asked' = Asked(asked, posts)
<1>1. slots' = <<>> /\ effects' = {} /\ evicted' = {} /\ service = "down"
  BY DEF Starting, Start, StartFails, NewHost
<1>2. ASSUME queue' = <<>>, UNCHANGED asked
      PROVE  \E posts \in Seq(Posts) : queue' = posts /\ asked' = Asked(asked, posts)
  <2>1. <<>> \in Seq(Posts) /\ DOMAIN <<>> = {} OBVIOUS
  <2>2. asked \in SUBSET (Sids \X Sources) BY DEF ServiceInv
  <2>3. Asked(asked, <<>>) = asked BY <2>1, <2>2 DEF Asked
  <2> QED BY <1>2, <2>1, <2>3
<1>3. CASE StartFails BY <1>1, <1>2, <1>3 DEF StartFails
<1>4. CASE Start
  <2>1. PICK first \in {<<>>} \union
          (IF wantedTarget = "apps" THEN {<<Attach(s, "announced")>> : s \in Apps} ELSE {}) :
            \/ AttachNow(<<>>, wantedTarget, <<>>, first)
            \/ service' = "waiting" /\ queue' = <<>> /\ UNCHANGED asked
    BY <1>4 DEF Start
  <2>2. CASE AttachNow(<<>>, wantedTarget, <<>>, first)
    <3>1. first \in Seq(Posts) /\ <<>> \in Seq(Posts) BY <2>1, WokenBy
    <3>2. wantedTarget \in {"all", "apps"} BY DEF ServiceInv
    <3>3. /\ service' = "up"
          /\ \E posts \in Seq(Posts) : queue' = <<>> \o posts /\ asked' = Asked(asked, posts)
      BY ONLY <2>2, <3>1, <3>2, AttachNowPosts
    <3>4. PICK posts \in Seq(Posts) : queue' = <<>> \o posts /\ asked' = Asked(asked, posts)
      BY <3>3
    <3>5. <<>> \o posts = posts OBVIOUS
    <3> QED BY <1>1, <3>3, <3>4, <3>5
  <2>3. CASE service' = "waiting" /\ queue' = <<>> /\ UNCHANGED asked
    BY <1>1, <1>2, <2>3
  <2> QED BY <2>1, <2>2, <2>3
<1> QED BY <1>3, <1>4 DEF Starting

(* Such a step only adds posts, and asked follows them.                     *)
LEMMA QuietPosts ==
    ASSUME ServiceInv, Quiet
    PROVE  /\ UNCHANGED <<slots, effects, evicted>>
           /\ \E posts \in Seq(Posts) : Posted(posts)
<1> DEFINE Goal == /\ UNCHANGED <<slots, effects, evicted>>
                   /\ \E posts \in Seq(Posts) : Posted(posts)
<1>0. ASSUME UNCHANGED <<queue, asked>> PROVE \E posts \in Seq(Posts) : Posted(posts)
  BY <1>0, NothingAsked DEF ServiceInv
<1>a. ASSUME NEW posts \in Seq(Posts), Post(posts) PROVE \E x \in Seq(Posts) : Posted(x)
  BY <1>a DEF Post, PostOn, Posted
<1>2. CASE HearStopped \/ FallBack
  <2>1. AttachNow(queue, wantedTarget, <<>>, pending) /\ UNCHANGED <<slots, effects, evicted>>
    BY <1>2 DEF HearStopped, FallBack, hostVars
  <2>2. <<>> \in Seq(Posts) OBVIOUS
  <2>3. pending \in Seq(Posts) /\ wantedTarget \in {"all", "apps"} BY DEF ServiceInv
  <2> QED BY <2>1, <2>2, <2>3, AttachNowPosts DEF Posted
<1>3. CASE Announced
  <2>1. PICK s \in Apps, op \in {"attach", "detach"} :
            \/ UNCHANGED <<queue, asked>>
            \/ Post(<<[op |-> op, sid |-> s, source |-> "announced"]>>)
    BY <1>3 DEF Announced
  <2>2. [op |-> op, sid |-> s, source |-> "announced"] \in Posts BY DEF Posts, Sids, Sources
  <2>3. <<[op |-> op, sid |-> s, source |-> "announced"]>> \in Seq(Posts) BY <2>2
  <2> QED BY <1>0, <1>a, <1>3, <2>1, <2>3 DEF Announced, hostVars
<1>4. CASE HandleDump
  <2>1. PICK playing \in (SUBSET Apps) \ {found} :
          \E added \in InSomeOrder(playing \ found), removed \in InSomeOrder(found \ playing) :
             Post(AttachEach(added) \o DetachEach(removed))
    BY <1>4 DEF HandleDump
  <2>2. PICK added \in InSomeOrder(playing \ found), removed \in InSomeOrder(found \ playing) :
             Post(AttachEach(added) \o DetachEach(removed))
    BY <2>1
  <2>3. playing \ found \in SUBSET Apps /\ found \ playing \in SUBSET Apps
    BY <2>1 DEF ServiceInv
  <2>4. AttachEach(added) \in Seq(Posts) /\ DetachEach(removed) \in Seq(Posts)
    BY <2>3, OneForEach
  <2>5. AttachEach(added) \o DetachEach(removed) \in Seq(Posts) BY <2>4
  <2> QED BY <1>a, <1>4, <2>2, <2>5 DEF HandleDump, hostVars
<1>5. CASE Retarget
  <2>1. UNCHANGED <<slots, effects, evicted>> BY <1>5 DEF Retarget, hostVars
  <2>2. \/ UNCHANGED <<queue, asked>>
        \/ \E q \in InSomeOrder(found) :
              AttachNow(queue, wantedTarget', DetachEach(q) \o <<Plain("detachAll")>>, <<>>)
    BY <1>5 DEF Retarget
  <2>3. CASE UNCHANGED <<queue, asked>> BY <1>0, <2>1, <2>3
  <2>4. ASSUME NEW q \in InSomeOrder(found),
               AttachNow(queue, wantedTarget', DetachEach(q) \o <<Plain("detachAll")>>, <<>>)
        PROVE  Goal
    <3>1. DetachEach(q) \in Seq(Posts) BY OneForEach DEF ServiceInv
    <3>2. Plain("detachAll") \in Posts BY PostsMade
    <3>3. DetachEach(q) \o <<Plain("detachAll")>> \in Seq(Posts) BY <3>1, <3>2
    <3>4. <<>> \in Seq(Posts) /\ wantedTarget' \in {"all", "apps"} BY <1>5 DEF Retarget
    <3> QED BY <2>1, <2>4, <3>3, <3>4, AttachNowPosts DEF Posted
  <2> QED BY <2>2, <2>3, <2>4
<1>6. CASE TakeBack
  <2>1. Plain("recreateAll") \in Posts BY PostsMade
  <2>2. <<Plain("recreateAll")>> \in Seq(Posts) BY <2>1
  <2> QED BY <1>a, <1>6, <2>2 DEF TakeBack, hostVars
<1>7. CASE SoftPower
  <2>1. PICK b \in BOOLEAN : Post(<<[op |-> "softOff", off |-> b]>>) BY <1>7 DEF SoftPower
  <2>2. [op |-> "softOff", off |-> b] \in Posts BY PostsMade
  <2>3. <<[op |-> "softOff", off |-> b]>> \in Seq(Posts) BY <2>2
  <2> QED BY <1>a, <1>7, <2>1, <2>3 DEF SoftPower, hostVars
<1>8. CASE ChangeSettings BY <1>0, <1>8 DEF ChangeSettings, hostVars
<1>9. CASE Stop
  <2>1. PICK q \in InSomeOrder(found) : Post(DetachEach(q) \o <<Plain("release")>>)
    BY <1>9 DEF Stop
  <2>2. DetachEach(q) \in Seq(Posts) BY OneForEach DEF ServiceInv
  <2>3. Plain("release") \in Posts BY PostsMade
  <2>4. DetachEach(q) \o <<Plain("release")>> \in Seq(Posts) BY <2>2, <2>3
  <2> QED BY <1>a, <1>9, <2>1, <2>4 DEF Stop, hostVars
<1>10. CASE ChangeDevice \/ RateSettles \/ BeFirst \/ SyncFails
  BY <1>0, <1>10 DEF ChangeDevice, RateSettles, BeFirst, SyncFails, Others, hostVars
<1>11. CASE Screens
  BY <1>0, <1>11 DEF Screens, SwitchMode, AskConsent, Answered, CaptureEnds, Elsewhere, hostVars
<1> QED BY <1>2, <1>3, <1>4, <1>5, <1>6, <1>7, <1>8, <1>9, <1>10, <1>11 DEF Quiet

(* A post taken from the queue.                                             *)
LEMMA Taken ==
    ASSUME queue \in Seq(Posts), NEW op, Takes(op)
    PROVE  /\ Due \in Posts /\ Due.op = op /\ queue' \in Seq(Posts)
           /\ Len(queue) \in Nat \ {0} /\ Len(queue') = Len(queue) - 1
           /\ \A k \in 1 .. Len(queue') : queue'[k] = queue[k + 1]
<1>1. queue # <<>> /\ Due = queue[1] /\ queue' = Tail(queue) /\ Due.op = op
  BY DEF Takes, Due
<1>2. Len(queue) \in Nat \ {0} /\ queue[1] \in Posts BY <1>1
<1>3. /\ Tail(queue) \in Seq(Posts) /\ Len(Tail(queue)) = Len(queue) - 1
      /\ \A k \in 1 .. Len(queue) - 1 : Tail(queue)[k] = queue[k + 1]
  BY <1>1
<1> QED BY <1>1, <1>2, <1>3

(* A notice may wait in the queue too.                                      *)
LEMMA Noticed ==
    ASSUME queue \in Seq(Posts), NEW op \in {"control", "enable"}, NEW dp \in Dps,
           NEW granted \in BOOLEAN, Notice(op, dp, granted)
    PROVE  queue' \in Seq(Posts)
<1>1. [op |-> op, dp |-> dp, granted |-> granted] \in Posts BY PostsMade
<1> QED BY <1>1 DEF Notice

-----------------------------------------------------------------------------
(* The slots and the effects of the server.                                 *)
Slot == [sid : Sids, sources : SUBSET Sources, dp : Dps \union {None},
         control : BOOLEAN, sent : Plans \union {None}, tried : BOOLEAN, error : BOOLEAN]
Effect == [dp : Dps, ours : BOOLEAN, cards : (0 .. 1) \union {None},
           shape : (0 .. 1) \X (0 .. 1), on : BOOLEAN]

(* One slot for a session, and the handle in it is one for that session.    *)
GoodSlots(ss) ==
    /\ ss \in Seq(Slot)
    /\ \A i \in 1 .. Len(ss) :
          /\ ss[i].sources # {}
          /\ ss[i].dp # None => ss[i].dp[1] = ss[i].sid
    /\ \A i, k \in 1 .. Len(ss) : ss[i].sid = ss[k].sid => i = k

(* One effect for each handle in a slot, and no other.                      *)
GoodEffects(ss, es) ==
    /\ IsFiniteSet(es) /\ es \in SUBSET Effect
    /\ \A e, f \in es : e.dp = f.dp => e = f
    /\ \A e \in es : \E i \in 1 .. Len(ss) : ss[i].dp = e.dp
    /\ \A i \in 1 .. Len(ss) : ss[i].dp # None => \E e \in es : e.dp = ss[i].dp

(* The naturals are well ordered.                                           *)
LEMMA LeastPlace ==
    ASSUME NEW T, T \subseteq Nat, T # {}
    PROVE  \E x \in T : \A y \in T : x <= y
<1> DEFINE less == {ss \in Nat \X Nat : ss[1] < ss[2]}
<1>1. OpToRel(<, Nat) = less
  BY DEF OpToRel
<1>2. IsWellFoundedOn(less, Nat)
  BY <1>1, NatLessThanWellFounded
<1>3. \E x \in T : \A y \in T : ~(<<y, x>> \in less)
  <2> HIDE DEF less
  <2> QED BY <1>2, WFMin
<1>4. PICK x \in T : \A y \in T : ~(<<y, x>> \in less) BY <1>3
<1>5. ASSUME NEW y \in T PROVE x <= y
  <2>1. x \in Nat /\ y \in Nat /\ ~(<<y, x>> \in less) BY <1>4
  <2>2. ~(y < x) BY <2>1
  <2> QED BY <2>1, <2>2
<1> QED BY <1>4, <1>5

(* The handles taken are finitely many, so that a new one is found.         *)
LEMMA FreshDp ==
    ASSUME IsFiniteSet(effects), queue \in Seq(Posts), NEW s \in Sids
    PROVE  /\ NewDp(s) \in Dps /\ NewDp(s)[1] = s /\ NewDp(s) # None
           /\ \A e \in effects : e.dp # NewDp(s)
<1> DEFINE Used == {e.dp : e \in effects}
           I == {k \in DOMAIN queue : queue[k].op \in {"control", "enable"}}
           Named == {queue[i].dp : i \in I}
           All == Used \union Named
<1>1. IsFiniteSet(Used)
  <2> DEFINE f == [e \in effects |-> e.dp]
  <2>1. f \in [effects -> Used] OBVIOUS
  <2>2. \A u \in Used : \E e \in effects : f[e] = u OBVIOUS
  <2>3. f \in Surjection(effects, Used) BY <2>1, <2>2 DEF Surjection
  <2> QED BY <2>3, FS_Surjection
<1>2. IsFiniteSet(Named)
  <2>1. DOMAIN queue = 1 .. Len(queue) /\ Len(queue) \in Nat OBVIOUS
  <2>2. I \in SUBSET (1 .. Len(queue)) BY <2>1
  <2>a. IsFiniteSet(1 .. Len(queue)) BY <2>1, FS_Interval
  <2> HIDE DEF I
  <2>3. IsFiniteSet(I) BY ONLY <2>2, <2>a, FS_Subset
  <2> DEFINE f == [i \in I |-> queue[i].dp]
  <2>4. f \in Surjection(I, Named) BY DEF Surjection
  <2> QED BY <2>3, <2>4, FS_Surjection
<1>3. IsFiniteSet(All) /\ Cardinality(All) \in Nat
  <2> HIDE DEF Used, Named
  <2> QED BY <1>1, <1>2, FS_Union, FS_CardinalityType
<1> HIDE DEF Used, Named
<1>4. PICK c \in Nat : c = Cardinality(All) BY <1>3
<1> DEFINE Free == {n \in 0 .. c : <<s, n>> \notin All}
<1>5. Free # {}
  <2> SUFFICES ASSUME Free = {} PROVE FALSE OBVIOUS
  <2> HIDE DEF All
  <2> DEFINE f == [n \in 0 .. c |-> <<s, n>>]
  <2>1. \A n \in 0 .. c : <<s, n>> \in All OBVIOUS
  <2>2. f \in [0 .. c -> All] BY <2>1
  <2>3. \A m, n \in 0 .. c : f[m] = f[n] => m = n OBVIOUS
  <2>4. f \in Injection(0 .. c, All) BY <2>2, <2>3 DEF Injection, IsInjective
  <2> HIDE DEF f
  <2>5. Cardinality(0 .. c) <= Cardinality(All) BY <1>3, <2>4, FS_Injection
  <2>6. Cardinality(0 .. c) = c + 1 BY FS_Interval
  <2> QED BY <1>4, <2>5, <2>6
<1>6. Free \subseteq Nat OBVIOUS
<1>7. PICK n \in Free : \A m \in Free : n <= m
  <2> HIDE DEF Free
  <2> QED BY <1>5, <1>6, LeastPlace
<1>8. n \in 0 .. c /\ <<s, n>> \notin All /\ \A m \in 0 .. n - 1 : <<s, m>> \in All
  <2>1. n \in 0 .. c /\ <<s, n>> \notin All OBVIOUS
  <2>2. ASSUME NEW m \in 0 .. n - 1 PROVE <<s, m>> \in All
    <3>1. m \in 0 .. c /\ ~(n <= m) BY <2>1
    <3>2. m \notin Free BY <1>7, <3>1
    <3> QED BY <3>1, <3>2
  <2> QED BY <2>1, <2>2
<1> DEFINE Found == CHOOSE k \in 0 .. c :
                      <<s, k>> \notin All /\ \A m \in 0 .. k - 1 : <<s, m>> \in All
<1>9. NewDp(s) = <<s, Found>>
  BY <1>4 DEF NewDp, Used, Named
<1>10. Found \in 0 .. c /\ <<s, Found>> \notin All
  <2> HIDE DEF All, Free
  <2> QED BY <1>8
<1>11. Found \in Nat /\ NewDp(s) = <<s, Found>> BY <1>9, <1>10
<1> HIDE DEF Found, Free
<1>12. NewDp(s) \in Dps /\ NewDp(s)[1] = s /\ NewDp(s) \notin Used
  BY <1>10, <1>11 DEF Dps
<1> QED BY <1>12, NoneAssumption DEF Used

-----------------------------------------------------------------------------
(* The slot create() leaves, however it ends.                               *)
LEMMA CreatedSlot ==
    ASSUME NEW b \in Slot, NEW end \in Endings, NEW p \in Plans, NewDp(b.sid) \in Dps
    PROVE  LET c == Created(b, end, p) IN
           /\ c \in Slot /\ c.sid = b.sid /\ c.sources = b.sources
           /\ c.dp = IF end = "refused" THEN None ELSE NewDp(b.sid)
           /\ c.sent = IF end = "made" THEN p ELSE None
           /\ c.error <=> end # "made"
<1>1. PICK control \in BOOLEAN : control <=> end \in {"made", "failed"} OBVIOUS
<1>2. PICK error \in BOOLEAN : error <=> end # "made" OBVIOUS
<1>3. control = (end \in {"made", "failed"}) /\ error = (end # "made")
  BY <1>1, <1>2, Zenon
<1>4. PICK sent : sent = IF end = "made" THEN p ELSE None OBVIOUS
<1>5. PICK dp : dp = IF end = "refused" THEN None ELSE NewDp(b.sid) OBVIOUS
<1>6. Created(b, end, p) = [b EXCEPT !.dp = dp, !.sent = sent, !.control = control,
                                     !.tried = FALSE, !.error = error]
  BY <1>3, <1>4, <1>5, Zenon DEF Created
<1>7. sent \in Plans \union {None} /\ dp \in Dps \union {None} BY <1>4, <1>5
<1> DEFINE c == [b EXCEPT !.dp = dp, !.sent = sent, !.control = control,
                          !.tried = FALSE, !.error = error]
<1>8. /\ c \in Slot /\ c.sid = b.sid /\ c.sources = b.sources
      /\ c.dp = dp /\ c.sent = sent /\ c.error = error
  BY <1>1, <1>2, <1>7 DEF Slot
<1> HIDE DEF c
<1>9. Created(b, end, p) = c BY <1>6 DEF c
<1> QED BY <1>2, <1>4, <1>5, <1>8, <1>9

(* The effect create() leaves in the server, unless it was refused.         *)
LEMMA EffectMade ==
    ASSUME NEW s, NEW end \in Endings, NEW p \in Plans, NewDp(s) \in Dps, softOff \in BOOLEAN
    PROVE  LET e == NewEffect(s, end, p) IN
           /\ e \in Effect /\ e.dp = NewDp(s) /\ e.shape = <<p.frame, p.rate>>
           /\ e.ours <=> end # "weak"
           /\ e.on <=> end # "weak" /\ ~softOff
           /\ end = "made" => e.cards = p.cards
  BY DEF NewEffect, Effect, Endings, Plans

(* What is kept when the sessions in S are created anew: each other slot     *)
(* has the effect it had, and no other effect is kept.                      *)
OthersKept(base, S, dead) ==
    /\ \A e \in effects :
          e.dp \notin dead =>
             \E i \in 1 .. Len(base) : base[i].sid \notin S /\ base[i].dp = e.dp
    /\ \A i \in 1 .. Len(base) :
          base[i].sid \notin S /\ base[i].dp # None =>
             base[i].dp \notin dead /\ \E e \in effects : e.dp = base[i].dp

(* What creating does to each slot, given how it ends for each session.     *)
CreateEnds(o, base, S, p, dead) ==
    /\ Len(slots') = Len(base)
    /\ \A i \in 1 .. Len(base) :
          slots'[i] = IF base[i].sid \in S THEN Created(base[i], o[base[i].sid], p) ELSE base[i]
    /\ effects' = {e \in effects : e.dp \notin dead} \union
          {NewEffect(s, o[s], p) : s \in {s \in S : o[s] # "refused"}}

(* CreateIn is some outcome for each of the sessions.                       *)
LEMMA CreateMakes ==
    ASSUME NEW base, GoodSlots(base), NEW S \in SUBSET Sids, NEW p, NEW dead,
           CreateIn(base, S, p, dead)
    PROVE  \E o \in [S -> Endings] : CreateEnds(o, base, S, p, dead)
<1>1. PICK o \in [S -> Endings] :
        /\ slots' = [i \in DOMAIN base |->
              IF base[i].sid \in S THEN Created(base[i], o[base[i].sid], p) ELSE base[i]]
        /\ effects' = {e \in effects : e.dp \notin dead} \union
              {NewEffect(s, o[s], p) : s \in {s \in S : o[s] # "refused"}}
  BY DEF CreateIn, Outcomes
<1>2. DOMAIN base = 1 .. Len(base) /\ Len(base) \in Nat BY DEF GoodSlots
<1>3. PICK n \in Nat : n = Len(base) BY <1>2
<1>4. slots' = [i \in 1 .. n |->
              IF base[i].sid \in S THEN Created(base[i], o[base[i].sid], p) ELSE base[i]]
  BY <1>1, <1>2, <1>3
<1>5. Len(slots') = n BY <1>4
<1>6. \A i \in 1 .. n :
          slots'[i] = IF base[i].sid \in S THEN Created(base[i], o[base[i].sid], p) ELSE base[i]
  BY <1>4
<1> QED BY <1>1, <1>3, <1>5, <1>6 DEF CreateEnds

(* After creating there is again one effect for each handle in a slot.      *)
LEMMA CreateKeeps ==
    ASSUME GoodEffects(slots, effects), queue \in Seq(Posts), softOff \in BOOLEAN,
           NEW base, GoodSlots(base), NEW S \in SUBSET Sids, NEW p \in Plans, NEW dead,
           OthersKept(base, S, dead), CreateIn(base, S, p, dead),
           \A s \in S : \E i \in 1 .. Len(base) : base[i].sid = s
    PROVE  /\ GoodSlots(slots') /\ GoodEffects(slots', effects')
           /\ Len(slots') = Len(base)
           /\ \A i \in 1 .. Len(base) :
                 slots'[i].sid = base[i].sid /\ slots'[i].sources = base[i].sources
<1>1. PICK o \in [S -> Endings] : CreateEnds(o, base, S, p, dead) BY CreateMakes
<1>2. PICK n \in Nat : n = Len(base) BY DEF GoodSlots
<1>3. /\ \A i \in 1 .. n : base[i] \in Slot /\ base[i].sid \in Sids
      /\ \A i \in 1 .. n : base[i].sources # {}
      /\ \A i, k \in 1 .. n : base[i].sid = base[k].sid => i = k
  <2>1. /\ \A i \in 1 .. n : base[i] \in Slot
        /\ \A i \in 1 .. n : base[i].sources # {}
        /\ \A i, k \in 1 .. n : base[i].sid = base[k].sid => i = k
    BY <1>2 DEF GoodSlots
  <2>2. \A b \in Slot : b.sid \in Sids BY DEF Slot
  <2> QED BY <2>1, <2>2
<1>4. IsFiniteSet(effects) BY DEF GoodEffects
<1>5. \A s \in S : NewDp(s) \in Dps /\ NewDp(s)[1] = s /\ NewDp(s) # None
                   /\ \A e \in effects : e.dp # NewDp(s)
  BY <1>4, FreshDp
<1>6. ASSUME NEW i \in 1 .. n, base[i].sid \in S
      PROVE  LET c == slots'[i] end == o[base[i].sid] IN
             /\ end \in Endings
             /\ c \in Slot /\ c.sid = base[i].sid /\ c.sources = base[i].sources
             /\ c.dp = IF end = "refused" THEN None ELSE NewDp(base[i].sid)
  <2>1. slots'[i] = Created(base[i], o[base[i].sid], p)
    BY <1>1, <1>2, <1>6 DEF CreateEnds
  <2>2. o[base[i].sid] \in Endings /\ NewDp(base[i].sid) \in Dps /\ base[i] \in Slot
    BY <1>3, <1>5, <1>6
  <2> QED BY <2>1, <2>2, CreatedSlot
<1>7. ASSUME NEW i \in 1 .. n, base[i].sid \notin S PROVE slots'[i] = base[i]
  BY <1>1, <1>2, <1>7 DEF CreateEnds
<1>8. Len(slots') = n BY <1>1, <1>2 DEF CreateEnds
<1>9. \A i \in 1 .. n : /\ slots'[i] \in Slot /\ slots'[i].sid = base[i].sid
                        /\ slots'[i].sources = base[i].sources
  BY <1>3, <1>6, <1>7
<1>10. GoodSlots(slots')
  <2>1. slots' \in Seq(Slot)
    <3>1. DOMAIN slots' = 1 .. n /\ slots' = [i \in DOMAIN slots' |-> slots'[i]]
      BY <1>2, <1>8 DEF CreateIn, GoodSlots
    <3>2. slots' \in [1 .. n -> Slot] BY <1>9, <3>1
    <3> QED BY <3>2, SeqDef
  <2>2. \A i \in 1 .. n : slots'[i].dp # None => slots'[i].dp[1] = slots'[i].sid
    <3> SUFFICES ASSUME NEW i \in 1 .. n, slots'[i].dp # None
                 PROVE  slots'[i].dp[1] = slots'[i].sid
      OBVIOUS
    <3>1. CASE base[i].sid \in S BY <1>5, <1>6, <3>1
    <3>2. CASE base[i].sid \notin S BY <1>2, <1>7, <3>2 DEF GoodSlots
    <3> QED BY <3>1, <3>2
  <2> QED BY <1>3, <1>8, <1>9, <2>1, <2>2 DEF GoodSlots
<1> DEFINE Live == {s \in S : o[s] # "refused"}
           Fresh == {NewEffect(s, o[s], p) : s \in Live}
           Old == {e \in effects : e.dp \notin dead}
<1>11. effects' = Old \union Fresh BY <1>1 DEF CreateEnds
<1>12. \A s \in S : NewEffect(s, o[s], p) \in Effect /\ NewEffect(s, o[s], p).dp = NewDp(s)
  BY <1>5, EffectMade
<1>13. IsFiniteSet(effects')
  <2>1. IsFiniteSet(S)
    <3>1. IsFiniteSet(Sids) BY AppsAssumption, FS_AddElement DEF Sids
    <3> QED BY ONLY S \in SUBSET Sids, <3>1, FS_Subset
  <2>2. Live \in SUBSET S OBVIOUS
  <2>3. IsFiniteSet(Live)
    <3> HIDE DEF Live
    <3> QED BY <2>1, <2>2, FS_Subset
  <2>4. IsFiniteSet(Fresh)
    <3> HIDE DEF Live
    <3> DEFINE f == [s \in Live |-> NewEffect(s, o[s], p)]
    <3>1. f \in [Live -> Fresh] OBVIOUS
    <3>2. \A u \in Fresh : \E s \in Live : f[s] = u OBVIOUS
    <3>3. f \in Surjection(Live, Fresh) BY <3>1, <3>2 DEF Surjection
    <3> HIDE DEF f, Fresh
    <3> QED BY <2>3, <3>3, FS_Surjection
  <2>5. Old \in SUBSET effects OBVIOUS
  <2>6. IsFiniteSet(Old)
    <3> HIDE DEF Old
    <3> QED BY <1>4, <2>5, FS_Subset
  <2> HIDE DEF Old, Fresh
  <2> QED BY <1>11, <2>4, <2>6, FS_Union
<1>14. \A e \in effects' : e \in Old \/ \E s \in Live : e = NewEffect(s, o[s], p)
  BY <1>11
<1>15. effects' \in SUBSET Effect
  <2>1. effects \in SUBSET Effect BY DEF GoodEffects
  <2> QED BY <1>12, <1>14, <2>1
<1>16. \A e, f \in effects' : e.dp = f.dp => e = f
  <2> SUFFICES ASSUME NEW e \in effects', NEW f \in effects', e.dp = f.dp PROVE e = f
    OBVIOUS
  <2>1. CASE e \in Old /\ f \in Old BY <2>1 DEF GoodEffects
  <2>2. CASE e \in Old /\ f \notin Old
    <3>1. PICK s \in Live : f = NewEffect(s, o[s], p) BY <1>14, <2>2
    <3>2. s \in S /\ f.dp = NewDp(s) BY <1>12, <3>1
    <3> QED BY <1>5, <2>2, <3>2
  <2>3. CASE e \notin Old /\ f \in Old
    <3>1. PICK s \in Live : e = NewEffect(s, o[s], p) BY <1>14, <2>3
    <3>2. s \in S /\ e.dp = NewDp(s) BY <1>12, <3>1
    <3> QED BY <1>5, <2>3, <3>2
  <2>4. CASE e \notin Old /\ f \notin Old
    <3>1. PICK s \in Live : e = NewEffect(s, o[s], p) BY <1>14, <2>4
    <3>2. PICK t \in Live : f = NewEffect(t, o[t], p) BY <1>14, <2>4
    <3>3. s \in S /\ t \in S /\ e.dp = NewDp(s) /\ f.dp = NewDp(t) BY <1>12, <3>1, <3>2
    <3>4. NewDp(s)[1] = s /\ NewDp(t)[1] = t /\ NewDp(s) = NewDp(t) BY ONLY <1>5, <3>3, e.dp = f.dp
    <3>5. s = t BY ONLY <3>4
    <3> QED BY <3>1, <3>2, <3>5
  <2> QED BY <2>1, <2>2, <2>3, <2>4
<1>17. \A e \in effects' : \E i \in 1 .. n : slots'[i].dp = e.dp
  <2> SUFFICES ASSUME NEW e \in effects' PROVE \E i \in 1 .. n : slots'[i].dp = e.dp
    OBVIOUS
  <2>1. CASE e \in Old
    <3>1. PICK i \in 1 .. n : base[i].sid \notin S /\ base[i].dp = e.dp
      BY <1>2, <2>1 DEF OthersKept
    <3> QED BY <1>7, <3>1
  <2>2. CASE e \notin Old
    <3>1. PICK s \in Live : e = NewEffect(s, o[s], p) BY <1>14, <2>2
    <3>2. s \in S /\ o[s] # "refused" /\ e.dp = NewDp(s) BY <1>12, <3>1
    <3>3. PICK i \in 1 .. n : base[i].sid = s BY <1>2, <3>2
    <3> QED BY <1>6, <3>2, <3>3
  <2> QED BY <2>1, <2>2
<1>18. ASSUME NEW i \in 1 .. n, slots'[i].dp # None PROVE \E e \in effects' : e.dp = slots'[i].dp
  <2>1. CASE base[i].sid \in S
    <3>1. o[base[i].sid] # "refused" /\ slots'[i].dp = NewDp(base[i].sid) BY <1>6, <1>18, <2>1
    <3>2. NewEffect(base[i].sid, o[base[i].sid], p) \in effects' BY <1>11, <2>1, <3>1
    <3> QED BY <1>12, <2>1, <3>1, <3>2
  <2>2. CASE base[i].sid \notin S
    <3>1. slots'[i] = base[i] BY <1>7, <2>2
    <3>2. base[i].dp \notin dead /\ \E e \in effects : e.dp = base[i].dp
      BY <1>2, <1>18, <2>2, <3>1 DEF OthersKept
    <3> QED BY <1>11, <3>1, <3>2
  <2> QED BY <2>1, <2>2
<1>19. GoodEffects(slots', effects')
  BY <1>8, <1>13, <1>15, <1>16, <1>17, <1>18 DEF GoodEffects
<1> QED BY <1>2, <1>8, <1>9, <1>10, <1>19

(* The apps that have a slot.                                               *)
AppsIn(ss) == {ss[i].sid : i \in 1 .. Len(ss)} \ {AllSound}

(* The slots and the effects match, and the cap holds.                      *)
HostInv ==
    /\ GoodSlots(slots) /\ GoodEffects(slots, effects)
    /\ Cardinality(AppsIn(slots)) <= Cap

(* What good slots are, place by place; a handle is in one slot only.       *)
LEMMA SlotsAre ==
    ASSUME NEW ss, GoodSlots(ss)
    PROVE  /\ Len(ss) \in Nat /\ DOMAIN ss = 1 .. Len(ss)
           /\ \A i \in 1 .. Len(ss) :
                 /\ ss[i] \in Slot /\ ss[i].sid \in Sids /\ ss[i].sources # {}
                 /\ ss[i].sources \in SUBSET Sources
                 /\ ss[i].dp \in Dps \union {None}
                 /\ ss[i].dp # None => ss[i].dp[1] = ss[i].sid
           /\ \A i, k \in 1 .. Len(ss) : ss[i].sid = ss[k].sid => i = k
           /\ \A i, k \in 1 .. Len(ss) : ss[i].dp # None /\ ss[i].dp = ss[k].dp => i = k
<1>1. Len(ss) \in Nat /\ DOMAIN ss = 1 .. Len(ss) BY DEF GoodSlots
<1>2. /\ \A i \in 1 .. Len(ss) : ss[i] \in Slot /\ ss[i].sources # {}
      /\ \A i \in 1 .. Len(ss) : ss[i].dp # None => ss[i].dp[1] = ss[i].sid
      /\ \A i, k \in 1 .. Len(ss) : ss[i].sid = ss[k].sid => i = k
  BY DEF GoodSlots
<1>3. \A b \in Slot : b.sid \in Sids /\ b.sources \in SUBSET Sources /\ b.dp \in Dps \union {None}
  BY DEF Slot
<1> QED BY <1>1, <1>2, <1>3

(* So the apps that have a slot can be counted.                             *)
LEMMA AppsAreFinite ==
    ASSUME NEW ss, GoodSlots(ss)
    PROVE  /\ AppsIn(ss) \in SUBSET Apps /\ IsFiniteSet(AppsIn(ss))
           /\ Cardinality(AppsIn(ss)) \in Nat
<1>1. AppsIn(ss) \in SUBSET Apps BY SlotsAre DEF AppsIn, Sids
<1> QED BY <1>1, AppsAssumption, FS_Subset, FS_CardinalityType

(* Fewer slots, no more apps.                                               *)
LEMMA FewerApps ==
    ASSUME NEW ss, GoodSlots(ss), NEW tt, AppsIn(tt) \subseteq AppsIn(ss),
           Cardinality(AppsIn(ss)) <= Cap
    PROVE  Cardinality(AppsIn(tt)) <= Cap
<1>1. AppsIn(tt) \in SUBSET AppsIn(ss) OBVIOUS
<1>2. IsFiniteSet(AppsIn(ss)) /\ Cardinality(AppsIn(ss)) \in Nat BY AppsAreFinite
<1>3. IsFiniteSet(AppsIn(tt)) /\ Cardinality(AppsIn(tt)) <= Cardinality(AppsIn(ss))
  BY ONLY <1>1, <1>2, FS_Subset
<1>4. Cardinality(AppsIn(tt)) \in Nat BY <1>3, FS_CardinalityType
<1> QED BY <1>2, <1>3, <1>4, CapAssumption

(* Slots whose sessions and handles stay.                                   *)
SameHandles(tt, ss) ==
    /\ Len(tt) = Len(ss)
    /\ \A i \in 1 .. Len(ss) : tt[i].sid = ss[i].sid /\ tt[i].dp = ss[i].dp

(* Slots rewritten but for session and handle are as good as before.        *)
LEMMA PatchedSlots ==
    ASSUME NEW ss, GoodSlots(ss), NEW es, GoodEffects(ss, es),
           NEW tt \in Seq(Slot), SameHandles(tt, ss),
           \A i \in 1 .. Len(ss) : tt[i].sources # {}
    PROVE  GoodSlots(tt) /\ GoodEffects(tt, es) /\ AppsIn(tt) = AppsIn(ss)
<1>1. GoodSlots(tt)
  <2>1. \A i \in 1 .. Len(tt) : /\ tt[i].sources # {}
                                /\ tt[i].dp # None => tt[i].dp[1] = tt[i].sid
    BY SlotsAre DEF SameHandles
  <2>2. \A i, k \in 1 .. Len(tt) : tt[i].sid = tt[k].sid => i = k
    BY SlotsAre DEF SameHandles
  <2> QED BY <2>1, <2>2 DEF GoodSlots
<1>2. GoodEffects(tt, es) BY DEF GoodEffects, SameHandles
<1>3. AppsIn(tt) = AppsIn(ss) BY DEF AppsIn, SameHandles
<1> QED BY <1>1, <1>2, <1>3

(* Effects that stay where they are, each as patch says.                    *)
LEMMA PatchedEffects ==
    ASSUME NEW ss, NEW es, GoodEffects(ss, es), NEW patch, NEW fs,
           fs = {patch[e] : e \in es}, patch \in [es -> Effect],
           \A e \in es : patch[e].dp = e.dp
    PROVE  GoodEffects(ss, fs)
<1>1. IsFiniteSet(fs)
  <2>1. patch \in [es -> fs] BY DEF GoodEffects
  <2>2. \A u \in fs : \E e \in es : patch[e] = u OBVIOUS
  <2>3. patch \in Surjection(es, fs) BY <2>1, <2>2 DEF Surjection
  <2> QED BY <2>3, FS_Surjection DEF GoodEffects
<1>2. fs \in SUBSET Effect OBVIOUS
<1>3. \A e, f \in fs : e.dp = f.dp => e = f
  <2> SUFFICES ASSUME NEW e \in es, NEW f \in es, patch[e].dp = patch[f].dp
               PROVE  patch[e] = patch[f]
    OBVIOUS
  <2>1. e = f BY DEF GoodEffects
  <2> QED BY <2>1
<1>4. \A e \in fs : \E i \in 1 .. Len(ss) : ss[i].dp = e.dp BY DEF GoodEffects
<1>5. \A i \in 1 .. Len(ss) : ss[i].dp # None => \E e \in fs : e.dp = ss[i].dp
  <2> SUFFICES ASSUME NEW i \in 1 .. Len(ss), ss[i].dp # None
               PROVE  \E e \in fs : e.dp = ss[i].dp
    OBVIOUS
  <2>1. PICK e \in es : e.dp = ss[i].dp BY DEF GoodEffects
  <2>2. patch[e] \in fs /\ patch[e].dp = ss[i].dp BY <2>1
  <2> QED BY <2>2
<1> QED BY <1>1, <1>2, <1>3, <1>4, <1>5 DEF GoodEffects

(* A slot is gone, and the later ones move up.                              *)
Removed(tt, ss, i) ==
    /\ Len(tt) = Len(ss) - 1
    /\ \A j \in 1 .. Len(tt) : tt[j] = IF j < i THEN ss[j] ELSE ss[j + 1]

(* RemoveAt of the community module does just that.                         *)
LEMMA RemovedAt ==
    ASSUME NEW S, NEW ss \in Seq(S), NEW i \in 1 .. Len(ss)
    PROVE  RemoveAt(ss, i) \in Seq(S) /\ Removed(RemoveAt(ss, i), ss, i)
<1>1. PICK n \in Nat : n = Len(ss) OBVIOUS
<1>2. PICK a : a = SubSeq(ss, 1, i - 1) OBVIOUS
<1>3. PICK b : b = SubSeq(ss, i + 1, n) OBVIOUS
<1>4. i \in 1 .. n /\ ss \in [1 .. n -> S] BY <1>1
<1>5. a \in Seq(S) /\ Len(a) = i - 1 /\ \A j \in 1 .. i - 1 : a[j] = ss[j]
  BY <1>1, <1>2, <1>4
<1>6. b \in Seq(S) /\ Len(b) = n - i /\ \A j \in 1 .. n - i : b[j] = ss[j + i]
  BY <1>1, <1>3, <1>4
<1>7. RemoveAt(ss, i) = a \o b BY <1>1, <1>2, <1>3 DEF RemoveAt
<1>8. a \o b \in Seq(S) /\ Len(a \o b) = n - 1
  <2>1. a \o b \in Seq(S) /\ Len(a \o b) = Len(a) + Len(b)
    BY ONLY <1>5, <1>6, ConcatProperties, Zenon
  <2> QED BY ONLY <1>4, <1>5, <1>6, <2>1
<1>9. ASSUME NEW j \in 1 .. n - 1 PROVE (a \o b)[j] = IF j < i THEN ss[j] ELSE ss[j + 1]
  <2>1. (a \o b)[j] = IF j <= Len(a) THEN a[j] ELSE b[j - Len(a)]
    <3>1. j \in 1 .. Len(a) + Len(b) BY <1>4, <1>5, <1>6
    <3> QED BY <1>5, <1>6, <3>1, ConcatProperties
  <2>2. CASE j < i BY <1>4, <1>5, <2>1, <2>2
  <2>3. CASE j >= i
    <3>1. j - (i - 1) \in 1 .. n - i /\ j - (i - 1) + i = j + 1 BY <1>4, <2>3
    <3> QED BY <1>4, <1>5, <1>6, <2>1, <2>3, <3>1
  <2>4. j < i \/ j >= i BY ONLY <1>4, j \in 1 .. n - 1, n \in Nat
  <2> QED BY ONLY <2>2, <2>3, <2>4
<1> QED BY <1>1, <1>7, <1>8, <1>9 DEF Removed

(* Every place after is one before other than the one removed, and back.    *)
LEMMA RemovedPlaces ==
    ASSUME NEW ss, NEW tt, Len(ss) \in Nat, NEW i \in 1 .. Len(ss), Removed(tt, ss, i)
    PROVE  /\ \A j \in 1 .. Len(tt) : \E k \in 1 .. Len(ss) : k # i /\ tt[j] = ss[k]
           /\ \A k \in 1 .. Len(ss) : k # i => \E j \in 1 .. Len(tt) : tt[j] = ss[k]
<1>1. PICK n \in Nat : n = Len(ss) OBVIOUS
<1>2. Len(tt) = n - 1 /\ \A j \in 1 .. n - 1 : tt[j] = IF j < i THEN ss[j] ELSE ss[j + 1]
  BY <1>1 DEF Removed
<1>3. ASSUME NEW j \in 1 .. n - 1 PROVE \E k \in 1 .. n : k # i /\ tt[j] = ss[k]
  <2>1. CASE j < i BY <1>2, <2>1
  <2>2. CASE j >= i
    <3>1. j + 1 \in 1 .. n /\ j + 1 # i /\ tt[j] = ss[j + 1] BY <1>1, <1>2, <2>2
    <3> QED BY <3>1
  <2> QED BY <1>1, <2>1, <2>2
<1>4. ASSUME NEW k \in 1 .. n, k # i PROVE \E j \in 1 .. n - 1 : tt[j] = ss[k]
  <2>1. CASE k < i
    <3>1. k \in 1 .. n - 1 /\ tt[k] = ss[k] BY <1>1, <1>2, <2>1
    <3> QED BY <3>1
  <2>2. CASE k > i
    <3>1. k - 1 \in 1 .. n - 1 /\ tt[k - 1] = ss[k] BY <1>1, <1>2, <2>2
    <3> QED BY <3>1
  <2> QED BY <1>1, <1>4, <2>1, <2>2
<1> QED BY <1>1, <1>2, <1>3, <1>4

(* A slot that goes with its effect leaves the others matched.              *)
LEMMA RemovalKeeps ==
    ASSUME NEW ss, GoodSlots(ss), NEW es, GoodEffects(ss, es), NEW i \in 1 .. Len(ss),
           NEW tt, tt = RemoveAt(ss, i), NEW fs, fs = {e \in es : e.dp \notin {ss[i].dp}}
    PROVE  /\ GoodSlots(tt) /\ GoodEffects(tt, fs) /\ Removed(tt, ss, i)
           /\ AppsIn(tt) = AppsIn(ss) \ {ss[i].sid}
<1>2. tt \in Seq(Slot) /\ Removed(tt, ss, i) BY RemovedAt DEF GoodSlots
<1>3. PICK n \in Nat : n = Len(ss) BY SlotsAre
<1>4. /\ \A j \in 1 .. Len(tt) : \E k \in 1 .. n : k # i /\ tt[j] = ss[k]
      /\ \A k \in 1 .. n : k # i => \E j \in 1 .. Len(tt) : tt[j] = ss[k]
  <2>1. Len(ss) \in Nat /\ i \in 1 .. Len(ss) /\ Removed(tt, ss, i) BY <1>2, <1>3
  <2>2. /\ \A j \in 1 .. Len(tt) : \E k \in 1 .. Len(ss) : k # i /\ tt[j] = ss[k]
        /\ \A k \in 1 .. Len(ss) : k # i => \E j \in 1 .. Len(tt) : tt[j] = ss[k]
    BY ONLY <2>1, RemovedPlaces
  <2> QED BY ONLY <1>3, <2>2
<1>5. GoodSlots(tt)
  <2>1. \A j \in 1 .. Len(tt) : /\ tt[j].sources # {}
                                /\ tt[j].dp # None => tt[j].dp[1] = tt[j].sid
    <3>1. \A k \in 1 .. n : ss[k].sources # {} /\ (ss[k].dp # None => ss[k].dp[1] = ss[k].sid)
      BY <1>3, SlotsAre
    <3>2. ASSUME NEW j \in 1 .. Len(tt)
          PROVE  tt[j].sources # {} /\ (tt[j].dp # None => tt[j].dp[1] = tt[j].sid)
      <4>1. PICK k \in 1 .. n : k # i /\ tt[j] = ss[k] BY <1>4
      <4> QED BY ONLY <3>1, <4>1
    <3> QED BY <3>2
  <2>2. ASSUME NEW j \in 1 .. n - 1, NEW k \in 1 .. n - 1, tt[j].sid = tt[k].sid PROVE j = k
    <3>1. /\ tt[j] = ss[IF j < i THEN j ELSE j + 1]
          /\ tt[k] = ss[IF k < i THEN k ELSE k + 1]
      BY <1>2, <1>3 DEF Removed
    <3>2. PICK j1 \in 1 .. n : j1 = IF j < i THEN j ELSE j + 1 BY <1>3
    <3>3. PICK k1 \in 1 .. n : k1 = IF k < i THEN k ELSE k + 1 BY <1>3
    <3>4. j1 = k1 BY <1>3, <2>2, <3>1, <3>2, <3>3, SlotsAre
    <3> QED BY <1>3, <3>2, <3>3, <3>4
  <2>3. Len(tt) = n - 1 BY <1>2, <1>3 DEF Removed
  <2> QED BY <1>2, <2>1, <2>2, <2>3 DEF GoodSlots
<1>6. GoodEffects(tt, fs)
  <2>1. fs \in SUBSET es /\ es \in SUBSET Effect /\ IsFiniteSet(es) BY DEF GoodEffects
  <2>2. IsFiniteSet(fs) BY ONLY <2>1, FS_Subset
  <2>3. \A e, f \in fs : e.dp = f.dp => e = f BY DEF GoodEffects
  <2>4. ASSUME NEW e \in fs PROVE \E j \in 1 .. Len(tt) : tt[j].dp = e.dp
    <3>1. PICK k \in 1 .. n : ss[k].dp = e.dp BY <1>3 DEF GoodEffects
    <3>2. k # i BY <3>1
    <3>3. PICK j \in 1 .. Len(tt) : tt[j] = ss[k] BY ONLY <1>4, <3>2, k \in 1 .. n
    <3> QED BY ONLY <3>1, <3>3
  <2>5. ASSUME NEW j \in 1 .. Len(tt), tt[j].dp # None PROVE \E e \in fs : e.dp = tt[j].dp
    <3>1. PICK k \in 1 .. n : k # i /\ tt[j] = ss[k] BY <1>4
    <3>2. PICK e \in es : e.dp = ss[k].dp BY <1>3, <2>5, <3>1 DEF GoodEffects
    <3>3. ss[k].dp # ss[i].dp BY <1>3, <2>5, <3>1, SlotsAre
    <3> QED BY <3>1, <3>2, <3>3
  <2> QED BY <2>1, <2>2, <2>3, <2>4, <2>5 DEF GoodEffects
<1>7. AppsIn(tt) = AppsIn(ss) \ {ss[i].sid}
  <2>1. ASSUME NEW x \in AppsIn(tt) PROVE x \in AppsIn(ss) \ {ss[i].sid}
    <3>1. PICK j \in 1 .. Len(tt) : x = tt[j].sid /\ x # AllSound BY DEF AppsIn
    <3>2. PICK k \in 1 .. n : k # i /\ tt[j] = ss[k] BY <1>4
    <3>3. ss[k].sid # ss[i].sid BY <1>3, <3>2, SlotsAre
    <3> QED BY <1>3, <3>1, <3>2, <3>3 DEF AppsIn
  <2>2. ASSUME NEW x \in AppsIn(ss) \ {ss[i].sid} PROVE x \in AppsIn(tt)
    <3>1. PICK k \in 1 .. n : x = ss[k].sid /\ x # AllSound BY <1>3 DEF AppsIn
    <3>2. k # i BY <3>1
    <3>3. PICK j \in 1 .. Len(tt) : tt[j] = ss[k] BY <1>4, <3>2
    <3> QED BY <3>1, <3>3 DEF AppsIn
  <2> QED BY <2>1, <2>2
<1> QED BY <1>2, <1>5, <1>6, <1>7

(* The plan and what it is made of are of their types.                      *)
WorldInv ==
    /\ softOff \in BOOLEAN /\ plan \in Plans \union {None}
    /\ cards \in 0 .. 1 /\ frame \in 0 .. 1 /\ rate \in 0 .. 1

(* What buildPlan() makes is a plan.                                        *)
LEMMA PlansMade ==
    ASSUME WorldInv
    PROVE  Wanted \in Plans /\ PlanOrBuilt \in Plans
  BY DEF WorldInv, Wanted, PlanOrBuilt, Plans

(* As many slots of apps as apps that have one.                             *)
LEMMA AppsCounted ==
    ASSUME GoodSlots(slots)
    PROVE  Cardinality(AppSlots) = Cardinality(AppsIn(slots))
<1>1. PICK n \in Nat : n = Len(slots) /\ DOMAIN slots = 1 .. n BY SlotsAre
<1>2. AppSlots \in SUBSET (1 .. n) BY <1>1 DEF AppSlots
<1>3. IsFiniteSet(AppSlots)
  <2>1. IsFiniteSet(1 .. n) BY FS_Interval
  <2> QED BY ONLY <1>2, <2>1, FS_Subset
<1> DEFINE f == [i \in AppSlots |-> slots[i].sid]
<1>4. f \in [AppSlots -> AppsIn(slots)] BY <1>1 DEF AppSlots, AppsIn
<1>5. \A i, k \in AppSlots : f[i] = f[k] => i = k BY <1>1, <1>2, SlotsAre
<1>6. \A x \in AppsIn(slots) : \E i \in AppSlots : f[i] = x BY <1>1 DEF AppSlots, AppsIn
<1> HIDE DEF f
<1>7. f \in Surjection(AppSlots, AppsIn(slots)) BY <1>4, <1>6 DEF Surjection
<1>8. f \in Injection(AppSlots, AppsIn(slots)) BY <1>4, <1>5 DEF Injection, IsInjective
<1>9. IsFiniteSet(AppsIn(slots)) BY AppsAreFinite
<1> QED BY <1>7, <1>8, <1>9, FS_Injection

(* Room is made by one app, when there is none.                             *)
LEMMA OldestIsOne ==
    ASSUME HostInv
    PROVE  \/ Oldest = {} /\ Cardinality(AppsIn(slots)) < Cap
           \/ \E m \in 1 .. Len(slots) : Oldest = {m} /\ slots[m].sid \in AppsIn(slots)
<1>1. PICK n \in Nat : n = Len(slots) /\ DOMAIN slots = 1 .. n BY SlotsAre DEF HostInv
<1>2. /\ Cardinality(AppSlots) = Cardinality(AppsIn(slots))
      /\ Cardinality(AppsIn(slots)) \in Nat
  BY AppsCounted, AppsAreFinite DEF HostInv
<1>3. CASE Cardinality(AppSlots) < Cap
  <2>1. ~(Cardinality(AppSlots) >= Cap) BY <1>2, <1>3, CapAssumption
  <2> QED BY <1>2, <1>3, <2>1 DEF Oldest
<1>4. CASE Cardinality(AppSlots) >= Cap
  <2>1. AppSlots # {}
    <3>1. Cardinality(AppSlots) # 0 BY <1>2, <1>4, CapAssumption
    <3> QED BY <3>1, FS_EmptySet
  <2>2. AppSlots \subseteq Nat BY <1>1 DEF AppSlots
  <2>3. PICK m \in AppSlots : \A k \in AppSlots : m <= k BY <2>1, <2>2, LeastPlace
  <2>4. \A i \in AppSlots : (\A k \in AppSlots : i <= k) => i = m
    <3> SUFFICES ASSUME NEW i \in AppSlots, \A k \in AppSlots : i <= k PROVE i = m
      OBVIOUS
    <3>1. i <= m /\ m <= i /\ i \in Nat /\ m \in Nat BY <2>2, <2>3
    <3> QED BY <3>1
  <2>5. Oldest = {m} BY <1>4, <2>3, <2>4 DEF Oldest
  <2>6. m \in 1 .. Len(slots) /\ slots[m].sid \in AppsIn(slots)
    BY <1>1 DEF AppSlots, AppsIn
  <2> QED BY <2>5, <2>6
<1> QED BY <1>2, <1>3, <1>4, CapAssumption

(* The slots without those in I, at most one.                               *)
LeavesRest(rest, es, I) ==
    /\ GoodSlots(rest) /\ GoodEffects(rest, es)
    /\ AppsIn(rest) = AppsIn(slots) \ {slots[i].sid : i \in I}
    /\ \A j \in 1 .. Len(rest) : \E k \in (1 .. Len(slots)) \ I : rest[j] = slots[k]
    /\ \A k \in (1 .. Len(slots)) \ I : \E j \in 1 .. Len(rest) : rest[j] = slots[k]

(* Without such a slot and its effect, the rest still match.                *)
LEMMA WithoutKeeps ==
    ASSUME HostInv, NEW I, I = {} \/ \E m \in 1 .. Len(slots) : I = {m},
           NEW rest, rest = Without(I),
           NEW es, es = {e \in effects : e.dp \notin DpsOf(I)}
    PROVE  LeavesRest(rest, es, I)
<1>1. CASE I = {}
  <2>1. DpsOf(I) = {} /\ Without(I) = slots BY <1>1 DEF DpsOf, Without
  <2>2. es = effects BY <2>1
  <2>3. {slots[i].sid : i \in I} = {} BY <1>1
  <2> QED BY <1>1, <2>1, <2>2, <2>3 DEF HostInv, LeavesRest
<1>2. CASE I # {}
  <2>1. PICK m \in 1 .. Len(slots) : I = {m} BY <1>2
  <2>2. (CHOOSE i \in I : TRUE) = m BY <2>1
  <2>3. rest = RemoveAt(slots, m) BY <1>2, <2>1, <2>2 DEF Without
  <2>4. DpsOf(I) = {slots[m].dp} BY <2>1 DEF DpsOf
  <2>5. {slots[i].sid : i \in I} = {slots[m].sid} BY <2>1
  <2>6. es = {e \in effects : e.dp \notin {slots[m].dp}} BY <2>4
  <2>7. GoodSlots(slots) /\ GoodEffects(slots, effects) BY DEF HostInv
  <2>8. /\ GoodSlots(rest) /\ GoodEffects(rest, es) /\ Removed(rest, slots, m)
        /\ AppsIn(rest) = AppsIn(slots) \ {slots[m].sid}
    BY ONLY <2>1, <2>3, <2>6, <2>7, RemovalKeeps
  <2>9. Len(slots) \in Nat BY <2>7, SlotsAre
  <2>10. /\ \A j \in 1 .. Len(rest) : \E k \in 1 .. Len(slots) : k # m /\ rest[j] = slots[k]
         /\ \A k \in 1 .. Len(slots) : k # m => \E j \in 1 .. Len(rest) : rest[j] = slots[k]
    BY ONLY <2>1, <2>8, <2>9, RemovedPlaces
  <2> QED BY ONLY <2>1, <2>5, <2>8, <2>10 DEF LeavesRest
<1> QED BY <1>1, <1>2

(* A new slot behind the others.                                            *)
Grown(tt, ss, s, x) ==
    /\ GoodSlots(tt) /\ Len(tt) = Len(ss) + 1
    /\ AppsIn(tt) = AppsIn(ss) \union ({s} \ {AllSound})
    /\ \A i \in 1 .. Len(ss) : tt[i] = ss[i]
    /\ tt[Len(ss) + 1].sid = s /\ tt[Len(ss) + 1].sources = {x}

(* An empty slot for a session that has none.                               *)
LEMMA SlotAdded ==
    ASSUME NEW ss, GoodSlots(ss), NEW s \in Sids, NEW x \in Sources,
           \A i \in 1 .. Len(ss) : ss[i].sid # s,
           NEW tt, tt = Append(ss, EmptySlot(s, x))
    PROVE  Grown(tt, ss, s, x)
<1>1. PICK b : b = EmptySlot(s, x) OBVIOUS
<1>2. b \in Slot /\ b.sid = s /\ b.sources = {x} /\ b.dp = None
  BY <1>1 DEF EmptySlot, Slot
<1>3. PICK n \in Nat : n = Len(ss) BY SlotsAre
<1>4. tt = Append(ss, b) BY <1>1
<1>5. tt \in Seq(Slot) /\ Len(tt) = n + 1 /\ tt[n + 1] = b /\ \A i \in 1 .. n : tt[i] = ss[i]
  BY <1>2, <1>3, <1>4, AppendProperties DEF GoodSlots
<1>6. \A i \in 1 .. n + 1 : i \in 1 .. n \/ i = n + 1 OBVIOUS
<1>7. /\ \A i \in 1 .. n : ss[i].sources # {} /\ (ss[i].dp # None => ss[i].dp[1] = ss[i].sid)
      /\ \A i, k \in 1 .. n : ss[i].sid = ss[k].sid => i = k
      /\ \A i \in 1 .. n : ss[i].sid # s
  BY <1>3 DEF GoodSlots
<1>8. /\ \A i \in 1 .. n + 1 : tt[i].sources # {} /\ (tt[i].dp # None => tt[i].dp[1] = tt[i].sid)
      /\ \A i, k \in 1 .. n + 1 : tt[i].sid = tt[k].sid => i = k
  <2>1. ASSUME NEW i \in 1 .. n + 1
        PROVE  tt[i].sources # {} /\ (tt[i].dp # None => tt[i].dp[1] = tt[i].sid)
    <3>1. CASE i \in 1 .. n BY <1>5, <1>7, <3>1
    <3>2. CASE i = n + 1 BY <1>2, <1>5, <3>2
    <3> QED BY <1>6, <3>1, <3>2
  <2>2. ASSUME NEW i \in 1 .. n + 1, NEW k \in 1 .. n + 1, tt[i].sid = tt[k].sid PROVE i = k
    <3>1. CASE i \in 1 .. n /\ k \in 1 .. n BY <1>5, <1>7, <2>2, <3>1
    <3>2. CASE i \in 1 .. n /\ k = n + 1 BY <1>2, <1>5, <1>7, <2>2, <3>2
    <3>3. CASE i = n + 1 /\ k \in 1 .. n BY <1>2, <1>5, <1>7, <2>2, <3>3
    <3>4. CASE i = n + 1 /\ k = n + 1 BY <3>4
    <3> QED BY <1>6, <3>1, <3>2, <3>3, <3>4
  <2> QED BY <2>1, <2>2
<1>9. GoodSlots(tt) BY <1>5, <1>8 DEF GoodSlots
<1>10. AppsIn(tt) = AppsIn(ss) \union ({s} \ {AllSound})
  <2>1. {tt[i].sid : i \in 1 .. n + 1} = {ss[i].sid : i \in 1 .. n} \union {s}
    BY <1>2, <1>5, <1>6
  <2> QED BY <1>3, <1>5, <2>1 DEF AppsIn
<1> QED BY <1>2, <1>3, <1>5, <1>9, <1>10 DEF Grown

(* The slots a new session is created in.                                   *)
AttachBase(s, x, out) == Append(Without(out), EmptySlot(s, x))

(* The slots are good and within the cap, and a new one is s's.             *)
Fits(base, s, x, out) ==
    /\ GoodSlots(base) /\ Cardinality(AppsIn(base)) <= Cap
    /\ OthersKept(base, {s}, DpsOf(out))
    /\ out = {} \/ \E m \in 1 .. Len(slots) : out = {m} /\ slots[m].sid \in Apps
    /\ \E j \in 1 .. Len(base) : base[j].sid = s /\ base[j].sources = {x}
    /\ \A j \in 1 .. Len(base) : base[j].sid # s =>
          \E k \in (1 .. Len(slots)) \ out : base[j] = slots[k]
    /\ \A k \in (1 .. Len(slots)) \ out :
          \E j \in 1 .. Len(base) : base[j] = slots[k] /\ base[j].sid # s

(* Once the oldest app has made room, a new session fits in.                *)
LEMMA AttachFits ==
    ASSUME HostInv, NEW s \in Sids, SlotOf(s) = {}, NEW x \in Sources,
           NEW out, out = IF s = AllSound THEN {} ELSE Oldest,
           NEW base, base = AttachBase(s, x, out)
    PROVE  Fits(base, s, x, out)
<1>1. /\ out = {} \/ \E m \in 1 .. Len(slots) : out = {m} /\ slots[m].sid \in AppsIn(slots)
      /\ s # AllSound => out # {} \/ Cardinality(AppsIn(slots)) < Cap
      /\ s = AllSound => out = {}
  BY OldestIsOne
<1>2. PICK rest : rest = Without(out) OBVIOUS
<1>3. PICK es : es = {e \in effects : e.dp \notin DpsOf(out)} OBVIOUS
<1>4. /\ GoodSlots(rest) /\ GoodEffects(rest, es)
      /\ AppsIn(rest) = AppsIn(slots) \ {slots[i].sid : i \in out}
      /\ \A j \in 1 .. Len(rest) : \E k \in (1 .. Len(slots)) \ out : rest[j] = slots[k]
      /\ \A k \in (1 .. Len(slots)) \ out : \E j \in 1 .. Len(rest) : rest[j] = slots[k]
  <2>1. out = {} \/ \E m \in 1 .. Len(slots) : out = {m} BY <1>1
  <2>2. LeavesRest(rest, es, out) BY ONLY HostInv, <1>2, <1>3, <2>1, WithoutKeeps
  <2> QED BY <2>2 DEF LeavesRest
<1>5. \A k \in 1 .. Len(slots) : slots[k].sid # s
  BY SlotsAre DEF SlotOf, HostInv
<1>6. \A j \in 1 .. Len(rest) : rest[j].sid # s BY <1>4, <1>5
<1>8. PICK n \in Nat : n = Len(rest) BY <1>4, SlotsAre
<1>9. /\ GoodSlots(base) /\ Len(base) = n + 1
      /\ AppsIn(base) = AppsIn(rest) \union ({s} \ {AllSound})
      /\ \A i \in 1 .. n : base[i] = rest[i]
      /\ base[n + 1].sid = s /\ base[n + 1].sources = {x}
  <2>1. base = Append(rest, EmptySlot(s, x)) BY <1>2 DEF AttachBase
  <2>2. \A i \in 1 .. Len(rest) : rest[i].sid # s BY <1>6
  <2>3. GoodSlots(rest) BY <1>4
  <2>4. Grown(base, rest, s, x) BY ONLY <2>1, <2>2, <2>3, s \in Sids, x \in Sources, SlotAdded
  <2> QED BY <1>8, <2>4 DEF Grown
<1>10. \A j \in 1 .. n + 1 : j \in 1 .. n \/ j = n + 1 OBVIOUS
<1>11. Cardinality(AppsIn(base)) <= Cap
  <2>1. /\ IsFiniteSet(AppsIn(slots)) /\ IsFiniteSet(AppsIn(rest))
        /\ Cardinality(AppsIn(slots)) \in Nat /\ Cardinality(AppsIn(rest)) \in Nat
    BY <1>4, AppsAreFinite DEF HostInv
  <2>2. Cardinality(AppsIn(slots)) <= Cap BY DEF HostInv
  <2>3. CASE s = AllSound
    <3>1. out = {} /\ {s} \ {AllSound} = {} BY <1>1, <2>3
    <3>2. AppsIn(base) = AppsIn(slots) BY <1>4, <1>9, <3>1
    <3> QED BY <2>2, <3>2
  <2>4. CASE s # AllSound
    <3>1. Cardinality(AppsIn(rest)) < Cap
      <4>1. CASE out = {}
        <5>1. AppsIn(rest) = AppsIn(slots) BY <1>4, <4>1
        <5> QED BY <1>1, <2>4, <4>1, <5>1
      <4>2. CASE out # {}
        <5>1. PICK m \in 1 .. Len(slots) : out = {m} /\ slots[m].sid \in AppsIn(slots)
          BY <1>1, <4>2
        <5>2. {slots[i].sid : i \in out} = {slots[m].sid} BY <5>1
        <5>3. AppsIn(rest) = AppsIn(slots) \ {slots[m].sid} BY <1>4, <5>2
        <5>4. Cardinality(AppsIn(rest)) = Cardinality(AppsIn(slots)) - 1
          BY <2>1, <5>1, <5>3, FS_RemoveElement
        <5> QED BY <2>1, <2>2, <5>4, CapAssumption
      <4> QED BY <4>1, <4>2
    <3>2. AppsIn(base) = AppsIn(rest) \union {s} BY <1>9, <2>4
    <3>3. Cardinality(AppsIn(base)) <= Cardinality(AppsIn(rest)) + 1
      <4>1. Cardinality(AppsIn(rest) \union {s}) =
              IF s \in AppsIn(rest) THEN Cardinality(AppsIn(rest))
              ELSE Cardinality(AppsIn(rest)) + 1
        BY ONLY <2>1, FS_AddElement
      <4> QED BY <2>1, <3>2, <4>1
    <3>4. Cardinality(AppsIn(base)) \in Nat BY <1>9, AppsAreFinite
    <3> QED BY <2>1, <3>1, <3>3, <3>4, CapAssumption
  <2> QED BY <2>3, <2>4
<1>12. OthersKept(base, {s}, DpsOf(out))
  <2>1. ASSUME NEW e \in effects, e.dp \notin DpsOf(out)
        PROVE  \E i \in 1 .. Len(base) : base[i].sid \notin {s} /\ base[i].dp = e.dp
    <3>1. e \in es BY <1>3, <2>1
    <3>2. PICK i \in 1 .. n : rest[i].dp = e.dp BY <1>4, <1>8, <3>1 DEF GoodEffects
    <3>3. i \in 1 .. Len(base) /\ base[i] = rest[i] /\ rest[i].sid # s BY <1>6, <1>8, <1>9, <3>2
    <3> QED BY <3>2, <3>3
  <2>2. ASSUME NEW i \in 1 .. Len(base), base[i].sid \notin {s}, base[i].dp # None
        PROVE  base[i].dp \notin DpsOf(out) /\ \E e \in effects : e.dp = base[i].dp
    <3>1. i \in 1 .. n /\ base[i] = rest[i] BY <1>9, <1>10, <2>2
    <3>2. PICK e \in es : e.dp = rest[i].dp BY <1>4, <1>8, <2>2, <3>1 DEF GoodEffects
    <3> QED BY <1>3, <3>1, <3>2
  <2> QED BY <2>1, <2>2 DEF OthersKept
<1>13. out = {} \/ \E m \in 1 .. Len(slots) : out = {m} /\ slots[m].sid \in Apps
  <2>1. AppsIn(slots) \in SUBSET Apps BY AppsAreFinite DEF HostInv
  <2> QED BY <1>1, <2>1
<1>14. ASSUME NEW j \in 1 .. Len(base), base[j].sid # s
       PROVE  \E k \in (1 .. Len(slots)) \ out : base[j] = slots[k]
  <2>1. j \in 1 .. n /\ base[j] = rest[j] BY <1>9, <1>10, <1>14
  <2> QED BY <1>4, <1>8, <2>1
<1>15. ASSUME NEW k \in (1 .. Len(slots)) \ out
       PROVE  \E j \in 1 .. Len(base) : base[j] = slots[k] /\ base[j].sid # s
  <2>1. PICK j \in 1 .. n : rest[j] = slots[k] BY <1>4, <1>8
  <2>2. j \in 1 .. Len(base) /\ base[j] = rest[j] BY <1>9, <2>1
  <2> QED BY <1>5, <2>1, <2>2
<1>16. \E j \in 1 .. Len(base) : base[j].sid = s /\ base[j].sources = {x} BY <1>9
<1> QED BY <1>9, <1>11, <1>12, <1>13, <1>14, <1>15, <1>16 DEF Fits

(* A slot with the session and the handle of another.                       *)
Likes(c, b) == c \in Slot /\ c.sid = b.sid /\ c.dp = b.dp

(* Slots rewritten one by one stay good and matched.                        *)
LEMMA MappedSlots ==
    ASSUME NEW ss, GoodSlots(ss), NEW tt, DOMAIN tt = DOMAIN ss,
           tt = [i \in DOMAIN ss |-> tt[i]],
           \A i \in 1 .. Len(ss) : Likes(tt[i], ss[i]) /\ tt[i].sources # {},
           NEW es, GoodEffects(ss, es)
    PROVE  /\ GoodSlots(tt) /\ GoodEffects(tt, es) /\ AppsIn(tt) = AppsIn(ss)
           /\ Len(tt) = Len(ss)
<1>1. PICK n \in Nat : n = Len(ss) /\ DOMAIN ss = 1 .. n BY SlotsAre
<1>2. tt \in [1 .. n -> Slot] BY <1>1 DEF Likes
<1>3. tt \in Seq(Slot) /\ Len(tt) = n BY <1>1, <1>2, SeqDef
<1>4. SameHandles(tt, ss) BY <1>1, <1>3 DEF SameHandles, Likes
<1>5. \A i \in 1 .. Len(ss) : tt[i].sources # {} OBVIOUS
<1>6. GoodSlots(tt) /\ GoodEffects(tt, es) /\ AppsIn(tt) = AppsIn(ss)
  BY ONLY GoodSlots(ss), GoodEffects(ss, es), <1>3, <1>4, <1>5, PatchedSlots
<1> QED BY <1>1, <1>3, <1>6

(* What posts and notices write in a slot.                                  *)
LEMMA SourcesWritten ==
    ASSUME NEW b \in Slot, NEW X \in SUBSET Sources, NEW c, c = [b EXCEPT !.sources = X]
    PROVE  Likes(c, b) /\ c.sources = X /\ c.sent = b.sent /\ c.error = b.error
  BY DEF Slot, Likes

(* ... an error or none,                                                    *)
LEMMA ErrorWritten ==
    ASSUME NEW b \in Slot, NEW x \in BOOLEAN, NEW c, c = [b EXCEPT !.error = x]
    PROVE  Likes(c, b) /\ c.sources = b.sources /\ c.sent = b.sent /\ c.error = x
  BY DEF Slot, Likes

(* ... that switching on was tried, and with what success,                  *)
LEMMA TriedWritten ==
    ASSUME NEW b \in Slot, NEW x \in BOOLEAN,
           NEW c, c = [b EXCEPT !.tried = TRUE, !.error = x]
    PROVE  Likes(c, b) /\ c.sources = b.sources /\ c.sent = b.sent /\ c.error = x
  BY DEF Slot, Likes

(* ... that control is lost,                                                *)
LEMMA ControlLost ==
    ASSUME NEW b \in Slot, NEW c, c = [b EXCEPT !.control = FALSE, !.error = TRUE]
    PROVE  Likes(c, b) /\ c.sources = b.sources /\ c.error = TRUE
  BY DEF Slot, Likes

(* ... that a plan was sent.                                                *)
LEMMA SentWritten ==
    ASSUME NEW b \in Slot, NEW p \in Plans, NEW c, c = [b EXCEPT !.sent = p]
    PROVE  Likes(c, b) /\ c.sources = b.sources /\ c.sent = p /\ c.error = b.error
  BY DEF Slot, Likes

(* What is written in an effect.                                            *)
LEMMA EffectWritten ==
    ASSUME NEW e \in Effect
    PROVE  /\ \A x \in BOOLEAN :
                 LET f == [e EXCEPT !.on = x] IN
                 f \in Effect /\ f.dp = e.dp /\ f.ours = e.ours /\ f.cards = e.cards
                 /\ f.shape = e.shape /\ f.on = x
           /\ LET f == [e EXCEPT !.ours = FALSE, !.cards = None] IN
                 f \in Effect /\ f.dp = e.dp /\ f.shape = e.shape /\ f.on = e.on
           /\ LET f == [e EXCEPT !.ours = TRUE] IN
                 f \in Effect /\ f.dp = e.dp /\ f.shape = e.shape /\ f.on = e.on
                 /\ f.cards = e.cards
           /\ \A x \in (0 .. 1) \union {None} :
                 LET f == [e EXCEPT !.cards = x] IN
                 f \in Effect /\ f.dp = e.dp /\ f.shape = e.shape /\ f.on = e.on
                 /\ f.ours = e.ours /\ f.cards = x
  BY DEF Effect

(* Effects rewritten but for their handle match the slots as before.        *)
LEMMA WrittenEffects ==
    ASSUME NEW ss, NEW es, GoodEffects(ss, es), NEW Some \in SUBSET es,
           NEW write \in [Some -> Effect], \A e \in Some : write[e].dp = e.dp,
           NEW fs, fs = (es \ Some) \union {write[e] : e \in Some}
    PROVE  GoodEffects(ss, fs)
<1>1. es \in SUBSET Effect BY DEF GoodEffects
<1>2. PICK patch : patch = [e \in es |-> IF e \in Some THEN write[e] ELSE e] OBVIOUS
<1>3. patch \in [es -> Effect] /\ \A e \in es : patch[e].dp = e.dp BY <1>1, <1>2
<1>4. fs = {patch[e] : e \in es}
  <2>1. \A e \in es : patch[e] = IF e \in Some THEN write[e] ELSE e BY <1>2
  <2>2. ASSUME NEW f \in fs PROVE \E e \in es : f = patch[e]
    <3>1. CASE f \in es \ Some BY <2>1, <3>1
    <3>2. CASE \E e \in Some : f = write[e] BY <2>1, <3>2
    <3> QED BY <3>1, <3>2
  <2>3. ASSUME NEW e \in es PROVE patch[e] \in fs BY <2>1
  <2> QED BY <2>2, <2>3
<1> QED BY ONLY GoodEffects(ss, es), <1>3, <1>4, PatchedEffects

-----------------------------------------------------------------------------
(* What each slot is held by.                                               *)
Holds(ss) == {a \in Sids \X Sources :
                 \E i \in 1 .. Len(ss) : ss[i].sid = a[1] /\ a[2] \in ss[i].sources}

(* Slots of the same sessions and sources hold the same.                    *)
LEMMA SameHolds ==
    ASSUME NEW ss, NEW tt, Len(tt) = Len(ss),
           \A i \in 1 .. Len(ss) : tt[i].sid = ss[i].sid /\ tt[i].sources = ss[i].sources
    PROVE  Holds(tt) = Holds(ss)
  BY DEF Holds

-----------------------------------------------------------------------------
(* Other apps and the server.                                               *)
LEMMA OutsideKeeps ==
    ASSUME HostInv, ServiceInv, TakeOver \/ LetGo \/ SwitchOff
    PROVE  HostInv' /\ queue' \in Seq(Posts) /\ UNCHANGED slots
<1>1. UNCHANGED slots
  BY DEF TakeOver, LetGo, SwitchOff, Others, hostVars
<1>2. queue \in Seq(Posts) /\ effects \in SUBSET Effect BY DEF ServiceInv, HostInv, GoodEffects
<1>3. \A e \in effects : e \in Effect /\ e.dp \in Dps BY <1>2 DEF Effect
<1>4. ASSUME NEW e \in effects, NEW f \in Effect, f.dp = e.dp,
             effects' = (effects \ {e}) \union {f}
      PROVE  GoodEffects(slots, effects')
  <2>1. PICK write : write = [x \in {e} |-> f] OBVIOUS
  <2>2. write \in [{e} -> Effect] /\ \A x \in {e} : write[x].dp = x.dp BY <1>4, <2>1
  <2>3. effects' = (effects \ {e}) \union {write[x] : x \in {e}} BY <1>4, <2>1
  <2>4. {e} \in SUBSET effects OBVIOUS
  <2> QED BY <2>2, <2>3, <2>4, WrittenEffects DEF HostInv
<1>5. CASE TakeOver
  <2>1. PICK e \in effects :
          /\ effects' = (effects \ {e}) \union {[e EXCEPT !.ours = FALSE, !.cards = None]}
          /\ Notice("control", e.dp, FALSE)
    BY <1>5 DEF TakeOver
  <2>2. PICK f : f = [e EXCEPT !.ours = FALSE, !.cards = None] OBVIOUS
  <2>3. f \in Effect /\ f.dp = e.dp BY <1>3, <2>2, EffectWritten
  <2>4. GoodEffects(slots, effects') BY <1>4, <2>1, <2>2, <2>3
  <2>5. queue' \in Seq(Posts) BY <1>2, <1>3, <2>1, Noticed
  <2> QED BY <1>1, <2>4, <2>5 DEF HostInv, AppsIn
<1>6. CASE LetGo
  <2>1. CASE UNCHANGED <<effects, queue>> BY <1>1, <1>2, <2>1 DEF HostInv
  <2>2. CASE \E e \in effects : /\ effects' = (effects \ {e}) \union {[e EXCEPT !.ours = TRUE]}
                                /\ Notice("control", e.dp, TRUE)
    <3>1. PICK e \in effects : /\ effects' = (effects \ {e}) \union {[e EXCEPT !.ours = TRUE]}
                               /\ Notice("control", e.dp, TRUE)
      BY <2>2
    <3>2. PICK f : f = [e EXCEPT !.ours = TRUE] OBVIOUS
    <3>3. f \in Effect /\ f.dp = e.dp BY <1>3, <3>2, EffectWritten
    <3>4. GoodEffects(slots, effects') BY <1>4, <3>1, <3>2, <3>3
    <3>5. queue' \in Seq(Posts) BY <1>2, <1>3, <3>1, Noticed
    <3> QED BY <1>1, <3>4, <3>5 DEF HostInv, AppsIn
  <2> QED BY <1>6, <2>1, <2>2 DEF LetGo
<1>7. CASE SwitchOff
  <2>1. PICK e \in effects : /\ effects' = (effects \ {e}) \union {[e EXCEPT !.on = FALSE]}
                             /\ Notice("enable", e.dp, FALSE)
    BY <1>7 DEF SwitchOff
  <2>2. PICK f : f = [e EXCEPT !.on = FALSE] OBVIOUS
  <2>3. f \in Effect /\ f.dp = e.dp BY <1>3, <2>2, EffectWritten
  <2>4. GoodEffects(slots, effects') BY <1>4, <2>1, <2>2, <2>3
  <2>5. queue' \in Seq(Posts) BY <1>2, <1>3, <2>1, Noticed
  <2> QED BY <1>1, <2>4, <2>5 DEF HostInv, AppsIn
<1> QED BY <1>5, <1>6, <1>7

(* A source has taken hold of a session; the driven out are left aside.     *)
HeldToo(b) ==
    \A a \in Sids \X Sources : a[1] \notin evicted' =>
       (a \in Holds(slots') <=> a \in Holds(slots) \/ a = b)

(* What the effect thread finds when it takes a post.                       *)
HostTypes == HostInv /\ ServiceInv /\ WorldInv /\ evicted \in SUBSET Apps

(* A new session gets a slot; the one it drives out, if any, is an app's.    *)
LEMMA HostAttachNew ==
    ASSUME HostTypes, NEW s \in Sids, SlotOf(s) = {}, NEW x \in Sources,
           NEW out, out = IF s = AllSound THEN {} ELSE Oldest,
           NEW base, base = AttachBase(s, x, out),
           CreateIn(base, {s}, PlanOrBuilt, DpsOf(out)),
           evicted' = evicted \union {slots[i].sid : i \in out}
    PROVE  /\ HostInv' /\ evicted' \in SUBSET Apps
           /\ HeldToo(<<s, x>>)
<1>0. GoodSlots(slots) /\ GoodEffects(slots, effects) /\ HostInv BY DEF HostTypes, HostInv
<1>1. /\ GoodSlots(base) /\ Cardinality(AppsIn(base)) <= Cap
      /\ OthersKept(base, {s}, DpsOf(out))
      /\ out = {} \/ \E m \in 1 .. Len(slots) : out = {m} /\ slots[m].sid \in Apps
      /\ \E j \in 1 .. Len(base) : base[j].sid = s /\ base[j].sources = {x}
      /\ \A j \in 1 .. Len(base) : base[j].sid # s =>
            \E k \in (1 .. Len(slots)) \ out : base[j] = slots[k]
      /\ \A k \in (1 .. Len(slots)) \ out :
            \E j \in 1 .. Len(base) : base[j] = slots[k] /\ base[j].sid # s
  <2>1. Fits(base, s, x, out) BY <1>0, AttachFits
  <2> QED BY <2>1 DEF Fits
<1>2. /\ GoodSlots(slots') /\ GoodEffects(slots', effects')
      /\ Len(slots') = Len(base)
      /\ \A i \in 1 .. Len(base) :
            slots'[i].sid = base[i].sid /\ slots'[i].sources = base[i].sources
  <2>1. queue \in Seq(Posts) /\ softOff \in BOOLEAN BY DEF HostTypes, ServiceInv, WorldInv
  <2>2. PlanOrBuilt \in Plans BY PlansMade DEF HostTypes
  <2>3. {s} \in SUBSET Sids OBVIOUS
  <2>4. \A t \in {s} : \E i \in 1 .. Len(base) : base[i].sid = t BY <1>1
  <2>5. GoodSlots(base) /\ OthersKept(base, {s}, DpsOf(out)) BY <1>1
  <2>6. CreateIn(base, {s}, PlanOrBuilt, DpsOf(out)) OBVIOUS
  <2> QED BY ONLY <1>0, <2>1, <2>2, <2>3, <2>4, <2>5, <2>6, CreateKeeps
<1>3. AppsIn(slots') = AppsIn(base) BY <1>2 DEF AppsIn
<1>4. HostInv' BY <1>1, <1>2, <1>3 DEF HostInv
<1>5. {slots[i].sid : i \in out} \in SUBSET Apps BY <1>1
<1>6. evicted' \in SUBSET Apps BY <1>5 DEF HostTypes
<1>7. Holds(slots') = Holds(base) BY <1>2, SameHolds
<1>8. ASSUME NEW a \in Sids \X Sources, a[1] \notin evicted'
      PROVE  a \in Holds(base) <=> a \in Holds(slots) \/ a = <<s, x>>
  <2>1. ASSUME a \in Holds(base) PROVE a \in Holds(slots) \/ a = <<s, x>>
    <3>1. PICK j \in 1 .. Len(base) : base[j].sid = a[1] /\ a[2] \in base[j].sources
      BY <2>1 DEF Holds
    <3>2. CASE base[j].sid # s
      <4>1. PICK k \in (1 .. Len(slots)) \ out : base[j] = slots[k] BY <1>1, <3>2
      <4> QED BY <3>1, <4>1 DEF Holds
    <3>3. CASE base[j].sid = s
      <4>1. PICK k \in 1 .. Len(base) : base[k].sid = s /\ base[k].sources = {x} BY <1>1
      <4>2. j = k BY <1>1, <3>3, <4>1, SlotsAre
      <4>3. a[1] = s /\ a[2] = x BY <3>1, <3>3, <4>1, <4>2
      <4> QED BY <4>3
    <3> QED BY <3>2, <3>3
  <2>2. ASSUME a \in Holds(slots) PROVE a \in Holds(base)
    <3>1. PICK k \in 1 .. Len(slots) : slots[k].sid = a[1] /\ a[2] \in slots[k].sources
      BY <2>2 DEF Holds
    <3>2. k \notin out BY <1>8, <3>1
    <3>3. PICK j \in 1 .. Len(base) : base[j] = slots[k] BY <1>1, <3>2
    <3> QED BY <3>1, <3>3 DEF Holds
  <2>3. ASSUME a = <<s, x>> PROVE a \in Holds(base)
    <3>1. PICK j \in 1 .. Len(base) : base[j].sid = s /\ base[j].sources = {x} BY <1>1
    <3>2. a[1] = s /\ a[2] = x BY <2>3
    <3> QED BY <3>1, <3>2 DEF Holds
  <2> QED BY <2>1, <2>2, <2>3
<1> QED BY <1>4, <1>6, <1>7, <1>8 DEF HeldToo

(* attach(): a hold more, unless the host is released.                      *)
LEMMA HostAttach ==
    ASSUME HostTypes, RunAttach
    PROVE  /\ HostInv' /\ evicted' \in SUBSET Apps /\ Due.sid \in Sids /\ Due.source \in Sources
           /\ released => UNCHANGED <<slots, effects, evicted>>
           /\ ~released => HeldToo(<<Due.sid, Due.source>>)
<1>0. HostInv /\ ServiceInv /\ evicted \in SUBSET Apps BY DEF HostTypes
<1>1. Due \in Posts /\ Due.op = "attach"
  <2>1. Takes("attach") BY DEF RunAttach
  <2> QED BY <1>0, <2>1, Taken DEF ServiceInv
<1>2. Due.sid \in Sids /\ Due.source \in Sources BY <1>1, PostCarries
<1>3. CASE released
  <2>1. UNCHANGED <<slots, effects, evicted>> BY <1>3 DEF RunAttach, hostVars
  <2>2. HostInv' BY <1>0, <2>1 DEF HostInv, AppsIn
  <2> QED BY <1>0, <1>2, <1>3, <2>1, <2>2
<1>4. CASE ~released /\ SlotOf(Due.sid) # {}
  <2>1. /\ slots' = [i \in DOMAIN slots |->
                       IF i \in SlotOf(Due.sid)
                       THEN [slots[i] EXCEPT !.sources = @ \union {Due.source}] ELSE slots[i]]
        /\ UNCHANGED <<effects, evicted>>
    BY <1>4 DEF RunAttach
  <2>2. PICK n \in Nat : n = Len(slots) /\ DOMAIN slots = 1 .. n
    BY <1>0, SlotsAre DEF HostInv
  <2>3. GoodSlots(slots) /\ GoodEffects(slots, effects) BY <1>0 DEF HostInv
  <2>4. \A i \in 1 .. n : /\ slots[i] \in Slot
                          /\ slots[i].sources \in SUBSET Sources /\ slots[i].sources # {}
    BY <2>2, <2>3, SlotsAre
  <2>5. ASSUME NEW i \in 1 .. n
        PROVE  /\ Likes(slots'[i], slots[i])
               /\ slots'[i].sources = IF slots[i].sid = Due.sid
                                      THEN slots[i].sources \union {Due.source}
                                      ELSE slots[i].sources
    <3>1. slots'[i] = IF slots[i].sid = Due.sid
                      THEN [slots[i] EXCEPT !.sources = slots[i].sources \union {Due.source}]
                      ELSE slots[i]
      BY <2>1, <2>2 DEF SlotOf
    <3>2. slots[i].sources \union {Due.source} \in SUBSET Sources BY <1>2, <2>4
    <3>3. PICK b \in Slot : b = slots[i] BY <2>4
    <3>4. PICK X \in SUBSET Sources : X = slots[i].sources \union {Due.source} BY <3>2
    <3>5. PICK c : c = [b EXCEPT !.sources = X] OBVIOUS
    <3>6. Likes(c, b) /\ c.sources = X BY ONLY <3>5, SourcesWritten
    <3>7. Likes(b, b) BY DEF Likes
    <3> QED BY <3>1, <3>3, <3>4, <3>5, <3>6, <3>7
  <2>6. /\ GoodSlots(slots') /\ GoodEffects(slots', effects) /\ AppsIn(slots') = AppsIn(slots)
        /\ Len(slots') = Len(slots)
    <3>1. DOMAIN slots' = DOMAIN slots /\ slots' = [i \in DOMAIN slots |-> slots'[i]] BY <2>1
    <3>2. \A i \in 1 .. Len(slots) : Likes(slots'[i], slots[i]) /\ slots'[i].sources # {}
      BY <2>2, <2>4, <2>5
    <3> QED BY ONLY <2>3, <3>1, <3>2, MappedSlots
  <2>7. HostInv' BY <1>0, <2>1, <2>6 DEF HostInv
  <2>8. ASSUME NEW a \in Sids \X Sources
        PROVE  a \in Holds(slots') <=> a \in Holds(slots) \/ a = <<Due.sid, Due.source>>
    <3>1. PICK k \in 1 .. n : slots[k].sid = Due.sid BY <1>4, <2>2 DEF SlotOf
    <3>2. \A i \in 1 .. n : slots'[i].sid = slots[i].sid BY <2>5 DEF Likes
    <3>3. ASSUME a \in Holds(slots') PROVE a \in Holds(slots) \/ a = <<Due.sid, Due.source>>
      <4>1. PICK i \in 1 .. n : slots[i].sid = a[1] /\ a[2] \in slots'[i].sources
        BY <2>2, <2>6, <3>2, <3>3 DEF Holds
      <4>2. a[2] \in slots[i].sources \/ (a[1] = Due.sid /\ a[2] = Due.source) BY <2>5, <4>1
      <4> QED BY <2>2, <4>1, <4>2 DEF Holds
    <3>4. ASSUME a \in Holds(slots) PROVE a \in Holds(slots')
      <4>1. PICK i \in 1 .. n : slots[i].sid = a[1] /\ a[2] \in slots[i].sources
        BY <2>2, <3>4 DEF Holds
      <4>2. a[2] \in slots'[i].sources BY <2>5, <4>1
      <4> QED BY <2>2, <2>6, <3>2, <4>1, <4>2 DEF Holds
    <3>5. ASSUME a = <<Due.sid, Due.source>> PROVE a \in Holds(slots')
      <4>1. Due.source \in slots'[k].sources /\ slots'[k].sid = Due.sid BY <2>5, <3>1, <3>2
      <4> QED BY <2>2, <2>6, <3>5, <4>1 DEF Holds
    <3> QED BY <3>3, <3>4, <3>5
  <2> QED BY <1>0, <1>2, <1>4, <2>1, <2>7, <2>8 DEF HeldToo
<1>5. CASE ~released /\ SlotOf(Due.sid) = {}
  <2>s. PICK s \in Sids : s = Due.sid BY <1>2
  <2>x. PICK x \in Sources : x = Due.source BY <1>2
  <2>1. PICK out : out = IF s = AllSound THEN {} ELSE Oldest OBVIOUS
  <2>2. PICK base : base = AttachBase(s, x, out) OBVIOUS
  <2>3. CreateIn(base, {s}, PlanOrBuilt, DpsOf(out))
    BY <1>5, <2>s, <2>x, <2>1, <2>2 DEF RunAttach, AttachBase
  <2>5. evicted' = evicted \union {slots[i].sid : i \in out}
    BY <1>5, <2>s, <2>1 DEF RunAttach
  <2>6. SlotOf(s) = {} BY <1>5, <2>s
  <2>4. HostInv' /\ evicted' \in SUBSET Apps /\ HeldToo(<<s, x>>)
    BY ONLY HostTypes, <2>1, <2>2, <2>3, <2>5, <2>6, HostAttachNew
  <2> QED BY <1>2, <1>5, <2>s, <2>x, <2>4
<1> QED BY <1>3, <1>4, <1>5

(* The post that is taken.                                                  *)
LEMMA DueIs ==
    ASSUME ServiceInv, NEW op, Takes(op)
    PROVE  Due \in Posts /\ Due.op = op /\ queue' \in Seq(Posts)
  BY Taken DEF ServiceInv

(* A source has let go of a session.                                        *)
LetGoOf(b) ==
    \A a \in Sids \X Sources : a \in Holds(slots') <=> a \in Holds(slots) /\ a # b

(* detach(): a hold less, and the effect goes with the last one.            *)
LEMMA HostDetach ==
    ASSUME HostTypes, RunDetach
    PROVE  /\ HostInv' /\ UNCHANGED evicted /\ Due.sid \in Sids /\ Due.source \in Sources
           /\ LetGoOf(<<Due.sid, Due.source>>)
<1>0. HostInv /\ ServiceInv /\ GoodSlots(slots) /\ GoodEffects(slots, effects)
  BY DEF HostTypes, HostInv
<1>1. Due \in Posts /\ Due.op = "detach" BY <1>0, DueIs DEF RunDetach
<1>s. PICK s \in Sids : s = Due.sid BY <1>1, PostCarries
<1>x. PICK x \in Sources : x = Due.source BY <1>1, PostCarries
<1>2. PICK n \in Nat : n = Len(slots) /\ DOMAIN slots = 1 .. n BY <1>0, SlotsAre
<1>3. PICK last : last = {i \in 1 .. n : slots[i].sid = s /\ slots[i].sources \subseteq {x}}
  OBVIOUS
<1>4. /\ slots' = IF last # {} THEN Without(last)
                  ELSE [i \in 1 .. n |->
                          IF slots[i].sid = s
                          THEN [slots[i] EXCEPT !.sources = slots[i].sources \ {x}]
                          ELSE slots[i]]
      /\ effects' = {e \in effects : e.dp \notin DpsOf(last)}
      /\ UNCHANGED evicted
  BY <1>s, <1>x, <1>2, <1>3 DEF RunDetach, SlotOf
<1>5. /\ \A i \in 1 .. n : /\ slots[i] \in Slot /\ slots[i].sources # {}
                           /\ slots[i].sources \in SUBSET Sources
      /\ \A i, k \in 1 .. n : slots[i].sid = slots[k].sid => i = k
  BY <1>0, <1>2, SlotsAre
<1>6. CASE last # {}
  <2>1. PICK m \in 1 .. n : m \in last BY <1>3, <1>6
  <2>2. last = {m} BY <1>3, <1>5, <2>1
  <2>3. slots[m].sid = s /\ slots[m].sources = {x} BY <1>3, <1>5, <2>1
  <2>4. LeavesRest(slots', effects', last)
    <3>1. last = {} \/ \E k \in 1 .. Len(slots) : last = {k} BY <1>2, <2>2
    <3>2. slots' = Without(last) BY <1>4, <1>6
    <3> QED BY ONLY <1>0, <1>4, <3>1, <3>2, WithoutKeeps
  <2>5. Cardinality(AppsIn(slots')) <= Cap
    <3>1. AppsIn(slots') \subseteq AppsIn(slots) BY <2>4 DEF LeavesRest
    <3> QED BY <1>0, <3>1, FewerApps DEF HostInv
  <2>6. HostInv' BY <2>4, <2>5 DEF HostInv, LeavesRest
  <2>7. ASSUME NEW a \in Sids \X Sources
        PROVE  a \in Holds(slots') <=> a \in Holds(slots) /\ a # <<s, x>>
    <3>1. ASSUME a \in Holds(slots') PROVE a \in Holds(slots) /\ a # <<s, x>>
      <4>1. PICK j \in 1 .. Len(slots') : slots'[j].sid = a[1] /\ a[2] \in slots'[j].sources
        BY <3>1 DEF Holds
      <4>2. PICK k \in (1 .. Len(slots)) \ last : slots'[j] = slots[k] BY <2>4 DEF LeavesRest
      <4>3. k # m /\ k \in 1 .. n BY <1>2, <2>2, <4>2
      <4>4. slots[k].sid # s BY <1>5, <2>3, <4>3
      <4> QED BY <4>1, <4>2, <4>4 DEF Holds
    <3>2. ASSUME a \in Holds(slots), a # <<s, x>> PROVE a \in Holds(slots')
      <4>1. PICK k \in 1 .. n : slots[k].sid = a[1] /\ a[2] \in slots[k].sources
        BY <1>2, <3>2 DEF Holds
      <4>2. k # m BY <2>3, <3>2, <4>1
      <4>3. PICK j \in 1 .. Len(slots') : slots'[j] = slots[k]
        BY <1>2, <2>2, <2>4, <4>2 DEF LeavesRest
      <4> QED BY <4>1, <4>3 DEF Holds
    <3> QED BY <3>1, <3>2
  <2>8. LetGoOf(<<s, x>>) BY <2>7 DEF LetGoOf
  <2> QED BY <1>s, <1>x, <1>4, <2>6, <2>8
<1>7. CASE last = {}
  <2>1. effects' = effects BY <1>4, <1>7 DEF DpsOf
  <2>2. ASSUME NEW i \in 1 .. n
        PROVE  /\ Likes(slots'[i], slots[i]) /\ slots'[i].sources # {}
               /\ slots'[i].sources = IF slots[i].sid = s THEN slots[i].sources \ {x}
                                      ELSE slots[i].sources
    <3>1. PICK b \in Slot : b = slots[i] BY <1>5
    <3>2. PICK X \in SUBSET Sources : X = slots[i].sources \ {x} BY <1>5
    <3>3. PICK c : c = [b EXCEPT !.sources = X] OBVIOUS
    <3>4. Likes(c, b) /\ c.sources = X BY ONLY <3>3, SourcesWritten
    <3>5. Likes(b, b) BY DEF Likes
    <3>6. slots[i].sid = s => X # {} BY <1>3, <1>7, <3>2
    <3>7. slots'[i] = IF slots[i].sid = s THEN c ELSE b BY <1>4, <1>7, <3>1, <3>2, <3>3
    <3> QED BY <1>5, <3>1, <3>2, <3>4, <3>5, <3>6, <3>7
  <2>3. /\ GoodSlots(slots') /\ GoodEffects(slots', effects) /\ AppsIn(slots') = AppsIn(slots)
        /\ Len(slots') = Len(slots)
    <3>1. DOMAIN slots' = DOMAIN slots /\ slots' = [i \in DOMAIN slots |-> slots'[i]]
      BY <1>2, <1>4, <1>7
    <3>2. \A i \in 1 .. Len(slots) : Likes(slots'[i], slots[i]) /\ slots'[i].sources # {}
      BY <1>2, <2>2
    <3> QED BY ONLY <1>0, <3>1, <3>2, MappedSlots
  <2>4. HostInv' BY <1>0, <2>1, <2>3 DEF HostInv
  <2>5. \A i \in 1 .. n : slots'[i].sid = slots[i].sid BY <2>2 DEF Likes
  <2>6. ASSUME NEW a \in Sids \X Sources
        PROVE  a \in Holds(slots') <=> a \in Holds(slots) /\ a # <<s, x>>
    <3>1. ASSUME a \in Holds(slots') PROVE a \in Holds(slots) /\ a # <<s, x>>
      <4>1. PICK i \in 1 .. n : slots[i].sid = a[1] /\ a[2] \in slots'[i].sources
        BY <1>2, <2>3, <2>5, <3>1 DEF Holds
      <4>2. a[2] \in slots[i].sources /\ (a[1] = s => a[2] # x) BY <2>2, <4>1
      <4> QED BY <1>2, <4>1, <4>2 DEF Holds
    <3>2. ASSUME a \in Holds(slots), a # <<s, x>> PROVE a \in Holds(slots')
      <4>1. PICK i \in 1 .. n : slots[i].sid = a[1] /\ a[2] \in slots[i].sources
        BY <1>2, <3>2 DEF Holds
      <4>2. a[1] = s => a[2] # x BY <3>2
      <4>3. a[2] \in slots'[i].sources BY <2>2, <4>1, <4>2
      <4> QED BY <1>2, <2>3, <2>5, <4>1, <4>3 DEF Holds
    <3> QED BY <3>1, <3>2
  <2>8. LetGoOf(<<s, x>>) BY <2>6 DEF LetGoOf
  <2> QED BY <1>s, <1>x, <1>4, <2>4, <2>8
<1> QED BY <1>6, <1>7

(* No slot and no effect match.                                             *)
LEMMA NoneLeft ==
    /\ GoodSlots(<<>>) /\ GoodEffects(<<>>, {}) /\ Cardinality(AppsIn(<<>>)) <= Cap
    /\ Holds(<<>>) = {}
<1>1. Len(<<>>) = 0 /\ <<>> \in Seq(Slot) /\ 1 .. 0 = {} OBVIOUS
<1>2. GoodSlots(<<>>) BY <1>1 DEF GoodSlots
<1>3. IsFiniteSet({}) /\ Cardinality({}) = 0 BY FS_EmptySet
<1>4. GoodEffects(<<>>, {}) BY <1>1, <1>3 DEF GoodEffects
<1>5. AppsIn(<<>>) = {} BY <1>1 DEF AppsIn
<1>6. Cardinality(AppsIn(<<>>)) <= Cap BY <1>3, <1>5, CapAssumption
<1>7. Holds(<<>>) = {} BY <1>1 DEF Holds
<1> QED BY <1>2, <1>4, <1>6, <1>7

(* detachAll() and release() leave nothing.                                 *)
LEMMA HostDetachAll ==
    ASSUME HostTypes, RunDetachAll
    PROVE  /\ HostInv' /\ evicted' \in SUBSET Apps
           /\ slots' = <<>> /\ effects' = {} /\ Holds(slots') = {}
<1>1. slots' = <<>> /\ evicted' = {} /\ effects' = {e \in effects : e.dp \notin DpsOf(DOMAIN slots)}
  BY DEF RunDetachAll
<1>2. PICK n \in Nat : n = Len(slots) /\ DOMAIN slots = 1 .. n BY SlotsAre DEF HostTypes, HostInv
<1>3. \A e \in effects : \E i \in 1 .. n : slots[i].dp = e.dp
  BY <1>2 DEF HostTypes, HostInv, GoodEffects
<1>4. effects' = {} BY <1>1, <1>2, <1>3 DEF DpsOf
<1> QED BY <1>1, <1>4, NoneLeft DEF HostInv

-----------------------------------------------------------------------------
(* Sessions that have a slot created anew, where they are: the handles given *)
(* up are those of the slots in I.                                          *)
LEMMA AnewKeeps ==
    ASSUME HostTypes, NEW I \in SUBSET (1 .. Len(slots)), NEW S, S = {slots[i].sid : i \in I},
           NEW p \in Plans, NEW dead, CreateIn(slots, S, p, dead),
           \A i \in 1 .. Len(slots) : slots[i].dp # None =>
              (slots[i].dp \in dead <=> i \in I)
    PROVE  HostInv' /\ Holds(slots') = Holds(slots)
<1>0. GoodSlots(slots) /\ GoodEffects(slots, effects) BY DEF HostTypes, HostInv
<1>1. PICK n \in Nat : n = Len(slots) /\ DOMAIN slots = 1 .. n BY <1>0, SlotsAre
<1>2. /\ \A i \in 1 .. n : slots[i].sid \in Sids
      /\ \A i, k \in 1 .. n : slots[i].sid = slots[k].sid => i = k
  BY <1>0, <1>1, SlotsAre
<1>3. S \in SUBSET Sids BY <1>1, <1>2
<1>4. \A i \in 1 .. n : slots[i].sid \in S <=> i \in I BY <1>1, <1>2
<1>5. OthersKept(slots, S, dead)
  <2>1. ASSUME NEW e \in effects, e.dp \notin dead
        PROVE  \E i \in 1 .. Len(slots) : slots[i].sid \notin S /\ slots[i].dp = e.dp
    <3>1. PICK i \in 1 .. n : slots[i].dp = e.dp BY <1>0, <1>1 DEF GoodEffects
    <3>2. e.dp # None
      <4>1. e \in Effect BY <1>0 DEF GoodEffects
      <4> QED BY <4>1, NoneAssumption DEF Effect
    <3>3. i \notin I BY <1>1, <2>1, <3>1, <3>2
    <3> QED BY <1>1, <1>4, <3>1, <3>3
  <2>2. ASSUME NEW i \in 1 .. Len(slots), slots[i].sid \notin S, slots[i].dp # None
        PROVE  slots[i].dp \notin dead /\ \E e \in effects : e.dp = slots[i].dp
    BY <1>0, <1>1, <1>4, <2>2 DEF GoodEffects
  <2> QED BY <2>1, <2>2 DEF OthersKept
<1>6. \A s \in S : \E i \in 1 .. Len(slots) : slots[i].sid = s OBVIOUS
<1>7. queue \in Seq(Posts) /\ softOff \in BOOLEAN BY DEF HostTypes, ServiceInv, WorldInv
<1>8. /\ GoodSlots(slots') /\ GoodEffects(slots', effects')
      /\ Len(slots') = Len(slots)
      /\ \A i \in 1 .. Len(slots) :
            slots'[i].sid = slots[i].sid /\ slots'[i].sources = slots[i].sources
  BY ONLY <1>0, <1>3, <1>5, <1>6, <1>7, p \in Plans, CreateIn(slots, S, p, dead), CreateKeeps
<1>9. AppsIn(slots') = AppsIn(slots) BY <1>8 DEF AppsIn
<1>10. HostInv' BY <1>8, <1>9 DEF HostTypes, HostInv
<1> QED BY <1>8, <1>10, SameHolds

(* recreateAll(): every effect made anew, every hold kept.                  *)
LEMMA HostRecreateAll ==
    ASSUME HostTypes, RunRecreateAll
    PROVE  HostInv' /\ UNCHANGED evicted /\ Holds(slots') = Holds(slots)
<1>1. PICK n \in Nat : n = Len(slots) /\ DOMAIN slots = 1 .. n BY SlotsAre DEF HostTypes, HostInv
<1>2. PICK I \in SUBSET (1 .. Len(slots)) : I = 1 .. n BY <1>1
<1>3. PICK S : S = {slots[i].sid : i \in I} OBVIOUS
<1>4. CreateIn(slots, S, Wanted, DpsOf(I)) BY <1>1, <1>2, <1>3 DEF RunRecreateAll
<1>5. \A i \in 1 .. Len(slots) : slots[i].dp # None => (slots[i].dp \in DpsOf(I) <=> i \in I)
  BY <1>1, <1>2 DEF DpsOf
<1>6. Wanted \in Plans BY PlansMade DEF HostTypes
<1>7. HostInv' /\ Holds(slots') = Holds(slots)
  BY ONLY HostTypes, <1>3, <1>4, <1>5, <1>6, AnewKeeps
<1> QED BY <1>7 DEF RunRecreateAll

(* Slots and effects written where they are.                                *)
LEMMA WrittenKeeps ==
    ASSUME HostInv, DOMAIN slots' = DOMAIN slots, slots' = [i \in DOMAIN slots |-> slots'[i]],
           \A i \in 1 .. Len(slots) :
              Likes(slots'[i], slots[i]) /\ slots'[i].sources = slots[i].sources,
           GoodEffects(slots, effects')
    PROVE  HostInv' /\ Holds(slots') = Holds(slots)
<1>1. GoodSlots(slots) BY DEF HostInv
<1>2. \A i \in 1 .. Len(slots) : Likes(slots'[i], slots[i]) /\ slots'[i].sources # {}
  BY <1>1, SlotsAre
<1>3. /\ GoodSlots(slots') /\ GoodEffects(slots', effects') /\ AppsIn(slots') = AppsIn(slots)
      /\ Len(slots') = Len(slots)
  BY ONLY <1>1, <1>2, DOMAIN slots' = DOMAIN slots,
          slots' = [i \in DOMAIN slots |-> slots'[i]], GoodEffects(slots, effects'), MappedSlots
<1>4. HostInv' BY <1>3 DEF HostInv
<1>5. Holds(slots') = Holds(slots)
  <2>1. \A i \in 1 .. Len(slots) :
           slots'[i].sid = slots[i].sid /\ slots'[i].sources = slots[i].sources
    BY DEF Likes
  <2> QED BY ONLY <1>3, <2>1, SameHolds
<1> QED BY <1>4, <1>5

(* Effects switched on or off match the slots as before.                    *)
LEMMA SwitchedEffects ==
    ASSUME GoodEffects(slots, effects), NEW Mine \in SUBSET effects, NEW x \in BOOLEAN,
           NEW fs, fs = (effects \ Mine) \union {[e EXCEPT !.on = x] : e \in Mine}
    PROVE  GoodEffects(slots, fs)
<1>1. PICK write : write = [e \in Mine |-> [e EXCEPT !.on = x]] OBVIOUS
<1>2. \A e \in Mine : e \in Effect BY DEF GoodEffects
<1>3. ASSUME NEW e \in Mine PROVE write[e] \in Effect /\ write[e].dp = e.dp
  <2>1. write[e] = [e EXCEPT !.on = x] BY <1>1
  <2> QED BY <1>2, <2>1 DEF Effect
<1>4. write \in [Mine -> Effect] /\ \A e \in Mine : write[e].dp = e.dp BY <1>1, <1>3
<1>5. fs = (effects \ Mine) \union {write[e] : e \in Mine} BY <1>1
<1> QED BY ONLY GoodEffects(slots, effects), Mine \in SUBSET effects, <1>4, <1>5, WrittenEffects

(* The soft power switches effects and moves none.                          *)
LEMMA HostSoftOff ==
    ASSUME HostTypes, RunSoftOff
    PROVE  HostInv' /\ UNCHANGED evicted /\ Holds(slots') = Holds(slots) /\ softOff' \in BOOLEAN
<1>0. HostInv /\ ServiceInv /\ GoodSlots(slots) /\ GoodEffects(slots, effects)
  BY DEF HostTypes, HostInv
<1>1. Due \in Posts /\ Due.op = "softOff" BY <1>0, DueIs DEF RunSoftOff
<1>2. Due.off \in BOOLEAN BY <1>1, PostCarries
<1>3. PICK off \in BOOLEAN : off = ~Due.off BY <1>2
<1>4. PICK n \in Nat : n = Len(slots) /\ DOMAIN slots = 1 .. n BY <1>0, SlotsAre
<1>5. PICK Mine \in SUBSET effects :
        /\ effects' = (effects \ Mine) \union {[e EXCEPT !.on = off] : e \in Mine}
        /\ slots' = [i \in DOMAIN slots |->
              [slots[i] EXCEPT !.error = @ \/ \E e \in effects \ Mine : e.dp = slots[i].dp]]
  <2>1. PICK Mine : Mine = {e \in effects : e.ours /\ e.dp \in DpsOf(DOMAIN slots)} OBVIOUS
  <2>2. Mine \in SUBSET effects BY <2>1
  <2>3. effects' = (effects \ Mine) \union {[e EXCEPT !.on = ~Due.off] : e \in Mine}
    BY <2>1 DEF RunSoftOff
  <2>4. {[e EXCEPT !.on = ~Due.off] : e \in Mine} = {[e EXCEPT !.on = off] : e \in Mine}
    BY <1>3, Zenon
  <2>5. slots' = [i \in DOMAIN slots |->
              [slots[i] EXCEPT !.error = @ \/ \E e \in effects \ Mine : e.dp = slots[i].dp]]
    BY <2>1 DEF RunSoftOff
  <2> QED BY <2>2, <2>3, <2>4, <2>5
<1>6. GoodEffects(slots, effects') BY ONLY <1>0, <1>5, SwitchedEffects
<1>7. ASSUME NEW i \in 1 .. n
      PROVE  Likes(slots'[i], slots[i]) /\ slots'[i].sources = slots[i].sources
  <2>1. PICK b \in Slot : b = slots[i] BY <1>0, <1>4, SlotsAre
  <2>2. PICK x \in BOOLEAN : x <=> (b.error \/ \E e \in effects \ Mine : e.dp = b.dp) OBVIOUS
  <2>3. x = (b.error \/ \E e \in effects \ Mine : e.dp = b.dp) BY <2>2, Zenon
  <2>4. slots'[i] = [b EXCEPT !.error = x]
    <3>1. slots'[i] = [b EXCEPT !.error = b.error \/ \E e \in effects \ Mine : e.dp = b.dp]
      BY <1>4, <1>5, <2>1
    <3> QED BY <2>3, <3>1, Zenon
  <2>5. Likes(slots'[i], b) /\ slots'[i].sources = b.sources BY ONLY <2>4, ErrorWritten
  <2> QED BY <2>1, <2>5
<1>8. HostInv' /\ Holds(slots') = Holds(slots)
  <2>1. DOMAIN slots' = DOMAIN slots /\ slots' = [i \in DOMAIN slots |-> slots'[i]] BY <1>5
  <2>2. \A i \in 1 .. Len(slots) :
           Likes(slots'[i], slots[i]) /\ slots'[i].sources = slots[i].sources
    BY <1>4, <1>7
  <2> QED BY ONLY <1>0, <1>6, <2>1, <2>2, WrittenKeeps
<1> QED BY <1>2, <1>8 DEF RunSoftOff

(* onEnable() switches effects and moves none.                              *)
LEMMA HostEnable ==
    ASSUME HostTypes, RunEnable
    PROVE  HostInv' /\ UNCHANGED evicted /\ Holds(slots') = Holds(slots)
<1>0. HostInv /\ GoodSlots(slots) /\ GoodEffects(slots, effects) BY DEF HostTypes, HostInv
<1>1. PICK n \in Nat : n = Len(slots) /\ DOMAIN slots = 1 .. n BY <1>0, SlotsAre
<1>2. PICK I : I = IF softOff THEN {} ELSE {i \in DOMAIN slots : slots[i].dp = Due.dp} OBVIOUS
<1>3. PICK again : again = {i \in I : slots[i].control /\ ~slots[i].tried} OBVIOUS
<1>4. PICK Mine : Mine = {e \in effects : e.ours /\ e.dp \in DpsOf(again)} OBVIOUS
<1>5. /\ effects' = (effects \ Mine) \union {[e EXCEPT !.on = TRUE] : e \in Mine}
      /\ slots' = [i \in DOMAIN slots |->
             IF i \notin I THEN slots[i]
             ELSE [slots[i] EXCEPT !.tried = TRUE,
                      !.error = @ \/ i \notin again \/ slots[i].dp \notin {e.dp : e \in Mine}]]
      /\ UNCHANGED evicted
  BY <1>2, <1>3, <1>4 DEF RunEnable
<1>6. GoodEffects(slots, effects')
  <2>1. Mine \in SUBSET effects BY <1>4
  <2> QED BY ONLY <1>0, <1>5, <2>1, SwitchedEffects
<1>7. ASSUME NEW i \in 1 .. n
      PROVE  Likes(slots'[i], slots[i]) /\ slots'[i].sources = slots[i].sources
  <2>1. PICK b \in Slot : b = slots[i] BY <1>0, <1>1, SlotsAre
  <2>2. CASE i \notin I
    <3>1. slots'[i] = b BY <1>1, <1>5, <2>1, <2>2
    <3> QED BY <2>1, <3>1 DEF Likes
  <2>3. CASE i \in I
    <3>1. PICK x \in BOOLEAN : x <=> (b.error \/ i \notin again \/ b.dp \notin {e.dp : e \in Mine})
      OBVIOUS
    <3>2. x = (b.error \/ i \notin again \/ b.dp \notin {e.dp : e \in Mine}) BY <3>1, Zenon
    <3>3. slots'[i] = [b EXCEPT !.tried = TRUE,
                  !.error = b.error \/ i \notin again \/ b.dp \notin {e.dp : e \in Mine}]
      BY <1>1, <1>5, <2>1, <2>3
    <3>4. slots'[i] = [b EXCEPT !.tried = TRUE, !.error = x] BY <3>2, <3>3, Zenon
    <3>5. PICK c : c = [b EXCEPT !.tried = TRUE, !.error = x] OBVIOUS
    <3>6. Likes(c, b) /\ c.sources = b.sources BY ONLY <3>5, TriedWritten
    <3>7. slots'[i] = c BY ONLY <3>4, <3>5
    <3> QED BY ONLY <2>1, <3>6, <3>7
  <2> QED BY <2>2, <2>3
<1>8. HostInv' /\ Holds(slots') = Holds(slots)
  <2>1. DOMAIN slots' = DOMAIN slots /\ slots' = [i \in DOMAIN slots |-> slots'[i]] BY <1>5
  <2>2. \A i \in 1 .. Len(slots) :
           Likes(slots'[i], slots[i]) /\ slots'[i].sources = slots[i].sources
    BY <1>1, <1>7
  <2> QED BY ONLY <1>0, <1>6, <2>1, <2>2, WrittenKeeps
<1> QED BY <1>5, <1>8

(* onControl() makes an effect anew in its slot, or writes its loss.        *)
LEMMA HostControl ==
    ASSUME HostTypes, RunControl
    PROVE  HostInv' /\ UNCHANGED evicted /\ Holds(slots') = Holds(slots)
<1>0. HostInv /\ ServiceInv /\ GoodSlots(slots) /\ GoodEffects(slots, effects)
  BY DEF HostTypes, HostInv
<1>1. PICK n \in Nat : n = Len(slots) /\ DOMAIN slots = 1 .. n BY <1>0, SlotsAre
<1>2. PICK I \in SUBSET (1 .. Len(slots)) : I = {i \in DOMAIN slots : slots[i].dp = Due.dp}
  BY <1>1
<1>3. UNCHANGED evicted BY DEF RunControl
<1>4. CASE I = {}
  <2>1. UNCHANGED <<slots, effects>> BY <1>2, <1>4 DEF RunControl, hostVars
  <2> QED BY <1>0, <1>3, <2>1 DEF HostInv, AppsIn
<1>5. CASE I # {} /\ Due.granted
  <2>1. PICK S : S = {slots[i].sid : i \in I} OBVIOUS
  <2>2. CreateIn(slots, S, PlanOrBuilt, {Due.dp}) BY <1>2, <1>5, <2>1 DEF RunControl
  <2>3. \A i \in 1 .. Len(slots) : slots[i].dp # None => (slots[i].dp \in {Due.dp} <=> i \in I)
    BY <1>1, <1>2
  <2>4. PlanOrBuilt \in Plans BY PlansMade DEF HostTypes
  <2>5. HostInv' /\ Holds(slots') = Holds(slots)
    BY ONLY HostTypes, <2>1, <2>2, <2>3, <2>4, AnewKeeps
  <2> QED BY <1>3, <2>5
<1>6. CASE I # {} /\ ~Due.granted
  <2>1. /\ slots' = [i \in DOMAIN slots |->
                IF i \in I THEN [slots[i] EXCEPT !.control = FALSE, !.error = TRUE] ELSE slots[i]]
        /\ effects' = effects
    BY <1>2, <1>6 DEF RunControl
  <2>2. ASSUME NEW i \in 1 .. n
        PROVE  Likes(slots'[i], slots[i]) /\ slots'[i].sources = slots[i].sources
    <3>1. PICK b \in Slot : b = slots[i] BY <1>0, <1>1, SlotsAre
    <3>2. PICK c : c = [b EXCEPT !.control = FALSE, !.error = TRUE] OBVIOUS
    <3>3. Likes(c, b) /\ c.sources = b.sources BY ONLY <3>2, ControlLost
    <3>4. slots'[i] = IF i \in I THEN c ELSE b BY <1>1, <2>1, <3>1, <3>2
    <3> QED BY <3>1, <3>3, <3>4 DEF Likes
  <2>3. DOMAIN slots' = DOMAIN slots /\ slots' = [i \in DOMAIN slots |-> slots'[i]] BY <2>1
  <2>4. \A i \in 1 .. Len(slots) :
           Likes(slots'[i], slots[i]) /\ slots'[i].sources = slots[i].sources
    BY <1>1, <2>2
  <2>5. GoodEffects(slots, effects') BY <1>0, <2>1
  <2>6. HostInv' /\ Holds(slots') = Holds(slots)
    BY ONLY <1>0, <2>3, <2>4, <2>5, WrittenKeeps
  <2> QED BY <1>3, <2>6
<1> QED BY <1>4, <1>5, <1>6

(* What is pushed to a slot and what becomes of it.                         *)
PushedTo(slot, i, due, fails) ==
    IF i \in fails THEN [slot EXCEPT !.error = TRUE]
    ELSE IF i \in due THEN [slot EXCEPT !.sent = Wanted] ELSE slot

(* A push leaves a slot's session, handle and sources alone.                *)
LEMMA PushedSlot ==
    ASSUME Wanted \in Plans, NEW b \in Slot, NEW i, NEW due, NEW fails
    PROVE  Likes(PushedTo(b, i, due, fails), b)
           /\ PushedTo(b, i, due, fails).sources = b.sources
<1>1. PICK c : c = [b EXCEPT !.error = TRUE] OBVIOUS
<1>2. Likes(c, b) /\ c.sources = b.sources BY ONLY <1>1, ErrorWritten
<1>3. PICK p \in Plans : p = Wanted OBVIOUS
<1>4. PICK d : d = [b EXCEPT !.sent = p] OBVIOUS
<1>5. Likes(d, b) /\ d.sources = b.sources BY ONLY <1>4, SentWritten
<1>6. Likes(b, b) BY DEF Likes
<1>7. PushedTo(b, i, due, fails) = IF i \in fails THEN c ELSE IF i \in due THEN d ELSE b
  BY <1>1, <1>3, <1>4 DEF PushedTo
<1> QED BY ONLY <1>2, <1>5, <1>6, <1>7

(* What becomes of an effect.                                               *)
PushedEffect(e, sent, bad) ==
    CASE e.dp \in sent -> [e EXCEPT !.cards = cards]
      [] e.dp \in bad -> [e EXCEPT !.cards = None]
      [] OTHER -> e

(* A push leaves an effect's handle alone.                                  *)
LEMMA EffectPushed ==
    ASSUME cards \in 0 .. 1, NEW e \in Effect, NEW sent, NEW bad
    PROVE  /\ PushedEffect(e, sent, bad) \in Effect /\ PushedEffect(e, sent, bad).dp = e.dp
<1>1. PICK c : c = [e EXCEPT !.cards = cards] OBVIOUS
<1>2. PICK d : d = [e EXCEPT !.cards = None] OBVIOUS
<1>3. c \in Effect /\ c.dp = e.dp /\ d \in Effect /\ d.dp = e.dp BY <1>1, <1>2 DEF Effect
<1>4. PushedEffect(e, sent, bad) \in {c, d, e} BY <1>1, <1>2 DEF PushedEffect
<1> QED BY <1>3, <1>4

(* A push to all moves no effect.                                           *)
LEMMA HostPush ==
    ASSUME HostTypes, PushAll
    PROVE  HostInv' /\ Holds(slots') = Holds(slots)
<1>0. HostInv /\ GoodSlots(slots) /\ GoodEffects(slots, effects) BY DEF HostTypes, HostInv
<1>1. PICK n \in Nat : n = Len(slots) /\ DOMAIN slots = 1 .. n BY <1>0, SlotsAre
<1>2. PICK bad, stuck : PushTo(bad, stuck) BY DEF PushAll
<1>a. PICK due : due = Unsent OBVIOUS
<1>b. PICK fails : fails = {i \in Unsent : i \in bad \/ \A e \in EffectOf(i) : ~e.ours} OBVIOUS
<1>3. /\ slots' = [i \in DOMAIN slots |-> PushedTo(slots[i], i, due, fails)]
      /\ effects' = {PushedEffect(e, DpsOf(due \ (fails \union stuck)), DpsOf(bad)) : e \in effects}
  <2>1. slots' = [i \in DOMAIN slots |-> PushedTo(slots[i], i, due, fails)]
    BY <1>2, <1>a, <1>b DEF PushTo, PushedTo
  <2>2. effects' = {PushedEffect(e, DpsOf(due \ (fails \union stuck)), DpsOf(bad)) : e \in effects}
    BY <1>2, <1>a, <1>b DEF PushTo, PushedEffect
  <2> QED BY <2>1, <2>2
<1>4. Wanted \in Plans /\ cards \in 0 .. 1 BY PlansMade DEF HostTypes, WorldInv
<1>5. ASSUME NEW i \in 1 .. n
      PROVE  Likes(slots'[i], slots[i]) /\ slots'[i].sources = slots[i].sources
  <2>1. PICK b \in Slot : b = slots[i] BY <1>0, <1>1, SlotsAre
  <2>2. slots'[i] = PushedTo(b, i, due, fails) BY <1>1, <1>3, <2>1
  <2>3. Likes(PushedTo(b, i, due, fails), b) /\ PushedTo(b, i, due, fails).sources = b.sources
    BY ONLY <1>4, PushedSlot
  <2> QED BY <2>1, <2>2, <2>3
<1>6. GoodEffects(slots, effects')
  <2>1. PICK patch :
          patch = [e \in effects |-> PushedEffect(e, DpsOf(due \ (fails \union stuck)), DpsOf(bad))]
    OBVIOUS
  <2>2. \A e \in effects : e \in Effect BY <1>0 DEF GoodEffects
  <2>3. ASSUME NEW e \in effects PROVE patch[e] \in Effect /\ patch[e].dp = e.dp
    <3>1. PICK sent : sent = DpsOf(due \ (fails \union stuck)) OBVIOUS
    <3>2. PICK wrong : wrong = DpsOf(bad) OBVIOUS
    <3>3. patch[e] = PushedEffect(e, sent, wrong) BY <2>1, <3>1, <3>2
    <3>4. e \in Effect BY <2>2
    <3>5. PushedEffect(e, sent, wrong) \in Effect /\ PushedEffect(e, sent, wrong).dp = e.dp
      BY ONLY <1>4, <3>4, EffectPushed
    <3> QED BY <3>3, <3>5
  <2>4. patch \in [effects -> Effect] /\ \A e \in effects : patch[e].dp = e.dp BY <2>1, <2>3
  <2>5. effects' = {patch[e] : e \in effects} BY <1>3, <2>1
  <2> QED BY ONLY <1>0, <2>4, <2>5, PatchedEffects
<1>7. DOMAIN slots' = DOMAIN slots /\ slots' = [i \in DOMAIN slots |-> slots'[i]] BY <1>3
<1>8. \A i \in 1 .. Len(slots) :
         Likes(slots'[i], slots[i]) /\ slots'[i].sources = slots[i].sources
  BY <1>1, <1>5
<1> QED BY ONLY <1>0, <1>6, <1>7, <1>8, WrittenKeeps

(* syncNow(): pushed to, or made anew, each in its slot.                    *)
LEMMA HostSync ==
    ASSUME HostTypes, RunSync
    PROVE  HostInv' /\ UNCHANGED evicted /\ Holds(slots') = Holds(slots)
<1>1. CASE ShapeChanged
  <2>1. PICK n \in Nat : n = Len(slots) /\ DOMAIN slots = 1 .. n
    BY SlotsAre DEF HostTypes, HostInv
  <2>2. PICK I \in SUBSET (1 .. Len(slots)) : I = {i \in DOMAIN slots : slots[i].dp # None}
    BY <2>1
  <2>3. PICK S : S = {slots[i].sid : i \in I} OBVIOUS
  <2>4. CreateIn(slots, S, Wanted, DpsOf(I)) BY <1>1, <2>2, <2>3 DEF RunSync
  <2>5. \A i \in 1 .. Len(slots) : slots[i].dp # None => (slots[i].dp \in DpsOf(I) <=> i \in I)
    BY <2>1, <2>2 DEF DpsOf
  <2>6. Wanted \in Plans BY PlansMade DEF HostTypes
  <2>7. HostInv' /\ Holds(slots') = Holds(slots)
    BY ONLY HostTypes, <2>3, <2>4, <2>5, <2>6, AnewKeeps
  <2> QED BY <2>7 DEF RunSync
<1>2. CASE ~ShapeChanged
  <2>1. PushAll /\ UNCHANGED evicted BY <1>2 DEF RunSync
  <2> QED BY <2>1, HostPush
<1> QED BY <1>1, <1>2

-----------------------------------------------------------------------------
(* The bounds.                                                              *)
BoundsInv == changes \in 0 .. MaxChanges /\ faults \in 0 .. MaxFaults

(* Creating stays within the bound on faults; ending is a flag.             *)
LEMMA CreateCounts ==
    ASSUME BoundsInv, ending \in BOOLEAN, NEW base, NEW S \in SUBSET Sids, NEW p, NEW dead,
           CreateIn(base, S, p, dead)
    PROVE  BoundsInv' /\ ending' \in BOOLEAN
<1>1. PICK o \in Outcomes(S) :
        /\ faults' = faults + Cardinality({s \in S : o[s] \in {"failed", "refused"}})
        /\ ending' = (service # "down" /\ (ending \/ \E s \in S \ Apps : o[s] = "refused"))
        /\ UNCHANGED changes
  BY DEF CreateIn
<1>2. PICK T \in SUBSET S : T = {s \in S : o[s] \in {"failed", "refused"}} OBVIOUS
<1>3. faults + Cardinality(T) <= MaxFaults BY <1>2 DEF Outcomes
<1>4. Cardinality(T) \in Nat
  <2>1. IsFiniteSet(Sids) BY AppsAssumption, FS_AddElement DEF Sids
  <2>2. T \in SUBSET Sids OBVIOUS
  <2> QED BY ONLY <2>1, <2>2, FS_Subset, FS_CardinalityType
<1>5. PICK k \in Nat : k = Cardinality(T) BY <1>4
<1>6. faults' = faults + k /\ faults + k <= MaxFaults BY <1>1, <1>2, <1>3, <1>5
<1>7. BoundsInv' BY <1>1, <1>6, BoundsAssumption DEF BoundsInv
<1>8. ending' \in BOOLEAN
  <2>1. PICK b \in BOOLEAN :
          b <=> (service # "down" /\ (ending \/ \E s \in S \ Apps : o[s] = "refused"))
    OBVIOUS
  <2> QED BY <1>1, <2>1, Zenon
<1> QED BY <1>7, <1>8

(* So does a push.                                                          *)
LEMMA PushCounts ==
    ASSUME BoundsInv, ending \in BOOLEAN, GoodSlots(slots), PushAll
    PROVE  BoundsInv' /\ ending' \in BOOLEAN
<1>1. PICK bad \in SUBSET (DOMAIN slots) :
        /\ faults + Cardinality(bad) <= MaxFaults
        /\ faults' = faults + Cardinality(bad) /\ UNCHANGED <<changes, ending>>
  <2>1. Unsent \subseteq DOMAIN slots BY DEF Unsent
  <2> QED BY <2>1 DEF PushAll
<1>2. IsFiniteSet(DOMAIN slots) BY SlotsAre, FS_Interval
<1>3. PICK k \in Nat : k = Cardinality(bad)
  BY ONLY <1>2, bad \in SUBSET (DOMAIN slots), FS_Subset, FS_CardinalityType
<1> QED BY <1>1, <1>3, BoundsAssumption DEF BoundsInv

-----------------------------------------------------------------------------
(* The flags are Boolean.                                                   *)
Flags ==
    /\ released \in BOOLEAN /\ rateMoving \in BOOLEAN
    /\ stale \in BOOLEAN /\ late \in BOOLEAN /\ fellBack \in BOOLEAN
    /\ globalOn \in BOOLEAN /\ uninvited \in BOOLEAN
    /\ consent \in {"none", "asked", "outdated"}

(* A service that is to stay has the mode on, a dialog that is not outdated  *)
(* has it off.                                                              *)
ModeInv ==
    /\ service # "down" /\ ~ending => globalOn
    /\ consent = "asked" => ~globalOn
    /\ consent \in {"none", "asked", "outdated"}

(* The effect thread may ask for the end, and leaves the modes alone.        *)
LEMMA ThreadEnds ==
    ASSUME EffectThread
    PROVE  /\ UNCHANGED <<service, capture, modes>>
           /\ service # "down" /\ ~ending' => ~ending
<1>1. UNCHANGED <<service, capture, modes>>
  BY DEF EffectThread, RunAttach, RunDetach, RunDetachAll, RunRecreateAll, RunSoftOff,
     RunControl, RunEnable, RunSync, ByPosts
<1>2. \/ UNCHANGED ending
      \/ \E base, S, p, dead : CreateIn(base, S, p, dead)
  BY DEF EffectThread, RunAttach, RunDetach, RunDetachAll, RunRecreateAll, RunSoftOff,
     RunControl, RunEnable, RunSync, PushAll
<1>3. ASSUME NEW base, NEW S, NEW p, NEW dead, CreateIn(base, S, p, dead),
             service # "down", ~ending'
      PROVE  ~ending
  BY <1>3 DEF CreateIn
<1> QED BY <1>1, <1>2, <1>3

(* A global mode that is to stay has capture mode gone, whenever the switch is *)
(* moved, services start and stop and the consent dialog is answered, but for *)
(* the fallback and a dialog older than the switch: for any apps, any cap and *)
(* any bounds.                                                              *)
THEOREM CaptureYields == Spec => []NotBesideCapture
<1>1. Init => ModeInv /\ NotBesideCapture BY DEF Init, ModeInv, NotBesideCapture
<1>2. ModeInv /\ NotBesideCapture /\ [Next]_vars => ModeInv' /\ NotBesideCapture'
  <2> SUFFICES ASSUME ModeInv, NotBesideCapture, [Next]_vars
               PROVE  ModeInv' /\ NotBesideCapture'
    OBVIOUS
  <2> USE DEF ModeInv, NotBesideCapture
  <2>1. CASE Start
    BY <2>1 DEF Start, NewHost, AttachNow
  <2>2. CASE StartFails
    BY <2>2 DEF StartFails, NewHost
  <2>3. CASE HearStopped \/ FallBack
    BY <2>3 DEF HearStopped, FallBack, AttachNow, modes
  <2>4. CASE Announced \/ HandleDump \/ TakeBack \/ SoftPower \/ ChangeSettings \/ SyncFails
    BY <2>4 DEF Announced, HandleDump, TakeBack, SoftPower, ChangeSettings, SyncFails,
       serviceVars, modes
  <2>5. CASE Retarget
    BY <2>5 DEF Retarget, AttachNow, modes
  <2>6. CASE Stop
    BY <2>6 DEF Stop, modes
  <2>7. CASE SwitchMode
    BY <2>7 DEF SwitchMode, Elsewhere
  <2>8. CASE AskConsent
    BY <2>8 DEF AskConsent, Elsewhere
  <2>9. CASE Answered
    <3>1. UNCHANGED <<service, ending, globalOn, fellBack>> /\ consent' = "none"
      BY <2>9 DEF Answered, Elsewhere
    <3>2. CASE UNCHANGED <<capture, uninvited>> BY <3>1, <3>2
    <3>3. CASE /\ consent # "none" /\ capture' = "on"
               /\ uninvited' = (uninvited \/ consent = "outdated")
      <4>1. uninvited' <=> uninvited \/ consent = "outdated" BY <3>3, Zenon
      <4>2. consent \in {"asked", "outdated"} BY <3>3
      <4> QED BY <3>1, <3>3, <4>1, <4>2
    <3> QED BY <2>9, <3>2, <3>3 DEF Answered
  <2>10. CASE CaptureEnds
    BY <2>10 DEF CaptureEnds, Elsewhere
  <2>11. CASE EffectThread
    BY <2>11, ThreadEnds DEF modes
  <2>12. CASE System
    <3>1. UNCHANGED <<service, capture, ending, modes>>
      BY <2>12 DEF System, ChangeDevice, RateSettles, TakeOver, BeFirst, LetGo, SwitchOff, Others,
         serviceVars
    <3> QED BY <3>1 DEF modes
  <2>13. CASE UNCHANGED vars BY <2>13 DEF vars, serviceVars, modes
  <2> QED BY <2>1, <2>2, <2>3, <2>4, <2>5, <2>6, <2>7, <2>8, <2>9, <2>10, <2>11, <2>12, <2>13
       DEF Next, Main, Screens
<1> QED BY <1>1, <1>2, PTL DEF Spec

(* The inductive invariant for the types: effects match slots throughout.   *)
TypeInv ==
    /\ HostTypes /\ BoundsInv /\ Flags
    /\ ending \in BOOLEAN

(* The posts and notices that wait, and who asked, after each step.          *)
LEMMA QueueStays ==
    ASSUME HostTypes, [Next]_vars
    PROVE  queue' \in Seq(Posts) /\ asked' \in SUBSET (Sids \X Sources)
<1>0. ServiceInv /\ HostInv BY DEF HostTypes
<1>1. queue \in Seq(Posts) /\ asked \in SUBSET (Sids \X Sources) BY <1>0 DEF ServiceInv
<1>2. CASE Quiet
  <2>1. PICK posts \in Seq(Posts) : Posted(posts) BY <1>0, <1>2, QuietPosts
  <2>2. queue' = queue \o posts /\ asked' = Asked(asked, posts) BY <2>1 DEF Posted
  <2>3. queue \o posts \in Seq(Posts) BY ONLY <1>1, posts \in Seq(Posts), ConcatProperties
  <2>4. Asked(asked, posts) \in SUBSET (Sids \X Sources) BY DEF Asked
  <2> QED BY <2>2, <2>3, <2>4
<1>3. CASE EffectThread
  <2>1. CASE RunSync BY <1>1, <2>1 DEF RunSync
  <2>2. CASE ~RunSync
    <3>1. UNCHANGED asked /\ \E op : Takes(op)
      BY <1>3, <2>2 DEF EffectThread, RunAttach, RunDetach, RunDetachAll, RunRecreateAll,
         RunSoftOff, RunControl, RunEnable, ByPosts
    <3>2. PICK op : Takes(op) BY <3>1
    <3>3. queue' \in Seq(Posts) BY <1>1, <3>2, Taken
    <3> QED BY <1>1, <3>1, <3>3
  <2> QED BY <2>1, <2>2
<1>4. CASE TakeOver \/ LetGo \/ SwitchOff
  <2>1. UNCHANGED asked BY <1>4 DEF TakeOver, LetGo, SwitchOff, Others
  <2>2. queue' \in Seq(Posts) BY <1>0, <1>4, OutsideKeeps
  <2> QED BY <1>1, <2>1, <2>2
<1>5. CASE UNCHANGED vars BY <1>1, <1>5 DEF vars
<1>6. CASE Starting
  <2>1. PICK posts \in Seq(Posts) : queue' = posts /\ asked' = Asked(asked, posts)
    BY <1>0, <1>6, Started
  <2>2. Asked(asked, posts) \in SUBSET (Sids \X Sources) BY DEF Asked
  <2> QED BY <2>1, <2>2
<1> QED BY <1>2, <1>3, <1>4, <1>5, <1>6 DEF Next, Main, System, Quiet, Starting

(* The main thread's variables keep their types.                            *)
LEMMA ServiceStays ==
    ASSUME HostTypes, [Next]_vars
    PROVE  ServiceInv'
<1> DEFINE Rest ==
      /\ service' \in {"down", "waiting", "up", "failed"} /\ capture' \in {"off", "on", "stopping"}
      /\ target' \in {"all", "apps"} /\ wantedTarget' \in {"all", "apps"}
      /\ found' \in SUBSET Apps /\ (target' = "all" => found' = {})
      /\ pending' \in Seq(Posts)
      /\ service' = "waiting" \/ pending' = <<>>
      /\ sync' \in BOOLEAN
      /\ held' \in SUBSET Sids
<1>0. ServiceInv BY DEF HostTypes
<1>1. queue' \in Seq(Posts) /\ asked' \in SUBSET (Sids \X Sources) BY QueueStays
<1>2. <<>> \in Seq(Posts) OBVIOUS
<1>3. CASE Starting
  <2>1. held' \in SUBSET Sids
    <3>1. \A e \in effects : e \in Effect BY DEF HostTypes, HostInv, GoodEffects
    <3>2. \A e \in effects : e.dp[1] \in Sids BY <3>1 DEF Effect, Dps
    <3>3. held' = held \union {e.dp[1] : e \in effects}
      BY <1>3 DEF Starting, Start, StartFails, NewHost
    <3> QED BY <1>0, <3>2, <3>3 DEF ServiceInv
  <2>2. UNCHANGED wantedTarget BY <1>3 DEF Starting, Start, StartFails, NewHost
  <2>3. service = "down" BY <1>3 DEF Starting, Start, StartFails
  <2>4. CASE StartFails
    <3>1. sync' = FALSE /\ service' = "failed" /\ UNCHANGED <<capture, target, pending, found>>
      BY <2>4 DEF StartFails
    <3> QED BY <1>0, <1>1, <2>1, <2>2, <2>3, <3>1 DEF ServiceInv
  <2>5. CASE Start
    <3>1. PICK first \in {<<>>} \union
            (IF wantedTarget = "apps" THEN {<<Attach(s, "announced")>> : s \in Apps} ELSE {}) :
              \/ AttachNow(<<>>, wantedTarget, <<>>, first) /\ UNCHANGED capture
              \/ /\ service' = "waiting" /\ capture' = "stopping" /\ pending' = first
                 /\ UNCHANGED <<target, found>>
      BY <2>5 DEF Start
    <3>2. first \in Seq(Posts) BY <3>1, WokenBy
    <3>3. sync' = TRUE BY <2>5 DEF Start
    <3>4. Rest BY <1>0, <1>2, <2>1, <2>2, <3>1, <3>2, <3>3 DEF ServiceInv, AttachNow
    <3> QED BY <1>1, <3>4 DEF ServiceInv
  <2> QED BY <1>3, <2>4, <2>5 DEF Starting
<1>4. CASE HearStopped \/ FallBack
  BY <1>0, <1>1, <1>2, <1>4 DEF HearStopped, FallBack, AttachNow, requests, ServiceInv
<1>5. CASE Announced
  <2>1. PICK s \in Apps, op \in {"attach", "detach"} :
          IF service = "waiting"
          THEN pending' = Append(pending, [op |-> op, sid |-> s, source |-> "announced"])
          ELSE UNCHANGED pending
    BY <1>5 DEF Announced
  <2>2. [op |-> op, sid |-> s, source |-> "announced"] \in Posts BY DEF Posts, Sids, Sources
  <2>3. PICK said \in Posts : said = [op |-> op, sid |-> s, source |-> "announced"] BY <2>2
  <2>4. Append(pending, said) \in Seq(Posts) BY <1>0 DEF ServiceInv
  <2>5. UNCHANGED <<service, capture, target, wantedTarget, found, sync, held>>
    BY <1>5 DEF Announced, requests
  <2> QED BY <1>0, <1>1, <2>1, <2>3, <2>4, <2>5 DEF ServiceInv
<1>6. CASE HandleDump
  BY <1>0, <1>1, <1>6 DEF HandleDump, requests, ServiceInv
<1>7. CASE Retarget
  BY <1>0, <1>1, <1>2, <1>7 DEF Retarget, AttachNow, requests, ServiceInv
<1>8. CASE TakeBack \/ SoftPower \/ ChangeSettings \/ Stop
  BY <1>0, <1>1, <1>2, <1>8
  DEF TakeBack, SoftPower, ChangeSettings, Stop, RequestSync, serviceVars, requests, ServiceInv
<1>9. CASE EffectThread
  <2>1. CASE RunSync BY <1>0, <1>1, <2>1 DEF RunSync, ServiceInv
  <2>2. CASE ~RunSync
    <3>1. ByPosts
      BY <1>9, <2>2 DEF EffectThread, RunAttach, RunDetach, RunDetachAll, RunRecreateAll,
         RunSoftOff, RunControl, RunEnable
    <3> QED BY <1>0, <1>1, <3>1 DEF ByPosts, requests, ServiceInv
  <2> QED BY <2>1, <2>2
<1>10. CASE System
  <2>1. held' \in SUBSET Sids
    <3>1. CASE TakeOver
      <4>1. PICK e \in effects : held' = held \union {e.dp[1]} BY <3>1 DEF TakeOver
      <4>2. e \in Effect BY DEF HostTypes, HostInv, GoodEffects
      <4>3. e.dp[1] \in Sids BY <4>2 DEF Effect, Dps
      <4> QED BY <1>0, <4>1, <4>3 DEF ServiceInv
    <3>2. CASE BeFirst
      <4>1. PICK s \in Sids : held' = held \union {s} BY <3>2 DEF BeFirst
      <4> QED BY <1>0, <4>1 DEF ServiceInv
    <3>3. CASE LetGo
      <4>1. PICK s : held' = held \ {s} BY <3>3 DEF LetGo
      <4> QED BY <1>0, <4>1 DEF ServiceInv
    <3>4. CASE ChangeDevice \/ RateSettles \/ SwitchOff
      BY <1>0, <3>4 DEF ChangeDevice, RateSettles, SwitchOff, ServiceInv
    <3> QED BY <1>10, <3>1, <3>2, <3>3, <3>4 DEF System
  <2>2. /\ UNCHANGED <<service, target, wantedTarget, found, pending>>
        /\ UNCHANGED capture /\ sync' \in {sync, TRUE}
    BY <1>10 DEF System, ChangeDevice, RateSettles, TakeOver, BeFirst, LetGo, SwitchOff, Others,
       RequestSync, requests, serviceVars
  <2> QED BY <1>0, <1>1, <2>1, <2>2 DEF ServiceInv
<1>11. CASE UNCHANGED vars
  BY <1>0, <1>1, <1>11 DEF vars, serviceVars, requests, ServiceInv
<1>12. CASE Screens
  <2>1. UNCHANGED <<service, target, wantedTarget, found, pending, sync, held>>
    BY <1>12 DEF Screens, SwitchMode, AskConsent, Answered, CaptureEnds, Elsewhere, requests
  <2>2. capture' \in {capture, "on", "off"}
    BY <1>12 DEF Screens, SwitchMode, AskConsent, Answered, CaptureEnds
  <2> QED BY <1>0, <1>1, <2>1, <2>2 DEF ServiceInv
<1>13. CASE SyncFails
  <2>1. UNCHANGED <<service, capture, target, wantedTarget, found, pending, held>> /\ sync' = FALSE
    BY <1>13 DEF SyncFails, serviceVars
  <2> QED BY <1>0, <1>1, <2>1 DEF ServiceInv
<1> QED BY <1>3, <1>4, <1>5, <1>6, <1>7, <1>8, <1>9, <1>10, <1>11, <1>12, <1>13
     DEF Next, Main, Starting

(* The plan and what it is made of keep their types.                        *)
LEMMA WorldStays ==
    ASSUME HostTypes, [Next]_vars
    PROVE  WorldInv'
<1>0. WorldInv BY DEF HostTypes
<1>1. Wanted \in Plans /\ PlanOrBuilt \in Plans BY <1>0, PlansMade
<1>2. CASE ChangeSettings
  BY <1>0, <1>2 DEF ChangeSettings, hostVars, WorldInv
<1>3. CASE RateSettles
  BY <1>0, <1>3 DEF RateSettles, hostVars, WorldInv
<1>4. CASE Main /\ ~ChangeSettings /\ ~Starting
  BY <1>0, <1>4 DEF Main, Starting, HearStopped, FallBack, Announced, HandleDump, Retarget,
     TakeBack, SoftPower, Stop, hostVars, world, WorldInv
<1>5. CASE RunSoftOff
  <2>1. softOff' \in BOOLEAN BY <1>5, HostSoftOff
  <2> QED BY <1>0, <1>5, <2>1 DEF RunSoftOff, ByPosts, world, WorldInv
<1>6. CASE RunControl
  BY <1>0, <1>1, <1>6 DEF RunControl, ByPosts, hostVars, world, WorldInv
<1>7. CASE RunAttach
  <2>1. plan' \in {plan, PlanOrBuilt} /\ UNCHANGED softOff BY <1>7 DEF RunAttach, hostVars
  <2> QED BY <1>0, <1>1, <1>7, <2>1 DEF RunAttach, ByPosts, world, WorldInv
<1>8. CASE RunDetach \/ RunDetachAll \/ RunEnable
  BY <1>0, <1>8 DEF RunDetach, RunDetachAll, RunEnable, ByPosts, world, WorldInv
<1>9. CASE RunRecreateAll \/ RunSync
  BY <1>0, <1>1, <1>9 DEF RunRecreateAll, RunSync, ByPosts, world, WorldInv
<1>10. CASE System /\ ~RateSettles
  BY <1>0, <1>10 DEF System, ChangeDevice, TakeOver, BeFirst, LetGo, SwitchOff, Others, hostVars,
     world, WorldInv
<1>11. CASE UNCHANGED vars BY <1>0, <1>11 DEF vars, hostVars, world, WorldInv
<1>12. CASE Starting
  <2>1. plan' = None /\ softOff' = FALSE /\ UNCHANGED world
    BY <1>12 DEF Starting, Start, StartFails, NewHost
  <2>2. softOff' \in BOOLEAN BY ONLY <2>1, Zenon
  <2> QED BY <1>0, <2>1, <2>2 DEF world, WorldInv
<1>13. CASE Screens \/ SyncFails
  <2>1. UNCHANGED <<hostVars, world>>
    BY <1>13 DEF Screens, SwitchMode, AskConsent, Answered, CaptureEnds, Elsewhere, SyncFails
  <2> QED BY <1>0, <2>1 DEF hostVars, world, WorldInv
<1> QED BY <1>2, <1>3, <1>4, <1>5, <1>6, <1>7, <1>8, <1>9, <1>10, <1>11, <1>12, <1>13
     DEF Next, EffectThread

(* Whatever the step, one effect for each slot that has one.                *)
LEMMA HostStays ==
    ASSUME HostTypes, [Next]_vars
    PROVE  HostInv' /\ evicted' \in SUBSET Apps
<1>0. HostInv /\ ServiceInv /\ evicted \in SUBSET Apps BY DEF HostTypes
<1>1. ASSUME UNCHANGED <<slots, effects, evicted>> PROVE HostInv' /\ evicted' \in SUBSET Apps
  BY <1>0, <1>1 DEF HostInv, AppsIn
<1>2. CASE Quiet BY <1>0, <1>1, <1>2, QuietPosts
<1>3. CASE TakeOver \/ LetGo \/ SwitchOff
  <2>1. UNCHANGED evicted BY <1>3 DEF TakeOver, LetGo, SwitchOff, Others
  <2> QED BY <1>0, <1>3, <2>1, OutsideKeeps
<1>4. CASE EffectThread
  BY <1>0, <1>4, HostAttach, HostDetach, HostDetachAll, HostRecreateAll, HostSoftOff,
     HostControl, HostEnable, HostSync DEF EffectThread
<1>5. CASE UNCHANGED vars BY <1>1, <1>5 DEF vars, hostVars
<1>6. CASE Starting
  <2>1. slots' = <<>> /\ effects' = {} /\ evicted' = {} BY <1>0, <1>6, Started
  <2> QED BY <2>1, NoneLeft DEF HostInv
<1> QED BY <1>2, <1>3, <1>4, <1>5, <1>6 DEF Next, Main, System, Quiet, Starting

(* The flags and the bounds are kept by every step.                         *)
LEMMA FlagsStay ==
    ASSUME TypeInv, [Next]_vars
    PROVE  Flags' /\ ending' \in BOOLEAN /\ BoundsInv'
<1>0. /\ Flags /\ BoundsInv /\ ending \in BOOLEAN /\ HostTypes
      /\ MaxChanges \in Nat /\ MaxFaults \in Nat
  BY BoundsAssumption DEF TypeInv
<1> DEFINE Same == UNCHANGED <<released, rateMoving, stale, late, modes>>
<1>a. ASSUME Same PROVE Flags'
  <2>1. UNCHANGED <<released, rateMoving, stale, late, globalOn, consent, fellBack, uninvited>>
    BY <1>a DEF modes
  <2> QED BY <1>0, <2>1 DEF Flags
<1>b. ASSUME Change \/ Fault \/ UNCHANGED bounds PROVE BoundsInv'
  BY <1>0, <1>b DEF BoundsInv, Change, Fault, bounds
<1>1. CASE Starting
  <2>1. /\ released' = FALSE /\ stale' = FALSE /\ late' = FALSE /\ fellBack' = FALSE /\ uninvited' = FALSE
        /\ UNCHANGED <<rateMoving, globalOn, consent>> /\ Change
    BY <1>1 DEF Starting, Start, StartFails, NewHost, world
  <2>2. ending' = FALSE \/ ending' = TRUE BY <1>1 DEF Starting, Start, StartFails
  <2> QED BY <1>0, <1>b, <2>1, <2>2 DEF Flags
<1>2. CASE HearStopped \/ Announced \/ HandleDump \/ Retarget \/ TakeBack \/ SoftPower
  <2>1. Same /\ UNCHANGED ending /\ (Change \/ UNCHANGED bounds)
    BY <1>2 DEF HearStopped, Announced, HandleDump, Retarget, TakeBack, SoftPower, requests,
       world, serviceVars
  <2> QED BY <1>0, <1>a, <1>b, <2>1
<1>3. CASE FallBack
  <2>1. /\ fellBack' = TRUE
        /\ UNCHANGED <<released, rateMoving, stale, late, globalOn, consent, uninvited, ending, bounds>>
    BY <1>3 DEF FallBack, requests, world
  <2> QED BY <1>0, <1>b, <2>1 DEF Flags
<1>4. CASE ChangeSettings \/ ChangeDevice
  <2>1. UNCHANGED <<stale, late>> BY <1>4 DEF ChangeSettings, ChangeDevice, RequestSync, requests
  <2>2. /\ rateMoving' = rateMoving \/ rateMoving' = TRUE
        /\ UNCHANGED <<released, modes, ending>> /\ Change
    BY <1>4 DEF ChangeSettings, ChangeDevice, serviceVars
  <2>3. UNCHANGED <<globalOn, consent, fellBack, uninvited>> BY <2>2 DEF modes
  <2> QED BY <1>0, <1>b, <2>1, <2>2, <2>3 DEF Flags
<1>5. CASE RateSettles
  <2>1. /\ rateMoving' = FALSE
        /\ UNCHANGED <<released, stale, late, modes, ending, bounds>>
    BY <1>5 DEF RateSettles, requests, serviceVars
  <2>2. UNCHANGED <<globalOn, consent, fellBack, uninvited>> BY <2>1 DEF modes
  <2> QED BY <1>0, <1>b, <2>1, <2>2 DEF Flags
<1>6. CASE Stop
  <2>1. /\ released' = TRUE /\ stale' = FALSE /\ late' = FALSE /\ ending' = FALSE
        /\ UNCHANGED <<rateMoving, modes>> /\ (Change \/ UNCHANGED bounds)
    BY <1>6 DEF Stop, world
  <2>2. UNCHANGED <<globalOn, consent, fellBack, uninvited>> BY <2>1 DEF modes
  <2> QED BY <1>0, <1>b, <2>1, <2>2 DEF Flags
<1>7. CASE TakeOver \/ BeFirst \/ LetGo \/ SwitchOff
  <2>1. Same /\ UNCHANGED ending /\ (Fault \/ UNCHANGED bounds)
    BY <1>7 DEF TakeOver, BeFirst, LetGo, SwitchOff, Others, requests, world, serviceVars
  <2> QED BY <1>0, <1>a, <1>b, <2>1
<1>10. CASE SyncFails
  <2>1. /\ stale' = TRUE /\ UNCHANGED <<late, released, rateMoving, modes, ending>> /\ Fault
    BY <1>10 DEF SyncFails, world, serviceVars
  <2>2. UNCHANGED <<globalOn, consent, fellBack, uninvited>> BY <2>1 DEF modes
  <2> QED BY <1>0, <1>b, <2>1, <2>2 DEF Flags
<1>11. CASE Screens
  <2>1. UNCHANGED <<released, rateMoving, stale, late, fellBack>> /\ (Change \/ UNCHANGED bounds)
    BY <1>11 DEF Screens, SwitchMode, AskConsent, Answered, CaptureEnds, Elsewhere, requests, world
  <2>2. globalOn' = globalOn \/ globalOn' = ~globalOn
    BY <1>11 DEF Screens, SwitchMode, AskConsent, Answered, CaptureEnds
  <2>3. globalOn' \in BOOLEAN BY ONLY <1>0, <2>2, Zenon DEF Flags
  <2>4. consent' \in {consent, "none", "asked", "outdated"}
    BY <1>11 DEF Screens, SwitchMode, AskConsent, Answered, CaptureEnds
  <2>5. uninvited' = uninvited \/ uninvited' = (uninvited \/ consent = "outdated")
    BY <1>11 DEF Screens, SwitchMode, AskConsent, Answered, CaptureEnds
  <2>6. uninvited' \in BOOLEAN BY ONLY <1>0, <2>5, Zenon DEF Flags
  <2>7. ending' = ending \/ ending' = (ending \/ (globalOn /\ service # "down"))
    BY <1>11 DEF Screens, SwitchMode, AskConsent, Answered, CaptureEnds
  <2>8. ending' \in BOOLEAN BY ONLY <1>0, <2>7, Zenon
  <2> QED BY <1>0, <1>b, <2>1, <2>3, <2>4, <2>6, <2>8 DEF Flags
<1>8. CASE EffectThread
  <2>1. UNCHANGED <<released, rateMoving, modes>> /\ (UNCHANGED stale \/ stale' = FALSE)
        /\ (UNCHANGED late \/ late' = rateMoving)
    BY <1>8 DEF EffectThread, RunAttach, RunDetach, RunDetachAll, RunRecreateAll, RunSoftOff,
       RunControl, RunEnable, RunSync, ByPosts, requests, world
  <2>10. UNCHANGED <<globalOn, consent, fellBack, uninvited>> BY <2>1 DEF modes
  <2>0. Flags' BY <1>0, <2>1, <2>10 DEF Flags
  <2>2. /\ ServiceInv /\ HostInv /\ GoodSlots(slots)
    BY <1>0 DEF HostTypes, HostInv
  <2>3. ASSUME UNCHANGED <<ending, bounds>> PROVE ending' \in BOOLEAN /\ BoundsInv'
    BY <1>0, <1>b, <2>3
  <2>4. \A S : S = {slots[i].sid : i \in DOMAIN slots} => S \in SUBSET Sids
    BY <2>2, SlotsAre
  <2>5. CASE RunAttach
    <3>1. Due.sid \in Sids
      <4>1. Due \in Posts /\ Due.op = "attach" BY <2>2, <2>5, DueIs DEF RunAttach
      <4> QED BY <4>1, PostCarries
    <3>2. \/ UNCHANGED <<ending, bounds>>
          \/ \E base, dead : CreateIn(base, {Due.sid}, PlanOrBuilt, dead)
      BY <2>5 DEF RunAttach
    <3> QED BY <1>0, <2>0, <2>3, <3>1, <3>2, CreateCounts
  <2>6. CASE RunDetach \/ RunDetachAll \/ RunSoftOff \/ RunEnable
    BY <2>0, <2>3, <2>6 DEF RunDetach, RunDetachAll, RunSoftOff, RunEnable
  <2>7. CASE RunRecreateAll
    <3>1. PICK S : S = {slots[i].sid : i \in DOMAIN slots} OBVIOUS
    <3>2. CreateIn(slots, S, Wanted, DpsOf(DOMAIN slots)) BY <2>7, <3>1 DEF RunRecreateAll
    <3>3. S \in SUBSET Sids BY <2>4, <3>1
    <3> QED BY <1>0, <2>0, <3>2, <3>3, CreateCounts
  <2>8. CASE RunControl
    <3>1. PICK I : I = {i \in DOMAIN slots : slots[i].dp = Due.dp} OBVIOUS
    <3>2. PICK S : S = {slots[i].sid : i \in I} OBVIOUS
    <3>3. \/ UNCHANGED <<ending, bounds>>
          \/ CreateIn(slots, S, PlanOrBuilt, {Due.dp})
      BY <2>8, <3>1, <3>2 DEF RunControl
    <3>4. S \in SUBSET Sids BY <2>2, <3>1, <3>2, SlotsAre
    <3> QED BY <1>0, <2>0, <2>3, <3>3, <3>4, CreateCounts
  <2>9. CASE RunSync
    <3>1. PICK I : I = {i \in DOMAIN slots : slots[i].dp # None} OBVIOUS
    <3>2. PICK S : S = {slots[i].sid : i \in I} OBVIOUS
    <3>3. PushAll \/ CreateIn(slots, S, Wanted, DpsOf(I))
      BY <2>9, <3>1, <3>2 DEF RunSync
    <3>4. S \in SUBSET Sids BY <2>2, <3>1, <3>2, SlotsAre
    <3> QED BY <1>0, <2>0, <2>2, <3>3, <3>4, CreateCounts, PushCounts
  <2> QED BY <1>8, <2>5, <2>6, <2>7, <2>8, <2>9 DEF EffectThread
<1>9. CASE UNCHANGED vars
  <2>1. Same /\ UNCHANGED <<ending, bounds>>
    BY <1>9 DEF vars, requests, world, serviceVars
  <2> QED BY <1>0, <1>a, <1>b, <2>1
<1> QED BY <1>1, <1>2, <1>3, <1>4, <1>5, <1>6, <1>7, <1>8, <1>9, <1>10, <1>11
     DEF Next, Main, System, Starting

(* They hold at first,                                                      *)
LEMMA TypesHoldFirst == Init => TypeInv
<1> SUFFICES ASSUME Init PROVE TypeInv
  OBVIOUS
<1> USE DEF Init
<1>1. ServiceInv
  <2>1. sync = FALSE OBVIOUS
  <2>2. sync \in BOOLEAN BY ONLY <2>1, Zenon
  <2>3. capture \in {"off", "on", "stopping"} OBVIOUS
  <2>4. pending \in Seq(Posts) /\ queue \in Seq(Posts) OBVIOUS
  <2>5. /\ service = "down" /\ target = "all" /\ wantedTarget \in {"all", "apps"}
        /\ pending = <<>> /\ found = {} /\ held = {} /\ asked = {}
    OBVIOUS
  <2> QED BY ONLY <2>2, <2>3, <2>4, <2>5 DEF ServiceInv
<1>2. WorldInv
  <2>1. softOff = FALSE /\ plan = None /\ cards = 0 /\ frame = 0 /\ rate = 0 OBVIOUS
  <2>2. softOff \in BOOLEAN BY ONLY <2>1, Zenon
  <2>3. plan \in Plans \union {None} BY ONLY <2>1, Zenon
  <2>4. cards \in 0 .. 1 /\ frame \in 0 .. 1 /\ rate \in 0 .. 1 BY ONLY <2>1, SMT
  <2> QED BY ONLY <2>2, <2>3, <2>4 DEF WorldInv
<1>3. HostInv BY NoneLeft DEF HostInv
<1>4. BoundsInv BY BoundsAssumption DEF BoundsInv
<1>5. Flags BY DEF Flags
<1> QED BY <1>1, <1>2, <1>3, <1>4, <1>5 DEF TypeInv, HostTypes

(* ... every step keeps them,                                               *)
LEMMA TypesStay == TypeInv /\ [Next]_vars => TypeInv'
<1> SUFFICES ASSUME TypeInv, [Next]_vars PROVE TypeInv'
  OBVIOUS
<1>1. HostTypes BY DEF TypeInv
<1>2. ServiceInv' BY <1>1, ServiceStays
<1>3. WorldInv' BY <1>1, WorldStays
<1>4. HostInv' /\ evicted' \in SUBSET Apps BY <1>1, HostStays
<1>5. Flags' /\ ending' \in BOOLEAN /\ BoundsInv' BY FlagsStay
<1> QED BY <1>2, <1>3, <1>4, <1>5 DEF TypeInv, HostTypes

(* ... and they are more than the run checks.                               *)
LEMMA TypesImply == TypeInv => TypeOK
<1> SUFFICES ASSUME TypeInv PROVE TypeOK
  OBVIOUS
<1>1. ServiceInv /\ WorldInv /\ HostInv /\ Flags /\ ending \in BOOLEAN /\ BoundsInv
      /\ evicted \in SUBSET Apps
  BY DEF TypeInv, HostTypes
<1>2. \A i \in DOMAIN slots :
          /\ slots[i].sid \in Sids /\ slots[i].sources # {}
          /\ \A k \in DOMAIN slots : slots[k].sid = slots[i].sid => k = i
  BY <1>1, SlotsAre DEF HostInv
<1>3. /\ {ending, softOff, released, rateMoving, sync, stale, late} \subseteq BOOLEAN
      /\ {globalOn, fellBack, uninvited} \subseteq BOOLEAN
      /\ consent \in {"none", "asked", "outdated"}
  BY <1>1 DEF Flags, WorldInv, ServiceInv
<1> QED BY <1>1, <1>2, <1>3 DEF TypeOK, ServiceInv, WorldInv, BoundsInv

(* Every variable of global mode keeps its type, and no two slots share a   *)
(* session: for any apps, any cap and any bounds.                           *)
THEOREM HostTypeCorrect == Spec => []TypeOK
<1> QED BY TypesHoldFirst, TypesStay, TypesImply, PTL DEF Spec

-----------------------------------------------------------------------------
(* A post after which nothing is held.                                      *)
Clears(p) == p.op \in {"detachAll", "release"}

(* A stopped service leaves no slot, or has yet to run the post that does it. *)
DownInv ==
    /\ service = "down" =>
          /\ slots = <<>> \/ \E k \in 1 .. Len(queue) : queue[k].op = "release"
          /\ released \/ (queue = <<>> /\ slots = <<>>)
    /\ service # "down" => ~released

(* Good slots hold nothing only if there are none.                          *)
LEMMA HoldsNothing ==
    ASSUME NEW ss, GoodSlots(ss)
    PROVE  ss = <<>> <=> Holds(ss) = {}
<1>1. ASSUME ss = <<>> PROVE Holds(ss) = {} BY <1>1, NoneLeft
<1>2. ASSUME ss # <<>> PROVE Holds(ss) # {}
  <2>1. ss \in Seq(Slot) BY DEF GoodSlots
  <2>2. 1 \in 1 .. Len(ss) BY <1>2, <2>1
  <2>3. ss[1].sid \in Sids /\ ss[1].sources # {} /\ ss[1].sources \in SUBSET Sources
    BY <2>2, SlotsAre
  <2>4. PICK x \in Sources : x \in ss[1].sources BY <2>3
  <2>5. <<ss[1].sid, x>> \in Holds(ss) BY <2>2, <2>3, <2>4 DEF Holds
  <2> QED BY <2>5
<1> QED BY <1>1, <1>2

(* A step of the effect thread other than attaching adds no hold.            *)
LEMMA NoNewHolds ==
    ASSUME HostTypes, EffectThread, ~RunAttach
    PROVE  Holds(slots') \subseteq Holds(slots)
<1>1. CASE RunDetach
  <2>1. LetGoOf(<<Due.sid, Due.source>>) BY <1>1, HostDetach
  <2>2. \A a \in Holds(slots') : a \in Sids \X Sources BY DEF Holds
  <2> QED BY <2>1, <2>2 DEF LetGoOf
<1>2. CASE ~RunDetach
  BY <1>2, HostDetachAll, HostRecreateAll, HostSoftOff, HostControl, HostEnable, HostSync
  DEF EffectThread
<1> QED BY <1>1, <1>2

(* Nothing but attaching adds a slot, and a released host attaches nothing. *)
LEMMA StaysEmpty ==
    ASSUME HostTypes, EffectThread, released \/ ~RunAttach, slots = <<>>
    PROVE  slots' = <<>>
<1>1. CASE RunAttach
  BY <1>1, HostAttach
<1>2. CASE ~RunAttach
  <2>1. GoodSlots(slots) BY DEF HostTypes, HostInv
  <2>2. Holds(slots) = {} BY <2>1, HoldsNothing
  <2>3. Holds(slots') = {} BY <1>2, <2>2, NoNewHolds
  <2>4. GoodSlots(slots')
    BY <1>2, HostDetach, HostDetachAll, HostRecreateAll, HostSoftOff, HostControl, HostEnable,
       HostSync DEF EffectThread, HostInv
  <2> QED BY <2>3, <2>4, HoldsNothing
<1> QED BY <1>1, <1>2

(* Whatever the step, a stopped service leaves no slot for good.            *)
LEMMA DownStays == TypeInv /\ DownInv /\ [Next]_vars => DownInv'
<1> SUFFICES ASSUME TypeInv, DownInv, [Next]_vars PROVE DownInv'
  OBVIOUS
<1>0. HostTypes /\ ServiceInv /\ HostInv BY DEF TypeInv, HostTypes
<1>1. queue \in Seq(Posts) BY <1>0 DEF ServiceInv
<1>2. CASE Starting
  <2>1. service' # "down" BY <1>0, <1>2, Started
  <2>2. released' = FALSE BY <1>2 DEF Starting, Start, StartFails, NewHost
  <2> QED BY <2>1, <2>2 DEF DownInv
<1>3. CASE HearStopped \/ FallBack \/ Announced \/ HandleDump \/ TakeBack \/ SoftPower
  <2>1. service # "down" /\ service' # "down" /\ UNCHANGED released
    BY <1>3 DEF HearStopped, FallBack, Announced, HandleDump, TakeBack, SoftPower, AttachNow,
       Listening, serviceVars
  <2> QED BY <2>1 DEF DownInv
<1>4. CASE Retarget
  <2>1. CASE service = "up"
    <3>1. service' = "up" /\ UNCHANGED released BY <1>4, <2>1 DEF Retarget, AttachNow
    <3> QED BY <2>1, <3>1 DEF DownInv
  <2>2. CASE service # "up"
    <3>1. UNCHANGED <<service, released, queue, slots>> BY <1>4, <2>2 DEF Retarget, hostVars
    <3> QED BY <3>1 DEF DownInv
  <2> QED BY <2>1, <2>2
<1>5. CASE Stop
  <2>1. PICK q \in InSomeOrder(found) : Post(DetachEach(q) \o <<Plain("release")>>)
    BY <1>5 DEF Stop
  <2>2. PICK d \in Seq(Posts) : d = DetachEach(q) BY <1>0, OneForEach DEF ServiceInv
  <2>3. PICK r \in Posts : r = Plain("release") BY PostsMade
  <2>4. queue' = queue \o (d \o <<r>>) BY <2>1, <2>2, <2>3 DEF Post, PostOn
  <2>5. d \o <<r>> \in Seq(Posts) /\ Len(d \o <<r>>) = Len(d) + 1 /\ (d \o <<r>>)[Len(d) + 1] = r
    OBVIOUS
  <2>6. PICK e \in Seq(Posts) : e = d \o <<r>> BY <2>5
  <2>7. Len(e) \in Nat \ {0} /\ e[Len(e)] = r BY <2>5, <2>6
  <2>8. queue' = queue \o e BY <2>4, <2>6
  <2>9. Len(queue') = Len(queue) + Len(e) /\ queue'[Len(queue) + Len(e)] = e[Len(e)]
    BY <1>1, <2>7, <2>8
  <2>10. Len(queue) + Len(e) \in 1 .. Len(queue') BY <1>1, <2>7, <2>9
  <2>11. queue'[Len(queue) + Len(e)].op = "release" BY <2>3, <2>7, <2>9 DEF Plain
  <2>12. service' = "down" /\ released' = TRUE BY <1>5 DEF Stop
  <2> QED BY <2>10, <2>11, <2>12 DEF DownInv
<1>6. CASE ChangeSettings \/ ChangeDevice \/ RateSettles \/ Screens \/ SyncFails
           \/ BeFirst \/ UNCHANGED vars
  <2>1. UNCHANGED <<service, released, queue, slots>>
    BY <1>6 DEF ChangeSettings, ChangeDevice, RateSettles, Screens, SwitchMode, AskConsent,
       Answered, CaptureEnds, Elsewhere, SyncFails, BeFirst, Others, serviceVars, hostVars, vars
  <2> QED BY <2>1 DEF DownInv
<1>7. CASE TakeOver \/ LetGo \/ SwitchOff
  <2>1. UNCHANGED <<service, released, slots>>
    BY <1>7 DEF TakeOver, LetGo, SwitchOff, Others, serviceVars, hostVars
  <2>2. CASE UNCHANGED queue BY <2>1, <2>2 DEF DownInv
  <2>3. CASE ~UNCHANGED queue
    <3>1. PICK e \in effects : \E p : queue' = Append(queue, p)
      BY <1>7, <2>3 DEF TakeOver, LetGo, SwitchOff, Notice
    <3>2. slots # <<>>
      <4>1. GoodEffects(slots, effects) BY <1>0 DEF HostInv
      <4>2. PICK i \in 1 .. Len(slots) : slots[i].dp = e.dp BY <4>1 DEF GoodEffects
      <4> QED BY <4>2
    <3>3. Len(queue') = Len(queue) + 1 /\ \A k \in 1 .. Len(queue) : queue'[k] = queue[k]
      BY <1>1, <3>1
    <3>4. Len(queue) \in Nat BY <1>1
    <3>5. \A k \in 1 .. Len(queue) : k \in 1 .. Len(queue') BY <3>3, <3>4
    <3> QED BY <2>1, <3>2, <3>3, <3>5 DEF DownInv
  <2> QED BY <2>2, <2>3
<1>8. CASE EffectThread
  <2>1. UNCHANGED <<service, released>>
    BY <1>8 DEF EffectThread, RunAttach, RunDetach, RunDetachAll, RunRecreateAll, RunSoftOff,
       RunControl, RunEnable, RunSync, ByPosts
  <2>2. CASE service # "down" BY <2>1, <2>2 DEF DownInv
  <2>3. CASE service = "down"
    <3>1. CASE RunSync
      <4>1. UNCHANGED queue BY <3>1 DEF RunSync
      <4>2. ~RunAttach
        <5>1. ASSUME RunAttach PROVE queue' # queue
          <6>1. Takes("attach") BY <5>1 DEF RunAttach
          <6>2. Len(queue') = Len(queue) - 1 /\ Len(queue) \in Nat BY <1>1, <6>1, Taken
          <6> QED BY <6>2
        <5> QED BY <4>1, <5>1
      <4>3. slots = <<>> => slots' = <<>> BY <1>0, <1>8, <4>2, StaysEmpty
      <4> QED BY <2>1, <2>3, <4>1, <4>3 DEF DownInv
    <3>2. CASE RunDetachAll
      <4>1. slots' = <<>> /\ queue # <<>> BY <1>0, <3>2, HostDetachAll DEF RunDetachAll, Takes
      <4> QED BY <2>1, <2>3, <4>1 DEF DownInv
    <3>3. CASE ~RunSync /\ ~RunDetachAll
      <4>1. PICK op \in {"attach", "detach", "recreateAll", "softOff", "control", "enable"} :
              Takes(op)
        BY <1>8, <3>3 DEF EffectThread, RunAttach, RunDetach, RunRecreateAll, RunSoftOff,
           RunControl, RunEnable
      <4>2. /\ Due.op = op /\ Len(queue) \in Nat \ {0} /\ Len(queue') = Len(queue) - 1
            /\ \A k \in 1 .. Len(queue') : queue'[k] = queue[k + 1]
        BY <1>1, <4>1, Taken
      <4>3. released BY <2>3, <4>1 DEF DownInv, Takes
      <4>4. CASE slots = <<>>
        <5>1. slots' = <<>> BY <1>0, <1>8, <4>3, <4>4, StaysEmpty
        <5> QED BY <2>1, <2>3, <4>3, <5>1 DEF DownInv
      <4>5. CASE slots # <<>>
        <5>1. PICK k \in 1 .. Len(queue) : queue[k].op = "release" BY <2>3, <4>5 DEF DownInv
        <5>2. k # 1 BY <4>1, <4>2, <5>1 DEF Due
        <5>3. k - 1 \in 1 .. Len(queue') /\ queue'[k - 1] = queue[k] BY <4>2, <5>2
        <5> QED BY <2>1, <2>3, <4>3, <5>1, <5>3 DEF DownInv
      <4> QED BY <4>4, <4>5
    <3> QED BY <3>1, <3>2, <3>3
  <2> QED BY <2>2, <2>3
<1> QED BY <1>2, <1>3, <1>4, <1>5, <1>6, <1>7, <1>8 DEF Next, Main, System, Starting

(* GlobalEffectHost never loses track of an effect it has in the server, never *)
(* exceeds the cap, and leaves none behind when the service has stopped: for any *)
(* apps, any cap and any bounds.                                            *)
THEOREM NoEffectIsStray == Spec => []NoStrayEffect
<1>1. Init => DownInv BY DEF Init, DownInv
<1>2. TypeInv /\ DownInv => NoStrayEffect
  <2> SUFFICES ASSUME TypeInv, DownInv PROVE NoStrayEffect
    OBVIOUS
  <2>1. HostInv /\ GoodSlots(slots) /\ GoodEffects(slots, effects)
    BY DEF TypeInv, HostTypes, HostInv
  <2>2. PICK n \in Nat : n = Len(slots) /\ DOMAIN slots = 1 .. n BY <2>1, SlotsAre
  <2>3. ASSUME NEW e \in effects
        PROVE  \E i \in DOMAIN slots : slots[i].sid = e.dp[1] /\ slots[i].dp = e.dp
    <3>1. PICK i \in 1 .. n : slots[i].dp = e.dp BY <2>1, <2>2 DEF GoodEffects
    <3>2. e.dp # None
      <4>1. e \in Effect BY <2>1 DEF GoodEffects
      <4> QED BY <4>1, NoneAssumption DEF Effect
    <3>3. slots[i].dp[1] = slots[i].sid BY <2>1, <2>2, <3>1, <3>2, SlotsAre
    <3> QED BY <2>2, <3>1, <3>3
  <2>4. \A i \in DOMAIN slots : slots[i].dp # None => \E e \in effects : e.dp = slots[i].dp
    BY <2>1, <2>2 DEF GoodEffects
  <2>5. Cardinality(AppSlots) <= Cap BY <2>1, AppsCounted DEF HostInv
  <2>6. ASSUME service = "down", queue = <<>> PROVE effects = {} /\ slots = <<>>
    <3>1. slots = <<>>
      <4>1. ~ \E k \in 1 .. Len(queue) : queue[k].op = "release" BY <2>6
      <4> QED BY <2>6, <4>1 DEF DownInv
    <3>2. DOMAIN slots = {} BY <3>1
    <3> QED BY <2>3, <3>1, <3>2
  <2> QED BY <2>3, <2>4, <2>5, <2>6 DEF NoStrayEffect
<1> QED BY <1>1, <1>2, TypesHoldFirst, TypesStay, DownStays, PTL DEF Spec

(* Who may hold what.                                                       *)
Claims == Sids \X Sources

(* The last word of the posts on a claim: made, dropped, or neither.        *)
LastAsks(a, posts) ==
    \E k \in 1 .. Len(posts) :
        Asks(posts[k], a) /\ \A n \in k + 1 .. Len(posts) : ~Drops(posts[n], a)
NeverDrops(a, posts) == \A k \in 1 .. Len(posts) : ~Drops(posts[k], a)

(* What has been asked for after the posts, in terms of the last word.      *)
LEMMA AskedIs ==
    ASSUME NEW posts \in Seq(Posts), NEW before, NEW a \in Claims
    PROVE  a \in Asked(before, posts) <=>
              (a \in before /\ NeverDrops(a, posts)) \/ LastAsks(a, posts)
<1>1. DOMAIN posts = 1 .. Len(posts) OBVIOUS
<1> QED BY <1>1 DEF Asked, NeverDrops, LastAsks, Claims

(* A post taken from the front.                                             *)
TakenFrom(rest, posts) ==
    /\ Len(posts) \in Nat \ {0} /\ Len(rest) = Len(posts) - 1
    /\ \A k \in 1 .. Len(rest) : rest[k] = posts[k + 1]

(* Taking the first post first makes no difference.                         *)
LEMMA AskedTaken ==
    ASSUME NEW posts \in Seq(Posts), NEW rest \in Seq(Posts), TakenFrom(rest, posts),
           NEW a \in Claims, NEW B, NEW C,
           a \in C <=> (a \in B /\ ~Drops(posts[1], a)) \/ Asks(posts[1], a)
    PROVE  a \in Asked(B, posts) <=> a \in Asked(C, rest)
<1>1. PICK n \in Nat : n = Len(rest) OBVIOUS
<1>2. Len(posts) = n + 1 /\ \A k \in 1 .. n : rest[k] = posts[k + 1] BY <1>1 DEF TakenFrom
<1>3. \A k \in 1 .. n + 1 : k = 1 \/ (k - 1 \in 1 .. n /\ k = (k - 1) + 1) OBVIOUS
<1>4. NeverDrops(a, posts) <=> ~Drops(posts[1], a) /\ NeverDrops(a, rest)
  <2>1. ASSUME NeverDrops(a, posts) PROVE ~Drops(posts[1], a) /\ NeverDrops(a, rest)
    <3>1. 1 \in 1 .. n + 1 /\ \A k \in 1 .. n : k + 1 \in 1 .. n + 1 OBVIOUS
    <3> QED BY <1>1, <1>2, <2>1, <3>1 DEF NeverDrops
  <2>2. ASSUME ~Drops(posts[1], a), NeverDrops(a, rest) PROVE NeverDrops(a, posts)
    <3>1. ASSUME NEW k \in 1 .. n + 1 PROVE ~Drops(posts[k], a)
      <4>1. CASE k = 1 BY <2>2, <4>1
      <4>2. CASE k # 1
        <5>1. k - 1 \in 1 .. n /\ posts[k] = rest[k - 1] BY <1>2, <4>2
        <5> QED BY <1>1, <2>2, <5>1 DEF NeverDrops
      <4> QED BY <4>1, <4>2
    <3> QED BY <1>2, <3>1 DEF NeverDrops
  <2> QED BY <2>1, <2>2
<1>5. LastAsks(a, posts) <=> LastAsks(a, rest) \/ (Asks(posts[1], a) /\ NeverDrops(a, rest))
  <2>1. ASSUME LastAsks(a, posts)
        PROVE  LastAsks(a, rest) \/ (Asks(posts[1], a) /\ NeverDrops(a, rest))
    <3>1. PICK k \in 1 .. n + 1 :
            Asks(posts[k], a) /\ \A m \in k + 1 .. n + 1 : ~Drops(posts[m], a)
      BY <1>2, <2>1 DEF LastAsks
    <3>2. ASSUME NEW m \in 1 .. n, m >= k PROVE ~Drops(rest[m], a)
      <4>1. m + 1 \in k + 1 .. n + 1 /\ rest[m] = posts[m + 1] BY <1>2, <3>2
      <4> QED BY <3>1, <4>1
    <3>3. CASE k = 1
      <4>1. NeverDrops(a, rest) BY <1>1, <3>2, <3>3 DEF NeverDrops
      <4> QED BY <3>1, <3>3, <4>1
    <3>4. CASE k # 1
      <4>1. PICK j \in 1 .. n : k = j + 1 BY <3>4
      <4>2. Asks(rest[j], a) BY <1>2, <3>1, <4>1
      <4>3. \A m \in j + 1 .. n : m \in 1 .. n /\ m >= k BY <4>1
      <4>4. \A m \in j + 1 .. n : ~Drops(rest[m], a) BY <3>2, <4>3
      <4> QED BY <1>1, <4>2, <4>4 DEF LastAsks
    <3> QED BY <3>3, <3>4
  <2>2. ASSUME LastAsks(a, rest) PROVE LastAsks(a, posts)
    <3>1. PICK j \in 1 .. n : Asks(rest[j], a) /\ \A m \in j + 1 .. n : ~Drops(rest[m], a)
      BY <1>1, <2>2 DEF LastAsks
    <3>2. j + 1 \in 1 .. n + 1 /\ Asks(posts[j + 1], a) BY <1>2, <3>1
    <3>3. ASSUME NEW m \in (j + 1) + 1 .. n + 1 PROVE ~Drops(posts[m], a)
      <4>1. m - 1 \in j + 1 .. n /\ m - 1 \in 1 .. n /\ (m - 1) + 1 = m OBVIOUS
      <4>2. posts[m] = rest[m - 1] BY <1>2, <4>1
      <4> QED BY <3>1, <4>1, <4>2
    <3> QED BY <1>2, <3>2, <3>3 DEF LastAsks
  <2>3. ASSUME Asks(posts[1], a), NeverDrops(a, rest) PROVE LastAsks(a, posts)
    <3>1. ASSUME NEW m \in 1 + 1 .. n + 1 PROVE ~Drops(posts[m], a)
      <4>1. m - 1 \in 1 .. n /\ (m - 1) + 1 = m OBVIOUS
      <4>2. posts[m] = rest[m - 1] BY <1>2, <4>1
      <4> QED BY <1>1, <2>3, <4>1, <4>2 DEF NeverDrops
    <3>2. 1 \in 1 .. n + 1 OBVIOUS
    <3> QED BY <1>2, <2>3, <3>1, <3>2 DEF LastAsks
  <2> QED BY <2>1, <2>2, <2>3
<1> QED BY <1>4, <1>5, AskedIs

(* Posts behind others.                                                     *)
LEMMA AskedJoined ==
    ASSUME NEW posts \in Seq(Posts), NEW more \in Seq(Posts), NEW a \in Claims, NEW B
    PROVE  a \in Asked(B, posts \o more) <=> a \in Asked(Asked(B, posts), more)
<1>1. PICK n \in Nat : n = Len(posts) OBVIOUS
<1>2. PICK m \in Nat : m = Len(more) OBVIOUS
<1>3. PICK all \in Seq(Posts) : all = posts \o more
  <2>1. posts \o more \in Seq(Posts)
    BY ONLY posts \in Seq(Posts), more \in Seq(Posts), ConcatProperties
  <2> QED BY <2>1
<1>4. /\ Len(all) = n + m
      /\ \A k \in 1 .. n : all[k] = posts[k]
      /\ \A k \in 1 .. m : all[n + k] = more[k]
  BY <1>1, <1>2, <1>3
<1>5. \A k \in 1 .. n + m : k \in 1 .. n \/ (k - n \in 1 .. m /\ n + (k - n) = k) OBVIOUS
<1>6. NeverDrops(a, all) <=> NeverDrops(a, posts) /\ NeverDrops(a, more)
  <2>1. ASSUME NeverDrops(a, all) PROVE NeverDrops(a, posts) /\ NeverDrops(a, more)
    <3>1. (\A k \in 1 .. n : k \in 1 .. n + m) /\ (\A k \in 1 .. m : n + k \in 1 .. n + m)
      OBVIOUS
    <3> QED BY <1>1, <1>2, <1>4, <2>1, <3>1 DEF NeverDrops
  <2>2. ASSUME NeverDrops(a, posts), NeverDrops(a, more) PROVE NeverDrops(a, all)
    <3>1. ASSUME NEW k \in 1 .. n + m PROVE ~Drops(all[k], a)
      <4>1. CASE k \in 1 .. n BY <1>1, <1>4, <2>2, <4>1 DEF NeverDrops
      <4>2. CASE k \notin 1 .. n
        <5>1. k - n \in 1 .. m /\ all[k] = more[k - n] BY <1>4, <1>5, <4>2
        <5> QED BY <1>2, <2>2, <5>1 DEF NeverDrops
      <4> QED BY <4>1, <4>2
    <3> QED BY <1>4, <3>1 DEF NeverDrops
  <2> QED BY <2>1, <2>2
<1>7. LastAsks(a, all) <=> LastAsks(a, more) \/ (LastAsks(a, posts) /\ NeverDrops(a, more))
  <2>1. ASSUME LastAsks(a, all)
        PROVE  LastAsks(a, more) \/ (LastAsks(a, posts) /\ NeverDrops(a, more))
    <3>1. PICK k \in 1 .. n + m :
            Asks(all[k], a) /\ \A j \in k + 1 .. n + m : ~Drops(all[j], a)
      BY <1>4, <2>1 DEF LastAsks
    <3>2. CASE k \in 1 .. n
      <4>1. ASSUME NEW j \in k + 1 .. n PROVE ~Drops(posts[j], a)
        <5>1. j \in k + 1 .. n + m /\ j \in 1 .. n BY <3>2
        <5> QED BY <1>4, <3>1, <5>1
      <4>2. ASSUME NEW j \in 1 .. m PROVE ~Drops(more[j], a)
        <5>1. n + j \in k + 1 .. n + m BY <3>2
        <5> QED BY <1>4, <3>1, <5>1
      <4>3. Asks(posts[k], a) BY <1>4, <3>1, <3>2
      <4> QED BY <1>1, <1>2, <3>2, <4>1, <4>2, <4>3 DEF LastAsks, NeverDrops
    <3>3. CASE k \notin 1 .. n
      <4>1. PICK i \in 1 .. m : k = n + i BY <1>5, <3>3
      <4>2. Asks(more[i], a) BY <1>4, <3>1, <4>1
      <4>3. ASSUME NEW j \in i + 1 .. m PROVE ~Drops(more[j], a)
        <5>1. n + j \in k + 1 .. n + m /\ j \in 1 .. m BY <4>1
        <5> QED BY <1>4, <3>1, <5>1
      <4> QED BY <1>2, <4>2, <4>3 DEF LastAsks
    <3> QED BY <3>2, <3>3
  <2>2. ASSUME LastAsks(a, more) PROVE LastAsks(a, all)
    <3>1. PICK i \in 1 .. m : Asks(more[i], a) /\ \A j \in i + 1 .. m : ~Drops(more[j], a)
      BY <1>2, <2>2 DEF LastAsks
    <3>2. n + i \in 1 .. n + m /\ Asks(all[n + i], a) BY <1>4, <3>1
    <3>3. ASSUME NEW j \in (n + i) + 1 .. n + m PROVE ~Drops(all[j], a)
      <4>1. j - n \in i + 1 .. m /\ j - n \in 1 .. m /\ n + (j - n) = j OBVIOUS
      <4>2. all[j] = more[j - n] BY <1>4, <4>1
      <4> QED BY <3>1, <4>1, <4>2
    <3> QED BY <1>4, <3>2, <3>3 DEF LastAsks
  <2>3. ASSUME LastAsks(a, posts), NeverDrops(a, more) PROVE LastAsks(a, all)
    <3>1. PICK i \in 1 .. n : Asks(posts[i], a) /\ \A j \in i + 1 .. n : ~Drops(posts[j], a)
      BY <1>1, <2>3 DEF LastAsks
    <3>2. i \in 1 .. n + m /\ Asks(all[i], a) BY <1>4, <3>1
    <3>3. ASSUME NEW j \in i + 1 .. n + m PROVE ~Drops(all[j], a)
      <4>1. CASE j \in 1 .. n
        <5>1. j \in i + 1 .. n BY <4>1
        <5> QED BY <1>4, <3>1, <4>1, <5>1
      <4>2. CASE j \notin 1 .. n
        <5>1. j - n \in 1 .. m /\ all[j] = more[j - n] BY <1>4, <1>5, <4>2
        <5> QED BY <1>2, <2>3, <5>1 DEF NeverDrops
      <4> QED BY <4>1, <4>2
    <3> QED BY <1>4, <3>2, <3>3 DEF LastAsks
  <2> QED BY <2>1, <2>2, <2>3
<1>8. a \in Asked(B, posts) <=> (a \in B /\ NeverDrops(a, posts)) \/ LastAsks(a, posts)
  BY AskedIs
<1>9. a \in Asked(Asked(B, posts), more) <=>
         (a \in Asked(B, posts) /\ NeverDrops(a, more)) \/ LastAsks(a, more)
  BY AskedIs
<1>10. a \in Asked(B, all) <=> (a \in B /\ NeverDrops(a, all)) \/ LastAsks(a, all)
  BY AskedIs
<1> QED BY ONLY <1>3, <1>6, <1>7, <1>8, <1>9, <1>10

(* Some post will clear everything.                                         *)
Cleared(posts) == \E k \in 1 .. Len(posts) : Clears(posts[k])

(* Once everything is to be detached, what was held before is of no matter. *)
LEMMA ClearedAsks ==
    ASSUME NEW posts \in Seq(Posts), Cleared(posts), NEW a \in Claims, NEW B, NEW C
    PROVE  a \in Asked(B, posts) <=> a \in Asked(C, posts)
<1>1. PICK k \in 1 .. Len(posts) : Clears(posts[k]) BY DEF Cleared
<1>2. Drops(posts[k], a) BY <1>1 DEF Drops, Clears
<1>3. ~NeverDrops(a, posts) BY <1>2 DEF NeverDrops
<1> QED BY <1>3, AskedIs

(* Each source holds what the posts that wait leave it, unless it made room. *)
KeptInv ==
    /\ service = "down" => asked = {}
    /\ service # "down" =>
          \A a \in Claims : (a[1] \notin evicted \/ Cleared(queue)) =>
             (a \in asked <=> a \in Asked(Holds(slots), queue))

(* Posts behind the others.                                                 *)
LEMMA KeptPosted ==
    ASSUME NEW posts \in Seq(Posts), Posted(posts), UNCHANGED <<slots, evicted>>,
           queue \in Seq(Posts),
           service # "down" \/ (queue = <<>> /\ slots = <<>>), KeptInv,
           NEW a \in Claims, a[1] \notin evicted' \/ Cleared(queue')
    PROVE  a \in asked' <=> a \in Asked(Holds(slots'), queue')
<1>1. queue' = queue \o posts /\ asked' = Asked(asked, posts) BY DEF Posted
<1>2. a \in Asked(Holds(slots), queue \o posts) <=> a \in Asked(Asked(Holds(slots), queue), posts)
  BY AskedJoined
<1>3. CASE Cleared(posts)
  <2>1. a \in Asked(asked, posts) <=> a \in Asked(Asked(Holds(slots), queue), posts)
    BY <1>3, ClearedAsks
  <2> QED BY <1>1, <1>2, <2>1
<1>4. CASE ~Cleared(posts)
  <2>1. a[1] \notin evicted \/ Cleared(queue)
    <3>1. ASSUME Cleared(queue \o posts) PROVE Cleared(queue)
      <4>1. PICK n \in Nat : n = Len(queue) OBVIOUS
      <4>2. PICK m \in Nat : m = Len(posts) OBVIOUS
      <4>3. PICK all : all = queue \o posts OBVIOUS
      <4>4. /\ Len(all) = n + m /\ \A k \in 1 .. n : all[k] = queue[k]
            /\ \A k \in 1 .. m : all[n + k] = posts[k]
        BY <4>1, <4>2, <4>3
      <4>5. PICK k \in 1 .. n + m : Clears(all[k]) BY <3>1, <4>3, <4>4 DEF Cleared
      <4>6. CASE k \in 1 .. n BY <4>1, <4>4, <4>5, <4>6 DEF Cleared
      <4>7. CASE k \notin 1 .. n
        <5>1. k - n \in 1 .. m /\ n + (k - n) = k BY <4>7
        <5>2. Clears(posts[k - n]) BY <4>4, <4>5, <5>1
        <5> QED BY <1>4, <4>2, <5>1, <5>2 DEF Cleared
      <4> QED BY <4>6, <4>7
    <3> QED BY <1>1, <3>1
  <2>2. a \in asked <=> a \in Asked(Holds(slots), queue)
    <3>1. CASE service # "down" BY <2>1, <3>1 DEF KeptInv
    <3>2. CASE service = "down"
      <4>1. queue = <<>> /\ slots = <<>> /\ asked = {} BY <3>2 DEF KeptInv
      <4>2. Holds(slots) = {} BY <4>1, NoneLeft
      <4>3. Len(queue) = 0 BY <4>1
      <4>4. ~LastAsks(a, queue) BY <4>3 DEF LastAsks
      <4> QED BY <4>1, <4>2, <4>4, AskedIs
    <3> QED BY <3>1, <3>2
  <2>3. a \in Asked(asked, posts) <=> a \in Asked(Asked(Holds(slots), queue), posts)
    BY <2>2, AskedIs
  <2> QED BY <1>1, <1>2, <2>3
<1> QED BY <1>3, <1>4

(* A notice behind the others says nothing of who asked.                    *)
LEMMA KeptNoticed ==
    ASSUME NEW p \in Posts, p.op \in {"control", "enable"}, queue' = Append(queue, p),
           queue \in Seq(Posts), UNCHANGED <<service, slots, evicted, asked>>, KeptInv
    PROVE  KeptInv'
<1>1. PICK posts \in Seq(Posts) : posts = <<p>>
  <2>1. <<p>> \in Seq(Posts) BY ONLY p \in Posts
  <2> QED BY <2>1
<1>2. Len(posts) = 1 /\ posts[1] = p BY <1>1
<1>3. queue' = queue \o posts BY <1>1
<1>4. \A a \in Claims : NeverDrops(a, posts) /\ ~LastAsks(a, posts)
  BY <1>2 DEF NeverDrops, LastAsks, Asks, Drops
<1>5. \A a \in Claims : a \in Asked(asked, posts) <=> a \in asked BY <1>4, AskedIs
<1>6. \A a \in Claims : a \in Asked(Holds(slots), queue') <=> a \in Asked(Holds(slots), queue)
  <2>1. \A a \in Claims : a \in Asked(Holds(slots), queue \o posts)
                             <=> a \in Asked(Asked(Holds(slots), queue), posts)
    BY AskedJoined
  <2>2. \A a \in Claims : a \in Asked(Asked(Holds(slots), queue), posts)
                             <=> a \in Asked(Holds(slots), queue)
    BY <1>4, AskedIs
  <2> QED BY <1>3, <2>1, <2>2
<1>7. Cleared(queue') => Cleared(queue)
  <2>1. PICK n \in Nat : n = Len(queue) OBVIOUS
  <2>2. Len(queue') = n + 1 /\ queue'[n + 1] = p /\ \A k \in 1 .. n : queue'[k] = queue[k]
    BY <2>1
  <2>3. ~Clears(p) BY DEF Clears
  <2>4. \A k \in 1 .. n + 1 : k \in 1 .. n \/ k = n + 1 OBVIOUS
  <2> QED BY <2>1, <2>2, <2>3, <2>4 DEF Cleared
<1> QED BY <1>6, <1>7 DEF KeptInv

(* The effect thread does what the post it takes says.                      *)
LEMMA KeptTaken ==
    ASSUME TypeInv, DownInv, KeptInv, EffectThread, ~RunSync
    PROVE  KeptInv'
<1>0. HostTypes /\ queue \in Seq(Posts) BY DEF TypeInv, HostTypes, ServiceInv
<1>1. PICK op : Takes(op)
  BY DEF EffectThread, RunAttach, RunDetach, RunDetachAll, RunRecreateAll, RunSoftOff,
     RunControl, RunEnable
<1>2. ByPosts
  BY DEF EffectThread, RunAttach, RunDetach, RunDetachAll, RunRecreateAll, RunSoftOff,
     RunControl, RunEnable
<1>3. UNCHANGED <<service, asked>> BY <1>2 DEF ByPosts
<1>4. /\ queue[1] \in Posts /\ Due = queue[1] /\ queue' \in Seq(Posts)
      /\ Due.op = op
      /\ TakenFrom(queue', queue)
  BY <1>0, <1>1, Taken DEF TakenFrom, Due
<1>5. Cleared(queue') => Cleared(queue)
  <2>1. ASSUME Cleared(queue') PROVE Cleared(queue)
    <3>1. PICK k \in 1 .. Len(queue') : Clears(queue'[k]) BY <2>1 DEF Cleared
    <3>2. Len(queue') = Len(queue) - 1 /\ Len(queue) \in Nat /\ queue'[k] = queue[k + 1]
      BY <1>4 DEF TakenFrom
    <3>3. k + 1 \in 1 .. Len(queue) BY <3>2
    <3> QED BY <3>1, <3>2, <3>3 DEF Cleared
  <2> QED BY <2>1
<1>6. SUFFICES ASSUME service # "down", NEW a \in Claims, a[1] \notin evicted' \/ Cleared(queue')
               PROVE  a \in asked <=> a \in Asked(Holds(slots'), queue')
  BY <1>3 DEF KeptInv
(* What the post leaves of what is held.                                    *)
<1> DEFINE Left(x) == (x \in Holds(slots) /\ ~Drops(Due, x)) \/ Asks(Due, x)
<1>7. ASSUME a[1] \notin evicted'
      PROVE  /\ a[1] \notin evicted \/ Clears(Due)
             /\ a \in Holds(slots') <=> Left(a)
  <2>1. a = <<a[1], a[2]>> BY DEF Claims
  <2>2. CASE RunAttach
    <3>1. ~released BY <1>6 DEF DownInv
    <3>2. HeldToo(<<Due.sid, Due.source>>) BY <1>0, <2>2, <3>1, HostAttach
    <3>3. a \in Holds(slots') <=> a \in Holds(slots) \/ a = <<Due.sid, Due.source>>
      BY <1>7, <3>2 DEF HeldToo, Claims
    <3>4. evicted \subseteq evicted' BY <2>2 DEF RunAttach
    <3>5. Due.op = "attach" BY <2>2 DEF RunAttach, Takes
    <3>6. ~Drops(Due, a) /\ (Asks(Due, a) <=> a = <<Due.sid, Due.source>>)
      BY <3>5 DEF Drops, Asks
    <3> QED BY <1>7, <3>3, <3>4, <3>6
  <2>3. CASE RunDetach
    <3>1. LetGoOf(<<Due.sid, Due.source>>) /\ UNCHANGED evicted BY <1>0, <2>3, HostDetach
    <3>2. Due.op = "detach" BY <2>3 DEF RunDetach, Takes
    <3>3. a \in Holds(slots') <=> a \in Holds(slots) /\ a # <<Due.sid, Due.source>>
      BY <3>1 DEF LetGoOf, Claims
    <3>4. ~Asks(Due, a) /\ (Drops(Due, a) <=> a = <<Due.sid, Due.source>>)
      BY <3>2 DEF Drops, Asks
    <3> QED BY <1>7, <3>1, <3>3, <3>4
  <2>4. CASE RunDetachAll
    <3>1. Holds(slots') = {} BY <1>0, <2>4, HostDetachAll
    <3>2. Due.op \in {"detachAll", "release"} BY <2>4 DEF RunDetachAll, Takes
    <3>3. Drops(Due, a) /\ ~Asks(Due, a) /\ Clears(Due) BY <3>2 DEF Drops, Asks, Clears
    <3> QED BY <3>1, <3>3
  <2>5. CASE RunRecreateAll \/ RunSoftOff \/ RunControl \/ RunEnable
    <3>1. Holds(slots') = Holds(slots) /\ UNCHANGED evicted
      BY <1>0, <2>5, HostRecreateAll, HostSoftOff, HostControl, HostEnable
    <3>2. Due.op \in {"recreateAll", "softOff", "control", "enable"}
      BY <2>5 DEF RunRecreateAll, RunSoftOff, RunControl, RunEnable, Takes
    <3>3. ~Drops(Due, a) /\ ~Asks(Due, a) BY <3>2 DEF Drops, Asks
    <3> QED BY <1>7, <3>1, <3>3
  <2> QED BY <2>2, <2>3, <2>4, <2>5 DEF EffectThread
<1>8. Clears(Due) => Cleared(queue)
  <2>1. 1 \in 1 .. Len(queue) BY <1>4 DEF TakenFrom
  <2> QED BY <1>4, <2>1 DEF Cleared
<1>9. a \in asked <=> a \in Asked(Holds(slots), queue)
  BY <1>5, <1>6, <1>7, <1>8 DEF KeptInv
<1>10. PICK C : C = {x \in Claims : Left(x)} OBVIOUS
<1>11. a \in Asked(Holds(slots), queue) <=> a \in Asked(C, queue')
  <2>1. a \in C <=> (a \in Holds(slots) /\ ~Drops(queue[1], a)) \/ Asks(queue[1], a)
    BY <1>4, <1>10
  <2> QED BY ONLY <1>0, <1>4, <2>1, a \in Claims, AskedTaken
<1>12. CASE Cleared(queue')
  <2>1. a \in Asked(C, queue') <=> a \in Asked(Holds(slots'), queue')
    BY <1>4, <1>12, ClearedAsks
  <2> QED BY <1>9, <1>11, <2>1
<1>13. CASE ~Cleared(queue')
  <2>1. a \in C <=> a \in Holds(slots') BY <1>6, <1>7, <1>10, <1>13
  <2>2. a \in Asked(C, queue') <=> a \in Asked(Holds(slots'), queue')
    BY <1>4, <2>1, AskedIs
  <2> QED BY <1>9, <1>11, <2>2
<1> QED BY <1>12, <1>13

(* Every step keeps the sources.                                            *)
LEMMA KeptStays == TypeInv /\ DownInv /\ KeptInv /\ [Next]_vars => KeptInv'
<1> SUFFICES ASSUME TypeInv, DownInv, KeptInv, [Next]_vars PROVE KeptInv'
  OBVIOUS
<1>0. HostTypes /\ ServiceInv /\ HostInv /\ queue \in Seq(Posts)
  BY DEF TypeInv, HostTypes, ServiceInv
<1>1. CASE Stop
  <2>1. PICK q \in InSomeOrder(found) : Post(DetachEach(q) \o <<Plain("release")>>)
    BY <1>1 DEF Stop
  <2>2. PICK d \in Seq(Posts) : d = DetachEach(q) BY <1>0, OneForEach DEF ServiceInv
  <2>3. PICK r \in Posts : r = Plain("release") BY PostsMade
  <2>4. asked' = Asked(asked, d \o <<r>>) BY <2>1, <2>2, <2>3 DEF Post, PostOn
  <2>5. d \o <<r>> \in Seq(Posts) /\ Len(d \o <<r>>) = Len(d) + 1 /\ (d \o <<r>>)[Len(d) + 1] = r
    OBVIOUS
  <2>6. PICK e \in Seq(Posts) : e = d \o <<r>> BY <2>5
  <2>7. PICK n \in Nat : n = Len(d) OBVIOUS
  <2>8. Len(e) = n + 1 /\ e[n + 1] = r BY <2>5, <2>6, <2>7
  <2>9. r.op = "release" BY <2>3 DEF Plain
  <2>10. ASSUME NEW a \in Claims PROVE a \notin Asked(asked, e)
    <3>1. Drops(r, a) /\ ~Asks(r, a) BY <2>9 DEF Drops, Asks
    <3>2. ~NeverDrops(a, e) BY <2>8, <3>1 DEF NeverDrops
    <3>3. ~LastAsks(a, e)
      <4>1. ASSUME NEW k \in 1 .. n + 1,
                   Asks(e[k], a), \A m \in k + 1 .. n + 1 : ~Drops(e[m], a)
            PROVE  FALSE
        <5>1. CASE k = n + 1 BY <2>8, <3>1, <4>1, <5>1
        <5>2. CASE k # n + 1
          <6>1. n + 1 \in k + 1 .. n + 1 BY <5>2
          <6> QED BY <2>8, <3>1, <4>1, <6>1
        <5> QED BY <5>1, <5>2
      <4> QED BY <2>8, <4>1 DEF LastAsks
    <3> QED BY <3>2, <3>3, AskedIs
  <2>11. asked' = {} BY <2>4, <2>6, <2>10 DEF Asked, Claims
  <2>12. service' = "down" BY <1>1 DEF Stop
  <2> QED BY <2>11, <2>12 DEF KeptInv
<1>2. CASE Starting
  <2>1. /\ service = "down" /\ service' # "down" /\ slots' = <<>>
        /\ \E posts \in Seq(Posts) : queue' = posts /\ asked' = Asked(asked, posts)
    BY <1>0, <1>2, Started
  <2>2. PICK posts \in Seq(Posts) : queue' = posts /\ asked' = Asked(asked, posts) BY <2>1
  <2>3. asked = {} BY <2>1 DEF KeptInv
  <2>4. Holds(slots') = {} BY <2>1, NoneLeft
  <2>5. asked' = Asked(Holds(slots'), queue') BY ONLY <2>2, <2>3, <2>4
  <2> QED BY <2>1, <2>5 DEF KeptInv
<1>3. CASE Quiet /\ ~Stop
  <2>1. UNCHANGED <<slots, evicted>> /\ \E posts \in Seq(Posts) : Posted(posts)
    BY <1>0, <1>3, QuietPosts
  <2>2. PICK posts \in Seq(Posts) : Posted(posts) BY <2>1
  <2>3. \/ service # "down" /\ service' # "down"
        \/ service = "down" /\ service' = "down" /\ UNCHANGED asked
    BY <1>3 DEF Quiet, HearStopped, FallBack, Announced, HandleDump, Retarget, TakeBack,
       SoftPower, ChangeSettings, ChangeDevice, RateSettles, Screens, SwitchMode, AskConsent,
       Answered, CaptureEnds, Elsewhere, SyncFails, BeFirst, Others, AttachNow, Listening,
       serviceVars
  <2>4. CASE service # "down" /\ service' # "down"
    <3>1. ASSUME NEW a \in Claims, a[1] \notin evicted' \/ Cleared(queue')
          PROVE  a \in asked' <=> a \in Asked(Holds(slots'), queue')
      BY ONLY <1>0, <2>1, <2>2, <2>4, <3>1, KeptInv, KeptPosted
    <3> QED BY <2>4, <3>1 DEF KeptInv
  <2>5. CASE service = "down" /\ service' = "down" /\ UNCHANGED asked
    BY <2>5 DEF KeptInv
  <2> QED BY <2>3, <2>4, <2>5
<1>4. CASE TakeOver \/ LetGo \/ SwitchOff
  <2>1. UNCHANGED <<service, slots, evicted, asked>>
    BY <1>4 DEF TakeOver, LetGo, SwitchOff, Others, serviceVars, hostVars
  <2>2. CASE UNCHANGED queue BY <2>1, <2>2 DEF KeptInv
  <2>3. CASE ~UNCHANGED queue
    <3>1. PICK e \in effects, op \in {"control", "enable"}, granted \in BOOLEAN :
            Notice(op, e.dp, granted)
      BY <1>4, <2>3 DEF TakeOver, LetGo, SwitchOff
    <3>2. e \in Effect BY <1>0 DEF HostInv, GoodEffects
    <3>3. e.dp \in Dps BY <3>2 DEF Effect
    <3>4. PICK p \in Posts : p = [op |-> op, dp |-> e.dp, granted |-> granted]
      BY <3>3, PostsMade
    <3>5. p.op \in {"control", "enable"} BY <3>4
    <3>6. queue' = Append(queue, p) BY <3>1, <3>4 DEF Notice
    <3> QED BY ONLY <1>0, <2>1, <3>5, <3>6, KeptInv, KeptNoticed
  <2> QED BY <2>2, <2>3
<1>5. CASE RunSync
  <2>1. Holds(slots') = Holds(slots) /\ UNCHANGED evicted BY <1>0, <1>5, HostSync
  <2>2. UNCHANGED <<service, asked, queue>> BY <1>5 DEF RunSync
  <2> QED BY <2>1, <2>2 DEF KeptInv
<1>6. CASE EffectThread /\ ~RunSync BY <1>6, KeptTaken
<1>7. CASE UNCHANGED vars
  <2>1. UNCHANGED <<service, asked, queue, slots, evicted>>
    BY <1>7 DEF vars, serviceVars, hostVars
  <2> QED BY <2>1 DEF KeptInv
<1> QED BY <1>1, <1>2, <1>3, <1>4, <1>5, <1>6, <1>7 DEF Next, Main, System, Quiet, Starting

(* Whoever found a session holds its slot as long as it wants to, in any order *)
(* of announcements, dumps and changes of target (attach(), detach() and    *)
(* retarget()): for any apps, any cap and any bounds.                       *)
THEOREM SourcesAreKept == Spec => []SourcesKept
<1>1. Init => DownInv /\ KeptInv BY DEF Init, DownInv, KeptInv
<1>2. TypeInv /\ KeptInv => SourcesKept
  <2> SUFFICES ASSUME TypeInv, KeptInv, queue = <<>>, service # "down",
                      NEW s \in Sids \ evicted
               PROVE  UNION {slots[i].sources : i \in SlotOf(s)}
                         = {a[2] : a \in {a \in asked : a[1] = s}}
    BY DEF SourcesKept
  <2>1. GoodSlots(slots) /\ asked \in SUBSET Claims
    BY DEF TypeInv, HostTypes, HostInv, ServiceInv, Claims
  <2>2. PICK n \in Nat : n = Len(slots) /\ DOMAIN slots = 1 .. n BY <2>1, SlotsAre
  <2>3. ASSUME NEW x \in Sources PROVE <<s, x>> \in asked <=> <<s, x>> \in Holds(slots)
    <3>1. PICK a \in Claims : a = <<s, x>> BY DEF Claims
    <3>2. a \in asked <=> a \in Asked(Holds(slots), queue) BY <3>1 DEF KeptInv
    <3>3. Len(queue) = 0 /\ queue \in Seq(Posts) OBVIOUS
    <3>4. NeverDrops(a, queue) /\ ~LastAsks(a, queue) BY <3>3 DEF NeverDrops, LastAsks
    <3>5. a \in Asked(Holds(slots), queue) <=> a \in Holds(slots) BY <3>3, <3>4, AskedIs
    <3> QED BY <3>1, <3>2, <3>5
  <2>4. ASSUME NEW x PROVE x \in UNION {slots[i].sources : i \in SlotOf(s)}
                             <=> x \in Sources /\ <<s, x>> \in Holds(slots)
    <3>1. \A i \in 1 .. n : slots[i].sources \in SUBSET Sources BY <2>1, <2>2, SlotsAre
    <3>2. x \in UNION {slots[i].sources : i \in SlotOf(s)}
             <=> \E i \in 1 .. n : slots[i].sid = s /\ x \in slots[i].sources
      BY <2>2 DEF SlotOf
    <3> QED BY <2>2, <3>1, <3>2 DEF Holds
  <2>5. ASSUME NEW x PROVE x \in {a[2] : a \in {a \in asked : a[1] = s}}
                             <=> x \in Sources /\ <<s, x>> \in asked
    <3>1. \A a \in asked : a = <<a[1], a[2]>> /\ a[2] \in Sources BY <2>1 DEF Claims
    <3> QED BY <3>1
  <2> QED BY <2>3, <2>4, <2>5
<1> QED BY <1>1, <1>2, TypesHoldFirst, TypesStay, DownStays, KeptStays, PTL DEF Spec

(* Unless the last sync failed, the plan is the wanted one as soon as no     *)
(* sync is due, but for a rate that came into force after it.                *)
SyncInv ==
    Listening =>
       /\ rateMoving => sync \/ stale \/ late
       /\ ~sync /\ ~stale =>
             \/ plan \in {None, Wanted}
             \/ late /\ plan.cards = cards /\ plan.frame = frame

(* Every step keeps that.                                                   *)
LEMMA SyncStays == TypeInv /\ SyncInv /\ [Next]_vars => SyncInv'
<1> SUFFICES ASSUME TypeInv, SyncInv, [Next]_vars PROVE SyncInv'
  OBVIOUS
<1> DEFINE Same == UNCHANGED <<plan, sync, stale, late, cards, frame, rate, rateMoving>>
<1>0. rateMoving \in BOOLEAN /\ stale \in BOOLEAN /\ late \in BOOLEAN BY DEF TypeInv, Flags
<1>a. ASSUME Same, Listening' => Listening PROVE SyncInv'
  BY <1>a DEF SyncInv, Wanted
<1>1. CASE Starting
  <2>1. CASE Start BY <2>1 DEF Start, SyncInv
  <2>2. CASE StartFails BY <2>2 DEF StartFails, SyncInv, Listening
  <2> QED BY <1>1, <2>1, <2>2 DEF Starting
<1>2. CASE HearStopped \/ FallBack \/ Announced \/ HandleDump \/ Retarget \/ TakeBack \/ SoftPower
  <2>1. Same
    BY <1>2 DEF HearStopped, FallBack, Announced, HandleDump, Retarget, TakeBack, SoftPower,
       hostVars, requests, world
  <2>2. Listening' => Listening
    BY <1>2 DEF HearStopped, FallBack, Announced, HandleDump, Retarget, TakeBack, SoftPower,
       AttachNow, Listening, serviceVars
  <2> QED BY <1>a, <2>1, <2>2
<1>3. CASE ChangeSettings \/ ChangeDevice
  <2>1. UNCHANGED <<service, plan>> /\ RequestSync
    BY <1>3 DEF ChangeSettings, ChangeDevice, hostVars, serviceVars
  <2> QED BY <2>1 DEF RequestSync, Listening, SyncInv
<1>5. CASE RateSettles
  <2>1. rateMoving /\ UNCHANGED <<service, plan, sync, stale, late, cards, frame>>
    BY <1>5 DEF RateSettles, requests, hostVars, serviceVars
  <2>2. plan = Wanted => plan.cards = cards /\ plan.frame = frame BY DEF Wanted
  <2> QED BY <2>1, <2>2 DEF Listening, SyncInv
<1>6. CASE Stop BY <1>6 DEF Stop, Listening, SyncInv
<1>7. CASE Screens \/ TakeOver \/ BeFirst \/ LetGo \/ SwitchOff \/ UNCHANGED vars
  <2>1. Same /\ UNCHANGED service
    BY <1>7 DEF Screens, SwitchMode, AskConsent, Answered, CaptureEnds, Elsewhere, TakeOver,
       BeFirst, LetGo, SwitchOff, Others, vars, hostVars, requests, world, serviceVars
  <2> QED BY <1>a, <2>1 DEF Listening
<1>8. CASE RunSync
  <2>1. /\ stale' = FALSE /\ late' = rateMoving /\ plan' = Wanted
        /\ UNCHANGED <<service, cards, frame, rate, rateMoving>>
    BY <1>8 DEF RunSync, world
  <2> QED BY <1>0, <2>1 DEF SyncInv, Wanted
<1>4. CASE SyncFails
  <2>1. stale' = TRUE BY <1>4 DEF SyncFails
  <2> QED BY <2>1 DEF SyncInv
<1>9. CASE EffectThread /\ ~RunSync
  <2>1. UNCHANGED <<service, sync, stale, late, cards, frame, rate, rateMoving>>
    BY <1>9 DEF EffectThread, RunAttach, RunDetach, RunDetachAll, RunRecreateAll, RunSoftOff,
       RunControl, RunEnable, ByPosts, requests, world
  <2>2. plan' = plan \/ plan' = PlanOrBuilt \/ plan' = Wanted \/ plan' = None
    BY <1>9 DEF EffectThread, RunAttach, RunDetach, RunDetachAll, RunRecreateAll, RunSoftOff,
       RunControl, RunEnable, hostVars
  <2> QED BY <2>1, <2>2 DEF SyncInv, Listening, PlanOrBuilt, Wanted
<1> QED BY <1>1, <1>2, <1>3, <1>4, <1>5, <1>6, <1>7, <1>8, <1>9
     DEF Next, Main, EffectThread, System, Starting

-----------------------------------------------------------------------------
(* A notice about a handle waits.                                           *)
NoticeOf(q, op, dp) == \E k \in 1 .. Len(q) : q[k].op = op /\ q[k].dp = dp

(* An effect that has the plan's cards and is switched as asked, or whose    *)
(* loss has been noticed and waits to be dealt with.                        *)
Serves(e, p, off, q) ==
    /\ (e.ours /\ e.cards = p.cards) \/ NoticeOf(q, "control", e.dp)
    /\ off => ~e.on
    /\ ~off => e.on \/ NoticeOf(q, "enable", e.dp)

(* A slot that was sent the plan and whose effect serves it.                *)
InLine(b, es, p, off, q) ==
    b.sent = p /\ \E e \in es : e.dp = b.dp /\ Serves(e, p, off, q)

(* Slots without an error are in line with the plan, and no effect was made *)
(* for another precision or rate.                                           *)
PlanInv ==
    /\ slots # <<>> => plan # None
    /\ \A e \in effects : e.shape = <<plan.frame, plan.rate>>
    /\ \A i \in 1 .. Len(slots) :
          slots[i].error \/ InLine(slots[i], effects, plan, softOff, queue)

(* The notices of q, but those of the given kind and handle, are still in r. *)
KeepsNotices(r, q) ==
    \A op \in {"control", "enable"}, dp \in Dps : NoticeOf(q, op, dp) => NoticeOf(r, op, dp)

(* An effect goes on serving as long as the notices about it wait.          *)
LEMMA ServesLater ==
    ASSUME NEW e \in Effect, NEW p, NEW off, NEW q, NEW r, KeepsNotices(r, q), Serves(e, p, off, q)
    PROVE  Serves(e, p, off, r)
<1>1. e.dp \in Dps BY DEF Effect
<1> QED BY <1>1 DEF Serves, KeepsNotices

(* Posts take no notice away,                                               *)
LEMMA NoticesPosted ==
    ASSUME NEW posts \in Seq(Posts), queue \in Seq(Posts), queue' = queue \o posts
    PROVE  KeepsNotices(queue', queue)
<1>1. PICK n \in Nat : n = Len(queue) OBVIOUS
<1>2. PICK m \in Nat : m = Len(posts) OBVIOUS
<1>3. Len(queue') = n + m /\ \A k \in 1 .. n : queue'[k] = queue[k] BY <1>1, <1>2
<1>4. \A k \in 1 .. n : k \in 1 .. n + m OBVIOUS
<1> QED BY <1>1, <1>3, <1>4 DEF KeepsNotices, NoticeOf

(* ... nor does one more notice,                                            *)
LEMMA NoticeGiven ==
    ASSUME NEW op \in {"control", "enable"}, NEW dp \in Dps, NEW granted \in BOOLEAN,
           queue \in Seq(Posts), Notice(op, dp, granted)
    PROVE  KeepsNotices(queue', queue) /\ NoticeOf(queue', op, dp)
<1>1. PICK n \in Nat : n = Len(queue) OBVIOUS
<1>2. PICK p : p = [op |-> op, dp |-> dp, granted |-> granted] OBVIOUS
<1>3. p.op = op /\ p.dp = dp BY <1>2
<1>4. queue' = Append(queue, p) BY <1>2 DEF Notice
<1>5. Len(queue') = n + 1 /\ queue'[n + 1] = p /\ \A k \in 1 .. n : queue'[k] = queue[k]
  BY <1>1, <1>4
<1>6. n + 1 \in 1 .. n + 1 /\ \A k \in 1 .. n : k \in 1 .. n + 1 OBVIOUS
<1> QED BY <1>1, <1>3, <1>5, <1>6 DEF KeepsNotices, NoticeOf

(* ... and taking a post takes at most its own.                             *)
LEMMA NoticesTaken ==
    ASSUME queue \in Seq(Posts), NEW op, Takes(op)
    PROVE  /\ op \notin {"control", "enable"} => KeepsNotices(queue', queue)
           /\ \A o \in {"control", "enable"}, dp \in Dps :
                 NoticeOf(queue, o, dp) => NoticeOf(queue', o, dp) \/ (op = o /\ Due.dp = dp)
<1>1. /\ Due.op = op /\ Len(queue) \in Nat \ {0} /\ Len(queue') = Len(queue) - 1
      /\ \A k \in 1 .. Len(queue') : queue'[k] = queue[k + 1]
  BY Taken
<1>2. ASSUME NEW o \in {"control", "enable"}, NEW dp \in Dps, NoticeOf(queue, o, dp)
      PROVE  NoticeOf(queue', o, dp) \/ (op = o /\ Due.dp = dp)
  <2>1. PICK k \in 1 .. Len(queue) : queue[k].op = o /\ queue[k].dp = dp BY <1>2 DEF NoticeOf
  <2>2. CASE k = 1 BY <1>1, <2>1, <2>2 DEF Due
  <2>3. CASE k # 1
    <3>1. k - 1 \in 1 .. Len(queue') /\ queue'[k - 1] = queue[k] BY <1>1, <2>3
    <3> QED BY <2>1, <3>1 DEF NoticeOf
  <2> QED BY <2>2, <2>3
<1> QED BY <1>2 DEF KeepsNotices

(* What is created anew is in line with the plan it is given.               *)
LEMMA CreatedInLine ==
    ASSUME HostTypes, NEW base, GoodSlots(base), NEW S \in SUBSET Sids, NEW p \in Plans, NEW dead,
           OthersKept(base, S, dead), CreateIn(base, S, p, dead), UNCHANGED softOff, plan' = p,
           \A i \in 1 .. Len(base) : base[i].sid \notin S =>
              base[i].error \/ InLine(base[i], effects, p, softOff, queue'),
           \A e \in effects : e.dp \notin dead => e.shape = <<p.frame, p.rate>>
    PROVE  PlanInv'
<1>1. PICK o \in [S -> Endings] : CreateEnds(o, base, S, p, dead) BY CreateMakes
<1>2. PICK n \in Nat : n = Len(base) BY SlotsAre
<1>3. /\ IsFiniteSet(effects) /\ queue \in Seq(Posts) /\ softOff \in BOOLEAN
      /\ \A e \in effects : e \in Effect
  BY DEF HostTypes, HostInv, GoodEffects, ServiceInv, WorldInv
<1>4. ASSUME NEW s \in S
      PROVE  /\ NewDp(s) \in Dps
             /\ LET e == NewEffect(s, o[s], p) IN
                /\ e.dp = NewDp(s) /\ e.shape = <<p.frame, p.rate>>
                /\ e.ours <=> o[s] # "weak"
                /\ e.on <=> o[s] # "weak" /\ ~softOff
                /\ o[s] = "made" => e.cards = p.cards
  <2>1. NewDp(s) \in Dps BY <1>3, FreshDp
  <2>2. o[s] \in Endings OBVIOUS
  <2> QED BY <1>3, <2>1, <2>2, EffectMade
<1>5. \A e \in effects' : e.shape = <<p.frame, p.rate>>
  <2> SUFFICES ASSUME NEW e \in effects' PROVE e.shape = <<p.frame, p.rate>>
    OBVIOUS
  <2>1. \/ e \in effects /\ e.dp \notin dead
        \/ \E s \in S : e = NewEffect(s, o[s], p)
    BY <1>1 DEF CreateEnds
  <2> QED BY <1>4, <2>1
<1>6. ASSUME NEW i \in 1 .. n
      PROVE  slots'[i].error \/ InLine(slots'[i], effects', p, softOff, queue')
  <2>1. CASE base[i].sid \in S
    <3>1. PICK s \in S : s = base[i].sid BY <2>1
    <3>2. slots'[i] = Created(base[i], o[s], p) BY <1>1, <1>2, <2>1, <3>1 DEF CreateEnds
    <3>3. base[i] \in Slot BY <1>2, SlotsAre
    <3>4. o[s] \in Endings /\ NewDp(base[i].sid) \in Dps BY <1>4, <3>1
    <3>5. /\ slots'[i].dp = IF o[s] = "refused" THEN None ELSE NewDp(s)
          /\ slots'[i].sent = IF o[s] = "made" THEN p ELSE None
          /\ slots'[i].error <=> o[s] # "made"
      BY <3>1, <3>2, <3>3, <3>4, CreatedSlot
    <3>6. CASE o[s] # "made" BY <3>5, <3>6
    <3>7. CASE o[s] = "made"
      <4>1. PICK e : e = NewEffect(s, o[s], p) OBVIOUS
      <4>2. e \in effects' BY <1>1, <3>7, <4>1 DEF CreateEnds
      <4>3. /\ e.dp = slots'[i].dp /\ e.ours /\ e.cards = p.cards /\ (e.on <=> ~softOff)
        BY <1>4, <3>5, <3>7, <4>1
      <4>4. Serves(e, p, softOff, queue') BY <4>3 DEF Serves
      <4> QED BY <3>5, <3>7, <4>2, <4>3, <4>4 DEF InLine
    <3> QED BY <3>6, <3>7
  <2>2. CASE base[i].sid \notin S
    <3>1. slots'[i] = base[i] BY <1>1, <1>2, <2>2 DEF CreateEnds
    <3>2. CASE base[i].error BY <3>1, <3>2
    <3>3. CASE ~base[i].error
      <4>1. InLine(base[i], effects, p, softOff, queue') BY <1>2, <2>2, <3>3
      <4>2. PICK e \in effects : e.dp = base[i].dp /\ Serves(e, p, softOff, queue')
        BY <4>1 DEF InLine
      <4>3. e.dp # None
        <5>1. e \in Effect BY <1>3
        <5> QED BY <5>1, NoneAssumption DEF Effect
      <4>4. e.dp \notin dead BY <1>2, <2>2, <4>2, <4>3 DEF OthersKept
      <4>5. e \in effects' BY <1>1, <4>4 DEF CreateEnds
      <4>6. base[i].sent = p BY <4>1 DEF InLine
      <4> QED BY <3>1, <4>2, <4>5, <4>6 DEF InLine
    <3> QED BY <3>2, <3>3
  <2> QED BY <2>1, <2>2
<1>7. Len(slots') = n BY <1>1, <1>2 DEF CreateEnds
<1>8. p # None BY NoneAssumption
<1> QED BY <1>5, <1>6, <1>7, <1>8 DEF PlanInv

(* Sessions that have a slot created anew, where they are.                  *)
LEMMA AnewInLine ==
    ASSUME HostTypes, NEW I \in SUBSET (1 .. Len(slots)), NEW S, S = {slots[i].sid : i \in I},
           NEW p \in Plans, NEW dead, CreateIn(slots, S, p, dead),
           \A i \in 1 .. Len(slots) : slots[i].dp # None =>
              (slots[i].dp \in dead <=> i \in I),
           UNCHANGED softOff, plan' = p,
           \A i \in 1 .. Len(slots) : i \notin I =>
              slots[i].error \/ InLine(slots[i], effects, p, softOff, queue'),
           \A e \in effects : e.dp \notin dead => e.shape = <<p.frame, p.rate>>
    PROVE  PlanInv'
<1>0. GoodSlots(slots) /\ GoodEffects(slots, effects) BY DEF HostTypes, HostInv
<1>1. PICK n \in Nat : n = Len(slots) /\ DOMAIN slots = 1 .. n BY <1>0, SlotsAre
<1>2. /\ \A i \in 1 .. n : slots[i].sid \in Sids
      /\ \A i, k \in 1 .. n : slots[i].sid = slots[k].sid => i = k
  BY <1>0, <1>1, SlotsAre
<1>3. S \in SUBSET Sids BY <1>1, <1>2
<1>4. \A i \in 1 .. n : slots[i].sid \in S <=> i \in I BY <1>1, <1>2
<1>5. OthersKept(slots, S, dead)
  <2>1. ASSUME NEW e \in effects, e.dp \notin dead
        PROVE  \E i \in 1 .. Len(slots) : slots[i].sid \notin S /\ slots[i].dp = e.dp
    <3>1. PICK i \in 1 .. n : slots[i].dp = e.dp BY <1>0, <1>1 DEF GoodEffects
    <3>2. e.dp # None
      <4>1. e \in Effect BY <1>0 DEF GoodEffects
      <4> QED BY <4>1, NoneAssumption DEF Effect
    <3>3. i \notin I BY <1>1, <2>1, <3>1, <3>2
    <3> QED BY <1>1, <1>4, <3>1, <3>3
  <2>2. ASSUME NEW i \in 1 .. Len(slots), slots[i].sid \notin S, slots[i].dp # None
        PROVE  slots[i].dp \notin dead /\ \E e \in effects : e.dp = slots[i].dp
    BY <1>0, <1>1, <1>4, <2>2 DEF GoodEffects
  <2> QED BY <2>1, <2>2 DEF OthersKept
<1>6. \A i \in 1 .. Len(slots) : slots[i].sid \notin S =>
         slots[i].error \/ InLine(slots[i], effects, p, softOff, queue')
  BY <1>1, <1>4
<1> QED BY ONLY HostTypes, <1>0, <1>3, <1>5, <1>6, p \in Plans, CreateIn(slots, S, p, dead),
        UNCHANGED softOff, plan' = p,
        \A e \in effects : e.dp \notin dead => e.shape = <<p.frame, p.rate>>, CreatedInLine

-----------------------------------------------------------------------------
(* Posts that wait longer, and slots and effects as they were.              *)
LEMMA InLineLater ==
    ASSUME HostInv, PlanInv, KeepsNotices(queue', queue),
           UNCHANGED <<slots, effects, plan, softOff>>
    PROVE  PlanInv'
<1>1. \A e \in effects : e \in Effect BY DEF HostInv, GoodEffects
<1>2. ASSUME NEW b, InLine(b, effects, plan, softOff, queue)
      PROVE  InLine(b, effects, plan, softOff, queue')
  BY <1>1, <1>2, ServesLater DEF InLine
<1> QED BY <1>2 DEF PlanInv

(* recreateAll() brings everything in line with a new plan.                 *)
LEMMA AnewRecreateAll ==
    ASSUME HostTypes, PlanInv, RunRecreateAll
    PROVE  PlanInv'
<1>0. GoodSlots(slots) /\ GoodEffects(slots, effects) BY DEF HostTypes, HostInv
<1>1. PICK n \in Nat : n = Len(slots) /\ DOMAIN slots = 1 .. n BY <1>0, SlotsAre
<1>2. PICK I \in SUBSET (1 .. Len(slots)) : I = 1 .. n BY <1>1
<1>3. PICK S : S = {slots[i].sid : i \in I} OBVIOUS
<1>4. CreateIn(slots, S, Wanted, DpsOf(I)) /\ UNCHANGED softOff
  BY <1>1, <1>2, <1>3 DEF RunRecreateAll
<1>5. \A i \in 1 .. Len(slots) : slots[i].dp # None => (slots[i].dp \in DpsOf(I) <=> i \in I)
  BY <1>1, <1>2 DEF DpsOf
<1>6. Wanted \in Plans BY PlansMade DEF HostTypes
<1>7. \A i \in 1 .. Len(slots) : i \notin I =>
         slots[i].error \/ InLine(slots[i], effects, Wanted, softOff, queue')
  BY <1>1, <1>2
<1>8. \A e \in effects : e.dp \in DpsOf(I) BY <1>0, <1>1, <1>2 DEF GoodEffects, DpsOf
<1>9. \A e \in effects : e.dp \notin DpsOf(I) => e.shape = <<Wanted.frame, Wanted.rate>> BY <1>8
<1>10. CASE slots # <<>>
  <2>1. plan' = Wanted BY <1>10 DEF RunRecreateAll
  <2> QED BY ONLY HostTypes, <1>3, <1>4, <1>5, <1>6, <1>7, <1>9, <2>1, AnewInLine
<1>11. CASE slots = <<>>
  <2>1. slots' = <<>> /\ effects' = {}
    <3>1. HostInv' /\ Holds(slots') = Holds(slots) BY HostRecreateAll
    <3>2. slots' = <<>> BY <1>0, <1>11, <3>1, HoldsNothing DEF HostInv
    <3>3. GoodEffects(slots', effects') /\ Len(slots') = 0 BY <3>1, <3>2 DEF HostInv
    <3> QED BY <3>2, <3>3 DEF GoodEffects
  <2> QED BY <2>1 DEF PlanInv
<1> QED BY <1>10, <1>11

(* onControl(): in line again, or the error is shown.                       *)
LEMMA AnewControl ==
    ASSUME HostTypes, PlanInv, RunControl
    PROVE  PlanInv'
<1>0. /\ GoodSlots(slots) /\ GoodEffects(slots, effects) /\ HostInv
      /\ queue \in Seq(Posts)
  BY DEF HostTypes, HostInv, ServiceInv
<1>1. PICK n \in Nat : n = Len(slots) /\ DOMAIN slots = 1 .. n BY <1>0, SlotsAre
<1>2. PICK I \in SUBSET (1 .. Len(slots)) : I = {i \in DOMAIN slots : slots[i].dp = Due.dp}
  BY <1>1
<1>3. Takes("control") BY DEF RunControl
<1>4. \A o \in {"control", "enable"}, dp \in Dps :
         NoticeOf(queue, o, dp) => NoticeOf(queue', o, dp) \/ (o = "control" /\ Due.dp = dp)
  BY <1>0, <1>3, NoticesTaken
<1>5. \A e \in effects : e \in Effect /\ e.dp \in Dps
  <2>1. effects \in SUBSET Effect BY <1>0 DEF GoodEffects
  <2> QED BY <2>1 DEF Effect
(* The slots not concerned stay in line.                                    *)
<1>6. ASSUME NEW i \in 1 .. n, i \notin I
      PROVE  slots[i].error \/ InLine(slots[i], effects, plan, softOff, queue')
  <2>1. CASE slots[i].error BY <2>1
  <2>2. CASE ~slots[i].error
    <3>1. InLine(slots[i], effects, plan, softOff, queue) BY <1>1, <2>2 DEF PlanInv
    <3>2. PICK e \in effects : e.dp = slots[i].dp /\ Serves(e, plan, softOff, queue)
      BY <3>1 DEF InLine
    <3>3. e.dp # Due.dp BY <1>1, <1>2, <1>6, <3>2
    <3>4. \A o \in {"control", "enable"} : NoticeOf(queue, o, e.dp) => NoticeOf(queue', o, e.dp)
      BY <1>4, <1>5, <3>3
    <3>5. Serves(e, plan, softOff, queue') BY <3>2, <3>4 DEF Serves
    <3> QED BY <3>1, <3>2, <3>5 DEF InLine
  <2> QED BY <2>1, <2>2
<1>7. CASE I = {}
  <2>1. UNCHANGED <<slots, effects, plan, softOff>>
    BY <1>2, <1>7 DEF RunControl, hostVars
  <2> QED BY <1>1, <1>6, <1>7, <2>1 DEF PlanInv
<1>8. CASE I # {} /\ Due.granted
  <2>1. PICK S : S = {slots[i].sid : i \in I} OBVIOUS
  <2>2. slots # <<>>
    <3>0. PICK i \in 1 .. n : i \in I BY <1>1, <1>8
    <3>1. n # 0 BY <3>0
    <3> QED BY <1>1, <3>1
  <2>3. PICK p \in Plans : p = plan
    <3>1. plan # None BY <2>2 DEF PlanInv
    <3> QED BY <3>1 DEF HostTypes, WorldInv
  <2>4. PlanOrBuilt = p BY <2>3, NoneAssumption DEF PlanOrBuilt
  <2>5. CreateIn(slots, S, p, {Due.dp}) /\ UNCHANGED softOff /\ plan' = p
    BY <1>2, <1>8, <2>1, <2>4 DEF RunControl
  <2>6. \A i \in 1 .. Len(slots) : slots[i].dp # None => (slots[i].dp \in {Due.dp} <=> i \in I)
    BY <1>1, <1>2
  <2>7. \A i \in 1 .. Len(slots) : i \notin I =>
           slots[i].error \/ InLine(slots[i], effects, p, softOff, queue')
    BY <1>1, <1>6, <2>3
  <2>8. \A e \in effects : e.dp \notin {Due.dp} => e.shape = <<p.frame, p.rate>>
    BY <2>3 DEF PlanInv
  <2> QED BY ONLY HostTypes, <2>1, <2>5, <2>6, <2>7, <2>8, AnewInLine
<1>9. CASE I # {} /\ ~Due.granted
  <2>1. /\ slots' = [i \in DOMAIN slots |->
                IF i \in I THEN [slots[i] EXCEPT !.control = FALSE, !.error = TRUE] ELSE slots[i]]
        /\ UNCHANGED <<effects, plan, softOff>>
    BY <1>2, <1>9 DEF RunControl
  <2>2. ASSUME NEW i \in 1 .. n
        PROVE  slots'[i].error \/ InLine(slots'[i], effects', plan', softOff', queue')
    <3>1. PICK b \in Slot : b = slots[i] BY <1>0, <1>1, SlotsAre
    <3>2. PICK c : c = [b EXCEPT !.control = FALSE, !.error = TRUE] OBVIOUS
    <3>3. c.error = TRUE BY ONLY <3>2, ControlLost
    <3>4. slots'[i] = IF i \in I THEN c ELSE b BY <1>1, <2>1, <3>1, <3>2
    <3> QED BY <1>6, <2>1, <3>1, <3>3, <3>4
  <2>3. Len(slots') = n
    <3>1. DOMAIN slots' = 1 .. n /\ slots' = [i \in 1 .. n |-> slots'[i]] BY <1>1, <2>1
    <3> QED BY ONLY <3>1, n \in Nat
  <2>4. slots' # <<>> => plan' # None
    <3>0. PICK i \in 1 .. n : i \in I BY <1>1, <1>9
    <3>1. n # 0 BY <3>0
    <3>2. slots # <<>> BY <1>1, <3>1
    <3> QED BY <2>1, <3>2 DEF PlanInv
  <2> QED BY <2>1, <2>2, <2>3, <2>4 DEF PlanInv
<1> QED BY <1>7, <1>8, <1>9

(* attach(): the new effect is in line, the others stay.                    *)
LEMMA AnewAttach ==
    ASSUME HostTypes, PlanInv, RunAttach
    PROVE  PlanInv'
<1>0. /\ GoodSlots(slots) /\ GoodEffects(slots, effects) /\ HostInv
      /\ queue \in Seq(Posts)
  BY DEF HostTypes, HostInv, ServiceInv
<1>1. PICK n \in Nat : n = Len(slots) /\ DOMAIN slots = 1 .. n BY <1>0, SlotsAre
<1>2. Takes("attach") BY DEF RunAttach
<1>3. Due \in Posts /\ KeepsNotices(queue', queue) BY <1>0, <1>2, Taken, NoticesTaken
<1>s. PICK s \in Sids : s = Due.sid BY <1>0, <1>2, Taken, PostCarries
<1>x. PICK x \in Sources : x = Due.source BY <1>0, <1>2, Taken, PostCarries
<1>e. \A e \in effects : e \in Effect BY <1>0 DEF GoodEffects
<1>4. CASE released
  <2>1. UNCHANGED <<slots, effects, plan, softOff>> BY <1>4 DEF RunAttach, hostVars
  <2> QED BY <1>0, <1>3, <2>1, InLineLater
<1>5. CASE ~released /\ SlotOf(s) # {}
  <2>1. /\ slots' = [i \in DOMAIN slots |->
                       IF i \in SlotOf(s) THEN [slots[i] EXCEPT !.sources = @ \union {x}]
                       ELSE slots[i]]
        /\ UNCHANGED <<effects, plan, softOff>>
    BY <1>5, <1>s, <1>x DEF RunAttach
  <2>2. ASSUME NEW i \in 1 .. n
        PROVE  slots'[i].error \/ InLine(slots'[i], effects', plan', softOff', queue')
    <3>1. PICK b \in Slot : b = slots[i] BY <1>0, <1>1, SlotsAre
    <3>2. PICK X \in SUBSET Sources : X = b.sources \union {x} BY DEF Slot
    <3>3. PICK c : c = [b EXCEPT !.sources = X] OBVIOUS
    <3>4. Likes(c, b) /\ c.sent = b.sent /\ c.error = b.error BY ONLY <3>3, SourcesWritten
    <3>5. slots'[i] = IF i \in SlotOf(s) THEN c ELSE b BY <1>1, <2>1, <3>1, <3>2, <3>3
    <3>6. slots'[i].dp = b.dp /\ slots'[i].sent = b.sent /\ slots'[i].error = b.error
      BY <3>4, <3>5 DEF Likes
    <3>7. b.error \/ InLine(b, effects, plan, softOff, queue) BY <1>1, <3>1 DEF PlanInv
    <3>8. InLine(b, effects, plan, softOff, queue) => InLine(b, effects, plan, softOff, queue')
      BY <1>3, <1>e, ServesLater DEF InLine
    <3> QED BY <2>1, <3>6, <3>7, <3>8 DEF InLine
  <2>3. Len(slots') = n
    <3>1. DOMAIN slots' = 1 .. n /\ slots' = [i \in 1 .. n |-> slots'[i]] BY <1>1, <2>1
    <3> QED BY ONLY <3>1, n \in Nat
  <2>4. slots' # <<>> => plan' # None
    <3>1. n # 0 BY <1>1, <1>5 DEF SlotOf
    <3>2. slots # <<>> BY <1>1, <3>1
    <3> QED BY <2>1, <3>2 DEF PlanInv
  <2> QED BY <2>1, <2>2, <2>3, <2>4 DEF PlanInv
<1>6. CASE ~released /\ SlotOf(s) = {}
  <2>1. PICK out : out = IF s = AllSound THEN {} ELSE Oldest OBVIOUS
  <2>2. PICK base : base = AttachBase(s, x, out) OBVIOUS
  <2>3. PICK p \in Plans : p = PlanOrBuilt BY PlansMade DEF HostTypes
  <2>4. CreateIn(base, {s}, p, DpsOf(out)) /\ UNCHANGED softOff /\ plan' = p
    BY <1>6, <1>s, <1>x, <2>1, <2>2, <2>3 DEF RunAttach, AttachBase
  <2>5. SlotOf(s) = {} BY <1>6
  <2>6. Fits(base, s, x, out) BY ONLY <1>0, <2>1, <2>2, <2>5, AttachFits
  <2>7. GoodSlots(base) /\ OthersKept(base, {s}, DpsOf(out)) BY <2>6 DEF Fits
  <2>8. slots # <<>> => p = plan BY <2>3 DEF PlanInv, PlanOrBuilt
  <2>9. \A e \in effects : e.dp \notin DpsOf(out) => e.shape = <<p.frame, p.rate>>
    <3>1. effects # {} => slots # <<>>
      <4>1. slots = <<>> => Len(slots) = 0 OBVIOUS
      <4> QED BY <1>0, <4>1 DEF GoodEffects
    <3> QED BY <2>8, <3>1 DEF PlanInv
  <2>10. ASSUME NEW i \in 1 .. Len(base), base[i].sid \notin {s}
         PROVE  base[i].error \/ InLine(base[i], effects, p, softOff, queue')
    <3>1. PICK k \in 1 .. Len(slots) : base[i] = slots[k] BY <2>6, <2>10 DEF Fits
    <3>2. slots # <<>> BY <1>1, <3>1
    <3>3. p = plan BY <2>8, <3>2
    <3>4. base[i].error \/ InLine(base[i], effects, p, softOff, queue) BY <3>1, <3>3 DEF PlanInv
    <3>5. InLine(base[i], effects, p, softOff, queue)
             => InLine(base[i], effects, p, softOff, queue')
      BY <1>3, <1>e, ServesLater DEF InLine
    <3> QED BY <3>4, <3>5
  <2>11. \A i \in 1 .. Len(base) : base[i].sid \notin {s} =>
            base[i].error \/ InLine(base[i], effects, p, softOff, queue')
    BY <2>10
  <2>12. {s} \in SUBSET Sids OBVIOUS
  <2> QED BY ONLY HostTypes, <2>4, <2>7, <2>9, <2>11, <2>12, CreatedInLine
<1> QED BY <1>4, <1>5, <1>6

(* detach(): those that stay are in line.                                   *)
LEMMA DetachInLine ==
    ASSUME HostTypes, PlanInv, RunDetach
    PROVE  PlanInv'
<1>0. /\ GoodSlots(slots) /\ GoodEffects(slots, effects) /\ HostInv
      /\ queue \in Seq(Posts)
  BY DEF HostTypes, HostInv, ServiceInv
<1>1. PICK n \in Nat : n = Len(slots) /\ DOMAIN slots = 1 .. n BY <1>0, SlotsAre
<1>2. Takes("detach") BY DEF RunDetach
<1>3. Due \in Posts /\ KeepsNotices(queue', queue) BY <1>0, <1>2, Taken, NoticesTaken
<1>s. PICK s \in Sids : s = Due.sid BY <1>0, <1>2, Taken, PostCarries
<1>x. PICK x \in Sources : x = Due.source BY <1>0, <1>2, Taken, PostCarries
<1>e. \A e \in effects : e \in Effect BY <1>0 DEF GoodEffects
<1>4. PICK last : last = {i \in 1 .. n : slots[i].sid = s /\ slots[i].sources \subseteq {x}}
  OBVIOUS
<1>5. /\ slots' = IF last # {} THEN Without(last)
                  ELSE [i \in 1 .. n |->
                          IF slots[i].sid = s
                          THEN [slots[i] EXCEPT !.sources = slots[i].sources \ {x}]
                          ELSE slots[i]]
      /\ effects' = {e \in effects : e.dp \notin DpsOf(last)}
      /\ UNCHANGED <<plan, softOff>>
  BY <1>s, <1>x, <1>1, <1>4 DEF RunDetach, SlotOf
<1>6. \A i, k \in 1 .. n : /\ slots[i].sid = slots[k].sid => i = k
                           /\ slots[i].dp # None /\ slots[i].dp = slots[k].dp => i = k
  BY <1>0, <1>1, SlotsAre
<1>7. \A b : InLine(b, effects, plan, softOff, queue) => InLine(b, effects, plan, softOff, queue')
  BY <1>3, <1>e, ServesLater DEF InLine
<1>8. CASE last # {}
  <2>1. PICK m \in 1 .. n : m \in last BY <1>4, <1>8
  <2>2. last = {m} BY <1>4, <1>6, <2>1
  <2>3. LeavesRest(slots', effects', last)
    <3>1. last = {} \/ \E k \in 1 .. Len(slots) : last = {k} BY <1>1, <2>2
    <3>2. slots' = Without(last) BY <1>5, <1>8
    <3> QED BY ONLY <1>0, <1>5, <3>1, <3>2, WithoutKeeps
  <2>4. effects' = {e \in effects : e.dp # slots[m].dp} BY <1>5, <2>2 DEF DpsOf
  <2>5. ASSUME NEW j \in 1 .. Len(slots')
        PROVE  slots'[j].error \/ InLine(slots'[j], effects', plan', softOff', queue')
    <3>1. PICK k \in (1 .. Len(slots)) \ last : slots'[j] = slots[k] BY <2>3 DEF LeavesRest
    <3>2. CASE slots[k].error BY <3>1, <3>2
    <3>3. CASE ~slots[k].error
      <4>1. InLine(slots[k], effects, plan, softOff, queue') BY <1>7, <3>1, <3>3 DEF PlanInv
      <4>2. PICK e \in effects : e.dp = slots[k].dp /\ Serves(e, plan, softOff, queue')
        BY <4>1 DEF InLine
      <4>3. e.dp # None
        <5>1. e \in Effect BY <1>e
        <5> QED BY <5>1, NoneAssumption DEF Effect
      <4>4. slots[k].dp # slots[m].dp BY <1>1, <1>6, <2>2, <3>1, <4>2, <4>3
      <4>5. e \in effects' BY <2>4, <4>2, <4>4
      <4> QED BY <1>5, <3>1, <4>1, <4>2, <4>5 DEF InLine
    <3> QED BY <3>2, <3>3
  <2>6. plan' # None
    <3>1. slots # <<>> BY <1>1, <2>1
    <3> QED BY <1>5, <3>1 DEF PlanInv
  <2> QED BY <1>5, <2>5, <2>6 DEF PlanInv
<1>9. CASE last = {}
  <2>1. effects' = effects BY <1>5, <1>9 DEF DpsOf
  <2>2. ASSUME NEW i \in 1 .. n
        PROVE  slots'[i].error \/ InLine(slots'[i], effects', plan', softOff', queue')
    <3>1. PICK b \in Slot : b = slots[i] BY <1>0, <1>1, SlotsAre
    <3>2. PICK X \in SUBSET Sources : X = b.sources \ {x} BY DEF Slot
    <3>3. PICK c : c = [b EXCEPT !.sources = X] OBVIOUS
    <3>4. Likes(c, b) /\ c.sent = b.sent /\ c.error = b.error BY ONLY <3>3, SourcesWritten
    <3>5. slots'[i] = IF slots[i].sid = s THEN c ELSE b BY <1>5, <1>9, <3>1, <3>2, <3>3
    <3>6. slots'[i].dp = b.dp /\ slots'[i].sent = b.sent /\ slots'[i].error = b.error
      BY <3>4, <3>5 DEF Likes
    <3>7. b.error \/ InLine(b, effects, plan, softOff, queue) BY <1>1, <3>1 DEF PlanInv
    <3> QED BY <1>5, <1>7, <2>1, <3>6, <3>7 DEF InLine
  <2>3. Len(slots') = n
    <3>1. DOMAIN slots' = 1 .. n /\ slots' = [i \in 1 .. n |-> slots'[i]] BY <1>5, <1>9
    <3> QED BY ONLY <3>1, n \in Nat
  <2>4. slots' # <<>> => plan' # None
    <3>1. CASE n = 0
      <4>1. slots' = [i \in 1 .. 0 |-> slots'[i]] BY <1>5, <1>9, <3>1
      <4>2. slots' = <<>> BY <4>1
      <4> QED BY <4>2
    <3>2. CASE n # 0
      <4>1. slots # <<>> BY <1>1, <3>2
      <4> QED BY <1>5, <4>1 DEF PlanInv
    <3> QED BY <3>1, <3>2
  <2> QED BY <1>5, <2>1, <2>2, <2>3, <2>4 DEF PlanInv
<1> QED BY <1>8, <1>9

(* Slots where they are, and the plan there was.                            *)
LEMMA EachInLine ==
    ASSUME GoodSlots(slots), PlanInv, plan' = plan,
           DOMAIN slots' = DOMAIN slots, slots' = [i \in DOMAIN slots |-> slots'[i]],
           \A e \in effects' : e.shape = <<plan.frame, plan.rate>>,
           \A i \in 1 .. Len(slots) :
              slots'[i].error \/ InLine(slots'[i], effects', plan, softOff', queue')
    PROVE  PlanInv'
<1>1. PICK n \in Nat : n = Len(slots) /\ DOMAIN slots = 1 .. n BY SlotsAre
<1>2. Len(slots') = n
  <2>1. DOMAIN slots' = 1 .. n /\ slots' = [i \in 1 .. n |-> slots'[i]] BY <1>1
  <2> QED BY ONLY <2>1, n \in Nat
<1>3. slots' # <<>> => plan' # None
  <2>1. CASE n = 0
    <3>1. slots' = [i \in 1 .. 0 |-> slots'[i]] BY <1>1, <2>1
    <3>2. slots' = <<>> BY <3>1
    <3> QED BY <3>2
  <2>2. CASE n # 0
    <3>1. slots # <<>> BY <1>1, <2>2
    <3> QED BY <3>1 DEF PlanInv
  <2> QED BY <2>1, <2>2
<1> QED BY <1>1, <1>2, <1>3 DEF PlanInv

(* Switching an effect changes nothing else in it.                          *)
LEMMA SwitchedOff ==
    ASSUME NEW e \in Effect, NEW x \in BOOLEAN, NEW f, f = [e EXCEPT !.on = x]
    PROVE  f \in Effect /\ f.dp = e.dp /\ f.shape = e.shape /\ f.ours = e.ours
           /\ f.cards = e.cards /\ f.on = x
  BY DEF Effect

(* The soft power switches every effect of ours; the others show an error.  *)
LEMMA SoftOffInLine ==
    ASSUME HostTypes, PlanInv, RunSoftOff
    PROVE  PlanInv'
<1>0. /\ GoodSlots(slots) /\ GoodEffects(slots, effects) /\ HostInv
      /\ queue \in Seq(Posts)
  BY DEF HostTypes, HostInv, ServiceInv
<1>1. PICK n \in Nat : n = Len(slots) /\ DOMAIN slots = 1 .. n BY <1>0, SlotsAre
<1>2. Takes("softOff") BY DEF RunSoftOff
<1>3. Due \in Posts /\ Due.op = "softOff" /\ KeepsNotices(queue', queue)
  BY <1>0, <1>2, Taken, NoticesTaken
<1>4. Due.off \in BOOLEAN BY <1>3, PostCarries
<1>5. PICK on \in BOOLEAN : on = ~Due.off BY <1>4
<1>6. PICK Mine : Mine = {e \in effects : e.ours /\ e.dp \in DpsOf(DOMAIN slots)} OBVIOUS
<1>7. /\ effects' = (effects \ Mine) \union {[e EXCEPT !.on = on] : e \in Mine}
      /\ slots' = [i \in DOMAIN slots |->
            [slots[i] EXCEPT !.error = @ \/ \E e \in effects \ Mine : e.dp = slots[i].dp]]
      /\ plan' = plan /\ (softOff' <=> ~on)
  <2>1. effects' = (effects \ Mine) \union {[e EXCEPT !.on = ~Due.off] : e \in Mine}
    BY <1>6 DEF RunSoftOff
  <2>2. {[e EXCEPT !.on = ~Due.off] : e \in Mine} = {[e EXCEPT !.on = on] : e \in Mine}
    BY <1>5, Zenon
  <2>3. slots' = [i \in DOMAIN slots |->
            [slots[i] EXCEPT !.error = @ \/ \E e \in effects \ Mine : e.dp = slots[i].dp]]
    BY <1>6 DEF RunSoftOff
  <2>4. plan' = plan /\ softOff' = Due.off BY DEF RunSoftOff
  <2>5. softOff' <=> ~on BY <1>5, <2>4
  <2> QED BY <2>1, <2>2, <2>3, <2>4, <2>5
<1>e. \A e \in effects : e \in Effect BY <1>0 DEF GoodEffects
<1>8. ASSUME NEW e \in Mine, NEW f, f = [e EXCEPT !.on = on]
      PROVE  f \in effects' /\ f.dp = e.dp /\ f.shape = e.shape /\ f.ours = e.ours
             /\ f.cards = e.cards /\ f.on = on
  <2>1. e \in Effect BY <1>6, <1>e
  <2>2. f \in effects' BY <1>7, <1>8
  <2> QED BY <1>8, <2>1, <2>2, SwitchedOff
<1>9. \A e \in effects' : e.shape = <<plan.frame, plan.rate>>
  <2> SUFFICES ASSUME NEW f \in effects' PROVE f.shape = <<plan.frame, plan.rate>>
    OBVIOUS
  <2>1. CASE f \in effects BY <2>1 DEF PlanInv
  <2>2. CASE f \notin effects
    <3>1. PICK e \in Mine : f = [e EXCEPT !.on = on] BY <1>7, <2>2
    <3>2. f.shape = e.shape /\ e \in effects BY <1>6, <1>8, <3>1
    <3> QED BY <3>2 DEF PlanInv
  <2> QED BY <2>1, <2>2
<1>10. ASSUME NEW i \in 1 .. n
       PROVE  slots'[i].error \/ InLine(slots'[i], effects', plan, softOff', queue')
  <2>1. PICK b \in Slot : b = slots[i] BY <1>0, <1>1, SlotsAre
  <2>2. PICK x \in BOOLEAN : x <=> (b.error \/ \E e \in effects \ Mine : e.dp = b.dp) OBVIOUS
  <2>3. x = (b.error \/ \E e \in effects \ Mine : e.dp = b.dp) BY <2>2, Zenon
  <2>4. slots'[i] = [b EXCEPT !.error = x]
    <3>1. slots'[i] = [b EXCEPT !.error = b.error \/ \E e \in effects \ Mine : e.dp = b.dp]
      BY <1>1, <1>7, <2>1
    <3> QED BY <2>3, <3>1, Zenon
  <2>5. Likes(slots'[i], b) /\ slots'[i].sent = b.sent /\ slots'[i].error = x
    BY ONLY <2>4, ErrorWritten
  <2>6. CASE x BY <2>5, <2>6
  <2>7. CASE ~x
    <3>1. ~b.error /\ \A e \in effects : e.dp = b.dp => e \in Mine BY <2>2, <2>7
    <3>2. InLine(b, effects, plan, softOff, queue) BY <1>1, <2>1, <3>1 DEF PlanInv
    <3>3. PICK e \in effects : e.dp = b.dp /\ Serves(e, plan, softOff, queue)
      BY <3>2 DEF InLine
    <3>4. e \in Mine BY <3>1, <3>3
    <3>5. PICK f : f = [e EXCEPT !.on = on] OBVIOUS
    <3>6. /\ f \in effects' /\ f.dp = e.dp /\ f.ours = e.ours /\ f.cards = e.cards /\ f.on = on
      BY <1>8, <3>4, <3>5
    <3>7. Serves(e, plan, softOff, queue') BY <1>3, <1>e, <3>3, ServesLater
    <3>8. Serves(f, plan, softOff', queue') BY <1>7, <3>6, <3>7 DEF Serves
    <3>9. b.sent = plan BY <3>2 DEF InLine
    <3> QED BY <2>5, <3>3, <3>6, <3>8, <3>9 DEF InLine, Likes
  <2> QED BY <2>6, <2>7
<1>11. DOMAIN slots' = DOMAIN slots /\ slots' = [i \in DOMAIN slots |-> slots'[i]] BY <1>7
<1>12. \A i \in 1 .. Len(slots) :
          slots'[i].error \/ InLine(slots'[i], effects', plan, softOff', queue')
  BY <1>1, <1>10
<1>13. plan' = plan BY <1>7
<1> QED BY ONLY <1>0, PlanInv, <1>9, <1>11, <1>12, <1>13, EachInLine

(* onEnable(): switched on again, or the error is shown.                    *)
LEMMA EnableInLine ==
    ASSUME HostTypes, PlanInv, RunEnable
    PROVE  PlanInv'
<1>0. /\ GoodSlots(slots) /\ GoodEffects(slots, effects) /\ HostInv
      /\ queue \in Seq(Posts) /\ softOff \in BOOLEAN
  BY DEF HostTypes, HostInv, ServiceInv, WorldInv
<1>1. PICK n \in Nat : n = Len(slots) /\ DOMAIN slots = 1 .. n BY <1>0, SlotsAre
<1>2. Takes("enable") BY DEF RunEnable
<1>3. \A o \in {"control", "enable"}, dp \in Dps :
         NoticeOf(queue, o, dp) => NoticeOf(queue', o, dp) \/ (o = "enable" /\ Due.dp = dp)
  BY <1>0, <1>2, NoticesTaken
<1>e. \A e \in effects : e \in Effect /\ e.dp \in Dps
  <2>1. effects \in SUBSET Effect BY <1>0 DEF GoodEffects
  <2> QED BY <2>1 DEF Effect
<1>4. PICK I : I = IF softOff THEN {} ELSE {i \in DOMAIN slots : slots[i].dp = Due.dp} OBVIOUS
<1>5. PICK again : again = {i \in I : slots[i].control /\ ~slots[i].tried} OBVIOUS
<1>6. PICK Mine : Mine = {e \in effects : e.ours /\ e.dp \in DpsOf(again)} OBVIOUS
<1>7. /\ effects' = (effects \ Mine) \union {[e EXCEPT !.on = TRUE] : e \in Mine}
      /\ slots' = [i \in DOMAIN slots |->
             IF i \notin I THEN slots[i]
             ELSE [slots[i] EXCEPT !.tried = TRUE,
                      !.error = @ \/ i \notin again \/ slots[i].dp \notin {e.dp : e \in Mine}]]
      /\ plan' = plan /\ softOff' = softOff
  BY <1>4, <1>5, <1>6 DEF RunEnable
<1>m. \A e \in Mine : ~softOff /\ e \in effects /\ e.ours /\ e.dp = Due.dp
  BY <1>4, <1>5, <1>6 DEF DpsOf
<1>8. ASSUME NEW e \in Mine, NEW f, f = [e EXCEPT !.on = TRUE]
      PROVE  f \in effects' /\ f.dp = e.dp /\ f.shape = e.shape /\ f.ours = e.ours
             /\ f.cards = e.cards /\ f.on = TRUE
  <2>1. e \in Effect BY <1>m, <1>e
  <2>2. f \in effects' BY <1>7, <1>8
  <2> QED BY <1>8, <2>1, <2>2, SwitchedOff
<1>9. \A e \in effects' : e.shape = <<plan.frame, plan.rate>>
  <2> SUFFICES ASSUME NEW f \in effects' PROVE f.shape = <<plan.frame, plan.rate>>
    OBVIOUS
  <2>1. CASE f \in effects BY <2>1 DEF PlanInv
  <2>2. CASE f \notin effects
    <3>1. PICK e \in Mine : f = [e EXCEPT !.on = TRUE] BY <1>7, <2>2
    <3>2. f.shape = e.shape /\ e \in effects BY <1>m, <1>8, <3>1
    <3> QED BY <3>2 DEF PlanInv
  <2> QED BY <2>1, <2>2
<1>10. ASSUME NEW i \in 1 .. n
       PROVE  slots'[i].error \/ InLine(slots'[i], effects', plan, softOff', queue')
  <2>1. PICK b \in Slot : b = slots[i] BY <1>0, <1>1, SlotsAre
  <2>b. b.error \/ InLine(b, effects, plan, softOff, queue) BY <1>1, <2>1 DEF PlanInv
  <2>2. CASE i \notin I
    <3>1. slots'[i] = b BY <1>1, <1>7, <2>1, <2>2
    <3>2. CASE b.error BY <3>1, <3>2
    <3>3. CASE ~b.error
      <4>1. InLine(b, effects, plan, softOff, queue) BY <2>b, <3>3
      <4>2. PICK e \in effects : e.dp = b.dp /\ Serves(e, plan, softOff, queue)
        BY <4>1 DEF InLine
      <4>3. softOff \/ e.dp # Due.dp BY <1>1, <1>4, <2>1, <2>2, <4>2
      <4>4. e \in effects' BY <1>7, <1>m, <4>3
      <4>5. /\ NoticeOf(queue, "control", e.dp) => NoticeOf(queue', "control", e.dp)
            /\ ~softOff /\ NoticeOf(queue, "enable", e.dp) => NoticeOf(queue', "enable", e.dp)
        BY <1>3, <1>e, <4>3
      <4>6. Serves(e, plan, softOff, queue') BY <4>2, <4>5 DEF Serves
      <4> QED BY <1>7, <3>1, <4>1, <4>2, <4>4, <4>6 DEF InLine
    <3> QED BY <3>2, <3>3
  <2>3. CASE i \in I
    <3>1. PICK x \in BOOLEAN : x <=> (b.error \/ i \notin again \/ b.dp \notin {e.dp : e \in Mine})
      OBVIOUS
    <3>2. x = (b.error \/ i \notin again \/ b.dp \notin {e.dp : e \in Mine}) BY <3>1, Zenon
    <3>3. slots'[i] = [b EXCEPT !.tried = TRUE,
                  !.error = b.error \/ i \notin again \/ b.dp \notin {e.dp : e \in Mine}]
      BY <1>1, <1>7, <2>1, <2>3
    <3>4. slots'[i] = [b EXCEPT !.tried = TRUE, !.error = x] BY <3>2, <3>3, Zenon
    <3>5. PICK c : c = [b EXCEPT !.tried = TRUE, !.error = x] OBVIOUS
    <3>6. Likes(c, b) /\ c.sent = b.sent /\ (c.error <=> x)
      <4>1. Likes(c, b) /\ c.sent = b.sent BY ONLY <3>5, b \in Slot, x \in BOOLEAN DEF Slot, Likes
      <4>2. c.error = x BY ONLY <3>5, b \in Slot, x \in BOOLEAN DEF Slot, Likes
      <4> QED BY ONLY <4>1, <4>2, Zenon
    <3>7. slots'[i] = c BY ONLY <3>4, <3>5
    <3>8. CASE x BY <3>6, <3>7, <3>8
    <3>9. CASE ~x
      <4>1. ~b.error /\ b.dp \in {e.dp : e \in Mine} BY <3>1, <3>9
      <4>2. PICK e \in Mine : e.dp = b.dp BY <4>1
      <4>3. InLine(b, effects, plan, softOff, queue) BY <2>b, <4>1
      <4>4. PICK g \in effects : g.dp = b.dp /\ Serves(g, plan, softOff, queue)
        BY <4>3 DEF InLine
      <4>5. g = e BY <1>0, <1>m, <4>2, <4>4 DEF GoodEffects
      <4>6. PICK f : f = [e EXCEPT !.on = TRUE] OBVIOUS
      <4>7. /\ f \in effects' /\ f.dp = e.dp /\ f.ours = e.ours /\ f.cards = e.cards
            /\ f.on = TRUE
        BY <1>8, <4>6
      <4>8. NoticeOf(queue, "control", e.dp) => NoticeOf(queue', "control", e.dp)
        BY <1>3, <1>e, <1>m
      <4>9. ~softOff BY <1>m
      <4>10. Serves(f, plan, softOff', queue') BY <1>7, <4>4, <4>5, <4>7, <4>8, <4>9 DEF Serves
      <4>11. b.sent = plan BY <4>3 DEF InLine
      <4> QED BY <3>6, <3>7, <4>2, <4>7, <4>10, <4>11 DEF InLine, Likes
    <3> QED BY <3>8, <3>9
  <2> QED BY <2>2, <2>3
<1>11. DOMAIN slots' = DOMAIN slots /\ slots' = [i \in DOMAIN slots |-> slots'[i]] BY <1>7
<1>12. \A i \in 1 .. Len(slots) :
          slots'[i].error \/ InLine(slots'[i], effects', plan, softOff', queue')
  BY <1>1, <1>10
<1>13. plan' = plan BY <1>7
<1> QED BY ONLY <1>0, PlanInv, <1>9, <1>11, <1>12, <1>13, EachInLine

(* An effect after the push has all it had but, if it is concerned, cards.   *)
LEMMA PushLeaves ==
    ASSUME cards \in 0 .. 1, NEW e \in Effect, NEW sent, NEW bad, NEW f,
           f = PushedEffect(e, sent, bad)
    PROVE  /\ f.dp = e.dp /\ f.shape = e.shape /\ (f.ours <=> e.ours) /\ (f.on <=> e.on)
           /\ e.dp \in sent /\ e.dp \notin bad => f.cards = cards
           /\ e.dp \notin sent /\ e.dp \notin bad => f.cards = e.cards
<1>1. PICK c : c = [e EXCEPT !.cards = cards] OBVIOUS
<1>2. PICK d : d = [e EXCEPT !.cards = None] OBVIOUS
<1>3. /\ c.dp = e.dp /\ c.shape = e.shape /\ c.ours = e.ours /\ c.on = e.on
      /\ d.dp = e.dp /\ d.shape = e.shape /\ d.ours = e.ours /\ d.on = e.on
      /\ c.cards = cards
  BY <1>1, <1>2 DEF Effect
<1>4. /\ f \in {c, d, e}
      /\ e.dp \in sent /\ e.dp \notin bad => f = c
      /\ e.dp \notin sent /\ e.dp \notin bad => f = e
  BY <1>1, <1>2 DEF PushedEffect
<1> QED BY ONLY <1>3, <1>4

(* A push brings in line what it reaches; the others show an error.         *)
LEMMA PushInLine ==
    ASSUME HostTypes, PlanInv, PushAll, ~ShapeChanged, plan' = Wanted,
           UNCHANGED <<softOff, queue>>
    PROVE  PlanInv'
<1>0. /\ GoodSlots(slots) /\ GoodEffects(slots, effects) /\ cards \in 0 .. 1
      /\ plan \in Plans \union {None}
  BY DEF HostTypes, HostInv, WorldInv
<1>1. PICK n \in Nat : n = Len(slots) /\ DOMAIN slots = 1 .. n BY <1>0, SlotsAre
<1>2. PICK p \in Plans : p = Wanted BY PlansMade DEF HostTypes
<1>3. p.cards = cards /\ p.frame = frame /\ p.rate = rate BY <1>2 DEF Wanted
<1>a. PICK bad \in SUBSET Unsent,
           stuck \in SUBSET {i \in Unsent : \E e \in EffectOf(i) : e.cards = None} :
        PushTo(bad, stuck)
  BY DEF PushAll
<1>b. PICK due : due = Unsent OBVIOUS
<1>c. PICK fails : fails = {i \in Unsent : i \in bad \/ \A e \in EffectOf(i) : ~e.ours} OBVIOUS
<1>4. /\ due = {i \in 1 .. n : slots[i].dp # None /\ slots[i].sent # p}
      /\ bad \subseteq due
      /\ fails = {i \in due : i \in bad \/ \A e \in effects : e.dp = slots[i].dp => ~e.ours}
      /\ slots' = [i \in 1 .. n |-> PushedTo(slots[i], i, due, fails)]
      /\ effects' = {PushedEffect(e, DpsOf(due \ (fails \union stuck)), DpsOf(bad)) : e \in effects}
  <2>1. slots' = [i \in 1 .. n |-> PushedTo(slots[i], i, due, fails)]
    BY <1>1, <1>a, <1>b, <1>c DEF PushTo, PushedTo
  <2>2. effects' = {PushedEffect(e, DpsOf(due \ (fails \union stuck)), DpsOf(bad)) : e \in effects}
    BY <1>a, <1>b, <1>c DEF PushTo, PushedEffect
  <2>3. due = {i \in 1 .. n : slots[i].dp # None /\ slots[i].sent # p}
    BY <1>1, <1>2, <1>b DEF Unsent
  <2>4. bad \subseteq due BY <1>a, <1>b
  <2>5. fails = {i \in due : i \in bad \/ \A e \in effects : e.dp = slots[i].dp => ~e.ours}
    BY <1>b, <1>c DEF EffectOf
  <2> QED BY <2>1, <2>2, <2>3, <2>4, <2>5
<1>5. PICK sent : sent = DpsOf(due \ (fails \union stuck)) OBVIOUS
<1>6. PICK wrong : wrong = DpsOf(bad) OBVIOUS
<1>7. effects' = {PushedEffect(e, sent, wrong) : e \in effects} BY <1>4, <1>5, <1>6
<1>8. ASSUME NEW e \in effects
      PROVE  e \in Effect /\ e.dp # None
  <2>1. e \in Effect BY <1>0 DEF GoodEffects
  <2> QED BY <2>1, NoneAssumption DEF Effect
<1>9. ASSUME NEW e \in effects, NEW f, f = PushedEffect(e, sent, wrong)
      PROVE  /\ f \in effects' /\ f.dp = e.dp /\ f.shape = e.shape
             /\ (f.ours <=> e.ours) /\ (f.on <=> e.on)
             /\ e.dp \in sent /\ e.dp \notin wrong => f.cards = p.cards
             /\ e.dp \notin sent /\ e.dp \notin wrong => f.cards = e.cards
  <2>1. e \in Effect BY <1>8
  <2>2. f \in effects' BY <1>7, <1>9
  <2>3. /\ f.dp = e.dp /\ f.shape = e.shape /\ (f.ours <=> e.ours) /\ (f.on <=> e.on)
        /\ e.dp \in sent /\ e.dp \notin wrong => f.cards = cards
        /\ e.dp \notin sent /\ e.dp \notin wrong => f.cards = e.cards
    BY ONLY <1>0, <1>9, <2>1, PushLeaves
  <2> QED BY ONLY <1>3, <2>2, <2>3
<1>10. Len(slots') = n
  <2>1. DOMAIN slots' = 1 .. n /\ slots' = [i \in 1 .. n |-> slots'[i]] BY <1>4
  <2> QED BY ONLY <2>1, n \in Nat
<1>11. \A e \in effects' : e.shape = <<p.frame, p.rate>>
  <2> SUFFICES ASSUME NEW f \in effects' PROVE f.shape = <<p.frame, p.rate>>
    OBVIOUS
  <2>1. PICK e \in effects : f = PushedEffect(e, sent, wrong) BY <1>7
  <2>2. f.shape = e.shape BY <1>9, <2>1
  <2>3. PICK i \in 1 .. n : slots[i].dp = e.dp BY <1>0, <1>1 DEF GoodEffects
  <2>4. slots # <<>> BY <1>1, <2>3
  <2>5. plan # None BY <2>4 DEF PlanInv
  <2>6. <<plan.frame, plan.rate>> = <<frame, rate>> BY <2>5 DEF ShapeChanged
  <2> QED BY <1>3, <2>2, <2>6 DEF PlanInv
<1>12. ASSUME NEW i \in 1 .. n
       PROVE  slots'[i].error \/ InLine(slots'[i], effects', p, softOff, queue)
  <2>1. PICK b \in Slot : b = slots[i] BY <1>0, <1>1, SlotsAre
  <2>2. slots'[i] = PushedTo(b, i, due, fails) BY <1>4, <2>1
  <2>3. b.error \/ InLine(b, effects, plan, softOff, queue) BY <1>1, <2>1 DEF PlanInv
  <2>4. \A k \in 1 .. n : b.dp # None /\ slots[k].dp = b.dp => k = i BY <1>0, <1>1, <2>1, SlotsAre
  <2>5. CASE i \in fails
    <3>1. PICK c : c = [b EXCEPT !.error = TRUE] OBVIOUS
    <3>2. c.error = TRUE BY ONLY <3>1, b \in Slot DEF Slot
    <3>3. slots'[i] = c BY <2>2, <2>5, <3>1 DEF PushedTo
    <3> QED BY <3>2, <3>3
  <2>6. CASE i \in due \ fails
    <3>1. PICK c : c = [b EXCEPT !.sent = p] OBVIOUS
    <3>2. c.error = b.error /\ c.sent = p /\ c.dp = b.dp BY ONLY <3>1, b \in Slot DEF Slot
    <3>3. slots'[i] = c BY <1>2, <2>2, <2>6, <3>1 DEF PushedTo
    <3>4. CASE b.error BY <3>2, <3>3, <3>4
    <3>5. CASE ~b.error
      <4>1. InLine(b, effects, plan, softOff, queue) BY <2>3, <3>5
      <4>2. PICK e \in effects : e.dp = b.dp /\ Serves(e, plan, softOff, queue)
        BY <4>1 DEF InLine
      <4>3. PICK g \in effects : g.ours /\ g.dp = b.dp BY <1>4, <2>1, <2>6
      <4>4. g = e BY <1>0, <4>2, <4>3 DEF GoodEffects
      <4>5. i \notin stuck => b.dp \in sent BY <1>5, <2>1, <2>6 DEF DpsOf
      <4>6. b.dp # None BY <1>4, <2>1, <2>6
      <4>7. b.dp \notin wrong
        <5>1. ASSUME b.dp \in wrong PROVE FALSE
          <6>1. PICK k \in bad : slots[k].dp = b.dp BY <1>6, <5>1 DEF DpsOf
          <6>2. k \in 1 .. n BY <1>4, <6>1
          <6>3. k = i BY <2>4, <4>6, <6>1, <6>2
          <6>4. i \in fails BY <1>4, <2>6, <6>1, <6>3
          <6> QED BY <2>6, <6>4
        <5> QED BY <5>1
      <4>8. PICK f : f = PushedEffect(e, sent, wrong) OBVIOUS
      <4>9. /\ f \in effects' /\ f.dp = e.dp /\ f.ours /\ (f.on <=> e.on)
            /\ i \notin stuck => f.cards = p.cards
        BY <1>9, <4>2, <4>3, <4>4, <4>5, <4>7, <4>8
      (* An effect stuck with a part of a push has a notice that says so.        *)
      <4>11. ASSUME i \in stuck PROVE NoticeOf(queue, "control", e.dp)
        <5>1. PICK h \in effects : h.cards = None /\ h.dp = b.dp BY <1>a, <2>1, <4>11 DEF EffectOf
        <5>2. h = e BY <1>0, <4>2, <5>1 DEF GoodEffects
        <5>3. plan # None
          <6>1. slots # <<>> BY <1>1
          <6> QED BY <6>1 DEF PlanInv
        <5>4. plan.cards \in 0 .. 1
          <6>1. plan \in Plans BY <1>0, <5>3
          <6> QED BY <6>1 DEF Plans
        <5>5. e.cards # plan.cards BY <5>1, <5>2, <5>4, NoneAssumption
        <5> QED BY <4>2, <5>5 DEF Serves
      <4>10. Serves(f, p, softOff, queue) BY <4>2, <4>9, <4>11 DEF Serves
      <4> QED BY <3>2, <3>3, <4>2, <4>9, <4>10 DEF InLine
    <3> QED BY <3>4, <3>5
  <2>7. CASE i \notin due
    <3>1. slots'[i] = b BY <1>4, <2>2, <2>7 DEF PushedTo
    <3>2. CASE b.error BY <3>1, <3>2
    <3>3. CASE ~b.error
      <4>1. InLine(b, effects, plan, softOff, queue) BY <2>3, <3>3
      <4>2. PICK e \in effects : e.dp = b.dp /\ Serves(e, plan, softOff, queue)
        BY <4>1 DEF InLine
      <4>3. b.dp # None BY <1>8, <4>2
      <4>4. b.sent = p BY <1>4, <2>1, <2>7, <4>3
      <4>5. plan = p BY <4>1, <4>4 DEF InLine
      <4>6. b.dp \notin sent
        <5>1. ASSUME b.dp \in sent PROVE FALSE
          <6>1. PICK k \in due : slots[k].dp = b.dp BY <1>5, <5>1 DEF DpsOf
          <6>2. k \in 1 .. n BY <1>4, <6>1
          <6> QED BY <2>4, <2>7, <4>3, <6>1, <6>2
        <5> QED BY <5>1
      <4>7. b.dp \notin wrong
        <5>1. ASSUME b.dp \in wrong PROVE FALSE
          <6>1. PICK k \in bad : slots[k].dp = b.dp BY <1>6, <5>1 DEF DpsOf
          <6>2. k \in 1 .. n /\ k \in due BY <1>4, <6>1
          <6> QED BY <2>4, <2>7, <4>3, <6>1, <6>2
        <5> QED BY <5>1
      <4>8. PICK f : f = PushedEffect(e, sent, wrong) OBVIOUS
      <4>9. /\ f \in effects' /\ f.dp = e.dp /\ (f.ours <=> e.ours) /\ (f.on <=> e.on)
            /\ f.cards = e.cards
        BY <1>9, <4>2, <4>6, <4>7, <4>8
      <4>10. Serves(f, p, softOff, queue) BY <4>2, <4>5, <4>9 DEF Serves
      <4> QED BY <3>1, <4>2, <4>4, <4>9, <4>10 DEF InLine
    <3> QED BY <3>2, <3>3
  <2> QED BY <2>5, <2>6, <2>7
<1>13. p # None BY NoneAssumption
<1>14. plan' = p /\ softOff' = softOff /\ queue' = queue BY <1>2
<1> QED BY <1>10, <1>11, <1>12, <1>13, <1>14 DEF PlanInv

(* syncNow() brings everything in line with the wanted plan.                *)
LEMMA SyncInLine ==
    ASSUME HostTypes, PlanInv, RunSync
    PROVE  PlanInv'
<1>0. GoodSlots(slots) /\ GoodEffects(slots, effects) BY DEF HostTypes, HostInv
<1>1. PICK n \in Nat : n = Len(slots) /\ DOMAIN slots = 1 .. n BY <1>0, SlotsAre
<1>2. CASE ShapeChanged
  <2>1. PICK I \in SUBSET (1 .. Len(slots)) : I = {i \in DOMAIN slots : slots[i].dp # None}
    BY <1>1
  <2>2. PICK S : S = {slots[i].sid : i \in I} OBVIOUS
  <2>3. CreateIn(slots, S, Wanted, DpsOf(I)) /\ UNCHANGED <<softOff, queue>> /\ plan' = Wanted
    BY <1>2, <2>1, <2>2 DEF RunSync
  <2>4. \A i \in 1 .. Len(slots) : slots[i].dp # None => (slots[i].dp \in DpsOf(I) <=> i \in I)
    BY <1>1, <2>1 DEF DpsOf
  <2>5. Wanted \in Plans BY PlansMade DEF HostTypes
  <2>6. \A e \in effects : e.dp # None
    <3>1. \A e \in effects : e \in Effect BY <1>0 DEF GoodEffects
    <3> QED BY <3>1, NoneAssumption DEF Effect
  <2>7. \A i \in 1 .. Len(slots) : i \notin I =>
           slots[i].error \/ InLine(slots[i], effects, Wanted, softOff, queue')
    <3>1. ASSUME NEW i \in 1 .. n, i \notin I PROVE slots[i].error
      <4>1. slots[i].dp = None BY <1>1, <2>1, <3>1
      <4> QED BY <1>1, <2>6, <4>1 DEF PlanInv, InLine
    <3> QED BY <1>1, <3>1
  <2>8. \A e \in effects : e.dp \notin DpsOf(I) => e.shape = <<Wanted.frame, Wanted.rate>>
    <3>1. ASSUME NEW e \in effects PROVE e.dp \in DpsOf(I)
      <4>1. PICK i \in 1 .. n : slots[i].dp = e.dp BY <1>0, <1>1 DEF GoodEffects
      <4>2. i \in I BY <1>1, <2>1, <2>6, <4>1
      <4> QED BY <4>1, <4>2 DEF DpsOf
    <3> QED BY <3>1
  <2> QED BY ONLY HostTypes, <2>2, <2>3, <2>4, <2>5, <2>7, <2>8, AnewInLine
<1>3. CASE ~ShapeChanged
  <2>1. PushAll /\ plan' = Wanted /\ UNCHANGED <<softOff, queue>> BY <1>3 DEF RunSync
  <2> QED BY <1>3, <2>1, PushInLine
<1> QED BY <1>2, <1>3

(* One effect changed by the server, and the notice of it posted.           *)
LEMMA ChangedInLine ==
    ASSUME HostInv, PlanInv, NEW e \in effects, NEW f,
           f.dp = e.dp, f.shape = e.shape,
           effects' = (effects \ {e}) \union {f}, UNCHANGED <<slots, plan, softOff>>,
           KeepsNotices(queue', queue),
           Serves(e, plan, softOff, queue) => Serves(f, plan, softOff, queue')
    PROVE  PlanInv'
<1>1. \A g \in effects : g \in Effect BY DEF HostInv, GoodEffects
<1>2. ASSUME NEW b, InLine(b, effects, plan, softOff, queue)
      PROVE  InLine(b, effects', plan, softOff, queue')
  <2>1. PICK g \in effects : g.dp = b.dp /\ Serves(g, plan, softOff, queue)
    BY <1>2 DEF InLine
  <2>2. b.sent = plan BY <1>2 DEF InLine
  <2>3. CASE g = e BY <2>1, <2>2, <2>3 DEF InLine
  <2>4. CASE g # e
    <3>1. g \in effects' BY <2>4
    <3>2. Serves(g, plan, softOff, queue') BY <1>1, <2>1, ServesLater
    <3> QED BY <2>1, <2>2, <3>1, <3>2 DEF InLine
  <2> QED BY <2>3, <2>4
<1>3. \A g \in effects' : g.shape = <<plan.frame, plan.rate>> BY DEF PlanInv
<1>4. slots # <<>> => plan # None BY DEF PlanInv
<1>5. \A i \in 1 .. Len(slots) :
         slots[i].error \/ InLine(slots[i], effects', plan, softOff, queue')
  BY <1>2 DEF PlanInv
<1> QED BY <1>3, <1>4, <1>5 DEF PlanInv

(* What others do to an effect, its notice tells.                           *)
LEMMA OutsideInLine ==
    ASSUME HostTypes, PlanInv, TakeOver \/ LetGo \/ SwitchOff
    PROVE  PlanInv'
<1>0. HostInv /\ queue \in Seq(Posts) BY DEF HostTypes, ServiceInv
<1>1. UNCHANGED <<slots, plan, softOff>>
  BY DEF TakeOver, LetGo, SwitchOff, Others, hostVars
<1>2. \A e \in effects : e \in Effect /\ e.dp \in Dps
  <2>1. effects \in SUBSET Effect BY <1>0 DEF HostInv, GoodEffects
  <2> QED BY <2>1 DEF Effect
<1>3. CASE TakeOver
  <2>1. PICK e \in effects :
          /\ effects' = (effects \ {e}) \union {[e EXCEPT !.ours = FALSE, !.cards = None]}
          /\ Notice("control", e.dp, FALSE)
    BY <1>3 DEF TakeOver
  <2>2. PICK f : f = [e EXCEPT !.ours = FALSE, !.cards = None] OBVIOUS
  <2>3. f.dp = e.dp /\ f.shape = e.shape /\ f.on = e.on BY <1>2, <2>2, EffectWritten
  <2>4. KeepsNotices(queue', queue) /\ NoticeOf(queue', "control", e.dp)
    BY <1>0, <1>2, <2>1, NoticeGiven
  <2>5. NoticeOf(queue, "enable", e.dp) => NoticeOf(queue', "enable", e.dp)
    BY <1>2, <2>4 DEF KeepsNotices
  <2>6. Serves(e, plan, softOff, queue) => Serves(f, plan, softOff, queue')
    BY <2>3, <2>4, <2>5 DEF Serves
  <2>7. effects' = (effects \ {e}) \union {f} BY <2>1, <2>2
  <2> QED BY ONLY PlanInv, <1>0, <1>1, <2>3, <2>4, <2>6, <2>7, ChangedInLine
<1>4. CASE LetGo
  <2>1. CASE UNCHANGED <<effects, queue>> BY <1>1, <2>1 DEF PlanInv
  <2>2. CASE \E e \in effects : /\ effects' = (effects \ {e}) \union {[e EXCEPT !.ours = TRUE]}
                                /\ Notice("control", e.dp, TRUE)
    <3>1. PICK e \in effects : /\ effects' = (effects \ {e}) \union {[e EXCEPT !.ours = TRUE]}
                               /\ Notice("control", e.dp, TRUE)
      BY <2>2
    <3>2. PICK f : f = [e EXCEPT !.ours = TRUE] OBVIOUS
    <3>3. f.dp = e.dp /\ f.shape = e.shape /\ f.on = e.on BY <1>2, <3>2, EffectWritten
    <3>4. KeepsNotices(queue', queue) /\ NoticeOf(queue', "control", e.dp)
      BY <1>0, <1>2, <3>1, NoticeGiven
    <3>5. NoticeOf(queue, "enable", e.dp) => NoticeOf(queue', "enable", e.dp)
      BY <1>2, <3>4 DEF KeepsNotices
    <3>6. Serves(e, plan, softOff, queue) => Serves(f, plan, softOff, queue')
      BY <3>3, <3>4, <3>5 DEF Serves
    <3>7. effects' = (effects \ {e}) \union {f} BY <3>1, <3>2
    <3> QED BY ONLY PlanInv, <1>0, <1>1, <3>3, <3>4, <3>6, <3>7, ChangedInLine
  <2> QED BY <1>4, <2>1, <2>2 DEF LetGo
<1>5. CASE SwitchOff
  <2>1. PICK e \in effects : /\ effects' = (effects \ {e}) \union {[e EXCEPT !.on = FALSE]}
                             /\ Notice("enable", e.dp, FALSE)
    BY <1>5 DEF SwitchOff
  <2>2. PICK f : f = [e EXCEPT !.on = FALSE] OBVIOUS
  <2>3. /\ f.dp = e.dp /\ f.shape = e.shape /\ f.ours = e.ours /\ f.cards = e.cards
        /\ f.on = FALSE
    BY <1>2, <2>2, EffectWritten
  <2>4. KeepsNotices(queue', queue) /\ NoticeOf(queue', "enable", e.dp)
    BY <1>0, <1>2, <2>1, NoticeGiven
  <2>5. NoticeOf(queue, "control", e.dp) => NoticeOf(queue', "control", e.dp)
    BY <1>2, <2>4 DEF KeepsNotices
  <2>6. Serves(e, plan, softOff, queue) => Serves(f, plan, softOff, queue')
    BY <2>3, <2>4, <2>5 DEF Serves
  <2>7. effects' = (effects \ {e}) \union {f} BY <2>1, <2>2
  <2> QED BY ONLY PlanInv, <1>0, <1>1, <2>3, <2>4, <2>6, <2>7, ChangedInLine
<1> QED BY <1>3, <1>4, <1>5

(* Every step keeps the slots in line.                                      *)
LEMMA PlanStays == TypeInv /\ DownInv /\ PlanInv /\ [Next]_vars => PlanInv'
<1> SUFFICES ASSUME TypeInv, DownInv, PlanInv, [Next]_vars PROVE PlanInv'
  OBVIOUS
<1>0. HostTypes /\ ServiceInv /\ HostInv /\ queue \in Seq(Posts)
  BY DEF TypeInv, HostTypes, ServiceInv
<1>1. CASE Starting
  <2>1. slots' = <<>> /\ effects' = {} BY <1>0, <1>1, Started
  <2>2. Len(slots') = 0 BY <2>1
  <2> QED BY <2>1, <2>2 DEF PlanInv
<1>2. CASE Quiet
  <2>1. UNCHANGED <<slots, effects>> /\ \E posts \in Seq(Posts) : Posted(posts)
    BY <1>0, <1>2, QuietPosts
  <2>2. UNCHANGED <<plan, softOff>>
    BY <1>2 DEF Quiet, HearStopped, FallBack, Announced, HandleDump, Retarget, TakeBack,
       SoftPower, ChangeSettings, Stop, ChangeDevice, RateSettles, Screens, SwitchMode,
       AskConsent, Answered, CaptureEnds, Elsewhere, SyncFails, BeFirst, Others, hostVars
  <2>3. PICK posts \in Seq(Posts) : queue' = queue \o posts BY <2>1 DEF Posted
  <2>4. KeepsNotices(queue', queue) BY <1>0, <2>3, NoticesPosted
  <2> QED BY <1>0, <2>1, <2>2, <2>4, InLineLater
<1>3. CASE TakeOver \/ LetGo \/ SwitchOff BY <1>0, <1>3, OutsideInLine
<1>4. CASE RunDetachAll
  <2>1. slots' = <<>> /\ HostInv' BY <1>0, <1>4, HostDetachAll
  <2>2. Len(slots') = 0 BY <2>1
  <2>3. effects' = {} BY <2>1, <2>2 DEF HostInv, GoodEffects
  <2> QED BY <2>1, <2>2, <2>3 DEF PlanInv
<1>5. CASE EffectThread /\ ~RunDetachAll
  BY <1>0, <1>5, AnewAttach, DetachInLine, AnewRecreateAll, SoftOffInLine, AnewControl,
     EnableInLine, SyncInLine DEF EffectThread
<1>6. CASE UNCHANGED vars
  BY <1>6 DEF vars, hostVars, PlanInv
<1> QED BY <1>1, <1>2, <1>3, <1>4, <1>5, <1>6 DEF Next, Main, Quiet, System, Starting

(* When nothing is left to run, an effect that shows no error is ours, switched *)
(* as the profile asks and has the wanted plan, whatever other apps took or *)
(* switched off in between (syncNow(), onControl(), onEnable()), unless the  *)
(* last sync failed or came before the rate: for any apps, any cap and any  *)
(* bounds.                                                                  *)
THEOREM StaysInStep == Spec => []InStep
<1>1. Init => SyncInv /\ DownInv /\ PlanInv
  <2> SUFFICES ASSUME Init PROVE SyncInv /\ DownInv /\ PlanInv
    OBVIOUS
  <2>1. SyncInv /\ DownInv BY DEF Init, SyncInv, DownInv
  <2>2. effects = {} /\ slots = <<>> /\ Len(slots) = 0 BY DEF Init
  <2> QED BY <2>1, <2>2 DEF PlanInv
<1>2. TypeInv /\ SyncInv /\ PlanInv => InStep
  <2> SUFFICES ASSUME TypeInv, SyncInv, PlanInv,
                      queue = <<>>, service = "up", ~sync, ~stale,
                      NEW i \in DOMAIN slots, ~slots[i].error
               PROVE  \E e \in effects : /\ e.dp = slots[i].dp /\ e.ours
                                         /\ e.on = ~softOff
                                         /\ e.cards = cards /\ e.shape[1] = frame
                                         /\ (e.shape[2] = rate \/ late)
    BY DEF InStep
  <2>1. GoodSlots(slots) /\ GoodEffects(slots, effects) /\ softOff \in BOOLEAN
    BY DEF TypeInv, HostTypes, HostInv, WorldInv
  <2>2. i \in 1 .. Len(slots) BY <2>1, SlotsAre
  <2>3. slots # <<>> OBVIOUS
  <2>4. plan = Wanted \/ (late /\ plan.cards = cards /\ plan.frame = frame)
    BY <2>3 DEF PlanInv, SyncInv, Listening
  <2>5. InLine(slots[i], effects, plan, softOff, queue) BY <2>2 DEF PlanInv
  <2>6. PICK e \in effects : e.dp = slots[i].dp /\ Serves(e, plan, softOff, queue)
    BY <2>5 DEF InLine
  <2>7. \A op, dp : ~NoticeOf(queue, op, dp) BY DEF NoticeOf
  <2>8. e.ours /\ e.cards = plan.cards /\ (softOff => ~e.on) /\ (~softOff => e.on)
    BY <2>6, <2>7 DEF Serves
  <2>9. e.on \in BOOLEAN
    <3>1. e \in Effect BY <2>1 DEF GoodEffects
    <3> QED BY <3>1 DEF Effect
  <2>10. e.on = ~softOff
    <3>1. PICK on \in BOOLEAN : on = e.on BY <2>9
    <3>2. PICK off \in BOOLEAN : off = softOff BY <2>1
    <3>3. on <=> ~off BY <2>8, <3>1, <3>2
    <3> QED BY <3>1, <3>2, <3>3, Zenon
  <2>11. e.shape = <<plan.frame, plan.rate>> BY DEF PlanInv
  <2>12. plan.cards = cards /\ plan.frame = frame /\ (plan.rate = rate \/ late)
    BY <2>4 DEF Wanted
  <2> QED BY <2>6, <2>8, <2>10, <2>11, <2>12
<1> QED BY <1>1, <1>2, TypesHoldFirst, TypesStay, DownStays, SyncStays, PlanStays, PTL DEF Spec
=============================================================================
