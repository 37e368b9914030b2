------------------------- MODULE EngineChainProofs -------------------------
(***************************************************************************)
(* Theorems about ChainOrder and EngineChain, for any number of effects,     *)
(* any default chain and whatever was saved.  That the chain is complete and *)
(* is dispatched whole needs nothing of the order the loops start from; that *)
(* the saved order is kept needs room for it.                                *)
(***************************************************************************)
EXTENDS EngineChain, FiniteSetTheorems, SequenceTheorems,
        WellFoundedInduction, TLAPS

(* A list of effects in which none comes twice.                             *)
Distinct(s) ==
    /\ s \in Seq(Effects)
    /\ IsInjective(s)
    /\ Len(s) = Cardinality(Range(s))

LEMMA EffectsCounted ==
    IsFiniteSet(Effects) /\ Cardinality(Effects) = EfxCount
  BY EfxAssumption, FS_Interval DEF Effects

LEMMA AppendDistinct ==
    ASSUME NEW s, Distinct(s), NEW e \in Effects \ Range(s)
    PROVE  Distinct(Append(s, e)) /\ Range(Append(s, e)) = Range(s) \union {e}
<1> DEFINE t == Append(s, e)
<1>1. /\ t \in Seq(Effects) /\ Len(t) = Len(s) + 1 /\ t[Len(t)] = e
      /\ \A n \in 1 .. Len(s) : t[n] = s[n]
      /\ DOMAIN t = 1 .. Len(t) /\ DOMAIN s = 1 .. Len(s)
  BY DEF Distinct
<1>2. Range(t) = Range(s) \union {e}
  <2>1. ASSUME NEW x \in Range(t) PROVE x \in Range(s) \union {e}
    <3>1. PICK n \in 1 .. Len(t) : t[n] = x BY <1>1 DEF Range
    <3>2. n \in 1 .. Len(s) \/ n = Len(t) BY <1>1 DEF Distinct
    <3> QED BY <1>1, <3>1, <3>2 DEF Range
  <2>2. ASSUME NEW x \in Range(s) PROVE x \in Range(t)
    <3>1. PICK n \in 1 .. Len(s) : s[n] = x BY <1>1 DEF Range
    <3>2. n \in 1 .. Len(t) BY <1>1 DEF Distinct
    <3> QED BY <1>1, <3>1, <3>2 DEF Range
  <2>3. e \in Range(t)
    <3>1. Len(t) \in DOMAIN t BY <1>1 DEF Distinct
    <3> QED BY <1>1, <3>1 DEF Range
  <2> QED BY <2>1, <2>2, <2>3
<1>3. IsInjective(t)
  <2>1. \A n \in 1 .. Len(s) : s[n] # e BY <1>1 DEF Range
  <2>2. \A m, n \in 1 .. Len(s) : s[m] = s[n] => m = n
    BY <1>1 DEF Distinct, IsInjective
  <2>3. \A n \in 1 .. Len(t) : n \in 1 .. Len(s) \/ n = Len(t) BY <1>1 DEF Distinct
  <2>4. \A m, n \in DOMAIN t : t[m] = t[n] => m = n BY <1>1, <2>1, <2>2, <2>3
  <2> QED BY <2>4 DEF IsInjective
<1>4. IsFiniteSet(Range(s))
  <2>1. Range(s) \in SUBSET Effects BY DEF Range, Distinct
  <2> QED BY <2>1, EffectsCounted, FS_Subset
<1>5. Cardinality(Range(t)) = Cardinality(Range(s)) + 1 BY <1>2, <1>4, FS_AddElement
<1> QED BY <1>1, <1>2, <1>3, <1>5 DEF Distinct

(* A list with as many places as there are effects, none of them twice.     *)
LEMMA FullIsChain ==
    ASSUME NEW s, Distinct(s)
    PROVE  /\ Len(s) \in 0 .. EfxCount
           /\ Len(s) = EfxCount <=> Range(s) = Effects
<1>1. Range(s) \in SUBSET Effects BY DEF Range, Distinct
<1>2. /\ Cardinality(Range(s)) <= EfxCount
      /\ Cardinality(Range(s)) = EfxCount => Range(s) = Effects
  BY <1>1, EffectsCounted, FS_Subset
<1>3. Len(s) \in Nat BY DEF Distinct
<1> QED BY <1>2, <1>3, EffectsCounted, EfxAssumption DEF Distinct

-----------------------------------------------------------------------------
(* What the two loops of JamesDSPSetChainOrder keep.                         *)
BuildInv ==
    /\ Distinct(tmp)
    /\ pc \in {"complete", "scan", "append", "done"}
    /\ pc = "complete" => tmp = <<>> /\ seen = {}
    /\ pc = "scan" => Range(tmp) = seen
    /\ pc = "append" =>
          i \in 0 .. EfxCount /\ Range(tmp) = seen \union {e \in Effects : e < i}
    /\ pc = "done" => Range(tmp) = Effects

LEMMA EmptyDistinct == Distinct(<<>>) /\ Range(<<>>) = {}
<1>1. Range(<<>>) = {} BY DEF Range
<1> QED BY <1>1, FS_EmptySet DEF Distinct, IsInjective

LEMMA StartKeeps == ASSUME NEW s, StartWith(s) PROVE BuildInv'
<1>1. pc' \in {"complete", "scan"} /\ tmp' = <<>> /\ seen' = {} BY DEF StartWith
<1> QED BY <1>1, EmptyDistinct DEF BuildInv

LEMMA StartV4aKeeps == StartWithV4a => BuildInv'
<1> SUFFICES ASSUME StartWithV4a PROVE BuildInv'
  OBVIOUS
<1>1. pc' = "scan" /\ tmp' = <<>> /\ seen' = {} BY DEF StartWithV4a
<1> QED BY <1>1, EmptyDistinct DEF BuildInv

LEMMA BuildKeeps == BuildInv /\ BuildOrder => BuildInv'
<1> SUFFICES ASSUME BuildInv, BuildOrder PROVE BuildInv'
  OBVIOUS
<1> USE EfxAssumption
<1>1. CASE ScanOne
  <2>1. CASE order[i] \in Effects \ seen
    <3>1. Distinct(tmp') /\ Range(tmp') = Range(tmp) \union {order[i]}
      BY <1>1, <2>1, AppendDistinct DEF ScanOne, BuildInv
    <3> QED BY <1>1, <2>1, <3>1 DEF ScanOne, BuildInv
  <2>2. CASE order[i] \notin Effects \ seen
    BY <1>1, <2>2 DEF ScanOne, BuildInv
  <2> QED BY <2>1, <2>2
<1>2. CASE ScanEnds
  <2>1. {e \in Effects : e < 0} = {} BY DEF Effects
  <2> QED BY <1>2, <2>1 DEF ScanEnds, BuildInv
<1>3. CASE AppendOne
  <2>1. i \in Effects BY <1>3 DEF AppendOne, InAppend, BuildInv, Effects
  <2>2. {e \in Effects : e < i + 1} = {e \in Effects : e < i} \union {i}
    BY <2>1 DEF Effects
  <2>3. CASE i \in seen BY <1>3, <2>1, <2>2, <2>3 DEF AppendOne, BuildInv, Effects
  <2>4. CASE i \notin seen
    <3>1. i \notin Range(tmp) BY <1>3, <2>1, <2>4 DEF AppendOne, BuildInv, Effects
    <3>2. Distinct(tmp') /\ Range(tmp') = Range(tmp) \union {i}
      BY <1>3, <2>1, <2>4, <3>1, AppendDistinct DEF AppendOne, BuildInv
    <3> QED BY <1>3, <2>1, <2>2, <3>2 DEF AppendOne, BuildInv, Effects
  <2> QED BY <2>3, <2>4
<1>4. CASE AppendEnds
  <2>1. Len(tmp) \in 0 .. EfxCount /\ (Len(tmp) = EfxCount => Range(tmp) = Effects)
    BY FullIsChain DEF BuildInv
  <2>2. CASE i = EfxCount
    <3>1. {e \in Effects : e < i} = Effects BY <2>2 DEF Effects
    <3>2. Range(tmp) \subseteq Effects BY DEF BuildInv, Distinct, Range
    <3> QED BY <1>4, <3>1, <3>2 DEF AppendEnds, BuildInv
  <2>3. CASE i # EfxCount
    <3>1. Len(tmp) = EfxCount BY <1>4, <2>1, <2>3 DEF AppendEnds, InAppend, BuildInv
    <3> QED BY <1>4, <2>1, <3>1 DEF AppendEnds, BuildInv
  <2> QED BY <2>2, <2>3
<1>5. CASE CompleteOne BY <1>5 DEF CompleteOne, BuildInv
<1>6. CASE CompleteEnds BY <1>6, EmptyDistinct DEF CompleteEnds, BuildInv
<1> QED BY <1>1, <1>2, <1>3, <1>4, <1>5, <1>6 DEF BuildOrder

LEMMA BuildStays == BuildInv /\ [Next]_vars => BuildInv'
<1>1. ASSUME BuildInv, UNCHANGED chainVars PROVE BuildInv'
  BY <1>1 DEF BuildInv, chainVars
<1>2. ASSUME BuildInv, SetChainOrder PROVE BuildInv'
  BY <1>2, StartKeeps, StartV4aKeeps DEF SetChainOrder
<1>3. ASSUME BuildInv, Build PROVE BuildInv'
  BY <1>3, BuildKeeps DEF Build
<1> QED
  BY <1>1, <1>2, <1>3 DEF Next, SetterStep, AudioStep, vars, LockToPublish, PublishOne,
     PublishCount, LockToCopy, CopyOne, UnlockCopy, DispatchOne, EndBlock

LEMMA BuildStarts == EngineInit => BuildInv
  BY EmptyDistinct DEF EngineInit, Init, BuildInv

(* Whatever was saved, however long, with unknown and repeated ids: the chain *)
(* JamesDSPSetChainOrder builds holds every effect, and none twice.          *)
THEOREM ChainComplete == EngineSpec => []BuiltChainComplete
<1>1. BuildInv => BuiltChainComplete
  BY DEF BuildInv, BuiltChainComplete, IsChain, Distinct
<1> QED BY <1>1, BuildStarts, BuildStays, PTL DEF EngineSpec

-----------------------------------------------------------------------------
(* The lock, the published chain and the two copies.                         *)
SetterInv ==
    /\ setterPc \in {"idle", "build", "copy"}
    /\ setterPc = "copy" <=> lock = "setter"
    /\ chainOrder \in [Slots -> Effects \union {NoEffect}]
    /\ setterPc = "copy" =>
          /\ pc = "done"
          /\ next \in 1 .. Len(tmp) + 1
          /\ \A k \in 1 .. next - 1 : chainOrder[k] = tmp[k]
    /\ chainCount \in {0, EfxCount}
    /\ PublishedWhole

AudioInv ==
    /\ audioPc \in {"idle", "copy", "dispatch"}
    /\ audioPc = "copy" <=> lock = "audio"
    /\ chain \in [Slots -> Effects \union {NoEffect}]
    /\ audioPc = "copy" =>
          /\ count = EfxCount /\ chainCount = EfxCount
          /\ at \in 1 .. count + 1
          /\ \A k \in 1 .. at - 1 : chain[k] = chainOrder[k]
    /\ BlockRunsWholeChain

(* What is copied from a whole chain is whole.                               *)
LEMMA WholeCopied ==
    ASSUME NEW a, NEW b, NEW n, WholeChain(a, n), \A k \in 1 .. n : b[k] = a[k]
    PROVE  WholeChain(b, n)
<1>1. {b[k] : k \in 1 .. n} = {a[k] : k \in 1 .. n} OBVIOUS
<1> QED BY <1>1 DEF WholeChain

(* The list built is a whole chain of as many entries as there are effects. *)
LEMMA BuiltWhole ==
    ASSUME BuildInv, pc = "done"
    PROVE  Len(tmp) = EfxCount /\ tmp \in Seq(Effects) /\ WholeChain(tmp, EfxCount)
<1>1. Len(tmp) = EfxCount /\ tmp \in Seq(Effects) BY FullIsChain DEF BuildInv, Distinct
<1>2. DOMAIN tmp = 1 .. EfxCount BY <1>1
<1>3. {tmp[k] : k \in 1 .. EfxCount} = Effects BY <1>2 DEF BuildInv, Range
<1>4. \A k, l \in 1 .. EfxCount : tmp[k] = tmp[l] => k = l
  BY <1>2 DEF BuildInv, Distinct, IsInjective
<1> QED BY <1>1, <1>3, <1>4 DEF WholeChain

LEMMA SetterStays == BuildInv /\ SetterInv /\ AudioInv /\ [Next]_vars => SetterInv'
<1> SUFFICES ASSUME BuildInv, SetterInv, AudioInv, [Next]_vars PROVE SetterInv'
  OBVIOUS
<1> USE EfxAssumption
<1>1. CASE SetChainOrder
  BY <1>1 DEF SetChainOrder, SetterInv, sharedVars, PublishedWhole
<1>2. CASE Build
  BY <1>2 DEF Build, SetterInv, sharedVars, setterVars, PublishedWhole
<1>3. CASE LockToPublish
  <2>1. next' \in 1 .. Len(tmp) + 1 /\ next' - 1 = 0
    BY <1>3 DEF LockToPublish, BuildInv, Distinct
  <2> QED BY <1>3, <2>1 DEF LockToPublish, SetterInv, PublishedWhole, chainVars
<1>4. CASE PublishOne
  <2>1. next \in 1 .. Len(tmp) /\ pc = "done" /\ Len(tmp) = EfxCount /\ tmp \in Seq(Effects)
    BY <1>4, BuiltWhole DEF PublishOne, SetterInv
  <2>2. next \in Slots /\ tmp[next] \in Effects BY <2>1 DEF Slots
  <2>3. chainOrder' \in [Slots -> Effects \union {NoEffect}]
    BY <1>4, <2>2 DEF PublishOne, SetterInv
  <2>4. \A k \in 1 .. next : k \in Slots /\ chainOrder'[k] = tmp[k]
    BY <1>4, <2>1, <2>2 DEF PublishOne, SetterInv, Slots
  <2> QED BY <1>4, <2>1, <2>3, <2>4 DEF PublishOne, SetterInv, PublishedWhole, chainVars
<1>5. CASE PublishCount
  <2>1. setterPc = "copy" /\ next > Len(tmp) BY <1>5 DEF PublishCount
  <2>2. Len(tmp) = EfxCount /\ tmp \in Seq(Effects) /\ WholeChain(tmp, EfxCount)
    BY <2>1, BuiltWhole DEF SetterInv
  <2>3. \A k \in 1 .. EfxCount : chainOrder[k] = tmp[k]
    BY <2>1, <2>2 DEF SetterInv
  <2>4. WholeChain(chainOrder, EfxCount) BY <2>2, <2>3, WholeCopied
  <2> QED BY <1>5, <2>2, <2>4 DEF PublishCount, SetterInv, PublishedWhole
<1>6. CASE LockToCopy
  BY <1>6 DEF LockToCopy, SetterInv, PublishedWhole, chainVars, setterVars
<1>7. CASE UnlockCopy
  BY <1>7 DEF UnlockCopy, SetterInv, AudioInv, PublishedWhole, chainVars, setterVars
<1>8. CASE UNCHANGED <<chainVars, sharedVars, setterVars>>
  BY <1>8 DEF SetterInv, PublishedWhole, chainVars, sharedVars, setterVars
<1> QED
  BY <1>1, <1>2, <1>3, <1>4, <1>5, <1>6, <1>7, <1>8
  DEF Next, SetterStep, AudioStep, vars, CopyOne, DispatchOne, EndBlock

LEMMA AudioStays == BuildInv /\ SetterInv /\ AudioInv /\ [Next]_vars => AudioInv'
<1> SUFFICES ASSUME BuildInv, SetterInv, AudioInv, [Next]_vars PROVE AudioInv'
  OBVIOUS
<1> USE EfxAssumption
<1>1. CASE UNCHANGED <<sharedVars, audioVars>>
  BY <1>1 DEF AudioInv, BlockRunsWholeChain, sharedVars, audioVars
<1>2. CASE LockToPublish
  BY <1>2 DEF LockToPublish, AudioInv, BlockRunsWholeChain, audioVars
<1>3. CASE PublishOne
  BY <1>3 DEF PublishOne, SetterInv, AudioInv, BlockRunsWholeChain, audioVars
<1>4. CASE PublishCount
  BY <1>4 DEF PublishCount, SetterInv, AudioInv, BlockRunsWholeChain, audioVars
<1>5. CASE LockToCopy
  BY <1>5 DEF LockToCopy, SetterInv, AudioInv, BlockRunsWholeChain
<1>6. CASE CopyOne
  <2>1. at \in 1 .. EfxCount /\ at \in Slots
    BY <1>6 DEF CopyOne, AudioInv, Slots
  <2>2. chainOrder[at] \in Effects \union {NoEffect} BY <2>1 DEF SetterInv
  <2>3. chain' \in [Slots -> Effects \union {NoEffect}]
    BY <1>6, <2>1, <2>2 DEF CopyOne, AudioInv
  <2>4. \A k \in 1 .. at : k \in Slots /\ chain'[k] = chainOrder[k]
    BY <1>6, <2>1 DEF CopyOne, AudioInv, Slots
  <2> QED
    BY <1>6, <2>1, <2>3, <2>4 DEF CopyOne, AudioInv, BlockRunsWholeChain, sharedVars
<1>7. CASE UnlockCopy
  <2>1. audioPc = "copy" /\ at > count /\ count = EfxCount /\ chainCount = EfxCount
    BY <1>7 DEF UnlockCopy, AudioInv
  <2>2. WholeChain(chainOrder, EfxCount)
    BY <2>1 DEF AudioInv, SetterInv, PublishedWhole
  <2>3. \A k \in 1 .. EfxCount : chain[k] = chainOrder[k] BY <2>1 DEF AudioInv
  <2>4. WholeChain(chain, EfxCount) BY <2>2, <2>3, WholeCopied
  <2> QED BY <1>7, <2>1, <2>4 DEF UnlockCopy, AudioInv, BlockRunsWholeChain
<1>8. CASE DispatchOne \/ EndBlock
  BY <1>8 DEF DispatchOne, EndBlock, AudioInv, BlockRunsWholeChain, sharedVars
<1> QED
  BY <1>1, <1>2, <1>3, <1>4, <1>5, <1>6, <1>7, <1>8
  DEF Next, SetterStep, AudioStep, vars, SetChainOrder, Build

LEMMA SettersStart == EngineInit => SetterInv /\ AudioInv
  BY EfxAssumption
  DEF EngineInit, SetterInv, AudioInv, PublishedWhole, BlockRunsWholeChain, Slots

(* A block is dispatched through every effect once, in the old order or the  *)
(* new one, however the settings thread's writes of jdsp->chainOrder and the *)
(* audio thread's copy of it (JamesDSPProcess) fall between each other.      *)
THEOREM BlocksRunWholeChains == EngineSpec => []BlockRunsWholeChain
<1>1. EngineInit => SetterInv /\ AudioInv BY SettersStart
<1>2. AudioInv => BlockRunsWholeChain BY DEF AudioInv
<1> QED
  BY <1>1, <1>2, BuildStarts, BuildStays, SetterStays, AudioStays, PTL DEF EngineSpec

-----------------------------------------------------------------------------
(* Lists and places in them.                                                *)
(* Where an element is in a list.                                           *)
Occurs(s, e) == \E k \in 1 .. Len(s) : s[k] = e

FirstAt(s, e, k) == k \in 1 .. Len(s) /\ s[k] = e /\ \A j \in 1 .. k - 1 : s[j] # e

(* Min, which SelectInSeq takes of the places, is the least of them.        *)
LEMMA LeastPlace ==
    ASSUME NEW T, T \subseteq Nat, T # {}
    PROVE  Min(T) \in T /\ \A y \in T : Min(T) <= y
<1> DEFINE less == {ss \in Nat \X Nat : ss[1] < ss[2]}
<1>1. OpToRel(<, Nat) = less
  BY DEF OpToRel
<1>2. IsWellFoundedOn(less, Nat)
  BY <1>1, NatLessThanWellFounded
<1>3. \E x \in T : \A y \in T : ~(<<y, x>> \in less)
  <2> HIDE DEF less
  <2> QED BY <1>2, WFMin
<1>4. PICK x \in T : \A y \in T : ~(<<y, x>> \in less) BY <1>3
<1>5. ASSUME NEW y \in T PROVE x <= y
  <2>1. x \in Nat /\ y \in Nat /\ ~(<<y, x>> \in less) BY <1>4
  <2>2. ~(y < x) BY <2>1
  <2> QED BY <2>1, <2>2
<1> QED BY <1>4, <1>5 DEF Min

LEMMA IndexIsFirst ==
    ASSUME NEW s \in Seq(Int), NEW e
    PROVE  /\ IndexOf(s, e) \in 0 .. Len(s)
           /\ IndexOf(s, e) = 0 <=> ~Occurs(s, e)
           /\ IndexOf(s, e) # 0 => FirstAt(s, e, IndexOf(s, e))
<1> DEFINE I == {k \in 1 .. Len(s) : s[k] = e}
<1>1. IndexOf(s, e) = IF I # {} THEN Min(I) ELSE 0
  BY DEF IndexOf, SelectInSeq
<1>2. I \subseteq Nat /\ Len(s) \in Nat OBVIOUS
<1>3. CASE I = {} BY <1>1, <1>2, <1>3 DEF Occurs
<1>4. CASE I # {}
  <2>1. Min(I) \in I /\ \A y \in I : Min(I) <= y BY <1>2, <1>4, LeastPlace
  <2>2. IndexOf(s, e) = Min(I) BY <1>1, <1>4
  <2>3. \A y \in 1 .. Len(s) : s[y] = e => IndexOf(s, e) <= y BY <2>1, <2>2
  <2>4. IndexOf(s, e) \in 1 .. Len(s) /\ s[IndexOf(s, e)] = e BY <2>1, <2>2
  <2> HIDE DEF I
  <2> QED BY <2>3, <2>4, <1>2, SMTT(30) DEF Occurs, FirstAt
<1> QED BY <1>3, <1>4

(* t is s with x put in at place p.                                         *)
Spliced(s, p, x, t) ==
    /\ t \in Seq(Int) /\ Len(t) = Len(s) + 1
    /\ \A j \in 1 .. Len(s) + 1 :
          t[j] = IF j < p THEN s[j] ELSE IF j = p THEN x ELSE s[j - 1]

LEMMA Inserted ==
    ASSUME NEW s \in Seq(Int), NEW p \in 1 .. Len(s) + 1, NEW e \in Int
    PROVE  Spliced(s, p, e, InsertAt(s, p, e))
<1> DEFINE a == SubSeq(s, 1, p - 1)
           b == SubSeq(s, p, Len(s))
<1>1. a \in Seq(Int) /\ Len(a) = p - 1 /\ \A j \in 1 .. p - 1 : a[j] = s[j]
  BY SubSeqProperties
<1>2. b \in Seq(Int) /\ Len(b) = Len(s) - p + 1
      /\ \A j \in 1 .. Len(s) - p + 1 : b[j] = s[p + j - 1]
  BY SubSeqProperties
<1> HIDE DEF a, b
<1>0. PICK d : d = <<e>> OBVIOUS
<1>3. d \in Seq(Int) /\ Len(d) = 1 /\ d[1] = e BY <1>0
<1>4. /\ a \o d \in Seq(Int) /\ Len(a \o d) = Len(a) + Len(d)
      /\ \A j \in 1 .. Len(a) + Len(d) :
            (a \o d)[j] = IF j <= Len(a) THEN a[j] ELSE d[j - Len(a)]
  BY ONLY <1>1, <1>3, ConcatProperties
<1>5. PICK c : c = a \o d OBVIOUS
<1>6. c \in Seq(Int) /\ Len(c) = p /\ c[p] = e /\ \A j \in 1 .. p - 1 : c[j] = s[j]
  BY <1>1, <1>3, <1>4, <1>5
<1>7. /\ c \o b \in Seq(Int) /\ Len(c \o b) = Len(c) + Len(b)
      /\ \A j \in 1 .. Len(c) + Len(b) :
            (c \o b)[j] = IF j <= Len(c) THEN c[j] ELSE b[j - Len(c)]
  BY ONLY <1>2, <1>6, ConcatProperties
<1>8. PICK t : t = InsertAt(s, p, e) OBVIOUS
<1>9. t = c \o b BY <1>0, <1>5, <1>8 DEF a, b, InsertAt
<1>10. t \in Seq(Int) /\ Len(t) = Len(s) + 1 BY <1>2, <1>6, <1>7, <1>9
<1>11. \A j \in 1 .. Len(s) + 1 : t[j] = IF j <= p THEN c[j] ELSE b[j - p]
  <2>1. Len(c) = p /\ Len(c) + Len(b) = Len(s) + 1 BY <1>2, <1>6
  <2>2. \A j \in 1 .. Len(c) + Len(b) : t[j] = IF j <= Len(c) THEN c[j] ELSE b[j - Len(c)]
    BY <1>7, <1>9, Zenon
  <2> QED BY ONLY <2>1, <2>2, Zenon
<1>12. \A j \in 1 .. Len(s) + 1 :
         t[j] = IF j < p THEN s[j] ELSE IF j = p THEN e ELSE s[j - 1]
  <2> SUFFICES ASSUME NEW j \in 1 .. Len(s) + 1
               PROVE  t[j] = IF j < p THEN s[j] ELSE IF j = p THEN e ELSE s[j - 1]
    OBVIOUS
  <2>1. CASE j <= p BY <2>1, <1>6, <1>11
  <2>2. CASE j > p
    <3>1. j - p \in 1 .. Len(s) - p + 1 BY <2>2
    <3>2. b[j - p] = s[p + (j - p) - 1] BY <3>1, <1>2
    <3> QED BY <2>2, <3>2, <1>11
  <2> QED BY <2>1, <2>2
<1>13. Spliced(s, p, e, t)
  BY <1>10, <1>12, Zenon DEF Spliced
<1> QED BY <1>8, <1>13

(* In the list s some e comes before any f.                                 *)
Before(s, e, f) == \E k \in 1 .. Len(s) : s[k] = e /\ \A j \in 1 .. k : s[j] # f

(* The first a is at k, and the first b right after it.                     *)
NextTo(s, a, b, k) ==
    /\ a # b
    /\ k \in 1 .. Len(s) - 1
    /\ s[k] = a /\ s[k + 1] = b
    /\ \A j \in 1 .. k - 1 : s[j] # a /\ s[j] # b

(* The first b in s comes right after the first a.                          *)
Adjacent(s, a, b) == \E k \in 1 .. Len(s) : NextTo(s, a, b, k)

LEMMA BeforeIsLess ==
    ASSUME NEW s \in Seq(Int), NEW e, NEW f
    PROVE  /\ Occurs(s, f) =>
                 (IndexOf(s, e) # 0 /\ IndexOf(s, e) < IndexOf(s, f) <=> Before(s, e, f))
           /\ Before(s, e, f) => IndexOf(s, e) # 0
<1>1. /\ IndexOf(s, e) \in 0 .. Len(s)
      /\ IndexOf(s, e) = 0 <=> ~Occurs(s, e)
      /\ IndexOf(s, e) # 0 => FirstAt(s, e, IndexOf(s, e))
  BY IndexIsFirst
<1>2. /\ IndexOf(s, f) \in 0 .. Len(s)
      /\ IndexOf(s, f) = 0 <=> ~Occurs(s, f)
      /\ IndexOf(s, f) # 0 => FirstAt(s, f, IndexOf(s, f))
  BY IndexIsFirst
<1>3. PICK m : m = IndexOf(s, e) OBVIOUS
<1>4. PICK n : n = IndexOf(s, f) OBVIOUS
<1>5. m \in Nat /\ n \in Nat /\ Len(s) \in Nat BY <1>1, <1>2, <1>3, <1>4
<1>6. Before(s, e, f) => m # 0 BY <1>1, <1>3 DEF Before, Occurs
<1>7. ASSUME Occurs(s, f), m # 0, m < n PROVE Before(s, e, f)
  <2>1. m \in 1 .. Len(s) /\ s[m] = e BY <1>1, <1>3, <1>7 DEF FirstAt
  <2>2. \A j \in 1 .. n - 1 : s[j] # f BY <1>2, <1>4, <1>5, <1>7 DEF FirstAt
  <2> QED BY <2>1, <2>2, <1>5, <1>7 DEF Before
<1>8. ASSUME Occurs(s, f), Before(s, e, f) PROVE m < n
  <2>1. PICK k \in 1 .. Len(s) : s[k] = e /\ \A j \in 1 .. k : s[j] # f
    BY <1>8 DEF Before
  <2>2. n \in 1 .. Len(s) /\ s[n] = f BY <1>2, <1>4, <1>8 DEF FirstAt
  <2>3. k < n BY <2>1, <2>2
  <2>4. m # 0 /\ \A j \in 1 .. m - 1 : s[j] # e BY <1>1, <1>3, <1>6, <1>8 DEF FirstAt
  <2> QED BY <2>1, <2>3, <2>4, <1>5
<1> QED BY <1>3, <1>4, <1>6, <1>7, <1>8

LEMMA AdjacentIsNext ==
    ASSUME NEW s \in Seq(Int), NEW a, NEW b, Adjacent(s, a, b)
    PROVE  IndexOf(s, b) = IndexOf(s, a) + 1
<1>1. PICK k \in 1 .. Len(s) : NextTo(s, a, b, k) BY DEF Adjacent
<1>2. Occurs(s, a) BY <1>1 DEF Occurs, NextTo
<1>3. Occurs(s, b)
  <2>1. k + 1 \in 1 .. Len(s) /\ s[k + 1] = b BY <1>1 DEF NextTo
  <2> QED BY <2>1 DEF Occurs
<1>4. FirstAt(s, a, IndexOf(s, a)) /\ IndexOf(s, a) \in Nat BY <1>2, IndexIsFirst
<1>5. FirstAt(s, b, IndexOf(s, b)) /\ IndexOf(s, b) \in Nat BY <1>3, IndexIsFirst
<1>6. PICK m \in Nat : m = IndexOf(s, a) BY <1>4
<1>7. PICK n \in Nat : n = IndexOf(s, b) BY <1>5
<1>8. FirstAt(s, a, m) /\ FirstAt(s, b, n) BY <1>4, <1>5, <1>6, <1>7
<1>9. m = k /\ n = k + 1 BY <1>1, <1>8 DEF FirstAt, NextTo
<1> QED BY <1>6, <1>7, <1>9

-----------------------------------------------------------------------------
(* Putting an element into a list.                                          *)
(* Where an entry is put into a list that lacks it.                         *)
Placed(s, entry, t) ==
    \E p \in 1 .. Len(s) + 1 :
        /\ Spliced(s, p, entry[1], t)
        /\ \/ p > 1 /\ FirstAt(s, entry[2], p - 1)
           \/ ~Occurs(s, entry[2]) /\ FirstAt(s, Maximizer, p)

LEMMA PlaceOnePlaces ==
    ASSUME NEW s \in Seq(Int), NEW entry \in Int \X Int, NEW t, t = PlaceOne(s, entry)
    PROVE  \/ t = s /\ Occurs(s, entry[1])
           \/ t = s /\ ~Occurs(s, entry[2]) /\ ~Occurs(s, Maximizer)
           \/ ~Occurs(s, entry[1]) /\ Placed(s, entry, t)
<1>1. PICK id \in Int : id = entry[1] OBVIOUS
<1>2. PICK anchor \in Int : anchor = entry[2] OBVIOUS
<1>3. /\ IndexOf(s, id) = 0 <=> ~Occurs(s, id)
  BY IndexIsFirst
<1>4. /\ IndexOf(s, anchor) \in 0 .. Len(s)
      /\ IndexOf(s, anchor) = 0 <=> ~Occurs(s, anchor)
      /\ IndexOf(s, anchor) # 0 => FirstAt(s, anchor, IndexOf(s, anchor))
  BY IndexIsFirst
<1>5. /\ IndexOf(s, Maximizer) \in 0 .. Len(s)
      /\ IndexOf(s, Maximizer) = 0 <=> ~Occurs(s, Maximizer)
      /\ IndexOf(s, Maximizer) # 0 => FirstAt(s, Maximizer, IndexOf(s, Maximizer))
  BY IndexIsFirst
<1>6. PICK place : place = IndexOf(s, anchor) OBVIOUS
<1>7. PICK maxr : maxr = IndexOf(s, Maximizer) OBVIOUS
<1>8. PICK n \in Nat : n = Len(s) OBVIOUS
<1>9. t = IF Occurs(s, id) THEN s
          ELSE IF place # 0 THEN InsertAt(s, place + 1, id)
          ELSE IF maxr # 0 THEN InsertAt(s, maxr, id) ELSE s
  BY <1>1, <1>2, <1>3, <1>6, <1>7 DEF PlaceOne
<1>10. CASE Occurs(s, id) BY <1>1, <1>9, <1>10
<1>11. CASE ~Occurs(s, id) /\ place # 0
  <2>1. place \in 1 .. n /\ FirstAt(s, anchor, place) BY <1>4, <1>6, <1>8, <1>11
  <2>2. PICK p \in 1 .. Len(s) + 1 : p = place + 1 BY <1>8, <2>1
  <2>a. p > 1 /\ p - 1 = place BY <2>1, <2>2
  <2>3. t = InsertAt(s, p, id) BY <1>9, <1>11, <2>2
  <2>4. Spliced(s, p, id, t) BY <2>3, Inserted
  <2> QED BY <1>1, <1>2, <1>11, <2>a, <2>1, <2>2, <2>4 DEF Placed
<1>12. CASE ~Occurs(s, id) /\ place = 0 /\ maxr # 0
  <2>1. maxr \in 1 .. Len(s) + 1 /\ FirstAt(s, Maximizer, maxr)
    <3>1. maxr \in 0 .. n /\ FirstAt(s, Maximizer, maxr) BY <1>5, <1>7, <1>8, <1>12
    <3> QED BY <1>8, <1>12, <3>1
  <2>2. t = InsertAt(s, maxr, id) /\ ~Occurs(s, anchor) BY <1>4, <1>6, <1>9, <1>12
  <2>3. Spliced(s, maxr, id, t) BY <2>1, <2>2, Inserted
  <2> QED BY <1>1, <1>2, <1>12, <2>1, <2>2, <2>3 DEF Placed
<1>13. CASE ~Occurs(s, id) /\ place = 0 /\ maxr = 0
  BY <1>1, <1>2, <1>4, <1>5, <1>6, <1>7, <1>9, <1>13
<1> QED BY <1>10, <1>11, <1>12, <1>13

(* ... place by place, n the length of s.                                   *)
SplitAt(s, p, x, t, n) ==
    /\ n = Len(s) /\ Len(t) = n + 1
    /\ t[p] = x /\ p \in 1 .. n + 1
    /\ \A j \in 1 .. p - 1 : t[j] = s[j]
    /\ \A j \in p .. n : t[j + 1] = s[j]
    /\ \A j \in p + 1 .. n + 1 : t[j] = s[j - 1]

LEMMA SplicePlaces ==
    ASSUME NEW s \in Seq(Int), NEW p \in 1 .. Len(s) + 1, NEW x, NEW t, Spliced(s, p, x, t)
    PROVE  \E n \in Nat : SplitAt(s, p, x, t, n)
<1>1. Len(s) \in Nat OBVIOUS
<1>2. PICK n \in Nat : n = Len(s) BY <1>1
<1>2a. p \in 1 .. n + 1 BY <1>2
<1>3. /\ Len(t) = n + 1
      /\ \A j \in 1 .. n + 1 :
          t[j] = IF j < p THEN s[j] ELSE IF j = p THEN x ELSE s[j - 1]
  BY <1>2 DEF Spliced
<1>4. t[p] = x /\ p \in 1 .. n + 1 BY <1>2a, <1>3
<1>5. \A j \in 1 .. p - 1 : t[j] = s[j] BY <1>2a, <1>3
<1>6. \A j \in p .. n : t[j + 1] = s[j]
  <2> SUFFICES ASSUME NEW j \in p .. n PROVE t[j + 1] = s[j]
    OBVIOUS
  <2>1. j + 1 \in 1 .. n + 1 /\ ~(j + 1 < p) /\ j + 1 # p /\ (j + 1) - 1 = j BY <1>2a
  <2> QED BY <2>1, <1>3
<1>7. \A j \in p + 1 .. n + 1 : t[j] = s[j - 1] BY <1>2a, <1>3
<1> QED BY <1>1, <1>2, <1>3, <1>4, <1>5, <1>6, <1>7 DEF SplitAt

LEMMA SpliceKeepsOccurs ==
    ASSUME NEW s \in Seq(Int), NEW p \in 1 .. Len(s) + 1, NEW x, NEW t, Spliced(s, p, x, t),
           NEW e
    PROVE  Occurs(t, e) <=> e = x \/ Occurs(s, e)
<1>1. PICK n \in Nat : SplitAt(s, p, x, t, n) BY SplicePlaces
<1> USE DEF SplitAt
<1>3. ASSUME Occurs(t, e) PROVE e = x \/ Occurs(s, e)
  <2>1. PICK j \in 1 .. n + 1 : t[j] = e BY <1>1, <1>3 DEF Occurs
  <2>2. CASE j < p
    <3>1. j \in 1 .. n /\ s[j] = e BY <1>1, <2>1, <2>2
    <3> QED BY <1>1, <3>1 DEF Occurs
  <2>3. CASE j = p BY <1>1, <2>1, <2>3
  <2>4. CASE j > p
    <3>1. j - 1 \in 1 .. n /\ s[j - 1] = e BY <1>1, <2>1, <2>4
    <3> QED BY <1>1, <3>1 DEF Occurs
  <2> QED BY <2>2, <2>3, <2>4
<1>4. ASSUME Occurs(s, e) PROVE Occurs(t, e)
  <2>1. PICK j \in 1 .. n : s[j] = e BY <1>1, <1>4 DEF Occurs
  <2>2. CASE j < p
    <3>1. j \in 1 .. n + 1 /\ t[j] = e BY <1>1, <2>1, <2>2
    <3> QED BY <1>1, <3>1 DEF Occurs
  <2>3. CASE j >= p
    <3>1. j + 1 \in 1 .. n + 1 /\ t[j + 1] = e BY <1>1, <2>1, <2>3
    <3> QED BY <1>1, <3>1 DEF Occurs
  <2> QED BY <2>2, <2>3
<1>5. Occurs(t, x) BY <1>1 DEF Occurs
<1> QED BY <1>3, <1>4, <1>5

LEMMA SpliceKeepsBefore ==
    ASSUME NEW s \in Seq(Int), NEW p \in 1 .. Len(s) + 1, NEW x, NEW t, Spliced(s, p, x, t),
           NEW e, NEW f, f # x, Before(s, e, f)
    PROVE  Before(t, e, f)
<1>1. PICK n \in Nat : SplitAt(s, p, x, t, n) BY SplicePlaces
<1> USE DEF SplitAt
<1>3. PICK k \in 1 .. n : s[k] = e /\ \A j \in 1 .. k : s[j] # f BY <1>1 DEF Before
<1>4. CASE k < p
  <2>1. k \in 1 .. n + 1 /\ t[k] = e /\ \A j \in 1 .. k : t[j] # f
    BY <1>1, <1>3, <1>4
  <2> QED BY <1>1, <2>1 DEF Before
<1>5. CASE k >= p
  <2>1. k + 1 \in 1 .. n + 1 /\ t[k + 1] = e BY <1>1, <1>3, <1>5
  <2>2. ASSUME NEW j \in 1 .. k + 1 PROVE t[j] # f
    <3>1. CASE j < p BY <1>1, <1>3, <1>5, <3>1
    <3>2. CASE j = p BY <1>1, <3>2
    <3>3. CASE j > p
      <4>1. j - 1 \in 1 .. k /\ t[j] = s[j - 1] BY <1>1, <3>3
      <4> QED BY <4>1, <1>3
    <3> QED BY <3>1, <3>2, <3>3
  <2> QED BY <1>1, <2>1, <2>2 DEF Before
<1> QED BY <1>4, <1>5

(* What is put in elsewhere does not come between two neighbours.           *)
LEMMA SpliceKeepsAdjacent ==
    ASSUME NEW s \in Seq(Int), NEW p \in 1 .. Len(s) + 1, NEW x, NEW t, Spliced(s, p, x, t),
           NEW a, NEW b, a # x, b # x, Adjacent(s, a, b),
           p > 1 => s[p - 1] # a \/ (p \in 1 .. Len(s) /\ s[p] # b)
    PROVE  Adjacent(t, a, b)
<1>1. PICK n \in Nat : SplitAt(s, p, x, t, n) BY SplicePlaces
<1> USE DEF SplitAt
<1>3. PICK k \in 1 .. n : NextTo(s, a, b, k) BY <1>1 DEF Adjacent
<1>4. k + 1 \in 1 .. n /\ p # k + 1 BY <1>1, <1>3 DEF NextTo
<1>5. CASE p > k + 1
  <2>1. k \in 1 .. n + 1 /\ NextTo(t, a, b, k) BY <1>1, <1>3, <1>4, <1>5 DEF NextTo
  <2> QED BY <1>1, <2>1 DEF Adjacent
<1>6. CASE p <= k
  <2>1. t[k + 1] = a /\ t[k + 1 + 1] = b /\ k + 1 \in 1 .. n
    BY <1>1, <1>3, <1>4, <1>6 DEF NextTo
  <2>2. ASSUME NEW j \in 1 .. k PROVE t[j] # a /\ t[j] # b
    <3>1. CASE j < p
      <4>1. j \in 1 .. k - 1 /\ t[j] = s[j] BY <1>1, <1>6, <3>1
      <4> QED BY <4>1, <1>3 DEF NextTo
    <3>2. CASE j = p BY <1>1, <3>2
    <3>3. CASE j > p
      <4>1. j - 1 \in 1 .. k - 1 /\ t[j] = s[j - 1] BY <1>1, <3>3
      <4> QED BY <4>1, <1>3 DEF NextTo
    <3> QED BY <3>1, <3>2, <3>3
  <2>3. a # b BY <1>3 DEF NextTo
  <2>4. NextTo(t, a, b, k + 1) BY <1>1, <2>1, <2>2, <2>3 DEF NextTo
  <2> QED BY <1>1, <2>1, <2>4 DEF Adjacent
<1> QED BY <1>4, <1>5, <1>6

-----------------------------------------------------------------------------
(* The order: ChainOrder.complete.                                          *)
(* What completing the saved order keeps.                                   *)
OrderInv ==
    /\ saved \in SavedOrders \union {<<>>, V4aChainOrder}
    /\ order \in Seq(Int)
    /\ saved # <<>> =>
          /\ \A e : Occurs(saved, e) => Occurs(order, e)
          /\ \A e, f : Occurs(saved, f) /\ Before(saved, e, f) => Before(order, e, f)
          /\ Len(order) <= Len(saved) + Len(PlaceAfter)
    /\ pc = "complete" =>
          /\ saved # <<>>
          /\ i \in 1 .. Len(PlaceAfter) + 1
          /\ Len(order) <= Len(saved) + i - 1

LEMMA SavedIsList ==
    ASSUME NEW s \in SavedOrders \union {<<>>, V4aChainOrder} PROVE s \in Seq(Int)
<1>1. <<>> \in Seq(Int) OBVIOUS
<1>2. SavedOrders \subseteq Seq(Int) /\ V4aChainOrder \in Seq(Int)
  BY SavedAssumption
<1> QED BY ONLY <1>1, <1>2, s \in SavedOrders \union {<<>>, V4aChainOrder}

LEMMA EntryIsPair ==
    ASSUME NEW n \in 1 .. Len(PlaceAfter)
    PROVE  /\ PlaceAfter[n] \in Int \X Int
           /\ PlaceAfter[n][1] \in Effects /\ PlaceAfter[n][2] \in Effects
<1>1. PlaceAfter[n] \in Effects \X Effects BY PlaceAfterAssumption
<1>2. Effects \subseteq Int BY EfxAssumption DEF Effects
<1> QED BY <1>1, <1>2

(* One round of the completion.                                             *)
LEMMA RoundPlaces ==
    ASSUME OrderInv, CompleteOne
    PROVE  /\ i \in 1 .. Len(PlaceAfter)
           /\ \/ order' = order /\ Occurs(order, PlaceAfter[i][1])
              \/ /\ order' = order
                 /\ ~Occurs(order, PlaceAfter[i][2]) /\ ~Occurs(order, Maximizer)
              \/ /\ ~Occurs(order, PlaceAfter[i][1])
                 /\ Placed(order, PlaceAfter[i], order')
<1>1. i \in 1 .. Len(PlaceAfter) /\ order \in Seq(Int)
  <2>1. Len(PlaceAfter) \in Nat BY PlaceAfterAssumption
  <2> QED BY <2>1 DEF CompleteOne, OrderInv
<1>2. order' = PlaceOne(order, PlaceAfter[i]) BY DEF CompleteOne
<1>3. PICK entry \in Int \X Int : entry = PlaceAfter[i] BY <1>1, EntryIsPair
<1>4. PICK t : t = PlaceOne(order, entry) OBVIOUS
<1>5. \/ t = order /\ Occurs(order, entry[1])
      \/ t = order /\ ~Occurs(order, entry[2]) /\ ~Occurs(order, Maximizer)
      \/ ~Occurs(order, entry[1]) /\ Placed(order, entry, t)
  BY <1>1, <1>4, PlaceOnePlaces
<1>6. order' = t BY <1>2, <1>3, <1>4
<1> QED BY <1>1, <1>3, <1>5, <1>6

LEMMA PlacedKeeps ==
    ASSUME NEW s \in Seq(Int), NEW entry, NEW t, Placed(s, entry, t)
    PROVE  /\ t \in Seq(Int) /\ Len(t) = Len(s) + 1
           /\ \A e : Occurs(t, e) <=> e = entry[1] \/ Occurs(s, e)
           /\ \A e, f : f # entry[1] /\ Before(s, e, f) => Before(t, e, f)
<1>1. PICK p \in 1 .. Len(s) + 1 : Spliced(s, p, entry[1], t) BY DEF Placed
<1>2. t \in Seq(Int) /\ Len(t) = Len(s) + 1 BY <1>1 DEF Spliced
<1>3. ASSUME NEW e PROVE Occurs(t, e) <=> e = entry[1] \/ Occurs(s, e)
  BY <1>1, SpliceKeepsOccurs
<1>4. ASSUME NEW e, NEW f, f # entry[1], Before(s, e, f) PROVE Before(t, e, f)
  BY <1>1, <1>4, SpliceKeepsBefore
<1> QED BY <1>2, <1>3, <1>4

LEMMA OrderStays == OrderInv /\ BuildOrder => OrderInv'
<1> SUFFICES ASSUME OrderInv, BuildOrder PROVE OrderInv'
  OBVIOUS
<1>0. Len(PlaceAfter) \in Nat BY PlaceAfterAssumption
<1>1. CASE CompleteOne
  <2>1. /\ i \in 1 .. Len(PlaceAfter) /\ i' = i + 1 /\ saved' = saved /\ pc' = pc
        /\ saved # <<>> /\ pc = "complete"
    BY <1>1, RoundPlaces DEF CompleteOne, OrderInv
  <2>2. /\ order \in Seq(Int) /\ Len(order) \in Nat /\ Len(saved) \in Nat
        /\ saved \in SavedOrders \union {<<>>, V4aChainOrder}
    <3>1. saved \in Seq(Int) BY SavedIsList DEF OrderInv
    <3> QED BY <3>1 DEF OrderInv
  <2>3. CASE order' = order BY <2>1, <2>2, <2>3, <1>0 DEF OrderInv
  <2>4. CASE /\ ~Occurs(order, PlaceAfter[i][1])
             /\ Placed(order, PlaceAfter[i], order')
    <3>1. PICK x : x = PlaceAfter[i][1] OBVIOUS
    <3>2. PICK t : t = order' OBVIOUS
    <3>3. /\ t \in Seq(Int) /\ Len(t) = Len(order) + 1
          /\ \A e : Occurs(t, e) <=> e = x \/ Occurs(order, e)
          /\ \A e, f : f # x /\ Before(order, e, f) => Before(t, e, f)
      BY <2>2, <2>4, <3>1, <3>2, PlacedKeeps
    <3>4. ~Occurs(order, x) /\ ~Occurs(saved, x) BY <2>1, <2>4, <3>1 DEF OrderInv
    <3>5. \A e : Occurs(saved, e) => Occurs(t, e) BY <2>1, <3>3 DEF OrderInv
    <3>6. \A e, f : Occurs(saved, f) /\ Before(saved, e, f) => Before(t, e, f)
      BY <2>1, <3>3, <3>4 DEF OrderInv
    <3>7. Len(t) <= Len(saved) + (i + 1) - 1 /\ Len(t) <= Len(saved) + Len(PlaceAfter)
      BY <1>0, <2>1, <2>2, <3>3 DEF OrderInv
    <3>8. i + 1 \in 1 .. Len(PlaceAfter) + 1 BY <1>0, <2>1
    <3> QED BY <2>1, <2>2, <3>2, <3>3, <3>5, <3>6, <3>7, <3>8 DEF OrderInv
  <2> QED BY <1>1, <2>3, <2>4, RoundPlaces
<1>2. CASE CompleteEnds BY <1>2 DEF CompleteEnds, OrderInv
<1>3. CASE ScanOne \/ ScanEnds \/ AppendOne \/ AppendEnds
  BY <1>3 DEF ScanOne, ScanEnds, AppendOne, AppendEnds, OrderInv
<1> QED BY <1>1, <1>2, <1>3 DEF BuildOrder

LEMMA OrderStarts ==
    ASSUME NEW s \in SavedOrders \union {<<>>}, StartWith(s) PROVE OrderInv'
<1>1. s \in Seq(Int) BY SavedIsList
<1>2. Len(PlaceAfter) \in Nat BY PlaceAfterAssumption
<1>3. CASE s = <<>> BY <1>3, SavedAssumption DEF StartWith, OrderInv
<1>4. CASE s # <<>>
  <2>1. Len(s) <= Len(s) + Len(PlaceAfter) /\ Len(s) <= Len(s) + 1 - 1
    BY <1>1, <1>2
  <2>2. 1 \in 1 .. Len(PlaceAfter) + 1 BY <1>2
  <2> QED BY <1>1, <1>4, <2>1, <2>2 DEF StartWith, OrderInv
<1> QED BY <1>3, <1>4

LEMMA OrderStartsV4a == StartWithV4a => OrderInv'
<1> SUFFICES ASSUME StartWithV4a PROVE OrderInv'
  OBVIOUS
<1>1. PICK s : s = V4aChainOrder OBVIOUS
<1>2. s \in Seq(Int) BY <1>1, SavedAssumption
<1>3. Len(s) <= Len(s) + Len(PlaceAfter)
  <2>1. Len(PlaceAfter) \in Nat BY PlaceAfterAssumption
  <2> QED BY <1>2, <2>1
<1>4. saved' = s /\ order' = s /\ pc' = "scan" BY <1>1 DEF StartWithV4a
<1>5. saved' \in SavedOrders \union {<<>>, V4aChainOrder} BY <1>1, <1>4
<1> QED BY <1>2, <1>3, <1>4, <1>5 DEF OrderInv

-----------------------------------------------------------------------------
(* The scan of the order.                                                   *)
(* What the scan has found of the order, up to its entry n.                 *)
ScannedTo(n) ==
    /\ n \in 0 .. Len(order)
    /\ \A e \in Effects : Occurs(tmp, e) <=> \E k \in 1 .. n : order[k] = e
    /\ \A e, f \in Effects : \A k \in 1 .. n :
          order[k] = e /\ (\A j \in 1 .. k : order[j] # f) => Before(tmp, e, f)
    /\ \A a, b \in Effects : \A k \in 1 .. n :
          NextTo(order, a, b, k) =>
              IF k < n THEN Adjacent(tmp, a, b)
              ELSE Len(tmp) > 0 /\ tmp[Len(tmp)] = a

ScanInv ==
    /\ pc = "scan" => i \in Nat /\ ScannedTo(i - 1)
    /\ pc \in {"append", "done"} /\ saved # <<>> /\ Len(order) <= EfxMax =>
          /\ \A e, f \in Effects :
                Occurs(order, f) /\ Before(order, e, f) => Before(tmp, e, f)
          /\ \A a, b \in Effects : Adjacent(order, a, b) => Adjacent(tmp, a, b)

LEMMA Appended ==
    ASSUME NEW s \in Seq(Int), NEW x \in Int, NEW t, t = Append(s, x)
    PROVE  /\ t \in Seq(Int) /\ Len(t) = Len(s) + 1 /\ t[Len(t)] = x
           /\ \A j \in 1 .. Len(s) : t[j] = s[j]
  OBVIOUS

LEMMA AppendKeeps ==
    ASSUME NEW s \in Seq(Int), NEW x \in Int, NEW t, t = Append(s, x)
    PROVE  /\ \A e : Occurs(t, e) <=> e = x \/ Occurs(s, e)
           /\ \A e, f : Before(s, e, f) => Before(t, e, f)
           /\ \A a, b : Adjacent(s, a, b) => Adjacent(t, a, b)
<1>1. /\ t \in Seq(Int) /\ Len(t) = Len(s) + 1 /\ t[Len(t)] = x
      /\ \A j \in 1 .. Len(s) : t[j] = s[j]
  BY Appended
<1>2. PICK n \in Nat : n = Len(s) OBVIOUS
<1>3. Len(t) = n + 1 /\ t[n + 1] = x /\ \A j \in 1 .. n : t[j] = s[j] BY <1>1, <1>2
<1>4. ASSUME NEW e PROVE Occurs(t, e) <=> e = x \/ Occurs(s, e)
  <2>1. Occurs(t, e) <=> \E k \in 1 .. n + 1 : t[k] = e BY <1>3 DEF Occurs
  <2>2. Occurs(s, e) <=> \E k \in 1 .. n : s[k] = e BY <1>2 DEF Occurs
  <2> QED BY <2>1, <2>2, <1>3
<1>5. ASSUME NEW e, NEW f, Before(s, e, f) PROVE Before(t, e, f)
  <2>1. PICK k \in 1 .. n : s[k] = e /\ \A j \in 1 .. k : s[j] # f
    BY <1>2, <1>5 DEF Before
  <2>2. k \in 1 .. n + 1 /\ t[k] = e /\ \A j \in 1 .. k : t[j] # f BY <1>3, <2>1
  <2> QED BY <1>3, <2>2 DEF Before
<1>6. ASSUME NEW a, NEW b, Adjacent(s, a, b) PROVE Adjacent(t, a, b)
  <2>1. PICK k \in 1 .. n : NextTo(s, a, b, k) BY <1>2, <1>6 DEF Adjacent
  <2>2. /\ a # b /\ k \in 1 .. n - 1 /\ s[k] = a /\ s[k + 1] = b
        /\ \A j \in 1 .. k - 1 : s[j] # a /\ s[j] # b
    BY <1>2, <2>1 DEF NextTo
  <2>3. t[k] = a /\ t[k + 1] = b /\ \A j \in 1 .. k - 1 : t[j] # a /\ t[j] # b
    BY <1>3, <2>2
  <2>4. k \in 1 .. n + 1 /\ k \in 1 .. (n + 1) - 1 BY <2>2
  <2>5. NextTo(t, a, b, k) BY <1>3, <2>2, <2>3, <2>4 DEF NextTo
  <2> QED BY <1>3, <2>4, <2>5 DEF Adjacent
<1> QED BY <1>4, <1>5, <1>6

(* An effect not met before goes behind all others.                         *)
LEMMA AppendComesLast ==
    ASSUME NEW s \in Seq(Int), NEW x \in Int, NEW t, t = Append(s, x), ~Occurs(s, x)
    PROVE  /\ \A f : f # x /\ ~Occurs(s, f) => Before(t, x, f)
           /\ \A a : a # x /\ Len(s) > 0 /\ s[Len(s)] = a /\ IsInjective(s)
                         => Adjacent(t, a, x)
<1>1. /\ t \in Seq(Int) /\ Len(t) = Len(s) + 1 /\ t[Len(t)] = x
      /\ \A j \in 1 .. Len(s) : t[j] = s[j]
  BY Appended
<1>2. PICK n \in Nat : n = Len(s) OBVIOUS
<1>3. Len(t) = n + 1 /\ t[n + 1] = x /\ \A j \in 1 .. n : t[j] = s[j] BY <1>1, <1>2
<1>4. \A j \in 1 .. n : s[j] # x BY <1>2 DEF Occurs
<1>5. ASSUME NEW f, f # x, ~Occurs(s, f) PROVE Before(t, x, f)
  <2>1. \A j \in 1 .. n : s[j] # f BY <1>2, <1>5 DEF Occurs
  <2>2. n + 1 \in 1 .. n + 1 /\ \A j \in 1 .. n + 1 : t[j] # f
    BY <1>3, <1>5, <2>1
  <2> QED BY <1>3, <2>2 DEF Before
<1>6. ASSUME NEW a, a # x, n > 0, s[n] = a, IsInjective(s) PROVE Adjacent(t, a, x)
  <2>1. DOMAIN s = 1 .. n BY <1>2
  <2>2. \A j \in 1 .. n - 1 : s[j] # a BY <1>6, <2>1 DEF IsInjective
  <2>3. /\ n \in 1 .. (n + 1) - 1 /\ n \in 1 .. n + 1
        /\ t[n] = a /\ \A j \in 1 .. n - 1 : t[j] # a /\ t[j] # x
    BY <1>3, <1>4, <1>6, <2>2
  <2>4. NextTo(t, a, x, n) BY <1>3, <1>6, <2>3 DEF NextTo
  <2> QED BY <1>3, <2>3, <2>4 DEF Adjacent
<1> QED BY <1>2, <1>5, <1>6

LEMMA EffectsAreInts == ASSUME NEW s \in Seq(Effects) PROVE s \in Seq(Int)
<1>1. Effects \subseteq Int BY EfxAssumption DEF Effects
<1> QED BY <1>1, SeqMonotonic

LEMMA RangeOccurs ==
    ASSUME NEW s, Distinct(s), NEW e PROVE e \in Range(s) <=> Occurs(s, e)
<1>1. DOMAIN s = 1 .. Len(s) BY DEF Distinct
<1> QED BY <1>1 DEF Range, Occurs

(* One round of the scan.                                                   *)
LEMMA ScanRound ==
    ASSUME Distinct(tmp), Range(tmp) = seen, order \in Seq(Int), NEW n \in Nat,
           ScannedTo(n), n + 1 <= Len(order), order' = order,
           tmp' = IF order[n + 1] \in Effects \ seen THEN Append(tmp, order[n + 1]) ELSE tmp
    PROVE  ScannedTo(n + 1)'
<1>0. Effects \subseteq Int BY EfxAssumption DEF Effects
<1>1. PICK x : x = order[n + 1] OBVIOUS
<1>2. PICK t : t = tmp' OBVIOUS
<1>3. tmp \in Seq(Int)
  <2>1. tmp \in Seq(Effects) BY DEF Distinct
  <2> QED BY <2>1, EffectsAreInts
<1>4. \A e : e \in seen <=> Occurs(tmp, e) BY RangeOccurs
<1>5. CASE x \in Effects \ seen
  <2>1. t = Append(tmp, x) /\ x \in Int BY <1>0, <1>1, <1>2, <1>5
  <2>2. /\ \A e : Occurs(t, e) <=> e = x \/ Occurs(tmp, e)
        /\ \A e, f : Before(tmp, e, f) => Before(t, e, f)
        /\ \A a, b : Adjacent(tmp, a, b) => Adjacent(t, a, b)
    BY <1>3, <2>1, AppendKeeps
  <2>3. /\ \A f : f # x /\ ~Occurs(tmp, f) => Before(t, x, f)
        /\ \A a : a # x /\ Len(tmp) > 0 /\ tmp[Len(tmp)] = a /\ IsInjective(tmp)
                      => Adjacent(t, a, x)
    BY <1>3, <1>4, <1>5, <2>1, AppendComesLast
  <2>4. Len(t) > 0 /\ t[Len(t)] = x BY <1>3, <2>1
  <2>5. \A e \in Effects : Occurs(t, e) <=> \E k \in 1 .. n + 1 : order[k] = e
    BY <2>2, <1>1 DEF ScannedTo
  <2>6. ASSUME NEW e \in Effects, NEW f \in Effects, NEW k \in 1 .. n + 1,
               order[k] = e, \A j \in 1 .. k : order[j] # f
        PROVE  Before(t, e, f)
    <3>1. CASE k \in 1 .. n BY <3>1, <2>2, <2>6 DEF ScannedTo
    <3>2. CASE k = n + 1
      <4>1. ~Occurs(tmp, f) /\ f # x BY <3>2, <2>6, <1>1 DEF ScannedTo
      <4> QED BY <3>2, <4>1, <2>3, <2>6, <1>1
    <3> QED BY <3>1, <3>2
  <2>7. ASSUME NEW a \in Effects, NEW b \in Effects, NEW k \in 1 .. n + 1,
               NextTo(order, a, b, k)
        PROVE  IF k < n + 1 THEN Adjacent(t, a, b) ELSE Len(t) > 0 /\ t[Len(t)] = a
    <3>1. CASE k < n
      <4>1. k \in 1 .. n BY <3>1
      <4>2. Adjacent(tmp, a, b) BY <3>1, <4>1, <2>7 DEF ScannedTo
      <4> QED BY <3>1, <4>2, <2>2
    <3>2. CASE k = n
      <4>1. k \in 1 .. n BY <3>2
      <4>2. Len(tmp) > 0 /\ tmp[Len(tmp)] = a BY <3>2, <4>1, <2>7 DEF ScannedTo
      <4>3. b = x /\ a # b BY <3>2, <2>7, <1>1 DEF NextTo
      <4>4. Adjacent(t, a, b) BY <4>2, <4>3, <2>3 DEF Distinct
      <4> QED BY <3>2, <4>4
    <3>3. CASE k = n + 1
      <4>1. a = x BY <3>3, <2>7, <1>1 DEF NextTo
      <4> QED BY <3>3, <4>1, <2>4
    <3> QED BY <3>1, <3>2, <3>3
  <2>8. n + 1 \in 0 .. Len(order) OBVIOUS
  <2> QED BY <2>5, <2>6, <2>7, <2>8, <1>2 DEF ScannedTo
<1>6. CASE x \notin Effects \ seen
  <2>1. t = tmp BY <1>1, <1>2, <1>6
  <2>2. x \in Effects => \E k \in 1 .. n : order[k] = x BY <1>4, <1>6 DEF ScannedTo
  <2>5. \A e \in Effects : Occurs(t, e) <=> \E k \in 1 .. n + 1 : order[k] = e
    BY <2>1, <2>2, <1>1 DEF ScannedTo
  <2>6. ASSUME NEW e \in Effects, NEW f \in Effects, NEW k \in 1 .. n + 1,
               order[k] = e, \A j \in 1 .. k : order[j] # f
        PROVE  Before(t, e, f)
    <3>1. CASE k \in 1 .. n BY <3>1, <2>1, <2>6 DEF ScannedTo
    <3>2. CASE k = n + 1
      <4>1. PICK m \in 1 .. n : order[m] = e BY <3>2, <2>2, <2>6, <1>1
      <4>2. \A j \in 1 .. m : order[j] # f BY <3>2, <2>6
      <4> QED BY <4>1, <4>2, <2>1 DEF ScannedTo
    <3> QED BY <3>1, <3>2
  <2>7. ASSUME NEW a \in Effects, NEW b \in Effects, NEW k \in 1 .. n + 1,
               NextTo(order, a, b, k)
        PROVE  IF k < n + 1 THEN Adjacent(t, a, b) ELSE Len(t) > 0 /\ t[Len(t)] = a
    <3>1. CASE k < n
      <4>1. k \in 1 .. n BY <3>1
      <4>2. Adjacent(tmp, a, b) BY <3>1, <4>1, <2>7 DEF ScannedTo
      <4> QED BY <3>1, <4>2, <2>1
    <3>2. CASE k = n
      <4>1. b = x BY <3>2, <2>7, <1>1 DEF NextTo
      <4>2. \A j \in 1 .. n : order[j] # b BY <3>2, <2>7 DEF NextTo
      <4> QED BY <4>1, <4>2, <2>2
    <3>3. CASE k = n + 1
      <4>1. a = x BY <3>3, <2>7, <1>1 DEF NextTo
      <4>2. \A j \in 1 .. n : order[j] # a BY <3>3, <2>7 DEF NextTo
      <4> QED BY <4>1, <4>2, <2>2
    <3> QED BY <3>1, <3>2, <3>3
  <2>8. n + 1 \in 0 .. Len(order) OBVIOUS
  <2> QED BY <2>5, <2>6, <2>7, <2>8, <1>2 DEF ScannedTo
<1> QED BY <1>5, <1>6

(* When the scan ends the order is used up, or every effect was found.      *)
LEMMA ScanFinds ==
    ASSUME BuildInv, OrderInv, ScanInv, ScanEnds, Len(order) <= EfxMax
    PROVE  /\ \A e, f \in Effects :
                 Occurs(order, f) /\ Before(order, e, f) => Before(tmp, e, f)
           /\ \A a, b \in Effects : Adjacent(order, a, b) => Adjacent(tmp, a, b)
<1> USE EfxAssumption
<1>1. PICK n \in Nat : n = i - 1 /\ ScannedTo(n) /\ n <= Len(order)
  BY DEF ScanEnds, ScanInv, ScannedTo
<1>2. PICK l \in Nat : l = Len(order) BY DEF OrderInv
<1>3. n = l \/ \A e \in Effects : \E k \in 1 .. n : order[k] = e
  <2>1. n = l \/ Len(tmp) >= EfxMax
    BY <1>1, <1>2, EfxAssumption DEF ScanEnds, InScan, BuildInv, Distinct, ScanInv
  <2>2. Distinct(tmp) BY DEF BuildInv
  <2>3. Len(tmp) \in 0 .. EfxCount /\ (Len(tmp) = EfxCount <=> Range(tmp) = Effects)
    BY <2>2, FullIsChain
  <2>4. ASSUME Len(tmp) >= EfxMax, NEW e \in Effects PROVE \E k \in 1 .. n : order[k] = e
    <3>1. e \in Range(tmp) BY <2>3, <2>4
    <3>2. Occurs(tmp, e) BY <2>2, <3>1, RangeOccurs
    <3> QED BY <1>1, <3>2 DEF ScannedTo
  <2> QED BY <2>1, <2>4
<1>4. ASSUME NEW e \in Effects, NEW f \in Effects, Occurs(order, f), Before(order, e, f)
      PROVE  Before(tmp, e, f)
  <2>1. PICK k \in 1 .. l : order[k] = e /\ \A j \in 1 .. k : order[j] # f
    BY <1>2, <1>4 DEF Before
  <2>2. k <= n
    <3>1. CASE n = l BY <3>1
    <3>2. CASE \A x \in Effects : \E m \in 1 .. n : order[m] = x
      <4>1. PICK m \in 1 .. n : order[m] = f BY <3>2
      <4> QED BY <2>1, <4>1
    <3> QED BY <3>1, <3>2, <1>3
  <2>3. k \in 1 .. n BY <2>2
  <2> QED BY <2>1, <2>3, <1>1 DEF ScannedTo
<1>5. ASSUME NEW a \in Effects, NEW b \in Effects, Adjacent(order, a, b)
      PROVE  Adjacent(tmp, a, b)
  <2>1. PICK k \in 1 .. l : NextTo(order, a, b, k) BY <1>2, <1>5 DEF Adjacent
  <2>2. /\ k \in 1 .. l - 1 /\ a # b /\ order[k] = a
        /\ \A j \in 1 .. k - 1 : order[j] # b
    BY <1>2, <2>1 DEF NextTo
  <2>3. k < n
    <3>1. CASE n = l BY <3>1, <2>2
    <3>2. CASE \A x \in Effects : \E m \in 1 .. n : order[m] = x
      <4>1. PICK m \in 1 .. n : order[m] = b BY <3>2
      <4> QED BY <2>2, <4>1
    <3> QED BY <3>1, <3>2, <1>3
  <2>4. k \in 1 .. n BY <2>3
  <2> QED BY <2>1, <2>3, <2>4, <1>1 DEF ScannedTo
<1> QED BY <1>4, <1>5

LEMMA NothingScanned ==
    ASSUME order' \in Seq(Int), tmp' = <<>> PROVE ScannedTo(0)'
<1>1. \A e : ~Occurs(tmp', e) BY DEF Occurs
<1>2. 0 \in 0 .. Len(order') OBVIOUS
<1> QED BY <1>1, <1>2 DEF ScannedTo

LEMMA ScanStays == BuildInv /\ OrderInv /\ ScanInv /\ BuildOrder => ScanInv'
<1> SUFFICES ASSUME BuildInv, OrderInv, ScanInv, BuildOrder PROVE ScanInv'
  OBVIOUS
<1>1. CASE CompleteOne BY <1>1 DEF CompleteOne, ScanInv
<1>2. CASE CompleteEnds
  <2>1. pc = "complete" /\ pc' = "scan" /\ i' = 1 /\ order' = order /\ tmp' = tmp
    BY <1>2 DEF CompleteEnds
  <2>2. order' \in Seq(Int) /\ tmp' = <<>> BY <2>1 DEF OrderInv, BuildInv
  <2>3. ScannedTo(0)' BY <2>2, NothingScanned
  <2> QED BY <2>1, <2>3 DEF ScanInv
<1>3. CASE ScanOne
  <2>1. PICK n \in Nat : i = n + 1 /\ ScannedTo(n)
    <3>1. i \in Nat /\ i - 1 \in Nat /\ ScannedTo(i - 1)
      BY <1>3 DEF ScanOne, ScanInv, ScannedTo
    <3> QED BY <3>1
  <2>2. /\ pc = "scan" /\ pc' = "scan" /\ order' = order /\ i' = n + 1 + 1
        /\ n + 1 <= Len(order)
        /\ tmp' = IF order[n + 1] \in Effects \ seen
                  THEN Append(tmp, order[n + 1]) ELSE tmp
    BY <1>3, <2>1 DEF ScanOne, InScan
  <2>3. Distinct(tmp) /\ Range(tmp) = seen /\ order \in Seq(Int)
    BY <2>2 DEF BuildInv, OrderInv
  <2>4. ScannedTo(n + 1)' BY <2>1, <2>2, <2>3, ScanRound
  <2>5. i' \in Nat /\ i' - 1 = n + 1 BY <2>2
  <2> QED BY <2>2, <2>4, <2>5 DEF ScanInv
<1>4. CASE ScanEnds
  <2>1. pc' = "append" /\ UNCHANGED <<saved, order, tmp>> BY <1>4 DEF ScanEnds
  <2>2. ScanInv' <=>
           (saved # <<>> /\ Len(order) <= EfxMax =>
              /\ \A e, f \in Effects :
                   Occurs(order, f) /\ Before(order, e, f) => Before(tmp, e, f)
              /\ \A a, b \in Effects : Adjacent(order, a, b) => Adjacent(tmp, a, b))
    BY <2>1 DEF ScanInv
  <2> QED BY <1>4, <2>2, ScanFinds
<1>5. CASE AppendOne
  <2>1. /\ pc = "append" /\ pc' = "append" /\ UNCHANGED <<saved, order>>
        /\ i \in Int /\ (tmp' = tmp \/ tmp' = Append(tmp, i))
    BY <1>5 DEF AppendOne, BuildInv
  <2>2. tmp \in Seq(Int)
    <3>1. tmp \in Seq(Effects) BY DEF BuildInv, Distinct
    <3> QED BY <3>1, EffectsAreInts
  <2>3. CASE tmp' = tmp BY <2>1, <2>3 DEF ScanInv
  <2>4. CASE tmp' = Append(tmp, i)
    <3>1. PICK t : t = tmp' OBVIOUS
    <3>2. /\ \A e, f : Before(tmp, e, f) => Before(t, e, f)
          /\ \A a, b : Adjacent(tmp, a, b) => Adjacent(t, a, b)
      BY <2>1, <2>2, <2>4, <3>1, AppendKeeps
    <3> QED BY <2>1, <3>1, <3>2 DEF ScanInv
  <2> QED BY <2>1, <2>3, <2>4
<1>6. CASE AppendEnds BY <1>6 DEF AppendEnds, ScanInv
<1> QED BY <1>1, <1>2, <1>3, <1>4, <1>5, <1>6 DEF BuildOrder

-----------------------------------------------------------------------------
(* The newer effects.                                                       *)
(* Where the newer effect of an entry has its place in the order.           *)
NewerPlaced(entry) ==
    IF Occurs(order, entry[2]) THEN Adjacent(order, entry[2], entry[1])
    ELSE Occurs(saved, Maximizer) => Before(order, entry[1], Maximizer)

FollowInv ==
    OwnOrder =>
        \A n \in 1 .. Len(PlaceAfter) :
            ~Occurs(saved, PlaceAfter[n][1]) =>
                IF pc = "complete" /\ n >= i THEN ~Occurs(order, PlaceAfter[n][1])
                ELSE NewerPlaced(PlaceAfter[n])

(* A newer effect that is put in gets its place ...                         *)
LEMMA PutInPlace ==
    ASSUME NEW s \in Seq(Int), NEW entry, NEW t, Placed(s, entry, t),
           ~Occurs(s, entry[1]), entry[1] # entry[2], entry[1] # Maximizer
    PROVE  IF Occurs(t, entry[2]) THEN Adjacent(t, entry[2], entry[1])
           ELSE Before(t, entry[1], Maximizer)
<1>1. PICK id : id = entry[1] OBVIOUS
<1>2. PICK anchor : anchor = entry[2] OBVIOUS
<1>3. PICK p \in 1 .. Len(s) + 1 :
        /\ Spliced(s, p, id, t)
        /\ \/ p > 1 /\ FirstAt(s, anchor, p - 1)
           \/ ~Occurs(s, anchor) /\ FirstAt(s, Maximizer, p)
  BY <1>1, <1>2 DEF Placed
<1>4. PICK n \in Nat : SplitAt(s, p, id, t, n) BY <1>3, SplicePlaces
<1>5. /\ n = Len(s) /\ Len(t) = n + 1 /\ t[p] = id /\ p \in 1 .. n + 1
      /\ \A j \in 1 .. p - 1 : t[j] = s[j]
  BY <1>4 DEF SplitAt
<1>6. \A j \in 1 .. n : s[j] # id BY <1>1, <1>5 DEF Occurs
<1>7. CASE p > 1 /\ FirstAt(s, anchor, p - 1)
  <2>1. p - 1 \in 1 .. n /\ s[p - 1] = anchor /\ \A j \in 1 .. (p - 1) - 1 : s[j] # anchor
    BY <1>5, <1>7 DEF FirstAt
  <2>2. \A j \in 1 .. (p - 1) - 1 : t[j] # anchor /\ t[j] # id BY <1>5, <1>6, <2>1
  <2>3. /\ p - 1 \in 1 .. (n + 1) - 1 /\ p - 1 \in 1 .. n + 1 /\ (p - 1) + 1 = p
        /\ t[p - 1] = anchor
    BY <1>5, <2>1
  <2>4. NextTo(t, anchor, id, p - 1) BY <1>1, <1>2, <1>5, <2>2, <2>3 DEF NextTo
  <2>5. Adjacent(t, anchor, id) BY <1>5, <2>3, <2>4 DEF Adjacent
  <2>6. Occurs(t, anchor) BY <1>5, <2>3 DEF Occurs
  <2> QED BY <1>1, <1>2, <2>5, <2>6
<1>8. CASE ~Occurs(s, anchor) /\ FirstAt(s, Maximizer, p)
  <2>1. ~Occurs(t, anchor)
    <3>1. Occurs(t, anchor) <=> anchor = id \/ Occurs(s, anchor)
      BY <1>3, SpliceKeepsOccurs
    <3> QED BY <1>1, <1>2, <1>8, <3>1
  <2>2. \A j \in 1 .. p - 1 : s[j] # Maximizer BY <1>8 DEF FirstAt
  <2>3. \A j \in 1 .. p : t[j] # Maximizer BY <1>1, <1>5, <2>2
  <2>4. Before(t, id, Maximizer) BY <1>5, <2>3 DEF Before
  <2> QED BY <1>1, <1>2, <2>1, <2>4
<1> QED BY <1>3, <1>7, <1>8

(* ... and leaves the others that were put in theirs.                       *)
LEMMA OthersStayPlaced ==
    ASSUME NEW s \in Seq(Int), NEW entry, NEW t, Placed(s, entry, t),
           NEW id, NEW anchor, id # entry[1], anchor # entry[1], anchor # entry[2],
           id # Maximizer, Adjacent(s, anchor, id)
    PROVE  Adjacent(t, anchor, id)
<1>1. PICK p \in 1 .. Len(s) + 1 :
        /\ Spliced(s, p, entry[1], t)
        /\ \/ p > 1 /\ FirstAt(s, entry[2], p - 1)
           \/ ~Occurs(s, entry[2]) /\ FirstAt(s, Maximizer, p)
  BY DEF Placed
<1>2. p > 1 => s[p - 1] # anchor \/ (p \in 1 .. Len(s) /\ s[p] # id)
  BY <1>1 DEF FirstAt
<1> QED BY <1>1, <1>2, SpliceKeepsAdjacent

LEMMA FollowStays == OrderInv /\ FollowInv /\ BuildOrder => FollowInv'
<1> SUFFICES ASSUME OrderInv, FollowInv, BuildOrder PROVE FollowInv'
  OBVIOUS
<1>1. CASE CompleteOne
  <2>1. /\ i \in 1 .. Len(PlaceAfter) /\ i' = i + 1 /\ saved' = saved
        /\ pc = "complete" /\ pc' = "complete" /\ saved # <<>> /\ order \in Seq(Int)
    BY <1>1, RoundPlaces DEF CompleteOne, OrderInv
  <2>2. PICK entry : entry = PlaceAfter[i] OBVIOUS
  <2>3. PICK t : t = order' OBVIOUS
  <2>4. \/ t = order /\ Occurs(order, entry[1])
        \/ t = order /\ ~Occurs(order, entry[2]) /\ ~Occurs(order, Maximizer)
        \/ ~Occurs(order, entry[1]) /\ Placed(order, entry, t)
    BY <1>1, <2>2, <2>3, RoundPlaces
  <2>a. OwnOrder' <=> OwnOrder BY <2>1 DEF OwnOrder
  <2> SUFFICES ASSUME OwnOrder,
                      NEW n \in 1 .. Len(PlaceAfter), ~Occurs(saved, PlaceAfter[n][1])
               PROVE  IF n >= i + 1 THEN ~Occurs(t, PlaceAfter[n][1])
                      ELSE NewerPlaced(PlaceAfter[n])'
    BY <2>1, <2>3, <2>a DEF FollowInv
  <2>5. PICK id : id = PlaceAfter[n][1] OBVIOUS
  <2>6. PICK anchor : anchor = PlaceAfter[n][2] OBVIOUS
  <2>7. NewerPlaced(PlaceAfter[n])' <=>
           IF Occurs(t, anchor) THEN Adjacent(t, anchor, id)
           ELSE Occurs(saved, Maximizer) => Before(t, id, Maximizer)
    BY <2>1, <2>3, <2>5, <2>6 DEF NewerPlaced
  <2>8. IF n >= i THEN ~Occurs(order, id)
        ELSE IF Occurs(order, anchor) THEN Adjacent(order, anchor, id)
        ELSE Occurs(saved, Maximizer) => Before(order, id, Maximizer)
    BY <2>1, <2>5, <2>6 DEF FollowInv, NewerPlaced
  <2>9. /\ id # Maximizer /\ entry[1] # Maximizer
        /\ n # i => id # entry[1] /\ anchor # entry[2]
        /\ n <= i => anchor # entry[1]
    BY <2>1, <2>2, <2>5, <2>6, PlaceAfterAssumption
  <2>10. Occurs(saved, Maximizer) => Occurs(order, Maximizer) BY <2>1 DEF OrderInv
  <2>11. CASE n > i
    <3>1. n >= i + 1 /\ n >= i /\ n # i BY <2>1, <2>11
    <3>2. ~Occurs(order, id) /\ id # entry[1] BY <3>1, <2>8, <2>9
    <3>3. ~Occurs(t, id) BY <3>2, <2>1, <2>4, PlacedKeeps
    <3> QED BY <3>1, <3>3, <2>5
  <2>12. CASE n = i
    <3>1. ~(n >= i + 1) /\ n >= i /\ n <= i /\ id = entry[1] /\ anchor = entry[2]
      BY <2>1, <2>2, <2>5, <2>6, <2>12
    <3>2. ~Occurs(order, id) /\ anchor # id BY <3>1, <2>8, <2>9
    <3>3. CASE t = order /\ ~Occurs(order, anchor) /\ ~Occurs(order, Maximizer)
      BY <3>1, <3>3, <2>7, <2>10
    <3>4. CASE Placed(order, entry, t)
      <4>1. IF Occurs(t, anchor) THEN Adjacent(t, anchor, id)
            ELSE Before(t, id, Maximizer)
        BY <2>1, <2>9, <3>1, <3>2, <3>4, PutInPlace
      <4> QED BY <3>1, <4>1, <2>7
    <3> QED BY <3>1, <3>2, <3>3, <3>4, <2>4
  <2>13. CASE n < i
    <3>1. ~(n >= i + 1) /\ ~(n >= i) /\ n # i /\ n <= i BY <2>1, <2>13
    <3>2. CASE t = order BY <3>1, <3>2, <2>7, <2>8
    <3>3. CASE Placed(order, entry, t)
      <4>1. /\ Occurs(t, anchor) <=> anchor = entry[1] \/ Occurs(order, anchor)
            /\ Before(order, id, Maximizer) => Before(t, id, Maximizer)
        BY <2>1, <2>9, <3>3, PlacedKeeps
      <4>2. Adjacent(order, anchor, id) => Adjacent(t, anchor, id)
        BY <2>1, <2>9, <3>1, <3>3, OthersStayPlaced
      <4> QED BY <3>1, <4>1, <4>2, <2>7, <2>8, <2>9
    <3> QED BY <3>2, <3>3, <2>4
  <2> QED BY <2>1, <2>11, <2>12, <2>13
<1>2. CASE CompleteEnds
  <2>1. /\ pc' = "scan" /\ UNCHANGED <<saved, order>> /\ i \in Nat
        /\ \A n \in 1 .. Len(PlaceAfter) : ~(n >= i)
    BY <1>2, PlaceAfterAssumption DEF CompleteEnds, OrderInv
  <2> QED BY <2>1 DEF FollowInv, NewerPlaced, OwnOrder
<1>3. CASE ScanOne \/ ScanEnds \/ AppendOne \/ AppendEnds
  <2>1. pc # "complete" /\ pc' # "complete" /\ UNCHANGED <<saved, order>>
    BY <1>3 DEF ScanOne, ScanEnds, AppendOne, AppendEnds
  <2> QED BY <2>1 DEF FollowInv, NewerPlaced, OwnOrder
<1> QED BY <1>1, <1>2, <1>3 DEF BuildOrder

-----------------------------------------------------------------------------
(* The inductive invariant of the build.                                    *)
ChainInv == BuildInv /\ OrderInv /\ ScanInv /\ FollowInv

LEMMA ChainStarts == EngineInit => ChainInv
<1> SUFFICES ASSUME EngineInit PROVE ChainInv
  OBVIOUS
<1>1. saved = <<>> /\ order = DefaultChain /\ pc = "scan" /\ i = 1 /\ tmp = <<>>
  BY DEF EngineInit, Init
<1>2. OrderInv BY <1>1, SavedAssumption DEF OrderInv
<1>3. ScannedTo(0)
  <2>1. \A e : ~Occurs(tmp, e) BY <1>1 DEF Occurs
  <2>2. 0 \in 0 .. Len(order) BY <1>2 DEF OrderInv
  <2> QED BY <2>1, <2>2 DEF ScannedTo
<1>4. ScanInv BY <1>1, <1>3 DEF ScanInv
<1>5. FollowInv BY <1>1 DEF FollowInv, OwnOrder
<1> QED BY <1>2, <1>4, <1>5, BuildStarts DEF ChainInv

LEMMA StartKeepsChain ==
    ASSUME NEW s \in SavedOrders \union {<<>>}, StartWith(s) PROVE ChainInv'
<1>1. BuildInv' BY StartKeeps
<1>2. OrderInv' BY OrderStarts
<1>3. /\ saved' = s /\ i' = 1 /\ tmp' = <<>>
      /\ s = <<>> => pc' = "scan"
      /\ s # <<>> => pc' = "complete" /\ order' = s
  BY DEF StartWith
<1>4. ScannedTo(0)' BY <1>2, <1>3, NothingScanned DEF OrderInv
<1>5. ScanInv' BY <1>3, <1>4 DEF ScanInv
<1>6. FollowInv'
  <2>1. \A n \in 1 .. Len(PlaceAfter) : n >= 1 OBVIOUS
  <2> QED BY <1>3, <2>1 DEF FollowInv, OwnOrder
<1> QED BY <1>1, <1>2, <1>5, <1>6 DEF ChainInv

LEMMA StartV4aKeepsChain == StartWithV4a => ChainInv'
<1> SUFFICES ASSUME StartWithV4a PROVE ChainInv'
  OBVIOUS
<1>1. BuildInv' BY StartV4aKeeps
<1>2. OrderInv' BY OrderStartsV4a
<1>3. saved' = V4aChainOrder /\ pc' = "scan" /\ i' = 1 /\ tmp' = <<>>
  BY DEF StartWithV4a
<1>4. ScannedTo(0)' BY <1>2, <1>3, NothingScanned DEF OrderInv
<1>5. ScanInv' BY <1>3, <1>4 DEF ScanInv
<1>6. FollowInv' BY <1>3 DEF FollowInv, OwnOrder
<1> QED BY <1>1, <1>2, <1>5, <1>6 DEF ChainInv

LEMMA ChainStays == ChainInv /\ [Next]_vars => ChainInv'
<1>1. ASSUME ChainInv, UNCHANGED chainVars PROVE ChainInv'
  BY <1>1 DEF ChainInv, BuildInv, OrderInv, ScanInv, ScannedTo, FollowInv, NewerPlaced,
     OwnOrder, chainVars
<1>2. ASSUME ChainInv, SetChainOrder PROVE ChainInv'
  BY <1>2, StartKeepsChain, StartV4aKeepsChain DEF SetChainOrder
<1>3. ASSUME ChainInv, Build PROVE ChainInv'
  BY <1>3, BuildKeeps, OrderStays, ScanStays, FollowStays DEF Build, ChainInv
<1> QED
  BY <1>1, <1>2, <1>3 DEF Next, SetterStep, AudioStep, vars, LockToPublish, PublishOne,
     PublishCount, LockToCopy, CopyOne, UnlockCopy, DispatchOne, EndBlock

(* A saved list has each effect once, and there is room beyond the effects  *)
(* the engine has: saved and completed, it is not cut off at JDSP_EFX_MAX.  *)
OrdersFit ==
    \A s \in SavedOrders \union {V4aChainOrder} :
        Len(s) + Len(PlaceAfter) <= EfxMax

(* What the built chain keeps of the order, and the order of the saved one. *)
LEMMA BuiltKeepsOrder ==
    ASSUME OrdersFit, ChainInv, pc = "done", saved # <<>>
    PROVE  /\ saved \in Seq(Int) /\ order \in Seq(Int) /\ tmp \in Seq(Int)
           /\ \A e \in Effects : Occurs(tmp, e)
           /\ \A e, f \in Effects :
                 Occurs(order, f) /\ Before(order, e, f) => Before(tmp, e, f)
           /\ \A a, b \in Effects : Adjacent(order, a, b) => Adjacent(tmp, a, b)
<1>1. /\ saved \in SavedOrders \union {V4aChainOrder}
      /\ saved \in Seq(Int) /\ order \in Seq(Int)
  BY SavedIsList DEF ChainInv, OrderInv
<1>2. Distinct(tmp) /\ Range(tmp) = Effects BY DEF ChainInv, BuildInv
<1>3. tmp \in Seq(Int) BY <1>2, EffectsAreInts DEF Distinct
<1>4. Len(order) <= EfxMax
  <2>1. Len(saved) + Len(PlaceAfter) <= EfxMax BY <1>1 DEF OrdersFit
  <2>2. Len(order) <= Len(saved) + Len(PlaceAfter) BY DEF ChainInv, OrderInv
  <2>3. Len(order) \in Nat /\ Len(saved) \in Nat /\ Len(PlaceAfter) \in Nat
    BY <1>1, PlaceAfterAssumption
  <2> QED BY <2>1, <2>2, <2>3, EfxAssumption
<1>5. \A e \in Effects : Occurs(tmp, e) BY <1>2, RangeOccurs
<1> QED BY <1>1, <1>3, <1>4, <1>5 DEF ChainInv, ScanInv

(* The user's order survives ChainOrder.complete and the two loops of        *)
(* JamesDSPSetChainOrder: newer effects are put in between, unknown and     *)
(* repeated ids are dropped, and no two effects change places.              *)
THEOREM SavedOrderIsKept == ASSUME OrdersFit PROVE EngineSpec => []SavedOrderKept
<1>1. ChainInv => SavedOrderKept
  <2> SUFFICES ASSUME ChainInv, pc = "done", NEW e \in Effects, NEW f \in Effects,
                      IndexOf(saved, e) # 0, IndexOf(saved, e) < IndexOf(saved, f)
               PROVE  IndexOf(tmp, e) < IndexOf(tmp, f)
    BY DEF SavedOrderKept
  <2>1. saved \in Seq(Int) BY SavedIsList DEF ChainInv, OrderInv
  <2>2. Occurs(saved, e) /\ Occurs(saved, f)
    <3>1. /\ IndexOf(saved, e) \in Nat /\ IndexOf(saved, f) \in Nat
          /\ IndexOf(saved, e) = 0 <=> ~Occurs(saved, e)
          /\ IndexOf(saved, f) = 0 <=> ~Occurs(saved, f)
      BY <2>1, IndexIsFirst
    <3> QED BY <3>1
  <2>3. saved # <<>> BY <2>2 DEF Occurs
  <2>4. Before(saved, e, f) BY <2>1, <2>2, BeforeIsLess
  <2>5. Occurs(order, f) /\ Before(order, e, f)
    BY <2>2, <2>3, <2>4 DEF ChainInv, OrderInv
  <2>6. Before(tmp, e, f) /\ Occurs(tmp, f) /\ tmp \in Seq(Int)
    BY <2>3, <2>5, BuiltKeepsOrder
  <2> QED BY <2>6, BeforeIsLess
<1> QED BY <1>1, ChainStarts, ChainStays, PTL DEF EngineSpec

(* An effect newer than the saved list runs right after the one it follows,  *)
(* whatever ChainOrder.complete puts in later and the engine drops: no other *)
(* effect comes between; without that one it runs before the maximiser.     *)
THEOREM NewEffectsArePlaced == ASSUME OrdersFit PROVE EngineSpec => []NewEffectsPlaced
<1>1. ChainInv => NewEffectsPlaced
  <2> SUFFICES ASSUME ChainInv, pc = "done", NEW n \in DOMAIN PlaceAfter, OwnOrder,
                      IndexOf(saved, PlaceAfter[n][1]) = 0
               PROVE  IF IndexOf(order, PlaceAfter[n][2]) # 0
                      THEN IndexOf(tmp, PlaceAfter[n][1])
                              = IndexOf(tmp, PlaceAfter[n][2]) + 1
                      ELSE IndexOf(saved, Maximizer) # 0 =>
                              IndexOf(tmp, PlaceAfter[n][1]) < IndexOf(tmp, Maximizer)
    BY DEF NewEffectsPlaced
  <2>1. n \in 1 .. Len(PlaceAfter) BY PlaceAfterAssumption
  <2>2. PICK id \in Effects : id = PlaceAfter[n][1] BY <2>1, EntryIsPair
  <2>3. PICK anchor \in Effects : anchor = PlaceAfter[n][2] BY <2>1, EntryIsPair
  <2>4. Maximizer \in Effects BY PlaceAfterAssumption
  <2>5. /\ saved \in Seq(Int) /\ order \in Seq(Int) /\ tmp \in Seq(Int)
        /\ \A e \in Effects : Occurs(tmp, e)
        /\ \A e, f \in Effects :
              Occurs(order, f) /\ Before(order, e, f) => Before(tmp, e, f)
        /\ \A a, b \in Effects : Adjacent(order, a, b) => Adjacent(tmp, a, b)
    BY BuiltKeepsOrder DEF OwnOrder
  <2>6. /\ IndexOf(saved, id) = 0 <=> ~Occurs(saved, id)
        /\ IndexOf(saved, Maximizer) = 0 <=> ~Occurs(saved, Maximizer)
        /\ IndexOf(order, anchor) = 0 <=> ~Occurs(order, anchor)
    BY <2>5, IndexIsFirst
  <2>7. IF Occurs(order, anchor) THEN Adjacent(order, anchor, id)
        ELSE Occurs(saved, Maximizer) => Before(order, id, Maximizer)
    <3>1. NewerPlaced(PlaceAfter[n])
      BY <2>1, <2>2, <2>6 DEF ChainInv, FollowInv
    <3> QED BY <3>1, <2>2, <2>3 DEF NewerPlaced
  <2>8. CASE Occurs(order, anchor)
    <3>1. Adjacent(tmp, anchor, id) BY <2>5, <2>7, <2>8
    <3>2. IndexOf(tmp, id) = IndexOf(tmp, anchor) + 1 BY <3>1, <2>5, AdjacentIsNext
    <3> QED BY <3>2, <2>2, <2>3, <2>6, <2>8
  <2>9. CASE ~Occurs(order, anchor) /\ Occurs(saved, Maximizer)
    <3>1. Occurs(order, Maximizer) BY <2>9 DEF ChainInv, OrderInv, OwnOrder
    <3>2. Before(tmp, id, Maximizer) BY <3>1, <2>4, <2>5, <2>7, <2>9
    <3>3. IndexOf(tmp, id) < IndexOf(tmp, Maximizer) BY <3>2, <2>4, <2>5, BeforeIsLess
    <3> QED BY <3>3, <2>2, <2>3, <2>6, <2>9
  <2>10. CASE ~Occurs(order, anchor) /\ ~Occurs(saved, Maximizer)
    BY <2>2, <2>3, <2>6, <2>10
  <2> QED BY <2>8, <2>9, <2>10
<1> QED BY <1>1, ChainStarts, ChainStays, PTL DEF EngineSpec

-----------------------------------------------------------------------------
(* The variables the other invariants leave open.                           *)
CountInv ==
    /\ i \in Nat /\ next \in Nat /\ at \in Nat
    /\ seen \in SUBSET Effects
    /\ count \in 0 .. EfxMax
    /\ lock \in {"free", "setter", "audio"}

LEMMA CountsStay == SetterInv /\ CountInv /\ [Next]_vars => CountInv'
<1> SUFFICES ASSUME SetterInv, CountInv, [Next]_vars PROVE CountInv'
  OBVIOUS
<1> USE DEF CountInv
<1>1. CASE SetChainOrder
  BY <1>1 DEF SetChainOrder, StartWith, StartWithV4a, sharedVars, audioVars
<1>2. CASE Build
  <2>1. UNCHANGED <<next, at, count, lock>> BY <1>2 DEF Build, sharedVars, setterVars, audioVars
  <2>2. i' \in Nat /\ seen' \in SUBSET Effects
    BY <1>2 DEF Build, BuildOrder, CompleteOne, CompleteEnds, ScanOne, ScanEnds,
       AppendOne, AppendEnds
  <2> QED BY <2>1, <2>2
<1>3. CASE LockToPublish BY <1>3 DEF LockToPublish, chainVars, audioVars
<1>4. CASE PublishOne BY <1>4 DEF PublishOne, chainVars, audioVars
<1>5. CASE PublishCount BY <1>5 DEF PublishCount, chainVars, audioVars
<1>6. CASE LockToCopy
  BY <1>6, EfxAssumption DEF LockToCopy, chainVars, setterVars, SetterInv
<1>7. CASE CopyOne BY <1>7 DEF CopyOne, chainVars, sharedVars, setterVars
<1>8. CASE UnlockCopy BY <1>8 DEF UnlockCopy, chainVars, setterVars
<1>9. CASE DispatchOne BY <1>9 DEF DispatchOne, chainVars, sharedVars, setterVars
<1>10. CASE EndBlock BY <1>10 DEF EndBlock, chainVars, sharedVars, setterVars
<1>11. CASE UNCHANGED vars BY <1>11 DEF vars, chainVars, sharedVars, setterVars, audioVars
<1> QED
  BY <1>1, <1>2, <1>3, <1>4, <1>5, <1>6, <1>7, <1>8, <1>9, <1>10, <1>11
  DEF Next, SetterStep, AudioStep

(* Every variable of the build, the published chain and the audio thread's   *)
(* copy stays in its type; no write or read is outside the EfxMax slots.    *)
THEOREM TypesStay == EngineSpec => []EngineTypeOK
<1>1. ChainInv /\ SetterInv /\ AudioInv /\ CountInv => EngineTypeOK
  <2> SUFFICES ASSUME ChainInv, SetterInv, AudioInv, CountInv PROVE EngineTypeOK
    OBVIOUS
  <2>1. TypeOK
    BY DEF TypeOK, ChainInv, BuildInv, OrderInv, Distinct, CountInv
  <2>2. lock \in {"free", "setter", "audio"} BY DEF CountInv
  <2>3. chainCount \in 0 .. EfxMax BY EfxAssumption DEF SetterInv
  <2> QED BY <2>1, <2>2, <2>3 DEF EngineTypeOK, SetterInv, AudioInv, CountInv
<1>2. EngineInit => CountInv
  BY EfxAssumption DEF EngineInit, Init, CountInv
<1> QED
  BY <1>1, <1>2, ChainStarts, ChainStays, SettersStart, BuildStarts, BuildStays,
     SetterStays, AudioStays, CountsStay, PTL
  DEF EngineSpec
=============================================================================
