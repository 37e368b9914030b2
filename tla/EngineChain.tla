----------------------------- MODULE EngineChain -----------------------------
(***************************************************************************)
(* The chain while audio runs.  A settings thread works out an order as in   *)
(* ChainOrder and publishes it under the engine lock; for each block the     *)
(* audio thread copies the chain under the same lock, releases it, and       *)
(* dispatches the effects one by one, taking it again for some of them.  The *)
(* syncs that set an order are serialised by their mutex, so there is one    *)
(* settings thread.                                                          *)
(***************************************************************************)
EXTENDS ChainOrder

CONSTANT Locking   \* effects dispatched under the engine lock

ASSUME LockingAssumption == Locking \subseteq Effects

VARIABLES
    lock,        \* who holds m_in_processing: "free", "setter", "audio"
    chainOrder,  \* jdsp->chainOrder
    chainCount,  \* jdsp->chainCount
    setterPc,    \* "build", "copy" (memcpy into chainOrder), "idle"
    next,        \* the entry a copy is at (setter)
    audioPc,     \* "idle", "copy", "dispatch"
    chain,       \* the audio thread's copy
    count,       \* ... and its length
    at           \* the entry the audio thread is at

sharedVars == <<lock, chainOrder, chainCount>>
setterVars == <<setterPc, next>>
audioVars == <<audioPc, chain, count, at>>
vars == <<chainVars, sharedVars, setterVars, audioVars>>

Slots == 1 .. EfxMax
NoEffect == -1

(* Creating an engine resets the chain before any block is processed.       *)
EngineInit ==
    /\ Init
    /\ lock = "free"
    /\ chainOrder = [n \in Slots |-> NoEffect]
    /\ chainCount = 0
    /\ setterPc = "build"
    /\ next = 1
    /\ audioPc = "idle"
    /\ chain = [n \in Slots |-> NoEffect]
    /\ count = 0
    /\ at = 1

-----------------------------------------------------------------------------
(* The settings thread.                                                     *)

(* applyChainOrder() with another saved order, or in V4A mode.              *)
SetChainOrder ==
    /\ setterPc = "idle"
    /\ StartWithV4a \/ \E s \in SavedOrders \union {<<>>} : StartWith(s)
    /\ setterPc' = "build"
    /\ UNCHANGED <<sharedVars, next, audioVars>>

Build ==
    /\ setterPc = "build"
    /\ BuildOrder
    /\ UNCHANGED <<sharedVars, setterVars, audioVars>>

(* Mutant of LockToPublish: the chain is written without the lock.          *)
PublishUnlocked ==
    /\ setterPc = "build"
    /\ pc = "done"
    /\ setterPc' = "copy"
    /\ next' = 1
    /\ UNCHANGED <<chainVars, sharedVars, audioVars>>

LockToPublish ==
    /\ setterPc = "build"
    /\ pc = "done"
    /\ lock = "free"
    /\ lock' = "setter"
    /\ setterPc' = "copy"
    /\ next' = 1
    /\ UNCHANGED <<chainVars, chainOrder, chainCount, audioVars>>

PublishOne ==
    /\ setterPc = "copy"
    /\ next <= Len(tmp)
    /\ chainOrder' = [chainOrder EXCEPT ![next] = tmp[next]]
    /\ next' = next + 1
    /\ UNCHANGED <<chainVars, lock, chainCount, setterPc, audioVars>>

PublishCount ==
    /\ setterPc = "copy"
    /\ next > Len(tmp)
    /\ chainCount' = Len(tmp)
    /\ lock' = "free"
    /\ setterPc' = "idle"
    /\ UNCHANGED <<chainVars, chainOrder, next, audioVars>>

-----------------------------------------------------------------------------
(* The audio thread: JamesDSPProcess for one block after another.           *)

LockToCopy ==
    /\ audioPc = "idle"
    /\ chainCount # 0
    /\ lock = "free"
    /\ lock' = "audio"
    /\ count' = chainCount
    /\ at' = 1
    /\ audioPc' = "copy"
    /\ UNCHANGED <<chainVars, chainOrder, chainCount, setterVars, chain>>

CopyOne ==
    /\ audioPc = "copy"
    /\ at <= count
    /\ chain' = [chain EXCEPT ![at] = chainOrder[at]]
    /\ at' = at + 1
    /\ UNCHANGED <<chainVars, sharedVars, setterVars, audioPc, count>>

(* Mutant of UnlockCopy: the lock is kept.                                  *)
CopyKeepsLock ==
    /\ audioPc = "copy"
    /\ at > count
    /\ at' = 1
    /\ audioPc' = "dispatch"
    /\ UNCHANGED <<chainVars, sharedVars, setterVars, chain, count>>

UnlockCopy ==
    /\ audioPc = "copy"
    /\ at > count
    /\ lock' = "free"
    /\ at' = 1
    /\ audioPc' = "dispatch"
    /\ UNCHANGED <<chainVars, chainOrder, chainCount, setterVars, chain, count>>

(* One effect; those whose state the settings threads rebuild lock.         *)
DispatchOne ==
    /\ audioPc = "dispatch"
    /\ at <= count
    /\ chain[at] \in Locking => lock = "free"
    /\ at' = at + 1
    /\ UNCHANGED <<chainVars, sharedVars, setterVars, audioPc, chain, count>>

EndBlock ==
    /\ audioPc = "dispatch"
    /\ at > count
    /\ audioPc' = "idle"
    /\ UNCHANGED <<chainVars, sharedVars, setterVars, chain, count, at>>

-----------------------------------------------------------------------------
SetterStep == Build \/ LockToPublish \/ PublishOne \/ PublishCount
AudioStep == LockToCopy \/ CopyOne \/ UnlockCopy \/ DispatchOne \/ EndBlock

Next == SetChainOrder \/ SetterStep \/ AudioStep

EngineSpec == EngineInit /\ [][Next]_vars

(* Both threads keep running.  Each takes the lock for a moment only, and   *)
(* gets it although the other one takes it again and again.                 *)
FairEngineSpec ==
    /\ EngineSpec
    /\ WF_vars(Build) /\ SF_vars(LockToPublish)
    /\ WF_vars(PublishOne \/ PublishCount)
    /\ WF_vars(CopyOne \/ UnlockCopy) /\ WF_vars(EndBlock)
    /\ SF_vars(DispatchOne)

-----------------------------------------------------------------------------
(* Properties.                                                              *)

(* Every variable stays in its type.                                        *)
EngineTypeOK ==
    /\ TypeOK
    /\ lock \in {"free", "setter", "audio"}
    /\ chainOrder \in [Slots -> Effects \union {NoEffect}]
    /\ chainCount \in 0 .. EfxMax
    /\ setterPc \in {"idle", "build", "copy"}
    /\ next \in Nat
    /\ audioPc \in {"idle", "copy", "dispatch"}
    /\ chain \in [Slots -> Effects \union {NoEffect}]
    /\ count \in 0 .. EfxMax
    /\ at \in Nat

(* The first n entries of the array a hold every effect once.               *)
WholeChain(a, n) ==
    /\ {a[k] : k \in 1 .. n} = Effects
    /\ \A k, l \in 1 .. n : a[k] = a[l] => k = l

(* A block is dispatched through a whole chain, the old one or the new one: *)
(* a reorder in the middle of it neither skips an effect (the maximiser,    *)
(* letting a peak through) nor runs one twice.                              *)
BlockRunsWholeChain == audioPc = "dispatch" => WholeChain(chain, count)

(* Whoever does not hold the lock sees a whole chain in the engine.         *)
PublishedWhole ==
    chainCount # 0 /\ lock # "setter" => WholeChain(chainOrder, chainCount)

(* Neither thread waits for the lock for good: a block ends, and a new      *)
(* order is published.                                                      *)
LockIsServed ==
    /\ audioPc = "copy" ~> audioPc = "idle"
    /\ setterPc = "build" ~> setterPc = "idle"
=============================================================================
