----------------------------- MODULE ChainOrder -----------------------------
(***************************************************************************)
(* The order in which the engine runs its effects, worked out from the order *)
(* the user saved.  ChainOrder.complete (Kotlin) first slots in the effects  *)
(* that are newer than the saved list; JamesDSPSetChainOrder (C) then drops  *)
(* what it does not know and what comes twice, and appends what is missing.  *)
(* The loops run round by round here, so that EngineChain can run them while *)
(* the audio thread processes.                                               *)
(***************************************************************************)
EXTENDS Integers, SequencesExt

CONSTANTS
    EfxCount,      \* JDSP_EFX_COUNT
    EfxMax,        \* JDSP_EFX_MAX, the room of a chain
    DefaultChain,  \* jdspDefaultChain
    PlaceAfter,    \* ChainOrder.placeAfter: pairs of a newer effect and the
                   \* effect it follows
    Maximizer,     \* the effect that comes last in the default chain
    SavedOrders,   \* the saved orders considered
    V4aChainOrder  \* V4aMode.v4aChainOrder, the fixed order of V4A mode

ASSUME EfxAssumption ==
    /\ EfxCount \in Nat \ {0}
    /\ EfxMax \in Nat
    /\ EfxCount <= EfxMax

ASSUME SavedAssumption ==
    /\ DefaultChain \in Seq(Int)
    /\ SavedOrders \subseteq Seq(Int)
    /\ V4aChainOrder \in Seq(Int) \ {<<>>}

Effects == 0 .. EfxCount - 1

(* Each newer effect and each effect followed is named once, an effect that *)
(* is newer itself before it is followed; the maximiser is not new.         *)
ASSUME PlaceAfterAssumption ==
    /\ Maximizer \in Effects
    /\ PlaceAfter \in Seq(Effects \X Effects)
    /\ \A m, n \in 1 .. Len(PlaceAfter) :
          /\ PlaceAfter[m][1] # Maximizer
          /\ m # n => /\ PlaceAfter[m][1] # PlaceAfter[n][1]
                      /\ PlaceAfter[m][2] # PlaceAfter[n][2]
          /\ n <= m => PlaceAfter[m][1] # PlaceAfter[n][2]

VARIABLES
    saved,   \* the order to set: the saved one, empty for none, or the fixed
    order,   \* what the loops work on
    pc,      \* "complete" the order, "scan" it, "append" the missing, "done"
    i,       \* the loop variable of each loop
    seen,
    tmp      \* the list being built

chainVars == <<saved, order, pc, i, seen, tmp>>

-----------------------------------------------------------------------------
(* Position of the first occurrence of e in s, 0 when there is none.        *)
IndexOf(s, e) == SelectInSeq(s, LAMBDA x : x = e)

(* Mutant of PlaceOne: the new effect goes before the one it is to follow.  *)
PlaceBefore(out, entry) ==
    LET id == entry[1]
        at == IndexOf(out, entry[2])
    IN  IF IndexOf(out, id) # 0 \/ at = 0 THEN out
        ELSE InsertAt(out, at, id)

(* Mutant of PlaceOne: also an effect the user has placed.                  *)
PlaceAgain(out, entry) ==
    LET at == IndexOf(out, entry[2])
    IN  IF at = 0 THEN out ELSE InsertAt(out, at + 1, entry[1])

(* One round of the loop over placeAfter.                                   *)
PlaceOne(out, entry) ==
    LET id == entry[1]
        at == IndexOf(out, entry[2])
        maxr == IndexOf(out, Maximizer)
    IN  CASE IndexOf(out, id) # 0 -> out
          [] IndexOf(out, id) = 0 /\ at # 0 -> InsertAt(out, at + 1, id)
          [] IndexOf(out, id) = 0 /\ at = 0 /\ maxr # 0 -> InsertAt(out, maxr, id)
          [] OTHER -> out

(* No saved order means the default chain, which is complete.               *)
StartWith(s) ==
    /\ saved' = s
    /\ IF s = <<>>
       THEN order' = DefaultChain /\ pc' = "scan"
       ELSE order' = s /\ pc' = "complete"
    /\ i' = 1
    /\ seen' = {}
    /\ tmp' = <<>>

(* V4A mode runs its fixed order, which is not completed.                   *)
StartWithV4a ==
    /\ saved' = V4aChainOrder
    /\ order' = V4aChainOrder
    /\ pc' = "scan"
    /\ i' = 1
    /\ seen' = {}
    /\ tmp' = <<>>

CompleteOne ==
    /\ pc = "complete"
    /\ i <= Len(PlaceAfter)
    /\ order' = PlaceOne(order, PlaceAfter[i])
    /\ i' = i + 1
    /\ UNCHANGED <<saved, pc, seen, tmp>>

(* The completed order is handed to the engine.                             *)
CompleteEnds ==
    /\ pc = "complete"
    /\ i > Len(PlaceAfter)
    /\ pc' = "scan"
    /\ i' = 1
    /\ UNCHANGED <<saved, order, seen, tmp>>

(* A chain starts with no saved order.                                      *)
Init ==
    /\ saved = <<>>
    /\ order = DefaultChain
    /\ pc = "scan"
    /\ i = 1
    /\ seen = {}
    /\ tmp = <<>>

(* One round of the first loop: unknown and repeated ids are dropped.       *)
InScan == i <= Len(order) /\ i <= EfxMax /\ Len(tmp) < EfxMax

(* Mutant of ScanOne: an id is not checked against the known effects.       *)
ScanUnknown ==
    /\ pc = "scan"
    /\ InScan
    /\ IF order[i] \notin seen
       THEN seen' = seen \union {order[i]} /\ tmp' = Append(tmp, order[i])
       ELSE UNCHANGED <<seen, tmp>>
    /\ i' = i + 1
    /\ UNCHANGED <<saved, order, pc>>

(* Mutant of ScanOne: an id that comes twice is taken twice.                *)
ScanRepeated ==
    /\ pc = "scan"
    /\ InScan
    /\ IF order[i] \in Effects
       THEN seen' = seen \union {order[i]} /\ tmp' = Append(tmp, order[i])
       ELSE UNCHANGED <<seen, tmp>>
    /\ i' = i + 1
    /\ UNCHANGED <<saved, order, pc>>

ScanOne ==
    /\ pc = "scan"
    /\ InScan
    /\ IF order[i] \in Effects \ seen
       THEN seen' = seen \union {order[i]} /\ tmp' = Append(tmp, order[i])
       ELSE UNCHANGED <<seen, tmp>>
    /\ i' = i + 1
    /\ UNCHANGED <<saved, order, pc>>

ScanEnds ==
    /\ pc = "scan"
    /\ ~InScan
    /\ pc' = "append"
    /\ i' = 0
    /\ UNCHANGED <<saved, order, seen, tmp>>

(* One round of the second loop: an effect not seen is appended.            *)
InAppend == i < EfxCount /\ Len(tmp) < EfxMax

AppendOne ==
    /\ pc = "append"
    /\ InAppend
    /\ tmp' = IF i \in seen THEN tmp ELSE Append(tmp, i)
    /\ i' = i + 1
    /\ UNCHANGED <<saved, order, pc, seen>>

AppendEnds ==
    /\ pc = "append"
    /\ ~InAppend
    /\ pc' = "done"
    /\ UNCHANGED <<saved, order, i, seen, tmp>>

BuildOrder ==
    CompleteOne \/ CompleteEnds \/ ScanOne \/ ScanEnds \/ AppendOne \/ AppendEnds

-----------------------------------------------------------------------------
(* Properties.                                                              *)

(* Every effect is in the list s, and none twice.                           *)
IsChain(s) == IsInjective(s) /\ Range(s) = Effects

(* Every variable stays in its type.                                        *)
TypeOK ==
    /\ saved \in SavedOrders \union {<<>>, V4aChainOrder}
    /\ order \in Seq(Int)
    /\ pc \in {"complete", "scan", "append", "done"}
    /\ i \in Nat
    /\ seen \in SUBSET Effects
    /\ tmp \in Seq(Effects)

(* Whatever was saved, the chain built is complete: no effect is enabled    *)
(* and configured and never dispatched, and none runs twice in a block.     *)
BuiltChainComplete == pc = "done" => IsChain(tmp)

(* The user's order, or the fixed one of V4A mode, is kept: of two effects  *)
(* in the list, the one that comes first there runs first.                  *)
SavedOrderKept ==
    pc = "done" =>
        \A e, f \in Effects :
            /\ IndexOf(saved, e) # 0
            /\ IndexOf(saved, e) < IndexOf(saved, f)
            => IndexOf(tmp, e) < IndexOf(tmp, f)

(* The order is one the user saved.                                         *)
OwnOrder == saved \notin {<<>>, V4aChainOrder}

(* An effect newer than the saved list runs right after the effect it is to *)
(* follow, wherever the user moved that one, and never after the maximiser  *)
(* unless that effect does.                                                 *)
NewEffectsPlaced ==
    pc = "done" =>
        \A n \in DOMAIN PlaceAfter :
            LET id == PlaceAfter[n][1]
                anchor == PlaceAfter[n][2]
            IN  OwnOrder /\ IndexOf(saved, id) = 0 =>
                  IF IndexOf(order, anchor) # 0
                  THEN IndexOf(tmp, id) = IndexOf(tmp, anchor) + 1
                  ELSE IndexOf(saved, Maximizer) # 0 =>
                         IndexOf(tmp, id) < IndexOf(tmp, Maximizer)
=============================================================================
