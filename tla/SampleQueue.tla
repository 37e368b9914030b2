----------------------------- MODULE SampleQueue -----------------------------
(***************************************************************************)
(* What the ring between the resampler and the caller promises: samples come *)
(* out in the order they went in, none twice and none made up.  A block that *)
(* does not fit loses its end, and growing may lose what is held.            *)
(***************************************************************************)
EXTENDS Naturals, Sequences

CONSTANT Garbage   \* what memory holds that nobody has written

VARIABLES
    held,        \* samples waiting, oldest first
    capacity,    \* how many may wait
    fed,         \* the block last put in
    want,        \* the number of samples last asked for
    delivered    \* the block that came out

qvars == <<held, capacity, fed, want, delivered>>

QInit == held = <<>> /\ fed = <<>> /\ want = 0 /\ delivered = <<>>

Smaller(a, b) == IF a <= b THEN a ELSE b

(* One block in and one out.                                                *)
Exchange(base) ==
    LET taken == Smaller(Len(fed'), capacity' - Len(base))
        all == base \o SubSeq(fed', 1, taken)
        given == Smaller(want', Len(all))
    IN /\ delivered' = SubSeq(all, 1, given)
       /\ held' = SubSeq(all, given + 1, Len(all))

Pass == capacity' = capacity /\ Exchange(held)

(* The store has been replaced by a larger one.                             *)
Grow == capacity' >= capacity /\ Exchange([i \in 1 .. Len(held) |-> Garbage])

Reset == held' = <<>> /\ fed' = <<>> /\ want' = 0 /\ delivered' = <<>>

QSpec == QInit /\ [][Pass \/ Grow \/ Reset]_qvars
=============================================================================
