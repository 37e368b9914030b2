---------------------------- MODULE BlockPipeline ----------------------------
(***************************************************************************)
(* The native engine's way from a block of the caller to the effects and     *)
(* back (jdspController.c).  At rates the effects are not made for, a block  *)
(* is resampled, processed, resampled back and put into a ring, from which   *)
(* the caller gets as many samples as it gave.  All of this lives in one     *)
(* allocation: four work areas and the two rings.  Both channels do the      *)
(* same, so one stands for both.                                             *)
(***************************************************************************)
EXTENDS Integers, Sequences

CONSTANTS
    Rates,       \* rates of the output
    Num, Den,    \* working rate / rate of the output, in lowest terms
    BlockSizes,  \* lengths of blocks the caller may pass
    StartRate, StartBlock,
    Garbage,     \* what fresh memory holds
    Labels,      \* samples are numbered modulo this
    Width        \* 2^32: the ring's indices are numbers below it

(* The rate the effects run at.                                             *)
WorkingRate(r) ==
    IF r \in 44100 .. 48000 THEN r
    ELSE IF r % 48000 = 0 \/ 48000 % r = 0 THEN 48000
    ELSE IF r % 44100 = 0 \/ 44100 % r = 0 THEN 44100
    ELSE 48000

Resampled(r) == r \notin 44100 .. 48000

ASSUME RatesAssumption == Rates \subseteq Nat \ {0} /\ StartRate \in Rates
ASSUME RatioAssumption ==
    /\ Num \in [Rates -> Nat \ {0}] /\ Den \in [Rates -> Nat \ {0}]
    /\ \A r \in Rates : Num[r] * r = Den[r] * WorkingRate(r)
ASSUME BlocksAssumption == BlockSizes \subseteq Nat \ {0} /\ StartBlock \in BlockSizes
ASSUME LabelsAssumption == Labels \in Nat \ {0} /\ Garbage \notin 0 .. Labels - 1

VARIABLES
    rate,        \* trueSampleRate
    enableASRC,
    blockSizeMax,
    stride,      \* length of a work area
    pw2BlockMemSize,
    total,       \* floats in the allocation
    decimator,   \* position of the next output of the resampler to the
    interpolator,\* working rate, and back, beyond the end of its last input
    in, out,     \* of the ring, modulo Width
    ring,        \* its memory
    produced,    \* samples resampled back so far, modulo Labels
    fed, want, delivered,  \* last block put into the ring, asked for, got
    reach,       \* most samples a stage put into a work area for the last block
    longest,     \* longest piece of it the effects were given
    roomy        \* the ring has had room for the phase carry at all times

layout == <<rate, enableASRC, blockSizeMax, stride, pw2BlockMemSize, total>>
vars == <<layout, decimator, interpolator, in, out, ring, produced, fed, want,
          delivered, reach, longest, roomy>>

-----------------------------------------------------------------------------
(* Lengths.                                                                 *)

CeilDiv(a, b) == (a + b - 1) \div b
Least(a, b) == IF a <= b THEN a ELSE b
Greatest(a, b) == IF a >= b THEN a ELSE b

(* The smallest power of two no smaller than x, as far as an int holds one. *)
Powers == {2 ^ i : i \in 0 .. 30}
IsNextPow2(p, x) == p \in Powers /\ p >= x /\ \A q \in Powers : q >= x => p <= q
next_pow_2(x) == CHOOSE p \in Powers : IsNextPow2(p, x)

MaxDecimated(n, r) == CeilDiv(n * Num[r], Den[r])
MaxInterpolated(n, r) == CeilDiv(MaxDecimated(n, r) * Den[r], Num[r])

(* Mutant of WorkLength: the areas are sized for the caller's block alone.  *)
WorkLengthOfBlock(n, r) == n + 2

(* JamesDSPASRCWorkLength.                                                  *)
WorkLength(n, r) ==
    Greatest(n, Greatest(MaxDecimated(n, r), MaxInterpolated(n, r)))
    + CeilDiv(Num[r], Den[r]) + CeilDiv(Den[r], Num[r]) + 2

(* psrc_filt_stereo on count samples: outputs are `step` apart, an input    *)
(* takes up `per`, and the first output is `from` past the first input.      *)
OutputCount(from, count, per, step) ==
    IF from >= count * per THEN 0 ELSE CeilDiv(count * per - from, step)

PositionAfter(from, count, per, step) ==
    from + OutputCount(from, count, per, step) * step - count * per

(* Every ring is a power of two that divides the range of its indices.      *)
ASSUME WidthAssumption ==
    /\ Width \in Nat
    /\ \A n \in BlockSizes, r \in Rates :
          LET length == MaxInterpolated(n, r)
              size == next_pow_2(length)
          IN IsNextPow2(size, length) /\ size \in 1 .. Width - 1 /\ Width % size = 0

-----------------------------------------------------------------------------
(* The ring, modulo Width.                                                  *)

Plus(a, b) == IF a + b >= Width THEN a + b - Width ELSE a + b
Minus(a, b) == IF a >= b THEN a - b ELSE a - b + Width

Count == Minus(in, out)
Fresh(size) == [i \in 0 .. size - 1 |-> Garbage]

(* Mutant of Accepted: the free room is not looked at.                      *)
AcceptedAlways(count, size, length) == length

(* How many of the samples offered there is room for.                       *)
Accepted(count, size, length) == Least(length, size - count)

(* Mutant of Rebased: only the writing index is taken down.                 *)
RebasedIn(i, o, size) == IF i > size \/ o > size THEN <<Minus(i, size), o>> ELSE <<i, o>>

(* Both indices are taken down once one of them is past the size.           *)
Rebased(i, o, size) ==
    IF i > size \/ o > size THEN <<Minus(i, size), Minus(o, size)>> ELSE <<i, o>>

(* RingBufferingStereo: `block` goes in, up to n samples come out.          *)
RingBuffering(memory, size, block, n) ==
    LET lenIn == Accepted(Count, size, Len(block))
        filled == [i \in 0 .. size - 1 |->
                     LET at == (i - in) % size IN
                     IF at < lenIn THEN block[at + 1] ELSE memory[i]]
        lenOut == Least(n, Minus(Plus(in, lenIn), out))
        next == Rebased(Plus(in, lenIn), Plus(out, lenOut), size)
    IN /\ ring' = filled
       /\ delivered' = [i \in 1 .. lenOut |-> filled[(out + i - 1) % size]]
       /\ in' = next[1] /\ out' = next[2]

(* What the resamplers may be ahead of the caller by, and whether the ring   *)
(* takes that beyond the longest block.                                      *)
Carry == CeilDiv(Den[rate], Num[rate])
HasRoom == pw2BlockMemSize >= blockSizeMax + Carry

-----------------------------------------------------------------------------
(* The layout.                                                              *)

(* The areas and rings of an engine that resamples, for blocks of n.        *)
AllocateFor(n, r) ==
    /\ stride' = WorkLength(n, r)
    /\ pw2BlockMemSize' = next_pow_2(MaxInterpolated(n, r))
    /\ total' = 4 * stride' + 2 * pw2BlockMemSize'

(* JamesDSPInit, at 48 kHz, where nothing is resampled.                     *)
Init ==
    /\ rate = StartRate /\ enableASRC = FALSE
    /\ ~Resampled(StartRate)
    /\ blockSizeMax = StartBlock /\ stride = StartBlock
    /\ pw2BlockMemSize = 0 /\ total = 2 * StartBlock
    /\ decimator = 0 /\ interpolator = 0
    /\ in = 0 /\ out = 0 /\ ring = Fresh(0) /\ produced = 0
    /\ fed = <<>> /\ want = 0 /\ delivered = <<>>
    /\ reach = 0 /\ longest = 0 /\ roomy = TRUE

(* JamesDSPSetSampleRate.  Without resampling the allocation stays, with its *)
(* layout and the resamplers' memory freed.                                  *)
SetSampleRate(r) ==
    /\ r # rate
    /\ rate' = r /\ enableASRC' = Resampled(r) /\ UNCHANGED blockSizeMax
    /\ IF Resampled(r)
       THEN AllocateFor(blockSizeMax, r) /\ ring' = Fresh(pw2BlockMemSize')
       ELSE UNCHANGED <<stride, pw2BlockMemSize, total>> /\ ring' = Fresh(0)
    /\ decimator' = 0 /\ interpolator' = 0 /\ in' = 0 /\ out' = 0
    /\ produced' = 0 /\ fed' = <<>> /\ want' = 0 /\ delivered' = <<>>
    /\ reach' = 0 /\ longest' = 0 /\ roomy' = HasRoom'

(* JamesDSPReallocateBlock where a block is longer than any before: the      *)
(* ring's memory is new, its indices are not.                                *)
EnsureRoom(n) ==
    IF blockSizeMax >= n
    THEN UNCHANGED <<blockSizeMax, stride, pw2BlockMemSize, total>>
    ELSE /\ blockSizeMax' = n
         /\ IF enableASRC THEN AllocateFor(n, rate)
            ELSE stride' = n /\ pw2BlockMemSize' = 0 /\ total' = 2 * n

RingMemory == IF blockSizeMax' = blockSizeMax THEN ring ELSE Fresh(pw2BlockMemSize')

(* JamesDSPProcessResampled: pieces of at most blockSizeMax.                *)
LongestPiece(length, limit) == Least(length, limit)

(* JamesDSPRunBlock without resampling.                                     *)
ProcessPlain(n) ==
    /\ ~enableASRC
    /\ EnsureRoom(n)
    /\ reach' = n /\ longest' = n
    /\ UNCHANGED <<rate, enableASRC, decimator, interpolator, in, out, ring,
                   produced, fed, want, delivered, roomy>>

(* Mutant of ProcessResampled: the way back starts anew with every block.   *)
ProcessForgetsPhase(n) ==
    /\ enableASRC /\ UNCHANGED <<rate, enableASRC>>
    /\ EnsureRoom(n)
    /\ LET up == Num[rate]
           down == Den[rate]
           there == OutputCount(decimator, n, up, down)
           back == OutputCount(interpolator, there, down, up)
           block == [i \in 1 .. back |-> (produced + i - 1) % Labels]
       IN /\ decimator' = PositionAfter(decimator, n, up, down)
          /\ interpolator' = 0
          /\ produced' = (produced + back) % Labels
          /\ fed' = block /\ want' = n
          /\ RingBuffering(RingMemory, pw2BlockMemSize', block, n)
          /\ reach' = Greatest(n, Greatest(there, back))
          /\ longest' = LongestPiece(there, blockSizeMax')
    /\ roomy' = (roomy /\ HasRoom')

(* JamesDSPRunBlock with it: to the working rate, through the effects, back, *)
(* through the ring.                                                         *)
ProcessResampled(n) ==
    /\ enableASRC /\ UNCHANGED <<rate, enableASRC>>
    /\ EnsureRoom(n)
    /\ LET up == Num[rate]
           down == Den[rate]
           there == OutputCount(decimator, n, up, down)
           back == OutputCount(interpolator, there, down, up)
           block == [i \in 1 .. back |-> (produced + i - 1) % Labels]
       IN /\ decimator' = PositionAfter(decimator, n, up, down)
          /\ interpolator' = PositionAfter(interpolator, there, down, up)
          /\ produced' = (produced + back) % Labels
          /\ fed' = block /\ want' = n
          /\ RingBuffering(RingMemory, pw2BlockMemSize', block, n)
          /\ reach' = Greatest(n, Greatest(there, back))
          /\ longest' = LongestPiece(there, blockSizeMax')
    /\ roomy' = (roomy /\ HasRoom')

Next ==
    \/ \E r \in Rates : SetSampleRate(r)
    \/ \E n \in BlockSizes : ProcessPlain(n) \/ ProcessResampled(n)

Spec == Init /\ [][Next]_vars

-----------------------------------------------------------------------------
(* Properties.                                                              *)

(* Every variable stays in its type; the ring holds no more than it has     *)
(* room for, modulo Width, and its memory has that size.                     *)
TypeOK ==
    /\ rate \in Rates /\ enableASRC = Resampled(rate)
    /\ blockSizeMax \in BlockSizes
    /\ {stride, pw2BlockMemSize, total, decimator, interpolator, want, reach, longest} \subseteq Nat
    /\ in \in 0 .. Width - 1 /\ out \in 0 .. Width - 1
    /\ enableASRC => DOMAIN ring = 0 .. pw2BlockMemSize - 1
    /\ Count <= pw2BlockMemSize
    /\ produced \in 0 .. Labels - 1
    /\ roomy \in BOOLEAN

(* Whatever blocks come at whatever rate, no stage writes past its work     *)
(* area, the areas and rings lie within the allocation, and the effects are  *)
(* given no block longer than they are set up for.                           *)
AreasHold ==
    /\ reach <= stride
    /\ (IF enableASRC THEN 4 * stride + 2 * pw2BlockMemSize ELSE 2 * stride) <= total
    /\ longest <= blockSizeMax

(* The samples waiting in the ring.                                         *)
Held ==
    IF enableASRC
    THEN [i \in 1 .. Count |-> ring[(out + i - 1) % pw2BlockMemSize]]
    ELSE <<>>

Queue == INSTANCE SampleQueue WITH
    held <- Held,
    capacity <- IF enableASRC THEN pw2BlockMemSize ELSE 0

(* The ring with its wrapping indices is a queue: order is kept, nothing     *)
(* comes out twice, nothing comes out that did not go in, except what was    *)
(* held when its memory was replaced.                                        *)
IsQueue == Queue!QSpec

(* A ring with room for the phase carry beyond the longest block refuses     *)
(* nothing, whatever the blocks: the caller gets as many samples as it gave, *)
(* so nothing of the work area's old content is heard, and no more than one  *)
(* sample of the working rate waits.                                         *)
WholeBlocks ==
    enableASRC /\ roomy => Len(delivered) = want /\ Count <= Carry
=============================================================================
