------------------------- MODULE BlockPipelineProofs -------------------------
(***************************************************************************)
(* Theorems about BlockPipeline, for any rates, ratios, block sizes and      *)
(* width of the ring's indices.                                              *)
(***************************************************************************)
EXTENDS BlockPipeline, SequenceTheorems, TLAPS

(* The quotient rounded up, in terms of products.                           *)
LEMMA CeilDivBounds ==
    ASSUME NEW a \in Nat, NEW b \in Nat \ {0}
    PROVE  /\ CeilDiv(a, b) \in Nat
           /\ CeilDiv(a, b) * b >= a
           /\ CeilDiv(a, b) * b < a + b
<1> DEFINE q == (a + b - 1) \div b
<1>1. a + b - 1 \in Nat
    OBVIOUS
<1>2. q \in Nat /\ (a + b - 1) = q * b + ((a + b - 1) % b) /\ (a + b - 1) % b \in 0 .. b - 1
    BY <1>1, Z3
<1> QED
    BY <1>1, <1>2, Z3 DEF CeilDiv

LEMMA ProductMonotone ==
    ASSUME NEW a \in Nat, NEW b \in Nat, NEW c \in Nat, a <= b
    PROVE  a * c <= b * c
    OBVIOUS

LEMMA CeilDivMonotone ==
    ASSUME NEW a \in Nat, NEW c \in Nat, NEW b \in Nat \ {0}, a <= c
    PROVE  CeilDiv(a, b) <= CeilDiv(c, b)
<1> DEFINE p == CeilDiv(a, b)
           q == CeilDiv(c, b)
<1>1. p \in Nat /\ q \in Nat /\ p * b < a + b /\ q * b >= c
    BY CeilDivBounds
<1> HIDE DEF p, q
<1>2. SUFFICES ASSUME q + 1 <= p PROVE FALSE
    BY <1>1 DEF p, q
<1>3. (q + 1) * b <= p * b
    BY <1>1, <1>2, ProductMonotone
<1>4. (q + 1) * b = q * b + b
    BY <1>1
<1>5. q * b \in Nat /\ p * b \in Nat
    BY <1>1
<1> QED
    BY <1>1, <1>3, <1>4, <1>5

(* A resampler's outputs fit the lengths the areas are made for, and its    *)
(* position stays beyond its input.                                          *)
LEMMA OutputsFit ==
    ASSUME NEW from \in Nat, NEW count \in Nat, NEW limit \in Nat, count <= limit,
           NEW per \in Nat \ {0}, NEW step \in Nat \ {0}
    PROVE  /\ OutputCount(from, count, per, step) \in Nat
           /\ OutputCount(from, count, per, step) <= CeilDiv(limit * per, step)
           /\ PositionAfter(from, count, per, step) \in Nat
<1>1. count * per \in Nat /\ limit * per \in Nat /\ count * per <= limit * per
    BY ProductMonotone
<1>2. CeilDiv(limit * per, step) \in Nat
    BY <1>1, CeilDivBounds
<1>3. CASE from >= count * per
    <2>1. OutputCount(from, count, per, step) = 0
        BY <1>3 DEF OutputCount
    <2>2. PositionAfter(from, count, per, step) = from - count * per
        BY <2>1, <1>1 DEF PositionAfter
    <2> QED
        BY <1>1, <1>2, <1>3, <2>1, <2>2
<1>4. CASE ~(from >= count * per)
    <2> DEFINE left == count * per - from
    <2>1. left \in Nat /\ left <= limit * per
        BY <1>1, <1>4
    <2>2. OutputCount(from, count, per, step) = CeilDiv(left, step)
        BY <1>4 DEF OutputCount
    <2>3. PositionAfter(from, count, per, step) = from + CeilDiv(left, step) * step - count * per
        BY <2>2 DEF PositionAfter
    <2>4. CeilDiv(left, step) \in Nat /\ CeilDiv(left, step) * step >= left
        BY <2>1, CeilDivBounds
    <2>5. CeilDiv(left, step) <= CeilDiv(limit * per, step)
        BY <1>1, <2>1, CeilDivMonotone
    <2>6. CeilDiv(left, step) * step \in Nat
        BY <2>4
    <2> QED
        BY <1>1, <2>1, <2>2, <2>3, <2>4, <2>5, <2>6
<1> QED
    BY <1>3, <1>4

(* The lengths of the layout, and that the areas are long enough for a      *)
(* block resampled and resampled back.                                       *)
LEMMA LengthsFit ==
    ASSUME NEW r \in Rates, NEW n \in BlockSizes
    PROVE  /\ Num[r] \in Nat \ {0} /\ Den[r] \in Nat \ {0} /\ n \in Nat \ {0}
           /\ MaxDecimated(n, r) \in Nat /\ MaxInterpolated(n, r) \in Nat
           /\ WorkLength(n, r) \in Nat
           /\ n <= WorkLength(n, r)
           /\ MaxDecimated(n, r) <= WorkLength(n, r)
           /\ MaxInterpolated(n, r) <= WorkLength(n, r)
<1>1. Num[r] \in Nat \ {0} /\ Den[r] \in Nat \ {0} /\ n \in Nat \ {0}
    BY RatioAssumption, BlocksAssumption
<1>2. n * Num[r] \in Nat
    BY <1>1
<1>3. MaxDecimated(n, r) \in Nat
    BY <1>1, <1>2, CeilDivBounds DEF MaxDecimated
<1>4. MaxDecimated(n, r) * Den[r] \in Nat
    BY <1>1, <1>3
<1>5. MaxInterpolated(n, r) \in Nat
    BY <1>1, <1>4, CeilDivBounds DEF MaxInterpolated
<1>6. CeilDiv(Num[r], Den[r]) \in Nat /\ CeilDiv(Den[r], Num[r]) \in Nat
    BY <1>1, CeilDivBounds
<1> QED
    BY <1>1, <1>3, <1>5, <1>6 DEF WorkLength, Greatest

(* A longer block never gets a smaller ring.                                *)
LEMMA RingGrows ==
    ASSUME NEW r \in Rates, NEW n \in BlockSizes, NEW k \in BlockSizes, n <= k
    PROVE  next_pow_2(MaxInterpolated(n, r)) <= next_pow_2(MaxInterpolated(k, r))
<1>1. /\ Num[r] \in Nat \ {0} /\ Den[r] \in Nat \ {0} /\ n \in Nat /\ k \in Nat
      /\ MaxDecimated(n, r) \in Nat /\ MaxDecimated(k, r) \in Nat
      /\ MaxInterpolated(n, r) \in Nat /\ MaxInterpolated(k, r) \in Nat
    BY LengthsFit
<1>2. n * Num[r] \in Nat /\ k * Num[r] \in Nat /\ n * Num[r] <= k * Num[r]
    BY <1>1, ProductMonotone
<1>3. MaxDecimated(n, r) <= MaxDecimated(k, r)
    BY <1>1, <1>2, CeilDivMonotone DEF MaxDecimated
<1>4. /\ MaxDecimated(n, r) * Den[r] \in Nat /\ MaxDecimated(k, r) * Den[r] \in Nat
      /\ MaxDecimated(n, r) * Den[r] <= MaxDecimated(k, r) * Den[r]
    BY <1>1, <1>3, ProductMonotone
<1>5. MaxInterpolated(n, r) <= MaxInterpolated(k, r)
    BY <1>1, <1>4, CeilDivMonotone DEF MaxInterpolated
<1>6. /\ IsNextPow2(next_pow_2(MaxInterpolated(n, r)), MaxInterpolated(n, r))
      /\ IsNextPow2(next_pow_2(MaxInterpolated(k, r)), MaxInterpolated(k, r))
      /\ next_pow_2(MaxInterpolated(k, r)) \in Nat
    BY WidthAssumption
<1>7. next_pow_2(MaxInterpolated(k, r)) >= MaxInterpolated(n, r)
    BY <1>1, <1>5, <1>6 DEF IsNextPow2
<1> QED
    BY <1>6, <1>7 DEF IsNextPow2

(* What one exchange does to the number of samples held: the indices stay   *)
(* in range and apart by what was held, put in and taken out.                *)
LEMMA RingCounts ==
    ASSUME NEW i \in 0 .. Width - 1, NEW o \in 0 .. Width - 1,
           NEW size \in 1 .. Width - 1, NEW put \in Nat, NEW got \in Nat,
           put <= size - Minus(i, o), Minus(i, o) <= size,
           got <= Minus(Plus(i, put), o),
           NEW next, next = Rebased(Plus(i, put), Plus(o, got), size)
    PROVE  /\ next[1] \in 0 .. Width - 1 /\ next[2] \in 0 .. Width - 1
           /\ Minus(next[1], next[2]) = Minus(i, o) + put - got
<1> DEFINE p == Plus(i, put)
           g == Plus(o, got)
<1>1. Width \in Nat
    BY WidthAssumption
<1>2. Minus(i, o) \in 0 .. Width - 1
    BY <1>1 DEF Minus
<1>3. p \in 0 .. Width - 1 /\ Minus(p, o) = Minus(i, o) + put
    BY <1>1, <1>2 DEF Plus, Minus
<1>4. g \in 0 .. Width - 1 /\ Minus(p, g) = Minus(p, o) - got
    BY <1>1, <1>3 DEF Plus, Minus
<1> HIDE DEF p, g
<1>5. /\ Minus(p, size) \in 0 .. Width - 1 /\ Minus(g, size) \in 0 .. Width - 1
      /\ Minus(Minus(p, size), Minus(g, size)) = Minus(p, g)
    BY <1>1, <1>3, <1>4 DEF Minus
<1>0. next = Rebased(p, g, size)
    BY DEF p, g
<1>6. CASE p > size \/ g > size
    <2>1. next[1] = Minus(p, size) /\ next[2] = Minus(g, size)
        BY <1>0, <1>6 DEF Rebased
    <2>2. Minus(next[1], next[2]) = Minus(p, g)
        BY <2>1, <1>5
    <2> QED
        BY <2>1, <2>2, <1>2, <1>3, <1>4, <1>5
<1>7. CASE ~(p > size \/ g > size)
    <2>1. next[1] = p /\ next[2] = g
        BY <1>0, <1>7 DEF Rebased
    <2> QED
        BY <2>1, <1>2, <1>3, <1>4
<1> QED
    BY <1>6, <1>7

-----------------------------------------------------------------------------
(* The layout fits the longest block at the rate of now; the stages stay    *)
(* within it; the ring holds no more than its size.                          *)
LayoutInv ==
    /\ rate \in Rates /\ enableASRC = Resampled(rate)
    /\ blockSizeMax \in BlockSizes
    /\ stride \in Nat /\ total \in Nat /\ pw2BlockMemSize \in Nat
    /\ blockSizeMax <= stride /\ 2 * stride <= total
    /\ enableASRC =>
          /\ stride = WorkLength(blockSizeMax, rate)
          /\ pw2BlockMemSize = next_pow_2(MaxInterpolated(blockSizeMax, rate))
          /\ total = 4 * stride + 2 * pw2BlockMemSize

StageInv ==
    /\ decimator \in Nat /\ interpolator \in Nat /\ want \in Nat
    /\ reach \in Nat /\ longest \in Nat
    /\ produced \in 0 .. Labels - 1 /\ roomy \in BOOLEAN
    /\ reach <= stride /\ longest <= blockSizeMax

RingInv ==
    /\ in \in 0 .. Width - 1 /\ out \in 0 .. Width - 1
    /\ Count <= pw2BlockMemSize
    /\ enableASRC => DOMAIN ring = 0 .. pw2BlockMemSize - 1
    /\ ~enableASRC => Count = 0

Inv == LayoutInv /\ StageInv /\ RingInv

LEMMA InitInv == Init => Inv
<1> SUFFICES ASSUME Init PROVE Inv
    OBVIOUS
<1>1. StartBlock \in Nat \ {0} /\ StartBlock \in BlockSizes /\ StartRate \in Rates
    BY BlocksAssumption, RatesAssumption
<1>2. Width \in Nat
    BY WidthAssumption
<1>3. Width # 0
    BY WidthAssumption, <1>1, <1>2
<1>4. Labels \in Nat \ {0}
    BY LabelsAssumption
<1>5. LayoutInv
    <2>1. enableASRC = Resampled(rate) /\ enableASRC = FALSE
        <3>1. enableASRC = FALSE /\ rate = StartRate /\ ~Resampled(StartRate)
            BY DEF Init
        <3>2. Resampled(StartRate) = FALSE
            BY <3>1, SMT DEF Resampled
        <3> QED
            BY <3>1, <3>2, Zenon
    <2> QED
        BY <1>1, <2>1 DEF Init, LayoutInv
<1>6. StageInv
    BY <1>1, <1>4 DEF Init, StageInv
<1>7. RingInv
    BY <1>2, <1>3 DEF Init, RingInv, Count, Minus
<1> QED
    BY <1>5, <1>6, <1>7 DEF Inv

(* A layout for blocks of n at rate r.                                      *)
LEMMA AllocateFits ==
    ASSUME NEW n \in BlockSizes, NEW r \in Rates, AllocateFor(n, r)
    PROVE  /\ stride' = WorkLength(n, r) /\ stride' \in Nat /\ n <= stride'
           /\ pw2BlockMemSize' = next_pow_2(MaxInterpolated(n, r))
           /\ pw2BlockMemSize' \in 1 .. Width - 1
           /\ total' = 4 * stride' + 2 * pw2BlockMemSize'
           /\ total' \in Nat /\ 2 * stride' <= total'
<1>1. /\ stride' = WorkLength(n, r)
      /\ pw2BlockMemSize' = next_pow_2(MaxInterpolated(n, r))
      /\ total' = 4 * stride' + 2 * pw2BlockMemSize'
    BY DEF AllocateFor
<1>2. WorkLength(n, r) \in Nat /\ n <= WorkLength(n, r) /\ n \in Nat
    BY LengthsFit
<1>3. next_pow_2(MaxInterpolated(n, r)) \in 1 .. Width - 1 /\ Width \in Nat
    BY WidthAssumption
<1> QED
    BY <1>1, <1>2, <1>3

LEMMA SetSampleRateInv ==
    ASSUME Inv, NEW r \in Rates, SetSampleRate(r)
    PROVE  Inv'
<1>1. rate' = r /\ enableASRC' = Resampled(r) /\ blockSizeMax' = blockSizeMax
    BY DEF SetSampleRate
<1>2. /\ decimator' = 0 /\ interpolator' = 0 /\ in' = 0 /\ out' = 0
      /\ produced' = 0 /\ want' = 0 /\ reach' = 0 /\ longest' = 0 /\ roomy' = HasRoom'
    BY DEF SetSampleRate
<1>3. blockSizeMax \in BlockSizes /\ blockSizeMax \in Nat \ {0}
    BY BlocksAssumption DEF Inv, LayoutInv
<1>4. Labels \in Nat \ {0}
    BY LabelsAssumption
<1>5. Width \in Nat /\ Width # 0
    BY WidthAssumption, <1>3
<1>6. LayoutInv'
    <2>1. CASE Resampled(r)
        <3>1. AllocateFor(blockSizeMax, r)
            BY <2>1 DEF SetSampleRate
        <3> QED
            BY <1>1, <1>3, <2>1, <3>1, AllocateFits DEF LayoutInv
    <2>2. CASE ~Resampled(r)
        <3>1. UNCHANGED <<stride, pw2BlockMemSize, total>>
            BY <2>2 DEF SetSampleRate
        <3> QED
            BY <1>1, <2>2, <3>1 DEF Inv, LayoutInv
    <2> QED
        BY <2>1, <2>2
<1>7. StageInv'
    BY <1>1, <1>2, <1>3, <1>4, <1>6 DEF StageInv, LayoutInv, HasRoom
<1>8. Count' = 0
    BY <1>2, <1>5 DEF Count, Minus
<1>9. enableASRC' => ring' = Fresh(pw2BlockMemSize')
    BY <1>1 DEF SetSampleRate
<1>10. enableASRC' => DOMAIN ring' = 0 .. pw2BlockMemSize' - 1
    BY <1>9 DEF Fresh
<1>11. Count' <= pw2BlockMemSize'
    BY <1>6, <1>8 DEF LayoutInv
<1>12. RingInv'
    BY <1>2, <1>5, <1>8, <1>10, <1>11 DEF RingInv
<1> QED
    BY <1>6, <1>7, <1>12 DEF Inv

(* Room for a block of n, in a layout that still fits.                      *)
LEMMA RoomIsMade ==
    ASSUME LayoutInv, NEW n \in BlockSizes, EnsureRoom(n), UNCHANGED <<rate, enableASRC>>
    PROVE  /\ LayoutInv'
           /\ n <= blockSizeMax' /\ pw2BlockMemSize' \in Nat
           /\ enableASRC => pw2BlockMemSize <= pw2BlockMemSize'
<1>1. n \in Nat /\ blockSizeMax \in Nat
    BY BlocksAssumption DEF LayoutInv
<1>2. CASE blockSizeMax >= n
    <2>1. UNCHANGED <<blockSizeMax, stride, pw2BlockMemSize, total>>
        BY <1>2 DEF EnsureRoom
    <2> QED
        BY <1>1, <1>2, <2>1 DEF LayoutInv
<1>3. CASE ~(blockSizeMax >= n) /\ enableASRC
    <2>1. AllocateFor(n, rate) /\ blockSizeMax' = n
        BY <1>3 DEF EnsureRoom
    <2>2. rate \in Rates
        BY DEF LayoutInv
    <2>3. next_pow_2(MaxInterpolated(blockSizeMax, rate)) <= next_pow_2(MaxInterpolated(n, rate))
        BY <1>1, <1>3, <2>2, RingGrows DEF LayoutInv
    <2>4. LayoutInv'
        BY <1>1, <1>3, <2>1, <2>2, AllocateFits DEF LayoutInv
    <2> QED
        BY <1>1, <1>3, <2>1, <2>3, <2>4 DEF LayoutInv
<1>4. CASE ~(blockSizeMax >= n) /\ ~enableASRC
    <2>1. blockSizeMax' = n /\ stride' = n /\ pw2BlockMemSize' = 0 /\ total' = 2 * n
        BY <1>4 DEF EnsureRoom
    <2> QED
        BY <1>1, <1>4, <2>1 DEF LayoutInv
<1> QED
    BY <1>2, <1>3, <1>4

LEMMA ProcessPlainInv ==
    ASSUME Inv, NEW n \in BlockSizes, ProcessPlain(n)
    PROVE  Inv'
<1>1. /\ ~enableASRC /\ EnsureRoom(n) /\ UNCHANGED <<rate, enableASRC>>
      /\ UNCHANGED <<decimator, interpolator, in, out, produced, want, roomy>>
      /\ reach' = n /\ longest' = n
    BY DEF ProcessPlain
<1>2. LayoutInv' /\ n <= blockSizeMax'
    BY <1>1, RoomIsMade DEF Inv
<1>3. n \in Nat /\ blockSizeMax' \in Nat
    BY BlocksAssumption, <1>2 DEF LayoutInv
<1>4. StageInv'
    BY <1>1, <1>2, <1>3 DEF Inv, StageInv, LayoutInv
<1>5. Count' = Count
    BY <1>1 DEF Count, Minus
<1>6. RingInv'
    BY <1>1, <1>2, <1>5 DEF Inv, RingInv, LayoutInv
<1> QED
    BY <1>2, <1>4, <1>6 DEF Inv

LEMMA ProcessResampledInv ==
    ASSUME Inv, NEW n \in BlockSizes, ProcessResampled(n)
    PROVE  Inv'
<1> DEFINE up == Num[rate]
           down == Den[rate]
           there == OutputCount(decimator, n, up, down)
           back == OutputCount(interpolator, there, down, up)
           block == [i \in 1 .. back |-> (produced + i - 1) % Labels]
           size == pw2BlockMemSize'
           lenIn == Accepted(Count, size, Len(block))
           lenOut == Least(n, Minus(Plus(in, lenIn), out))
           next == Rebased(Plus(in, lenIn), Plus(out, lenOut), size)
<1>1. enableASRC /\ UNCHANGED <<rate, enableASRC>> /\ EnsureRoom(n)
    BY DEF ProcessResampled
<1>2. /\ LayoutInv' /\ n <= blockSizeMax'
      /\ pw2BlockMemSize <= size /\ size \in Nat
    BY <1>1, RoomIsMade DEF Inv
<1>3. rate \in Rates /\ blockSizeMax' \in BlockSizes /\ rate' = rate
    BY <1>1, <1>2 DEF LayoutInv
<1>4. /\ up \in Nat \ {0} /\ down \in Nat \ {0} /\ n \in Nat /\ blockSizeMax' \in Nat
      /\ MaxDecimated(blockSizeMax', rate) \in Nat
      /\ MaxInterpolated(blockSizeMax', rate) \in Nat
      /\ stride' \in Nat /\ blockSizeMax' <= stride'
      /\ MaxDecimated(blockSizeMax', rate) <= stride'
      /\ MaxInterpolated(blockSizeMax', rate) <= stride'
    BY <1>1, <1>2, <1>3, LengthsFit DEF LayoutInv
<1>5. /\ there \in Nat /\ there <= MaxDecimated(blockSizeMax', rate)
      /\ PositionAfter(decimator, n, up, down) \in Nat
    BY <1>2, <1>4, OutputsFit DEF Inv, StageInv, MaxDecimated
<1>6. /\ back \in Nat /\ back <= MaxInterpolated(blockSizeMax', rate)
      /\ PositionAfter(interpolator, there, down, up) \in Nat
    BY <1>4, <1>5, OutputsFit DEF Inv, StageInv, MaxInterpolated
<1>7. /\ decimator' = PositionAfter(decimator, n, up, down)
      /\ interpolator' = PositionAfter(interpolator, there, down, up)
      /\ produced' = (produced + back) % Labels
      /\ want' = n
      /\ reach' = Greatest(n, Greatest(there, back))
      /\ longest' = LongestPiece(there, blockSizeMax')
      /\ roomy' = (roomy /\ HasRoom')
    BY DEF ProcessResampled
<1>8. ring' = [i \in 0 .. size - 1 |->
                 LET at == (i - in) % size IN
                 IF at < lenIn THEN block[at + 1] ELSE RingMemory[i]]
    BY DEF ProcessResampled, RingBuffering
<1>9. in' = next[1] /\ out' = next[2]
    BY DEF ProcessResampled, RingBuffering
<1>10. Labels \in Nat \ {0} /\ produced \in Nat
    BY LabelsAssumption DEF Inv, StageInv
<1>11. Len(block) = back
    BY <1>6
<1> HIDE DEF there, back, block
<1>12. produced' \in 0 .. Labels - 1
    BY <1>6, <1>7, <1>10
<1>13. reach' \in Nat /\ reach' <= stride'
    BY <1>2, <1>4, <1>5, <1>6, <1>7 DEF Greatest
<1>14. longest' \in Nat /\ longest' <= blockSizeMax'
    BY <1>4, <1>5, <1>7 DEF LongestPiece, Least
<1>15. roomy' \in BOOLEAN
    BY <1>7
<1>16. StageInv'
    BY <1>4, <1>5, <1>6, <1>7, <1>12, <1>13, <1>14, <1>15 DEF StageInv
<1>17. size \in 1 .. Width - 1 /\ Width \in Nat
    BY <1>1, <1>2, <1>3, WidthAssumption DEF LayoutInv
<1>18. /\ in \in 0 .. Width - 1 /\ out \in 0 .. Width - 1
       /\ Count <= size /\ Count \in Nat
    BY <1>2, <1>17 DEF Inv, RingInv, LayoutInv, Count, Minus
<1>19. lenIn = IF back <= size - Count THEN back ELSE size - Count
    BY <1>11 DEF Accepted, Least
<1> HIDE DEF lenIn, size
<1>20. lenIn \in Nat /\ lenIn <= size - Count
    BY <1>2, <1>6, <1>18, <1>19
<1>21. Minus(Plus(in, lenIn), out) = Count + lenIn
    BY <1>17, <1>18, <1>20 DEF Plus, Minus, Count
<1>22. Minus(Plus(in, lenIn), out) \in Nat
    BY <1>18, <1>20, <1>21
<1>23. lenOut \in Nat /\ lenOut <= Minus(Plus(in, lenIn), out)
    BY <1>4, <1>22 DEF Least
<1> HIDE DEF lenOut, next
<1>24. /\ next[1] \in 0 .. Width - 1 /\ next[2] \in 0 .. Width - 1
       /\ Minus(next[1], next[2]) = Count + lenIn - lenOut
    BY <1>17, <1>18, <1>20, <1>23, RingCounts DEF Count, next
<1>25. Count' = Count + lenIn - lenOut
    BY <1>9, <1>24 DEF Count
<1>26. DOMAIN ring' = 0 .. size - 1
    BY <1>8
<1>27. Count' <= size
    BY <1>2, <1>18, <1>20, <1>23, <1>25
<1>28. in' \in 0 .. Width - 1 /\ out' \in 0 .. Width - 1
    BY <1>9, <1>24
<1>29. RingInv'
    BY <1>1, <1>26, <1>27, <1>28 DEF RingInv, size
<1> QED
    BY <1>2, <1>16, <1>29 DEF Inv

LEMMA NextInv == Inv /\ [Next]_vars => Inv'
<1> SUFFICES ASSUME Inv, [Next]_vars PROVE Inv'
    OBVIOUS
<1>1. CASE UNCHANGED vars
    BY <1>1 DEF vars, layout, Inv, LayoutInv, StageInv, RingInv, Count
<1>2. CASE \E r \in Rates : SetSampleRate(r)
    BY <1>2, SetSampleRateInv
<1>3. CASE \E n \in BlockSizes : ProcessPlain(n) \/ ProcessResampled(n)
    BY <1>3, ProcessPlainInv, ProcessResampledInv
<1> QED
    BY <1>1, <1>2, <1>3 DEF Next

LEMMA InvAlways == Spec => []Inv
    BY InitInv, NextInv, PTL DEF Spec

(* The indices of the ring and the samples held stay within the ring, for    *)
(* any blocks and rates and across the wrap of the indices.                  *)
THEOREM RingStaysInBounds == Spec => []TypeOK
<1>1. Inv => TypeOK
    BY DEF Inv, LayoutInv, StageInv, RingInv, TypeOK
<1> QED
    BY <1>1, InvAlways, PTL

(* No stage writes past its area or the allocation, and no effect gets a     *)
(* block longer than it is set up for, for any blocks and rates.             *)
THEOREM AreasAlwaysHold == Spec => []AreasHold
<1>1. Inv => AreasHold
    BY DEF Inv, LayoutInv, StageInv, AreasHold
<1> QED
    BY <1>1, InvAlways, PTL

-----------------------------------------------------------------------------
(* The ring as a queue.                                                     *)
LEMMA ProductInt ==
    ASSUME NEW a \in Int, NEW b \in Int, NEW c \in Nat, a <= b
    PROVE  a * c <= b * c /\ a * c \in Int
    OBVIOUS

(* The remainder is the only one in its range.                              *)
LEMMA RemainderUnique ==
    ASSUME NEW a \in Int, NEW s \in Nat \ {0}, NEW q \in Int, NEW r \in 0 .. s - 1,
           a = q * s + r
    PROVE  a % s = r
<1> DEFINE d == a \div s
           m == a % s
<1>1. d \in Int /\ m \in 0 .. s - 1 /\ a = d * s + m
    BY Z3
<1> HIDE DEF d, m
<1>2. CASE d + 1 <= q
    <2>1. (d + 1) * s <= q * s
        BY <1>1, <1>2, ProductInt
    <2>2. (d + 1) * s = d * s + s
        BY <1>1
    <2> QED
        BY <1>1, <2>1, <2>2, ProductInt
<1>3. CASE q + 1 <= d
    <2>1. (q + 1) * s <= d * s
        BY <1>1, <1>3, ProductInt
    <2>2. (q + 1) * s = q * s + s
        BY <1>1
    <2> QED
        BY <1>1, <2>1, <2>2, ProductInt
<1>4. d = q \/ d + 1 <= q \/ q + 1 <= d
    BY <1>1
<1>5. m = r
    BY <1>1, <1>2, <1>3, <1>4
<1> QED
    BY <1>5 DEF m

LEMMA RemainderShift ==
    ASSUME NEW a \in Int, NEW s \in Nat \ {0}, NEW k \in Int
    PROVE  (a + k * s) % s = a % s
<1> DEFINE d == a \div s
           m == a % s
<1>1. d \in Int /\ m \in 0 .. s - 1 /\ a = d * s + m
    BY Z3
<1> HIDE DEF d, m
<1>2. a + k * s = (d + k) * s + m
    BY <1>1
<1>3. (a + k * s) % s = m
    BY <1>1, <1>2, RemainderUnique
<1> QED
    BY <1>3 DEF m

(* Where the sample j places after the oldest goes: before the samples put  *)
(* in the memory is as it was, then comes the block.                         *)
LEMMA PlaceInRing ==
    ASSUME NEW size \in 1 .. Width - 1, Width % size = 0,
           NEW i \in 0 .. Width - 1, NEW o \in 0 .. Width - 1, Minus(i, o) <= size,
           NEW put \in Nat, put <= size - Minus(i, o), NEW j \in 1 .. Minus(i, o) + put
    PROVE  LET at == (((o + j - 1) % size) - i) % size IN
           /\ (o + j - 1) % size \in 0 .. size - 1
           /\ j <= Minus(i, o) => ~(at < put)
           /\ j > Minus(i, o) => at < put /\ at + 1 = j - Minus(i, o)
<1> DEFINE w == Width \div size
           d == (o + j - 1) \div size
           m == (o + j - 1) % size
           c == Minus(i, o)
           at == (m - i) % size
<1>0. Width \in Nat /\ size \in Nat \ {0} /\ i \in Nat /\ o \in Nat
    BY WidthAssumption
<1>1. w \in Int /\ Width = w * size
    BY <1>0, Z3
<1>2. c \in Nat /\ j \in Nat \ {0}
    BY <1>0 DEF Minus
<1>3. o + j - 1 \in Int
    BY <1>0, <1>2
<1>4. d \in Int /\ m \in 0 .. size - 1 /\ o + j - 1 = d * size + m
    BY <1>0, <1>3, Z3
<1>5. c = i - o \/ c = i - o + Width
    BY DEF Minus
<1> HIDE DEF w, d, m
<1>6. \E k \in Int : m - i = (j - 1 - c) + k * size
    <2>1. CASE c = i - o
        <3>1. m - i = (j - 1 - c) + (-d) * size
            BY <1>0, <1>2, <1>4, <2>1
        <3>2. -d \in Int
            BY <1>4
        <3> QED
            BY <3>1, <3>2
    <2>2. CASE c = i - o + Width
        <3>1. m - i = (j - 1 - c) + (w - d) * size
            BY <1>0, <1>1, <1>2, <1>4, <2>2
        <3>2. w - d \in Int
            BY <1>1, <1>4
        <3> QED
            BY <3>1, <3>2
    <2> QED
        BY <1>5, <2>1, <2>2
<1> HIDE DEF c
<1>7. at = (j - 1 - c) % size
    <2>1. PICK k \in Int : m - i = (j - 1 - c) + k * size
        BY <1>6
    <2>2. j - 1 - c \in Int
        BY <1>2
    <2>3. ((j - 1 - c) + k * size) % size = (j - 1 - c) % size
        BY <1>0, <2>2, RemainderShift
    <2> QED
        BY <2>1, <2>3, Zenon
<1>8. c <= size /\ put <= size - c
    BY DEF c
<1>9. ASSUME j <= c PROVE ~(at < put)
    <2>1. j - 1 - c \in Int /\ j - 1 - c = (-1) * size + (j - 1 - c + size)
        BY <1>0, <1>2
    <2>2. j - 1 - c + size \in 0 .. size - 1
        BY <1>0, <1>2, <1>8, <1>9
    <2>3. at = j - 1 - c + size
        BY <1>0, <1>7, <2>1, <2>2, RemainderUnique
    <2> QED
        BY <1>0, <1>2, <1>8, <2>3
<1>10. ASSUME j > c PROVE at < put /\ at + 1 = j - c
    <2>1. j - 1 - c \in Int /\ j - 1 - c = 0 * size + (j - 1 - c)
        BY <1>0, <1>2
    <2>2. j - 1 - c \in 0 .. size - 1 /\ j - 1 - c < put
        <3>1. j <= c + put
            BY DEF c
        <3> QED
            BY <1>0, <1>2, <1>8, <1>10, <3>1
    <2>3. at = j - 1 - c
        BY <1>0, <1>7, <2>1, <2>2, RemainderUnique
    <2> QED
        BY <1>2, <2>2, <2>3
<1> QED
    BY <1>4, <1>9, <1>10 DEF c, m

(* The reading index moves by what was taken out, up to whole rings.        *)
LEMMA RebasedPlace ==
    ASSUME NEW size \in 1 .. Width - 1, Width % size = 0,
           NEW p \in 0 .. Width - 1, NEW o \in 0 .. Width - 1, NEW got \in Nat, NEW i \in Nat,
           NEW next, next = Rebased(p, Plus(o, got), size)
    PROVE  (next[2] + i - 1) % size = (o + (got + i) - 1) % size
<1> DEFINE w == Width \div size
           r == next[2]
<1>0. Width \in Nat /\ size \in Nat \ {0} /\ o \in Nat
    BY WidthAssumption
<1>1. w \in Int /\ Width = w * size
    BY <1>0, Z3
<1> HIDE DEF w
<1>2. \E a \in Int : Plus(o, got) = o + got + a * size
    <2>1. CASE o + got >= Width
        <3>1. Plus(o, got) = o + got + (-w) * size
            BY <1>0, <1>1, <2>1 DEF Plus
        <3> QED
            BY <1>1, <3>1
    <2>2. CASE ~(o + got >= Width)
        <3>1. Plus(o, got) = o + got + 0 * size
            BY <1>0, <2>2 DEF Plus
        <3> QED
            BY <3>1
    <2> QED
        BY <2>1, <2>2
<1>3. PICK a \in Int : Plus(o, got) = o + got + a * size
    BY <1>2
<1>4. \E b \in Int : r = o + got + b * size
    <2>1. Plus(o, got) \in Int
        BY <1>0, <1>1 DEF Plus
    <2>2. CASE r = Plus(o, got)
        BY <1>3, <2>2
    <2>3. CASE r = Minus(Plus(o, got), size)
        <3>1. CASE r = Plus(o, got) - size
            <4>1. r = o + got + (a - 1) * size
                BY <1>0, <1>3, <3>1
            <4> QED
                BY <4>1
        <3>2. CASE r = Plus(o, got) - size + Width
            <4>1. r = o + got + (a - 1 + w) * size
                BY <1>0, <1>1, <1>3, <3>2
            <4> QED
                BY <1>1, <4>1
        <3> QED
            BY <2>3, <3>1, <3>2 DEF Minus
    <2> QED
        BY <2>2, <2>3 DEF Rebased
<1>5. PICK b \in Int : r = o + got + b * size
    BY <1>4
<1> HIDE DEF r
<1>6. r + i - 1 = (o + (got + i) - 1) + b * size
    BY <1>0, <1>5
<1>7. o + (got + i) - 1 \in Int
    BY <1>0
<1>8. ((o + (got + i) - 1) + b * size) % size = (o + (got + i) - 1) % size
    BY <1>0, <1>7, RemainderShift
<1>9. (r + i - 1) % size = (o + (got + i) - 1) % size
    BY <1>6, <1>8, Zenon
<1> QED
    BY <1>9 DEF r

(* What waits in a ring's memory of that size, oldest first.                *)
Waiting(memory, size) == [j \in 1 .. Count |-> memory[(out + j - 1) % size]]

(* The samples waiting with the beginning of a block behind them.           *)
LEMMA PutBehind ==
    ASSUME NEW S, NEW base \in Seq(S), NEW block \in Seq(S), NEW put \in 0 .. Len(block)
    PROVE  LET whole == base \o SubSeq(block, 1, put) IN
           /\ whole \in Seq(S) /\ Len(whole) = Len(base) + put
           /\ \A j \in 1 .. Len(base) + put :
                 whole[j] = IF j <= Len(base) THEN base[j] ELSE block[j - Len(base)]
<1> DEFINE b == SubSeq(block, 1, put)
<1>1. b \in Seq(S) /\ Len(b) = put /\ \A j \in 1 .. put : b[j] = block[j]
    OBVIOUS
<1> HIDE DEF b
<1>2. base \o b \in Seq(S) /\ Len(base \o b) = Len(base) + put
    <2>1. b \in Seq(S) /\ Len(b) = put
        BY ONLY <1>1
    <2>2. base \o b \in Seq(S) /\ Len(base \o b) = Len(base) + Len(b)
        BY ONLY base \in Seq(S), <2>1, ConcatProperties, Zenon
    <2> QED
        BY ONLY <2>1, <2>2, Zenon
<1>3. ASSUME NEW j \in 1 .. Len(base) + put
      PROVE  (base \o b)[j] = IF j <= Len(base) THEN base[j] ELSE block[j - Len(base)]
    <2>1. (base \o b)[j] = IF j <= Len(base) THEN base[j] ELSE b[j - Len(base)]
        BY <1>1, ConcatProperties
    <2>2. Len(base) \in Nat /\ put \in Nat
        OBVIOUS
    <2>3. ~(j <= Len(base)) => j - Len(base) \in 1 .. put
        BY <2>2
    <2> QED
        BY <1>1, <2>1, <2>3
<1> QED
    BY <1>2, <1>3 DEF b

(* What is put in adds to what is held.                                     *)
LEMMA IndexAfterPut ==
    ASSUME NEW i \in Nat, NEW o \in Nat, NEW put \in Nat, NEW size \in Nat,
           Width \in Nat, i < Width, o < Width, size < Width,
           put + Minus(i, o) <= size
    PROVE  Plus(i, put) \in 0 .. Width - 1 /\ Minus(Plus(i, put), o) = Minus(i, o) + put
    BY DEF Minus, Plus

(* What comes out and what stays, place by place.                           *)
LEMMA RingExchanges ==
    ASSUME NEW size \in 1 .. Width - 1, Width % size = 0,
           in \in 0 .. Width - 1, out \in 0 .. Width - 1, Count <= size,
           NEW block, NEW length \in Nat, Len(block) = length, NEW n \in Nat,
           NEW memory, RingBuffering(memory, size, block, n),
           NEW put, put = Queue!Smaller(length, size - Count),
           NEW got, got = Queue!Smaller(n, Count + put),
           NEW whole,
           \A j \in 1 .. Count + put :
              whole[j] = IF j <= Count THEN Waiting(memory, size)[j] ELSE block[j - Count]
    PROVE  /\ Count \in Nat /\ put \in 0 .. length /\ got \in 0 .. Count + put
           /\ delivered' = [j \in 1 .. got |-> whole[j]]
           /\ Waiting(ring, size)' = [j \in 1 .. Count + put - got |-> whole[got + j]]
<1>1. Width \in Nat /\ size \in Nat \ {0} /\ Count \in Nat /\ Count = Minus(in, out)
    BY WidthAssumption DEF Count, Minus
<1>2. /\ put \in 0 .. length /\ put <= size - Count
      /\ put = Accepted(Count, size, Len(block))
    BY <1>1 DEF Accepted, Least, Queue!Smaller
<1>3. Minus(Plus(in, put), out) = Count + put
    BY <1>1, <1>2, IndexAfterPut, SMTT(30)
<1>4. got \in 0 .. Count + put /\ got = Least(n, Minus(Plus(in, put), out))
    BY <1>1, <1>2, <1>3, SMTT(30) DEF Least, Queue!Smaller
<1>5. PICK next : next = Rebased(Plus(in, put), Plus(out, got), size)
    OBVIOUS
<1>6. /\ \A i \in 0 .. size - 1 :
            ring'[i] = LET at == (i - in) % size IN
                       IF at < put THEN block[at + 1] ELSE memory[i]
      /\ delivered' = [i \in 1 .. got |-> ring'[(out + i - 1) % size]]
      /\ in' = next[1] /\ out' = next[2]
    BY <1>2, <1>4, <1>5 DEF RingBuffering
<1>7. /\ Count' = Count + put - got
      /\ \A j \in Nat : (out' + j - 1) % size = (out + (got + j) - 1) % size
    <2>1. put <= size - Minus(in, out) /\ Minus(in, out) <= size /\ put \in Nat /\ got \in Nat
        BY <1>1, <1>2, <1>4
    <2>2. got <= Minus(Plus(in, put), out)
        BY <1>3, <1>4
    <2>3. Minus(next[1], next[2]) = Minus(in, out) + put - got
        BY <1>5, <2>1, <2>2, RingCounts
    <2>4. Plus(in, put) \in 0 .. Width - 1
        BY <1>1, <1>2, IndexAfterPut
    <2>5. ASSUME NEW j \in Nat PROVE (next[2] + j - 1) % size = (out + (got + j) - 1) % size
        <3>1. PICK p : p = Plus(in, put)
            OBVIOUS
        <3>2. p \in 0 .. Width - 1 /\ next = Rebased(p, Plus(out, got), size) /\ got \in Nat
            BY <1>5, <2>1, <2>4, <3>1
        <3> QED
            BY ONLY <3>2, out \in 0 .. Width - 1, j \in Nat, RebasedPlace,
                    size \in 1 .. Width - 1, Width % size = 0
    <2> QED
        BY <1>1, <1>6, <2>3, <2>5, SMTT(30) DEF Count
<1>8. ASSUME NEW j \in 1 .. Count + put
      PROVE  ring'[(out + j - 1) % size] = whole[j]
    <2> DEFINE place == (out + j - 1) % size
               at == (place - in) % size
    <2>1. /\ place \in 0 .. size - 1
          /\ j <= Count => ~(at < put)
          /\ j > Count => at < put /\ at + 1 = j - Count
        <3>1. put \in Nat /\ put <= size - Minus(in, out) /\ Minus(in, out) <= size
            BY <1>1, <1>2
        <3>2. j \in 1 .. Minus(in, out) + put
            BY <1>1
        <3> QED
            BY <1>1, <3>1, <3>2, PlaceInRing, SMTT(30)
    <2>2. ring'[place] = IF at < put THEN block[at + 1] ELSE memory[place]
        BY <1>6, <2>1, Zenon
    <2>3. j <= Count => Waiting(memory, size)[j] = memory[place]
        BY <1>1 DEF Waiting
    <2> HIDE DEF place, at
    <2>4. whole[j] = IF j <= Count THEN Waiting(memory, size)[j] ELSE block[j - Count]
        OBVIOUS
    <2>5. j <= Count \/ j > Count
        BY <1>1, <1>2
    <2>6. ring'[place] = whole[j]
        BY <2>1, <2>2, <2>3, <2>4, <2>5
    <2> QED
        BY <2>6 DEF place
<1>9. delivered' = [j \in 1 .. got |-> whole[j]]
    <2>1. \A j \in 1 .. got : ring'[(out + j - 1) % size] = whole[j]
        BY <1>1, <1>2, <1>4, <1>8
    <2> QED
        BY <1>6, <2>1, Zenon
<1>10. \A j \in 1 .. Count + put - got : ring'[(out' + j - 1) % size] = whole[got + j]
    <2> TAKE j \in 1 .. Count + put - got
    <2>1. j \in Nat /\ got + j \in 1 .. Count + put
        BY <1>1, <1>2, <1>4
    <2>2. (out' + j - 1) % size = (out + (got + j) - 1) % size
        BY <1>7, <2>1, Zenon
    <2>3. ring'[(out + (got + j) - 1) % size] = whole[got + j]
        BY <1>8, <2>1, Zenon
    <2> QED
        BY <2>2, <2>3, Zenon
<1>11. Waiting(ring, size)' = [j \in 1 .. Count + put - got |-> whole[got + j]]
    BY <1>7, <1>10, Zenon DEF Waiting
<1> QED
    BY <1>1, <1>2, <1>4, <1>9, <1>11


(* The first of all samples are given out, the others wait.                 *)
GivesOut(all, given, size) ==
    /\ delivered' = SubSeq(all, 1, given)
    /\ Waiting(ring, size)' = SubSeq(all, given + 1, Len(all))

(* One block into the ring and one out of it, as the queue has it.          *)
LEMMA RingIsQueue ==
    ASSUME NEW size, NEW block, NEW n, NEW memory,
           size \in 1 .. Width - 1, Width % size = 0,
           in \in 0 .. Width - 1, out \in 0 .. Width - 1, Count <= size,
           block \in Seq(Nat), n \in Nat, RingBuffering(memory, size, block, n)
    PROVE  \A all, given :
              /\ all = Waiting(memory, size)
                       \o SubSeq(block, 1, Queue!Smaller(Len(block), size - Count))
              /\ given = Queue!Smaller(n, Len(all))
              => GivesOut(all, given, size)
<1>1. PICK put : put = Queue!Smaller(Len(block), size - Count)
    OBVIOUS
<1>2. PICK got : got = Queue!Smaller(n, Count + put)
    OBVIOUS
<1>3. PICK base : base = Waiting(memory, size)
    OBVIOUS
<1>4. PICK whole : whole = base \o SubSeq(block, 1, put)
    OBVIOUS
<1>5. PICK S : S = {base[j] : j \in 1 .. Count} \union Nat
    OBVIOUS
<1>6. Count \in Nat /\ put \in 0 .. Len(block) /\ got \in 0 .. Count + put
    <2>1. Count \in Nat
        BY WidthAssumption DEF Count, Minus
    <2>2. Len(block) \in Nat
        OBVIOUS
    <2>3. PICK length : length = Len(block)
        OBVIOUS
    <2>4. size \in Nat /\ length \in Nat /\ put = Queue!Smaller(length, size - Count)
        BY <1>1, <2>2, <2>3
    <2>5. put \in 0 .. length
        BY <2>1, <2>4 DEF Queue!Smaller
    <2>6. got \in 0 .. Count + put
        BY <1>2, <2>1, <2>4, <2>5 DEF Queue!Smaller
    <2> QED
        BY <2>1, <2>3, <2>5, <2>6
<1>7. base \in Seq(S) /\ Len(base) = Count /\ block \in Seq(S)
    <2>1. base \in [1 .. Count -> S]
        BY <1>3, <1>5 DEF Waiting
    <2>2. Nat \subseteq S
        BY <1>5
    <2> QED
        BY <1>6, <2>1, <2>2, SeqMonotonic
<1>8. /\ whole \in Seq(S) /\ Len(whole) = Count + put
      /\ \A j \in 1 .. Count + put :
            whole[j] = IF j <= Count THEN base[j] ELSE block[j - Count]
    <2>1. LET w == base \o SubSeq(block, 1, put) IN
          /\ w \in Seq(S) /\ Len(w) = Len(base) + put
          /\ \A j \in 1 .. Len(base) + put :
                w[j] = IF j <= Len(base) THEN base[j] ELSE block[j - Len(base)]
        <3>1. base \in Seq(S) /\ block \in Seq(S) /\ put \in 0 .. Len(block)
            BY <1>6, <1>7
        <3> QED
            BY ONLY <3>1, PutBehind, Zenon
    <2> QED
        BY <1>4, <1>7, <2>1, Zenon
<1>9. PICK length : length = Len(block)
    OBVIOUS
<1>10. /\ delivered' = [j \in 1 .. got |-> whole[j]]
       /\ Waiting(ring, size)' = [j \in 1 .. Count + put - got |-> whole[got + j]]
    <2>1. length \in Nat /\ Len(block) = length
        BY <1>9
    <2>2. put = Queue!Smaller(length, size - Count)
        BY <1>1, <1>9
    <2>3. \A j \in 1 .. Count + put :
             whole[j] = IF j <= Count THEN Waiting(memory, size)[j] ELSE block[j - Count]
        BY <1>3, <1>8, Zenon
    <2>4. /\ size \in 1 .. Width - 1 /\ Width % size = 0
          /\ in \in 0 .. Width - 1 /\ out \in 0 .. Width - 1 /\ Count <= size
          /\ n \in Nat /\ RingBuffering(memory, size, block, n)
        OBVIOUS
    <2> QED
        BY ONLY <1>2, <2>1, <2>2, <2>3, <2>4, RingExchanges, SMTT(30)
<1>11. delivered' = SubSeq(whole, 1, got)
    BY <1>6, <1>8, <1>10
<1>12. Waiting(ring, size)' = SubSeq(whole, got + 1, Len(whole))
    BY <1>6, <1>8, <1>10
<1>13. Len(whole) = Count + put /\ GivesOut(whole, got, size)
    BY <1>8, <1>11, <1>12, Zenon DEF GivesOut
<1> QED
    BY <1>1, <1>2, <1>3, <1>4, <1>13, Zenon

LEMMA InitIsQueue == ASSUME Init PROVE Queue!QInit
<1>1. ~enableASRC /\ fed = <<>> /\ want = 0 /\ delivered = <<>>
    BY DEF Init
<1> QED
    BY <1>1 DEF Queue!QInit, Held

LEMMA RateResetsQueue ==
    ASSUME Inv, NEW r \in Rates, SetSampleRate(r) PROVE Queue!Reset
<1>1. fed' = <<>> /\ want' = 0 /\ delivered' = <<>> /\ in' = 0 /\ out' = 0
    BY DEF SetSampleRate
<1>2. Count' = 0
    BY <1>1, WidthAssumption DEF Count, Minus
<1>3. Held' = <<>>
    BY <1>2 DEF Held
<1> QED
    BY <1>1, <1>3 DEF Queue!Reset

LEMMA PlainIsNoQueue ==
    ASSUME Inv, NEW n \in BlockSizes, ProcessPlain(n) PROVE UNCHANGED Queue!qvars
<1>1. ~enableASRC /\ ~enableASRC' /\ UNCHANGED <<fed, want, delivered>>
    BY DEF ProcessPlain
<1> QED
    BY <1>1 DEF Queue!qvars, Held

(* What is held is garbage once the ring's memory is new.                   *)
LEMMA FreshHoldsGarbage ==
    ASSUME NEW size \in Nat \ {0}, out \in Nat, Count \in Nat
    PROVE  Waiting(Fresh(size), size) = [j \in 1 .. Count |-> Garbage]
<1>1. ASSUME NEW j \in 1 .. Count PROVE Fresh(size)[(out + j - 1) % size] = Garbage
    <2>1. (out + j - 1) % size \in 0 .. size - 1
        BY Z3
    <2> QED
        BY <2>1 DEF Fresh
<1> QED
    BY <1>1, Zenon DEF Waiting

LEMMA ResampledIsExchange ==
    ASSUME Inv, Inv', NEW n \in BlockSizes, ProcessResampled(n)
    PROVE  Queue!Pass \/ Queue!Grow
<1>1. /\ enableASRC /\ enableASRC' /\ UNCHANGED <<rate, enableASRC>> /\ EnsureRoom(n)
      /\ want' = n
    BY DEF ProcessResampled
<1>2. /\ LayoutInv' /\ n <= blockSizeMax' /\ pw2BlockMemSize' \in Nat
      /\ pw2BlockMemSize <= pw2BlockMemSize'
    BY <1>1, RoomIsMade DEF Inv
<1>3. PICK size : size = pw2BlockMemSize'
    OBVIOUS
<1>4. size \in 1 .. Width - 1 /\ Width % size = 0 /\ Width \in Nat
    BY <1>1, <1>2, <1>3, WidthAssumption DEF LayoutInv
<1>5. /\ in \in 0 .. Width - 1 /\ out \in 0 .. Width - 1
      /\ Count <= size /\ Count \in Nat /\ pw2BlockMemSize \in Nat /\ n \in Nat
    BY <1>2, <1>3, <1>4, BlocksAssumption DEF Inv, RingInv, LayoutInv, Count, Minus
<1>6. fed' \in Seq(Nat) /\ RingBuffering(RingMemory, size, fed', n)
    <2> DEFINE there == OutputCount(decimator, n, Num[rate], Den[rate])
               back == OutputCount(interpolator, there, Den[rate], Num[rate])
    <2>1. /\ fed' = [i \in 1 .. back |-> (produced + i - 1) % Labels]
          /\ RingBuffering(RingMemory, pw2BlockMemSize', fed', n)
        BY DEF ProcessResampled
    <2>2. Num[rate] \in Nat \ {0} /\ Den[rate] \in Nat \ {0}
        BY RatioAssumption DEF Inv, LayoutInv
    <2>3. decimator \in Nat /\ interpolator \in Nat /\ produced \in Nat /\ Labels \in Nat \ {0}
        BY LabelsAssumption DEF Inv, StageInv
    <2>4. n \in Nat /\ n <= n
        BY <1>5
    <2>5. there \in Nat
        BY ONLY <2>2, <2>3, <2>4, OutputsFit
    <2>6. PICK given : given = there
        OBVIOUS
    <2>7. given \in Nat /\ given <= given /\ back = OutputCount(interpolator, given, Den[rate], Num[rate])
        BY <2>5, <2>6
    <2>8. back \in Nat
        BY ONLY <2>2, <2>3, <2>7, OutputsFit
    <2> HIDE DEF there, back
    <2>9. \A i \in 1 .. back : (produced + i - 1) % Labels \in Nat
        BY <2>3, <2>8, Z3
    <2>10. fed' \in [1 .. back -> Nat]
        BY <2>1, <2>9
    <2> QED
        BY <1>3, <2>1, <2>8, <2>10
<1>7. Held' = Waiting(ring, size)'
    BY <1>1, <1>3 DEF Held, Waiting
<1>8. PICK base : base = Waiting(RingMemory, size)
    OBVIOUS
<1>9. Len(base) = Count
    BY <1>5, <1>8 DEF Waiting
<1>10. Queue!Exchange(base)
    <2>1. PICK block : block = fed'
        OBVIOUS
    <2>2. PICK memory : memory = RingMemory
        OBVIOUS
    <2>3. PICK whole : whole = base \o SubSeq(block, 1, Queue!Smaller(Len(block), size - Count))
        OBVIOUS
    <2>4. PICK given : given = Queue!Smaller(n, Len(whole))
        OBVIOUS
    <2>5. /\ size \in 1 .. Width - 1 /\ Width % size = 0
          /\ in \in 0 .. Width - 1 /\ out \in 0 .. Width - 1 /\ Count <= size
          /\ block \in Seq(Nat) /\ n \in Nat
          /\ RingBuffering(memory, size, block, n)
          /\ base = Waiting(memory, size)
        BY <1>4, <1>5, <1>6, <1>8, <2>1, <2>2, Zenon
    <2>6. whole = Waiting(memory, size)
                  \o SubSeq(block, 1, Queue!Smaller(Len(block), size - Count))
        BY <2>3, <2>5, Zenon
    <2>7. GivesOut(whole, given, size)
        BY ONLY <2>4, <2>5, <2>6, RingIsQueue, Zenon
    <2>8. size = IF enableASRC' THEN pw2BlockMemSize' ELSE 0
        BY <1>1, <1>3
    <2> QED
        BY <1>1, <1>7, <1>9, <2>1, <2>3, <2>4, <2>7, <2>8, Zenon DEF Queue!Exchange, GivesOut
<1>11. CASE blockSizeMax' = blockSizeMax
    <2>1. pw2BlockMemSize = size
        BY <1>1, <1>2, <1>3, <1>11 DEF EnsureRoom
    <2>2. base = Held
        BY <1>1, <1>8, <1>11, <2>1 DEF Held, Waiting, RingMemory
    <2> QED
        BY <1>1, <1>3, <1>10, <2>1, <2>2 DEF Queue!Pass
<1>12. CASE blockSizeMax' # blockSizeMax
    <2>1. base = [j \in 1 .. Count |-> Garbage]
        BY <1>3, <1>4, <1>5, <1>8, <1>12, FreshHoldsGarbage DEF RingMemory
    <2>2. Len(Held) = Count
        BY <1>1, <1>5 DEF Held
    <2> QED
        BY <1>1, <1>2, <1>3, <1>10, <2>1, <2>2 DEF Queue!Grow
<1> QED
    BY <1>11, <1>12

(* Samples leave the ring in the order they entered it, none twice and none  *)
(* made up, for any rates and blocks and across the wrap of the indices.     *)
THEOREM RingIsAQueue == Spec => IsQueue
<1>1. Init => Queue!QInit
    BY InitIsQueue
<1>2. Inv /\ Inv' /\ [Next]_vars => [Queue!Pass \/ Queue!Grow \/ Queue!Reset]_Queue!qvars
    <2> SUFFICES ASSUME Inv, Inv', [Next]_vars
                 PROVE  Queue!Pass \/ Queue!Grow \/ Queue!Reset \/ UNCHANGED Queue!qvars
        OBVIOUS
    <2>1. CASE UNCHANGED vars
        BY <2>1 DEF vars, layout, Queue!qvars, Held, Count
    <2>2. CASE \E r \in Rates : SetSampleRate(r)
        BY <2>2, RateResetsQueue
    <2>3. CASE \E n \in BlockSizes : ProcessPlain(n) \/ ProcessResampled(n)
        BY <2>3, PlainIsNoQueue, ResampledIsExchange
    <2> QED
        BY <2>1, <2>2, <2>3 DEF Next
<1> QED
    BY <1>1, <1>2, InvAlways, PTL DEF Spec, IsQueue, Queue!QSpec

-----------------------------------------------------------------------------
(* Nothing lost of a block.  The two phases together are what waits in the   *)
(* ring, in units of the working rate, and each is less than one output.     *)
PhaseInv ==
    enableASRC /\ roomy =>
       /\ decimator < Den[rate] /\ interpolator < Num[rate]
       /\ decimator + interpolator = Count * Num[rate]
       /\ Len(delivered) = want

(* A stage's phase stays below the distance of its outputs.                 *)
LEMMA PhaseBelowStep ==
    ASSUME NEW from \in Nat, NEW count \in Nat, NEW per \in Nat \ {0},
           NEW step \in Nat \ {0}, from < step
    PROVE  PositionAfter(from, count, per, step) < step
<1>1. count * per \in Nat
    OBVIOUS
<1>2. CASE from >= count * per
    <2>1. OutputCount(from, count, per, step) = 0
        BY <1>2 DEF OutputCount
    <2>2. PositionAfter(from, count, per, step) = from - count * per
        BY <2>1, <1>1 DEF PositionAfter
    <2> QED
        BY <1>1, <2>2
<1>3. CASE ~(from >= count * per)
    <2> DEFINE left == count * per - from
    <2>1. left \in Nat
        BY <1>1, <1>3
    <2>2. PositionAfter(from, count, per, step) = from + CeilDiv(left, step) * step - count * per
        BY <1>3 DEF OutputCount, PositionAfter
    <2>3. CeilDiv(left, step) * step < left + step /\ CeilDiv(left, step) * step \in Nat
        BY <2>1, CeilDivBounds
    <2> QED
        BY <1>1, <2>1, <2>2, <2>3
<1> QED
    BY <1>2, <1>3

(* Two phases below a step each hold at most the carry, and no less than     *)
(* nothing.                                                                  *)
LEMMA CarryBounds ==
    ASSUME NEW c \in Int, NEW up \in Nat \ {0}, NEW down \in Nat \ {0},
           NEW d \in Nat, NEW i \in Nat, d < down, i < up, d + i = c * up
    PROVE  c \in Nat /\ c <= CeilDiv(down, up)
<1> DEFINE k == CeilDiv(down, up)
<1>0. up \in Nat \ {0} /\ down \in Nat
    OBVIOUS
<1>1. k \in Nat /\ k * up >= down
    BY ONLY <1>0, CeilDivBounds
<1> HIDE DEF k
<1>2. ASSUME c >= k + 1 PROVE FALSE
    <2>1. (k + 1) * up <= c * up
        BY <1>1, <1>2, ProductInt
    <2>2. (k + 1) * up = k * up + up
        BY <1>1
    <2> QED
        BY <1>1, <2>1, <2>2
<1>3. ASSUME c <= -1 PROVE FALSE
    <2>1. c * up <= (-1) * up
        BY <1>3, ProductInt
    <2> QED
        BY <2>1
<1>4. c \in Nat /\ c <= k
    BY <1>1, <1>2, <1>3
<1> QED
    BY <1>4 DEF k

LEMMA Distributes ==
    ASSUME NEW a \in Int, NEW b \in Int, NEW c \in Int, NEW u \in Int
    PROVE  (a + b - c) * u = a * u + b * u - c * u
    OBVIOUS

(* All of a block is taken and as much given out.                           *)
LEMMA BlockIsWhole ==
    ASSUME Inv, Inv', PhaseInv, NEW n \in BlockSizes, ProcessResampled(n)
    PROVE  PhaseInv'
<1> DEFINE up == Num[rate]
           down == Den[rate]
           there == OutputCount(decimator, n, up, down)
           back == OutputCount(interpolator, there, down, up)
           block == [i \in 1 .. back |-> (produced + i - 1) % Labels]
           size == pw2BlockMemSize'
           put == Accepted(Count, size, Len(block))
           got == Least(n, Minus(Plus(in, put), out))
           c == Count + back - n
<1>1. SUFFICES ASSUME roomy'
               PROVE  /\ decimator' < Den[rate] /\ interpolator' < Num[rate]
                      /\ decimator' + interpolator' = Count' * Num[rate]
                      /\ Len(delivered') = want'
    BY DEF ProcessResampled, PhaseInv
<1>2. /\ enableASRC /\ UNCHANGED <<rate, enableASRC>> /\ EnsureRoom(n)
      /\ roomy /\ HasRoom' /\ want' = n
      /\ decimator' = PositionAfter(decimator, n, up, down)
      /\ interpolator' = PositionAfter(interpolator, there, down, up)
    BY <1>1 DEF ProcessResampled
<1>3. /\ decimator < down /\ interpolator < up
      /\ decimator + interpolator = Count * up
    BY <1>2 DEF PhaseInv
<1>4. /\ up \in Nat \ {0} /\ down \in Nat \ {0} /\ n \in Nat /\ blockSizeMax' \in Nat
      /\ n <= blockSizeMax' /\ pw2BlockMemSize <= size
      /\ decimator \in Nat /\ interpolator \in Nat
      /\ decimator' \in Nat /\ interpolator' \in Nat
    <2>1. rate \in Rates /\ blockSizeMax' \in BlockSizes /\ LayoutInv
        BY DEF Inv, LayoutInv
    <2> QED
        BY <1>2, <2>1, RoomIsMade, BlocksAssumption, RatioAssumption DEF Inv, StageInv
<1>5. there \in Nat /\ back \in Nat
    <2>1. n <= n
        BY <1>4
    <2>2. there \in Nat
        BY ONLY <1>4, <2>1, OutputsFit
    <2>3. PICK given : given = there
        OBVIOUS
    <2>4. given \in Nat /\ given <= given
        BY <2>2, <2>3
    <2>5. OutputCount(interpolator, given, down, up) \in Nat
        BY ONLY <1>4, <2>4, OutputsFit
    <2> QED
        BY <2>2, <2>3, <2>5, Zenon
<1>6. /\ size \in 1 .. Width - 1 /\ Width \in Nat
      /\ in \in 0 .. Width - 1 /\ out \in 0 .. Width - 1
      /\ Count \in Nat /\ Count <= size
    <2>1. size \in 1 .. Width - 1 /\ Width \in Nat
        BY <1>2, WidthAssumption DEF Inv, LayoutInv
    <2>2. /\ in \in 0 .. Width - 1 /\ out \in 0 .. Width - 1
          /\ Count <= pw2BlockMemSize /\ pw2BlockMemSize \in Nat
        BY DEF Inv, RingInv, LayoutInv
    <2>3. Count \in Nat
        BY <2>1, <2>2 DEF Count, Minus
    <2> QED
        BY <1>4, <2>1, <2>2, <2>3
<1>7. Len(block) = back
    BY <1>5
<1>8. RingBuffering(RingMemory, size, block, n)
    BY DEF ProcessResampled
<1> HIDE DEF block, size
<1>9. decimator' < down /\ interpolator' < up
    <2>1. decimator' < down
        BY ONLY <1>2, <1>3, <1>4, PhaseBelowStep DEF there
    <2> HIDE DEF there
    <2>2. interpolator' < up
        BY ONLY <1>2, <1>3, <1>4, <1>5, PhaseBelowStep
    <2> QED
        BY <2>1, <2>2
<1>10. /\ decimator' = decimator + there * down - n * up
       /\ interpolator' = interpolator + back * up - there * down
    BY <1>2 DEF PositionAfter
<1> HIDE DEF there, back, up, down
<1>11. decimator' + interpolator' = c * up
    <2>1. there * down \in Nat /\ back * up \in Nat /\ n * up \in Nat /\ Count * up \in Nat
        BY <1>4, <1>5, <1>6
    <2>2. c * up = Count * up + back * up - n * up
        BY <1>4, <1>5, <1>6, Distributes
    <2> HIDE DEF c
    <2> QED
        BY <1>3, <1>4, <1>10, <2>1, <2>2
<1>12. c \in Nat /\ c <= CeilDiv(down, up)
    <2>1. c \in Int
        BY <1>4, <1>5, <1>6
    <2> HIDE DEF c
    <2> QED
        BY <1>4, <1>9, <1>11, <2>1, CarryBounds
<1>13. back <= size - Count
    <2>1. CeilDiv(down, up) \in Nat
        BY <1>4, CeilDivBounds
    <2>2. size >= blockSizeMax' + CeilDiv(down, up)
        BY <1>2 DEF HasRoom, Carry, size, up, down
    <2> QED
        BY <1>4, <1>5, <1>6, <1>12, <2>1, <2>2
<1>14. put = back
    BY <1>5, <1>6, <1>7, <1>13 DEF Accepted, Least
<1> HIDE DEF put
<1>15. Minus(Plus(in, put), out) = Count + back
    BY <1>5, <1>6, <1>13, <1>14 DEF Plus, Minus, Count
<1>16. got = n
    BY <1>4, <1>5, <1>6, <1>12, <1>15 DEF Least
<1> HIDE DEF got
<1>17. /\ Len(delivered') = n
       /\ in' = Rebased(Plus(in, put), Plus(out, got), size)[1]
       /\ out' = Rebased(Plus(in, put), Plus(out, got), size)[2]
    BY <1>4, <1>8, <1>16 DEF RingBuffering, put, got
<1>18. Count' = c
    <2>1. PICK next : next = Rebased(Plus(in, put), Plus(out, got), size)
        OBVIOUS
    <2>2. /\ put \in Nat /\ got \in Nat /\ put <= size - Minus(in, out)
          /\ Minus(in, out) <= size /\ got <= Minus(Plus(in, put), out)
        BY <1>4, <1>5, <1>6, <1>12, <1>13, <1>14, <1>15, <1>16 DEF Count
    <2>3. Minus(next[1], next[2]) = Minus(in, out) + put - got
        BY <1>6, <2>1, <2>2, RingCounts
    <2> QED
        BY <1>14, <1>16, <1>17, <2>1, <2>3 DEF Count
<1> QED
    BY <1>2, <1>9, <1>11, <1>17, <1>18 DEF up, down

(* A ring with room for the carry refuses nothing and gives as many samples  *)
(* as were asked for, for any blocks at any rates, and no more than the      *)
(* carry waits in it.                                                        *)
THEOREM BlocksStayWhole == Spec => []WholeBlocks
<1>1. Init => PhaseInv
    BY DEF Init, PhaseInv
<1>2. Inv /\ Inv' /\ PhaseInv /\ [Next]_vars => PhaseInv'
    <2> SUFFICES ASSUME Inv, Inv', PhaseInv, [Next]_vars PROVE PhaseInv'
        OBVIOUS
    <2>1. CASE UNCHANGED vars
        BY <2>1 DEF vars, layout, PhaseInv, Count
    <2>2. ASSUME NEW r \in Rates, SetSampleRate(r) PROVE PhaseInv'
        <3>1. /\ rate' = r /\ decimator' = 0 /\ interpolator' = 0
              /\ in' = 0 /\ out' = 0 /\ delivered' = <<>> /\ want' = 0
            BY <2>2 DEF SetSampleRate
        <3>2. Num[r] \in Nat \ {0} /\ Den[r] \in Nat \ {0}
            BY RatioAssumption
        <3>3. Count' = 0
            BY <3>1 DEF Count, Minus
        <3> QED
            BY <3>1, <3>2, <3>3 DEF PhaseInv
    <2>3. ASSUME NEW n \in BlockSizes, ProcessPlain(n) PROVE PhaseInv'
        BY <2>3 DEF ProcessPlain, PhaseInv
    <2>4. ASSUME NEW n \in BlockSizes, ProcessResampled(n) PROVE PhaseInv'
        BY <2>4, BlockIsWhole
    <2> QED
        BY <2>1, <2>2, <2>3, <2>4 DEF Next
<1>3. Inv /\ PhaseInv => WholeBlocks
    <2> SUFFICES ASSUME Inv, PhaseInv, enableASRC, roomy
                 PROVE  Len(delivered) = want /\ Count <= Carry
        BY DEF WholeBlocks
    <2>1. Num[rate] \in Nat \ {0} /\ Den[rate] \in Nat \ {0}
        BY RatioAssumption DEF Inv, LayoutInv
    <2>2. decimator \in Nat /\ interpolator \in Nat /\ Count \in Int
        BY WidthAssumption DEF Inv, StageInv, RingInv, Count, Minus
    <2>3. Count <= CeilDiv(Den[rate], Num[rate])
        BY <2>1, <2>2, CarryBounds DEF PhaseInv
    <2> QED
        BY <2>3 DEF PhaseInv, Carry
<1> QED
    BY <1>1, <1>2, <1>3, InvAlways, PTL DEF Spec
=============================================================================
