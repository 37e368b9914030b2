SPECIFICATION Spec
CONSTANTS
    Rates <- MCRates
    Num <- MCNum
    Den <- MCDen
    BlockSizes = {1, 2, 3, 5}
    StartRate = 48000
    StartBlock = 1
    Garbage = Garbage
    Labels = 9
    Width = 32
INVARIANTS
    TypeOK
    AreasHold
    WholeBlocks
PROPERTIES
    IsQueue
