--------------------------- MODULE MCEngineChain ---------------------------
(* Instances of EngineChain for TLC.  Effect 0 stands for the tape, 1 and 3  *)
(* for the newer vinyl and balance, 2 is the maximiser; 4 is an id no engine *)
(* knows.  The fixed order has the first two the other way round.            *)
EXTENDS EngineChain

MCDefaultChain == <<0, 1, 3, 2>>
MCPlaceAfter == <<<<1, 0>>, <<3, 1>>>>
MCV4aChainOrder == <<1, 0>>
MCSavedOrders == {<<0>>, <<3>>, <<4>>, <<2, 2>>, <<2, 0>>, <<1, 2>>, <<4, 2>>,
                  <<2, 3, 0>>, <<4, 1, 2>>, <<0, 2, 0, 1>>, <<3, 2, 1, 0>>}
=============================================================================
