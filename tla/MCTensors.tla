------------------------------- MODULE MCTensors ------------------------------
(* Two variables of the program, an arena for two buffers of six elements  *)
(* with a gap between them, views of up to three dimensions.               *)
EXTENDS Tensors
MCShapes == {<<2, 3>>, <<0>>}
MCViewShapes == {<<3>>, <<3, 1, -1>>}
MCNarrows == {<<1, 1, 1>>, <<2, 1, 2>>, <<1, 0, 0>>}
MCSlices == {<<2, 0, 3, 2>>}
MCAxes == {<<0>>, <<1>>, <<1, 0>>, <<0, 2>>}
MCBlocks == {[columns |-> 3, inner |-> 2]}
MCFactors == {<<1, 1, FALSE>>, <<1, 1, TRUE>>, <<2, 3, TRUE>>}
==============================================================================
