----------------------------- MODULE MCKeyTree -----------------------------
(* Model checking of KeyTree.  Byte 2 stands for ESC: the sequences begin  *)
(* with each other and lie on both sides of each other.                    *)
EXTENDS KeyTree

MCSeqs == {<<>>, <<1>>, <<2>>, <<3>>, <<2, 1>>, <<2, 2>>, <<2, 3>>, <<2, 2, 1>>, <<2, 2, 3>>}
=============================================================================
