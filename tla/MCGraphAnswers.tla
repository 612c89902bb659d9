--------------------------- MODULE MCGraphAnswers ---------------------------
(***************************************************************************)
(* GraphAnswers over two test files of one symbol each and two source files *)
(* of one and two; or over a source file, a test file and one that is taken *)
(* for a test file and holds what tests share.                              *)
(***************************************************************************)
EXTENDS GraphAnswers

CONSTANTS testA, testB, srcA, srcB

MCFiles == {testA, testB, srcA, srcB}
MCTestFiles == {testA, testB}
MCFileOf == (1 :> srcA) @@ (2 :> testA) @@ (3 :> srcA) @@ (4 :> srcB) @@ (5 :> testB)

MCHelperFiles == {testA, testB, srcA}
MCHelperFileOf == (1 :> srcA) @@ (2 :> testA) @@ (3 :> testB)
=============================================================================
