---------------------------- MODULE MCPdipReaper ----------------------------
(* PdipReaper with two objects, up to three children and one or two      *)
(* threads.                                                               *)
EXTENDS PdipReaper

CONSTANTS p1, p2, main, aux

MCPcos == {p1, p2}
MCMaxChildren == 3
MCOneThread == {main}
MCTwoThreads == {main, aux}
MCCallers == {main}

=============================================================================
