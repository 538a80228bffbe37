----------------------------- MODULE MCAffinity -----------------------------
EXTENDS Affinity

(* Four CPUs; "4" names one beyond the last, "x" any other character.    *)
MCNbCpu == 4
MCAlphabet == {"0", "1", "4", "-", ",", ":", "x"}
MCMaxLen == 5
=============================================================================
