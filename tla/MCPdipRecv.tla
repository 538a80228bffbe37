----------------------------- MODULE MCPdipRecv -----------------------------
(* Model-checking instance of PdipRecv: one kind of ordinary byte, the    *)
(* smallest resize increment that lets a read return two bytes.          *)
EXTENDS PdipRecv

MCInc == 3
MCBufIds == 1..12
MCMaxBytes == 4
MCMaxCalls == 3

=============================================================================
