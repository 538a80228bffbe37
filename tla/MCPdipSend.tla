----------------------------- MODULE MCPdipSend -----------------------------
(* Two lines, as isystem() sends them: a command and "echo $?".  The first *)
(* is longer than the pty queue, so it needs several write() calls; the   *)
(* third is one byte too long for str[BufSize] (rc + 1 > sizeof(str)).   *)
EXTENDS PdipSend

MCMsgs == <<3, 2, 4>>

=============================================================================
