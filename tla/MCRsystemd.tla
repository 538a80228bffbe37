----------------------------- MODULE MCRsystemd -----------------------------
(* Two rsystem() clients share a pool of shells.                          *)
EXTENDS Rsystemd

CONSTANTS c1, c2

MCClients == {c1, c2}
MCOneShell == 1..1
MCTwoShells == 1..2
\* commands whose output ends with a newline
MCLineOutputs == {<<>>, <<"L">>, <<"P", "L">>}
\* a command may also leave its last line without a newline (printf abc)
MCAnyOutputs == MCLineOutputs \cup {<<"P">>}
MCKinds == {"ok", "long", "exit"}
MCOkKinds == {"ok"}
MCMaxCmds == 2
=============================================================================
