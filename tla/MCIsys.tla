------------------------------- MODULE MCIsys -------------------------------
EXTENDS Isys

Exit(n) == [how |-> "exit", n |-> n]

(* A command that prints one line and succeeds, one that fails, one      *)
(* killed by SIGKILL, the empty string.                                   *)
MCOk    == [text |-> <<"c", " ">>, lines |-> 1, end |-> Exit(0), slow |-> FALSE]
MCFail  == [text |-> <<"c">>, lines |-> 0, end |-> Exit(1), slow |-> FALSE]
MCKill  == [text |-> <<"c">>, lines |-> 0, end |-> [how |-> "signal", n |-> 9], slow |-> FALSE]
MCEmpty == [text |-> <<>>, lines |-> 0, end |-> Exit(0), slow |-> FALSE]
(* One that prints three lines and outlasts isys_timeout.                   *)
MCSlowCmd == [text |-> <<"c">>, lines |-> 3, end |-> Exit(2), slow |-> TRUE]
(* One whose exit code has bit 7 set.                                     *)
MCHigh  == [text |-> <<"c">>, lines |-> 0, end |-> Exit(200), slow |-> FALSE]
(* Blanks only.                                                           *)
MCBlank == [text |-> <<" ">>, lines |-> 0, end |-> Exit(0), slow |-> FALSE]

MCSync == {MCOk, MCFail, MCKill, MCEmpty}
MCSlow == MCSync \cup {MCSlowCmd, MCBlank}
MCExitHigh == MCSync \cup {MCHigh}
MCBlankCmds == MCSync \cup {MCBlank}

MCMaxCalls == 3
MCOutLineLen == 5
=============================================================================
