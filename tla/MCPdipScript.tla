---------------------------- MODULE MCPdipScript ----------------------------
EXTENDS PdipScript

\* The program prints a control character, the pattern and a newline, then
\* after one line of input a line and the pattern without a newline.
MCProg == << <<"C", "P", "N">>, <<"a", "N", "P">> >>
MCExitCode == 3

\* Script lines, one symbol per character (a keyword, a signal name or
\* "-s" stands for its characters).
RecvP   == <<"recv", " ", "\"", "P", "\"">>
RecvAny == <<"recv">>
SendStr == <<"send", " ", "\"", "a", "\\", "n", "\"", " ", "#">>
SendNL  == <<"send">>
Timeout == <<"timeout", " ", "1">>
Exit    == <<"exit">>
PrintStr == <<"print", " ", "\"", "^", "a", "\"">>
Sh      == <<"sh", " ", "a">>
ShSync  == <<" ", "sh", " ", "-s", " ", "a">>
Sig     == <<"sig", " ", "INT">>
SigNone == <<"sig">>
SigBad  == <<"sig", " ", "a">>
Sleep   == <<"sleep", " ", "1">>
Dbg     == <<"dbg", " ", "1">>
Empty   == <<" ", "#", " ", "a">>
Unknown == <<"a">>
Unclosed == <<"send", " ", "\"", "a">>

\* Scripts covering every keyword: recv on the pattern and bare recv, with
\* and without timeout, send, sig, print, sleep, dbg, exit, empty and
\* unknown lines, the two forms of sh, and the lines ending the session
\* with an error: a bad parameter and a syntax error.
MCScripts ==
    { << RecvP, SendStr, Timeout, RecvP, Exit >>,
      << PrintStr, Sh, SendNL, RecvP, Sig >>,
      << ShSync, SendStr, Sleep, Empty, Unknown >>,
      << Timeout, RecvAny, RecvAny, SendNL, Dbg >>,
      << SendStr, RecvP, RecvP, RecvP >>,
      << SigNone, SigBad >>,
      << Unclosed >> }

\* The characters of the lines the parser is checked on.
MCLineChars == {" ", "\"", "\\", "^", "#", "a", "n"}
=============================================================================
