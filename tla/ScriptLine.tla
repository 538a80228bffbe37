----------------------------- MODULE ScriptLine -----------------------------
(***************************************************************************)
(* How pdip (src/pdip.c) reads one line of its script: pdip_split_cmdline() *)
(* cuts it into words and double-quoted strings, writing a NUL over the    *)
(* blank that ends each one; pdip_interact() dispatches on the first word; *)
(* "send" and "print" decode their string with pdip_format_params(), and   *)
(* "recv" strips the quotes of its pattern in pdip_compile_regex().        *)
(*                                                                         *)
(* A line is a sequence of symbols.  A keyword symbol ("recv", "send",...) *)
(* stands for its run of letters, as does "INT"; "-s" for those two        *)
(* characters; the other symbols are single characters: " " a blank,      *)
(* "#" PDIP_COMMENT, "\"", "\\", "^", the letters "a", "n", "P" and the    *)
(* digit "1".  The goto labels of the C functions are operators.  Bytes    *)
(* produced for the program are their codes.                               *)
(***************************************************************************)
EXTENDS Integers, Sequences, SequencesExt, Bitwise, TLC

CONSTANTS
  BufSz,       \* pdip_bufsz: the l given to pdip_format_params()
  LineChars,   \* symbols of the script lines checked exhaustively
  MaxLineLen   \* bound: symbols after the keyword in those lines

Keywords == {"timeout", "recv", "send", "sig", "sleep", "print", "dbg", "exit", "sh"}
SigNames == {"INT"}                       \* names of pdip_signals[] used here
Letters == Keywords \cup SigNames \cup {"a", "n", "P"}      \* [_a-zA-Z]+
NameChar(c) == c \in Letters \cup {"1"}                       \* [_a-zA-Z0-9]
Blank(c) == c = " "                                           \* isspace()
EndOfLine(c) == c \in {"NUL", "#"}        \* !(*p) || (PDIP_COMMENT == *p)

Code == ("a" :> 97) @@ ("n" :> 110) @@ ("P" :> 80) @@ ("1" :> 49) @@
        (" " :> 32) @@ ("#" :> 35) @@ ("\"" :> 34) @@ ("\\" :> 92) @@ ("^" :> 94)
LF == 10

Ch(b, p) == IF p > Len(b) THEN "NUL" ELSE b[p]

-----------------------------------------------------------------------------
(* pdip_split_cmdline(): the line buffer as it is left (with the NULs     *)
(* written over blanks) and the start of each word in pdip_argv[].        *)
SplitOk(b, args) == [rc |-> 0, buf |-> b, argv |-> args]
SplitErr == [rc |-> -1, buf |-> <<>>, argv |-> <<>>]
Cut(b, p) == [b EXCEPT ![p] = "NUL"]        \* *p = '\0'

RECURSIVE SkipBlanks(_, _), NameEnd(_, _), WordEnd(_, _)
SkipBlanks(b, p) == IF Blank(Ch(b, p)) THEN SkipBlanks(b, p + 1) ELSE p
NameEnd(b, p) == IF NameChar(Ch(b, p)) THEN NameEnd(b, p + 1) ELSE p
WordEnd(b, p) == IF Ch(b, p) \notin {"NUL", "#", " "} THEN WordEnd(b, p + 1) ELSE p

RECURSIVE NextParam(_, _, _), StrState1(_, _, _), StrState2(_, _, _)

(* Fault variant: '#' at the start of a parameter is taken as a word.     *)
NextParamNoComment(b, p0, args) ==
  LET p == SkipBlanks(b, p0) IN
  CASE Ch(b, p) = "NUL" -> SplitOk(b, args)
    [] Ch(b, p) = "\"" -> StrState1(b, p + 1, Append(args, p))
    [] OTHER -> LET e == WordEnd(b, p + 1) IN
                CASE EndOfLine(Ch(b, e)) -> SplitOk(b, Append(args, p))
                  [] ~Blank(Ch(b, e)) -> SplitErr
                  [] OTHER -> NextParam(Cut(b, e), e + 1, Append(args, p))

(* next_param: skip the blanks; the end of the line or a comment ends the *)
(* split; a '"' starts a string; otherwise a word runs to a blank, the    *)
(* end or a '#', and only a blank is overwritten with a NUL.              *)
NextParam(b, p0, args) ==
  LET p == SkipBlanks(b, p0) IN
  CASE EndOfLine(Ch(b, p)) -> SplitOk(b, args)
    [] Ch(b, p) = "\"" -> StrState1(b, p + 1, Append(args, p))
    [] OTHER -> LET e == WordEnd(b, p + 1) IN
                CASE EndOfLine(Ch(b, e)) -> SplitOk(b, Append(args, p))
                  [] ~Blank(Ch(b, e)) -> SplitErr
                  [] OTHER -> NextParam(Cut(b, e), e + 1, Append(args, p))

(* get_string, state_1: the closing '"' must be followed by the end, a    *)
(* comment or a blank (then cut); '\\' escapes the next character.        *)
StrState1(b, p, args) ==
  CASE Ch(b, p) = "\"" ->
         CASE EndOfLine(Ch(b, p + 1)) -> SplitOk(b, args)
           [] ~Blank(Ch(b, p + 1)) -> SplitErr
           [] OTHER -> NextParam(Cut(b, p + 1), p + 2, args)
    [] Ch(b, p) = "\\" -> StrState2(b, p + 1, args)
    [] Ch(b, p) = "NUL" -> SplitErr
    [] OTHER -> StrState1(b, p + 1, args)

StrState2(b, p, args) ==
  IF Ch(b, p) = "NUL" THEN SplitErr ELSE StrState1(b, p + 1, args)

(* Skip the heading blanks; an empty or comment line has no word; the     *)
(* command name is [_a-zA-Z][_a-zA-Z0-9]* ended by the end, a comment or  *)
(* a blank.                                                               *)
SplitCmdline(s) ==
  LET p == SkipBlanks(s, 1)
      e == NameEnd(s, p + 1)
  IN CASE EndOfLine(Ch(s, p)) -> SplitOk(s, <<>>)
       [] Ch(s, p) \notin Letters -> SplitErr
       [] EndOfLine(Ch(s, e)) -> SplitOk(s, <<p>>)
       [] ~Blank(Ch(s, e)) -> SplitErr
       [] OTHER -> NextParam(Cut(s, e), e + 1, <<p>>)

(* pdip_argv[k]: the characters from its start up to the first NUL.       *)
RECURSIVE ArgEnd(_, _)
ArgEnd(b, p) == IF Ch(b, p) = "NUL" THEN p ELSE ArgEnd(b, p + 1)

Argv(r) == [k \in 1..Len(r.argv) |-> SubSeq(r.buf, r.argv[k], ArgEnd(r.buf, r.argv[k]) - 1)]

-----------------------------------------------------------------------------
(* pdip_format_params(params, out, &l): the string must start with '"';   *)
(* state_1 copies characters up to the closing '"', '\\' leads to state_2 *)
(* (escapes), '^' to state_3 (PDIP_CTRL(x) = x & ~0x40).  Every state     *)
(* first fails on the end of the string and on j >= l.                    *)
FmtErr == [rc |-> -1, bytes |-> <<>>]

EscTable == ("\\" :> 92) @@ ("n" :> LF) @@ ("t" :> 9) @@ ("b" :> 8) @@ ("a" :> 7)
            @@ ("\"" :> 34) @@ ("f" :> 12) @@ ("r" :> 13) @@ ("v" :> 11)
            @@ ("[" :> 27) @@ ("]" :> 29) @@ ("^" :> 94)

Esc(c) == IF c \in DOMAIN EscTable THEN EscTable[c] ELSE Code[c]

(* Fault variant: the control bit taken as 0x20 (the case bit).           *)
CtrlCase(x) == x & (255 - 32)

Ctrl(x) == x & (255 - 64)

Stuck(q, i, o, l) == Ch(q, i) = "NUL" \/ Len(o) >= l

RECURSIVE FState1(_, _, _, _), FState2(_, _, _, _), FState3(_, _, _, _)
FState1(q, i, o, l) ==
  CASE Stuck(q, i, o, l) -> FmtErr
    [] Ch(q, i) = "\"" -> [rc |-> 0, bytes |-> o]
    [] Ch(q, i) = "\\" -> FState2(q, i + 1, o, l)
    [] Ch(q, i) = "^" -> FState3(q, i + 1, o, l)
    [] OTHER -> FState1(q, i + 1, Append(o, Code[q[i]]), l)

FState2(q, i, o, l) ==
  IF Stuck(q, i, o, l) THEN FmtErr ELSE FState1(q, i + 1, Append(o, Esc(q[i])), l)

FState3(q, i, o, l) ==
  IF Stuck(q, i, o, l) THEN FmtErr ELSE FState1(q, i + 1, Append(o, Ctrl(Code[q[i]])), l)

FormatParams(q, l) == IF Ch(q, 1) # "\"" THEN FmtErr ELSE FState1(q, 2, <<>>, l)

(* pdip_compile_regex(): '"' first, something after it, then the last     *)
(* character that is not a blank must be another '"'; what lies between   *)
(* goes to regcomp(), which over these symbols never fails.  On an error  *)
(* the function only logs and returns.                                    *)
RECURSIVE LastNonBlank(_, _)
LastNonBlank(q, p) == IF Blank(q[p]) THEN LastNonBlank(q, p - 1) ELSE p

CompileRegex(q) ==
  LET e == LastNonBlank(q, Len(q)) IN
  IF q[1] = "\"" /\ Len(q) >= 2 /\ e > 1 /\ q[e] = "\""
  THEN [ok |-> TRUE, re |-> SubSeq(q, 2, e - 1)]
  ELSE [ok |-> FALSE, re |-> <<>>]

-----------------------------------------------------------------------------
(* pdip_interact() on a line: the command it carries out.  "syntax": the  *)
(* split failed (rc = -3); "error": the handler's rc = -1 and goto end;    *)
(* "nop": a line with no effect; "crash": atoi(NULL) when timeout has no  *)
(* parameter, or a failed assert(); "nocomp": recv goes on without a      *)
(* compiled pattern; "stale": the pattern is read from stale memory.     *)
(* arg is the pattern of recv ("P", "$" or "other") or atoi()'s value for        *)
(* timeout; bytes what send writes to the pty or print to stdout.         *)
Cmd(kw, arg, bytes) == [kw |-> kw, arg |-> arg, bytes |-> bytes]

PatternName(re) == CASE re = <<"P">> -> "P" [] re = <<"$">> -> "$" [] OTHER -> "other"

Atoi(w) == IF w # <<>> /\ w[1] = "1" THEN "1" ELSE "0"

(* recv without parameter: strncat() appends ` "$"` (and a NUL) after the *)
(* keyword, *p = '\0' is written at the end of the line, d characters     *)
(* past the keyword, and the pattern is taken from p + 1.  Only d = 0 gives *)
(* "$"; d >= 4 reads past the line, into what earlier reads left there.    *)
BareRecv(s, p) ==
  LET d == Len(s) - p
      b == [<<" ", "\"", "$", "\"", "NUL">> EXCEPT ![d + 1] = "NUL"]
      q == SubSeq(b, d + 2, ArgEnd(b, d + 2) - 1)
  IN CASE d >= 4 -> Cmd("stale", "-", <<>>)
       [] q = <<>> -> Cmd("crash", "-", <<>>)          \* assert(pattern[0])
       [] CompileRegex(q).ok -> Cmd("recv", PatternName(CompileRegex(q).re), <<>>)
       [] OTHER -> Cmd("nocomp", "-", <<>>)

Formatted(kw, q) ==
  LET f == FormatParams(q, BufSz) IN
  IF f.rc # 0 THEN Cmd("error", "-", <<>>)
  ELSE Cmd(kw, "-", IF kw = "send" /\ f.bytes = <<>> THEN <<LF>> ELSE f.bytes)

Command(s) ==
  LET r == SplitCmdline(s)
      av == Argv(r)
      n == Len(av)
      w == IF n > 0 THEN av[1] ELSE <<>>
  IN CASE r.rc # 0 -> Cmd("syntax", "-", <<>>)
       [] n = 0 -> Cmd("empty", "-", <<>>)
       [] w = <<"timeout">> -> IF n = 1 THEN Cmd("crash", "-", <<>>)
                               ELSE Cmd("timeout", Atoi(av[2]), <<>>)
       [] w = <<"recv">> /\ n = 1 -> BareRecv(s, r.argv[1])
       [] w = <<"recv">> /\ n = 2 ->
             IF CompileRegex(av[2]).ok
             THEN Cmd("recv", PatternName(CompileRegex(av[2]).re), <<>>)
             ELSE Cmd("nocomp", "-", <<>>)
       [] w = <<"send">> /\ n = 1 -> Cmd("send", "-", <<LF>>)
       [] w \in {<<"send">>, <<"print">>} /\ n = 2 -> Formatted(w[1], av[2])
       [] w = <<"sig">> /\ n = 2 ->
             IF av[2] \in {<<x>> : x \in SigNames} THEN Cmd("sig", "-", <<>>)
             ELSE Cmd("error", "-", <<>>)
       [] w = <<"sig">> -> Cmd("nop", "-", <<>>)
       [] w \in {<<"sleep">>, <<"dbg">>} /\ n = 2 -> Cmd(w[1], "-", <<>>)
       [] w = <<"exit">> -> Cmd("exit", "-", <<>>)
       [] w = <<"sh">> /\ n >= 2 /\ av[2] # <<"-s">> -> Cmd("sh", "-", <<>>)
       [] w = <<"sh">> /\ n >= 3 -> Cmd("shs", "-", <<>>)
       [] w \in {<<k>> : k \in Keywords} -> Cmd("error", "-", <<>>)
       [] OTHER -> Cmd("bad", "-", <<>>)

-----------------------------------------------------------------------------
(* The notation of the strings, as the history in pdip.c's header states  *)
(* it: a string is "..."; inside, '\\' makes the next character an escape *)
(* (C's, plus ^ [ ]), and "^character" the control character of it: its  *)
(* code with the 0x40 bit cleared.  A string is decoded item by item from *)
(* its front.                                                             *)
RefCtrl(x) == IF (x \div 64) % 2 = 1 THEN x - 64 ELSE x

(* The bytes the body of a string stands for: {} if it is not one (an     *)
(* unescaped '"' or a dangling '\\' or '^').                              *)
RefItem(c, d) == IF c = "\\" THEN Esc(d) ELSE RefCtrl(Code[d])

RECURSIVE RefBody(_)
RefBody(b) ==
  CASE b = <<>> -> {<<>>}
    [] b[1] = "\"" -> {}
    [] b[1] \in {"\\", "^"} ->
         IF Len(b) < 2 THEN {}
         ELSE {<<RefItem(b[1], b[2])>> \o r : r \in RefBody(SubSeq(b, 3, Len(b)))}
    [] OTHER -> {<<Code[b[1]]>> \o r : r \in RefBody(Tail(b))}

(* What follows a parameter: blanks, then possibly a comment.             *)
CommentTail(r) == \A k \in 1..Len(r) : (\A j \in 1..k : r[j] # "#") => r[k] = " "

NonEmpty(bytes) == IF bytes = <<>> THEN <<LF>> ELSE bytes

(* The bytes "send" is documented to write for line s: a newline for a    *)
(* bare send, else the bytes of the string after the blanks.              *)
SendMeaning(s) ==
  (IF CommentTail(Tail(s)) THEN {<<LF>>} ELSE {})
  \cup {NonEmpty(r) :
          r \in UNION {RefBody(SubSeq(s, k + 1, e - 1)) :
                         <<k, e>> \in {ke \in (2..Len(s)) \X (2..Len(s)) :
                            /\ ke[1] < ke[2] /\ s[ke[1]] = "\"" /\ s[ke[2]] = "\""
                            /\ \A j \in 2..ke[1] - 1 : s[j] = " "
                            /\ CommentTail(SubSeq(s, ke[2] + 1, Len(s)))}}}

LinesOf(kw) == {<<kw>> \o t : t \in BoundedSeq(LineChars, MaxLineLen)}

-----------------------------------------------------------------------------
(* A send line that pdip carries out writes to the program exactly the    *)
(* bytes the notation gives its string (pdip_split_cmdline() and          *)
(* pdip_format_params() agree on where the string ends, and the escapes   *)
(* and control characters are decoded as documented).                    *)
SendLinesAsWritten ==
  \A s \in LinesOf("send") : Command(s).kw = "send" => Command(s).bytes \in SendMeaning(s)

(* A comment after a blank changes nothing: a line without '#' with       *)
(* " #..." appended is carried out as the line alone, whatever the comment *)
(* holds (next_param and get_string stop at the '#', pdip.c 571/623).  A  *)
(* recv without parameter is left to RecvBlankTail.                       *)
Bare(s) == \A k \in 2..Len(s) : s[k] = " "

CommentLinesIgnored ==
  \A s \in {s \in LinesOf("send") \cup LinesOf("recv") :
            /\ \A k \in 1..Len(s) : s[k] # "#"
            /\ s[1] = "recv" => ~Bare(s)},
     c \in {<<>>, <<"\"">>, <<" ", "a">>} :
     Command(s).kw # "syntax" => Command(s \o <<" ", "#">> \o c) = Command(s)

(* A recv without parameter, whatever blanks or comment follow it, waits  *)
(* for an end of line ("With no parameters, we match an end of line").    *)
RecvBlankTail ==
  \A s \in LinesOf("recv") : CommentTail(Tail(s)) => Command(s) = Cmd("recv", "$", <<>>)

(* "# and the following words up to the end of line are ignored": a      *)
(* comment right after a word or a string changes nothing either.         *)
CommentAnywhere ==
  \A s \in LinesOf("send") \cup LinesOf("recv") \cup {<<"exit">>} :
     Command(s).kw # "syntax" => Command(s \o <<"#">>) = Command(s)

(* Every string of the notation can be sent.                              *)
EveryStringSendable ==
  \A b \in BoundedSeq(LineChars, MaxLineLen - 2) : \A r \in RefBody(b) :
     Command(<<"send", " ", "\"">> \o b \o <<"\"">>).bytes = NonEmpty(r)
=============================================================================
