-------------------------------- MODULE Isys --------------------------------
(***************************************************************************)
(* isystem() (src/isys/isys.c): a background /bin/sh runs under a PDIP    *)
(* object with PS1 = "ISYS_PDIP> ", stderr redirected and echo turned off; *)
(* each call sends the command line, reads with RECV_ON_THE_FLOW until the *)
(* prompt (isys_recv_data), sends "echo $?" and reads the status line and  *)
(* the prompt (isys_recv_status).  Every pdip_recv() has the timeout      *)
(* isys_timeout.                                                           *)
(*                                                                         *)
(* The shell's output is a sequence of tokens: whole lines (a command's    *)
(* text, or the decimal $? printed by echo) and prompts.  A pdip_recv()    *)
(* returns DATA with some whole lines before the first prompt, FOUND with  *)
(* everything up to and including the first prompt, or TIMEOUT when       *)
(* nothing arrives within isys_timeout.                                    *)
(***************************************************************************)
EXTENDS Integers, Sequences, SequencesExt, Bitwise

CONSTANTS
  Commands,     \* [text, lines, end, slow]: what a caller may pass, and
                \* what the shell does with it
  MaxCalls,     \* bound: isystem() calls
  OutLineLen,   \* bytes of one line a command prints, '\n' included
  None

DisplaySize == 10    \* char status_display[10]

VARIABLES
  sin,    \* lines written to the PTY and not yet read by the shell
  job,    \* the command the shell runs: None or [c, left]
  q,      \* the shell's $?
  out,    \* what the shell printed and isystem() has not received yet
  apc,    \* isystem(): idle, data (isys_recv_data), status, crashed
  calls,  \* the command of each isystem() call
  sd,     \* status_display: the lines isys_recv_status() gathered so far
  res     \* the value each isystem() call returned

vars == <<sin, job, q, out, apc, calls, sd, res>>
shell == <<sin, job, q>>

Prompt == [t |-> "prompt"]
OutLine == [t |-> "line", num |-> None, len |-> OutLineLen]

RECURSIVE DecLen(_)
DecLen(n) == IF n < 10 THEN 1 ELSE 1 + DecLen(n \div 10)

(* What "echo $?" prints.                                                 *)
NumLine(n) == [t |-> "line", num |-> n, len |-> DecLen(n) + 1]

Bytes(s) == FoldLeft(LAMBDA acc, tok : acc + tok.len, 0, s)

(* $? after a command: its exit code, or 0x80 | signal number.            *)
DollarQ(e) == IF e.how = "exit" THEN e.n % 256 ELSE 128 + e.n

-----------------------------------------------------------------------------
(* Conversions of isystem()                                                *)

OutOfCmd(s, i) == i < 0 \/ i >= Len(s)

(* Fault variant: the NUL goes on the last blank instead of after it.     *)
RECURSIVE TrimCutFrom(_, _)
TrimCutFrom(s, i) ==
  IF OutOfCmd(s, i) THEN "ub"
  ELSE IF s[i + 1] = " " THEN TrimCutFrom(s, i - 1)
  ELSE SubSeq(s, 1, i)

(* i = rc - 1; while (isspace(cmd[i])) i--; cmd[i + 1] = '\0'; with i an   *)
(* unsigned int: on an all-blank command i wraps to 2^32 - 1 and cmd[i]   *)
(* reads 4 GiB past the buffer ("ub").  i is kept signed here: as an      *)
(* unsigned int it is i % 2^32, out of the buffer iff OutOfCmd(s, i).     *)
RECURSIVE TrimFrom(_, _)
TrimFrom(s, i) ==
  IF OutOfCmd(s, i) THEN "ub"
  ELSE IF s[i + 1] = " " THEN TrimFrom(s, i - 1)
  ELSE SubSeq(s, 1, i + 1)

TrimCut(s) == TrimCutFrom(s, Len(s) - 1)
Trim(s) == TrimFrom(s, Len(s) - 1)

(* atoi(status_display): the digits of the first line, 0 for text.        *)
Atoi(s) == IF s # <<>> /\ s[1].num # None THEN s[1].num ELSE 0

(* if (status & 0x80) keep it (signal) else status <<= 8 (exit code)      *)
Decode(w) == IF (w & 128) # 0 THEN w ELSE w * 256

-----------------------------------------------------------------------------
(* Chunks a pdip_recv() with RECV_ON_THE_FLOW and "^ISYS_PDIP> $" returns. *)
FirstPrompt ==
  LET P == {i \in 1..Len(out) : out[i] = Prompt}
  IN IF P = {} THEN Len(out) + 1 ELSE Min(P)

DataChunks == {SubSeq(out, 1, k) : k \in 1..(FirstPrompt - 1)}

(* Nothing reaches the PTY within isys_timeout: the shell is idle with    *)
(* nothing to read, or runs a command that outlasts the timeout.          *)
NothingComing ==
  /\ out = <<>>
  /\ \/ job = None /\ sin = <<>>
     \/ job # None /\ job.c.slow

Return(st) ==
  /\ res' = Append(res, st)
  /\ apc' = "idle"

(* Fault variant: status_display is not emptied when the status request   *)
(* starts.                                                                 *)
AskStatusKeep ==
  /\ sin' = Append(sin, [kind |-> "echo"])
  /\ apc' = "status"
  /\ UNCHANGED sd

(* pdip_send("echo $?\n"), then isys_recv_status() starts with an empty   *)
(* status_display (status_display[0] = '\0', offset = 0).                 *)
AskStatus ==
  /\ sin' = Append(sin, [kind |-> "echo"])
  /\ apc' = "status"
  /\ sd' = <<>>

-----------------------------------------------------------------------------
(* isystem(): format, empty command, trim the trailing blanks, send.      *)
Isystem(c) ==
  /\ apc = "idle" /\ Len(calls) < MaxCalls
  /\ calls' = Append(calls, c)
  /\ \/ /\ c.text = <<>>
        /\ res' = Append(res, 0)
        /\ UNCHANGED <<sin, apc>>
     \/ /\ c.text # <<>> /\ Trim(c.text) = "ub"
        /\ apc' = "crashed"
        /\ UNCHANGED <<sin, res>>
     \/ /\ c.text # <<>> /\ Trim(c.text) # "ub"
        /\ sin' = Append(sin, [kind |-> "cmd", text |-> Trim(c.text), c |-> c])
        /\ apc' = "data"
        /\ UNCHANGED res
  /\ UNCHANGED <<job, q, out, sd>>

(* isys_recv_data(1): DATA is printed and the loop goes on; FOUND makes    *)
(* isystem() send "echo $?"; TIMEOUT makes it return -1.                  *)
RecvData ==
  /\ apc = "data"
  /\ \/ /\ FirstPrompt <= Len(out)
        /\ out' = SubSeq(out, FirstPrompt + 1, Len(out))
        /\ AskStatus
        /\ UNCHANGED res
     \/ \E d \in DataChunks :
        /\ out' = SubSeq(out, Len(d) + 1, Len(out))
        /\ UNCHANGED <<sin, apc, res, sd>>
     \/ /\ NothingComing
        /\ Return(-1)
        /\ UNCHANGED <<out, sin, sd>>
  /\ UNCHANGED <<job, q, calls>>

(* snprintf(status_display + offset, sizeof - offset, ...) fits iff      *)
(* rc < sizeof(status_display) - offset.                                   *)
StatusFits(n) == n < DisplaySize - Bytes(sd)

(* isys_recv_status(): DATA lines are appended to status_display; FOUND   *)
(* with lines before the prompt appends them without the last '\n', FOUND *)
(* with the prompt alone needs a gathered line ending in '\n'; the status *)
(* is atoi() of status_display, decoded; TIMEOUT or an incoherent display *)
(* makes isystem() return -1.                                              *)
RecvStatus ==
  /\ apc = "status"
  /\ \/ \E d \in DataChunks :
        /\ out' = SubSeq(out, Len(d) + 1, Len(out))
        /\ IF StatusFits(Bytes(d))
           THEN sd' = sd \o d /\ UNCHANGED <<apc, res>>
           ELSE Return(-1) /\ UNCHANGED sd
     \/ /\ FirstPrompt <= Len(out)
        /\ out' = SubSeq(out, FirstPrompt + 1, Len(out))
        /\ LET L == SubSeq(out, 1, FirstPrompt - 1) IN
           IF Bytes(L) > 1
           THEN IF StatusFits(Bytes(L) - 1)
                THEN Return(Decode(Atoi(sd \o L)))
                ELSE Return(-1)
           ELSE IF sd # <<>> THEN Return(Decode(Atoi(sd))) ELSE Return(-1)
        /\ UNCHANGED sd
     \/ /\ NothingComing
        /\ Return(-1)
        /\ UNCHANGED <<out, sd>>
  /\ UNCHANGED <<sin, job, q, calls>>

-----------------------------------------------------------------------------
(* /bin/sh on the PTY slave: it reads a line, runs the command (which     *)
(* prints its lines), sets $? and prints the prompt; "echo $?" prints $?  *)
(* and sets it to 0.                                                       *)
ShellRead ==
  /\ job = None /\ sin # <<>>
  /\ sin' = Tail(sin)
  /\ IF Head(sin).kind = "cmd"
     THEN job' = [c |-> Head(sin).c, left |-> Head(sin).c.lines] /\ UNCHANGED <<q, out>>
     ELSE out' = out \o <<NumLine(q), Prompt>> /\ q' = 0 /\ UNCHANGED job
  /\ UNCHANGED <<apc, calls, sd, res>>

ShellPrint ==
  /\ job # None /\ job.left > 0
  /\ out' = Append(out, OutLine)
  /\ job' = [job EXCEPT !.left = @ - 1]
  /\ UNCHANGED <<sin, q, apc, calls, sd, res>>

ShellDone ==
  /\ job # None /\ job.left = 0
  /\ q' = DollarQ(job.c.end)
  /\ out' = Append(out, Prompt)
  /\ job' = None
  /\ UNCHANGED <<sin, apc, calls, sd, res>>

-----------------------------------------------------------------------------
(* isys_lib_initialize() has consumed the first prompt, run "stty -echo"  *)
(* and consumed its prompt.                                                *)
Init ==
  /\ sin = <<>> /\ job = None /\ q = 0 /\ out = <<>>
  /\ apc = "idle" /\ calls = <<>> /\ sd = <<>> /\ res = <<>>

(* The caller stops calling; the shell has nothing left to do.            *)
Finished ==
  /\ \/ apc = "crashed"
     \/ apc = "idle" /\ Len(calls) = MaxCalls
  /\ job = None /\ sin = <<>>
  /\ UNCHANGED vars

Next ==
  \/ \E c \in Commands : Isystem(c)
  \/ RecvData \/ RecvStatus
  \/ ShellRead \/ ShellPrint \/ ShellDone
  \/ Finished

Spec == Init /\ [][Next]_vars /\ WF_vars(RecvData \/ RecvStatus)
          /\ WF_vars(ShellRead \/ ShellPrint \/ ShellDone)

-----------------------------------------------------------------------------
TypeOK ==
  /\ \A i \in 1..Len(sin) :
       \/ sin[i] = [kind |-> "echo"]
       \/ sin[i].kind = "cmd" /\ sin[i].c \in Commands
          /\ sin[i].text \in Seq({"c", " "}) /\ sin[i].text # <<>>
  /\ \/ job = None
     \/ job.c \in Commands /\ job.left \in 0..job.c.lines
  /\ q \in 0..255
  /\ apc \in {"idle", "data", "status", "crashed"}
  /\ Len(calls) \in 0..MaxCalls /\ Len(res) \in Len(calls) - 1..Len(calls)

(* How the caller reads the status word with the wait(2) macros:          *)
(* WIFEXITED/WEXITSTATUS for an exit, WIFSIGNALED/WTERMSIG for a signal.  *)
ReadsAs(w, e) ==
  IF e.how = "exit" THEN w % 128 = 0 /\ (w \div 256) % 256 = e.n
  ELSE w % 128 \in 1..126 /\ w % 128 = e.n

(* Every isystem() call that does not fail returns the status word of its *)
(* own command, encoded as system(3) does: the decoding of "echo $?" in   *)
(* isys_recv_status() and the pairing of each call with its prompts.       *)
OwnStatus ==
  \A k \in 1..Len(res) : res[k] # -1 => ReadsAs(res[k], calls[k].end)

(* isystem() returns for every command string it is given.                *)
NoCrash == apc # "crashed"

=============================================================================
