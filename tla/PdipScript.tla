----------------------------- MODULE PdipScript -----------------------------
(***************************************************************************)
(* The pdip command-line interpreter (src/pdip.c): main() forks the       *)
(* program behind a pty, pdip_interact() runs the script line by line     *)
(* (recv, send, sig, sh, ...) in a select() loop, pdip_handle_synchro()   *)
(* looks for the recv pattern in the outstanding data, and pdip_sig_chld() *)
(* reaps children.  The handler is installed with SA_RESETHAND, so it     *)
(* runs at most once per pdip_capture_sigchld().                          *)
(*                                                                         *)
(* Program bytes: "a" printable, "P" the recv pattern character, "C" a    *)
(* control character (skipped for matching), "N" a newline.  A recv       *)
(* pattern is "P" (the regex P) or "$" (a bare recv, end of line).        *)
(***************************************************************************)
EXTENDS ScriptLine, FiniteSets

CONSTANTS
    Prog,           \* the program's output: one segment, then one per line it reads
    ExitCode,       \* the program's exit code once its segments are done
    Scripts,        \* the scripts pdip may be given (sequences of lines)
    MaxRead,        \* bytes one read() of the pty returns at most (pdip_bufsz - 1)
    Backread,       \* option -R
    PropagateExit   \* option -p

Killed == -1   \* the status of a program ended by a signal (not an exit code)

\* The scripts avoid the lines whose behaviour the build leaves undefined:
\* `timeout` without a parameter (atoi(NULL)), a failed assert(), a recv
\* pattern regcomp() is not called on (regexec() of a freed regex_t) or one
\* read from stale memory; their patterns are the program's marker or "$".
ASSUME \A s \in Scripts : \A k \in DOMAIN s :
         /\ Command(s[k]).kw \notin {"crash", "nocomp", "stale"}
         /\ Command(s[k]).kw = "recv" => Command(s[k]).arg \in {"P", "$"}

VARIABLES
    mpc,        \* main thread: fork, start, top, sel, prog, in, shwait, end, wait, done
    text, script, line,                 \* the script file's lines, their parse, the lines read so far
    fdin, fdprog, synchro, pat, to, armed, rdy,   \* pdip_interact() locals
    rc, ret, ending,                    \* pdip_interact()'s rc, main()'s return
    pidset, dead, exitprog,             \* pdip_pid assigned, pdip_dead_prog, pdip_exit_prog
    disp, sigpend, hpc, intr,           \* SIGCHLD disposition, pending, handler step, EINTR
    pst, pstat, seg, wpos, sent, hup,   \* the program
    shc,                                \* the child of a `sh` command
    pty, out, stdout, written, pmatch   \* byte streams and history

vars == <<mpc, text, script, line, fdin, fdprog, synchro, pat, to, armed, rdy, rc, ret,
          ending, pidset, dead, exitprog, disp, sigpend, hpc, intr, pst, pstat,
          seg, wpos, sent, hup, shc, pty, out, stdout, written, pmatch>>
mainv == <<text, script, line, fdin, fdprog, synchro, pat, to, armed, rdy, rc, ret, ending>>
progv == <<pst, pstat, seg, wpos, sent, hup>>
sigv  == <<pidset, dead, exitprog, disp, sigpend, hpc, intr>>

-----------------------------------------------------------------------------
(* pdip_handle_synchro(): the line up to its newline, the printable       *)
(* characters regexec() sees, and the raw length written on a match.      *)
LineOf(buf) ==
    LET nl == {k \in 1..Len(buf) : buf[k] = "N"}
    IN IF nl = {} THEN buf ELSE SubSeq(buf, 1, Min(nl))

RECURSIVE PrintPos(_, _)
PrintPos(ln, k) ==
    IF k > Len(ln) THEN <<>>
    ELSE (IF ln[k] = "C" THEN <<>> ELSE <<k>>) \o PrintPos(ln, k + 1)

\* result.rm_eo of regexec() on the printable text, -1 when no match
MatchEnd(ln, p) ==
    LET txt == [j \in 1..Len(PrintPos(ln, 1)) |-> ln[PrintPos(ln, 1)[j]]]
        at(c) == {j \in 1..Len(txt) : txt[j] = c}
    IN CASE p = "P" -> IF at("P") = {} THEN -1 ELSE Min(at("P"))
         [] p = "$" -> IF at("N") = {} THEN Len(txt) ELSE Min(at("N")) - 1

RawNoSkip(ln, e) == e
\* l = rm_eo + line_skip[rm_eo - 1]: the raw position of the last matched character
Raw(ln, e) == IF e = 0 THEN 0 ELSE PrintPos(ln, 1)[e]

RECURSIVE HandleSynchro(_, _)
HandleSynchro(buf, p) ==
    IF buf = <<>> THEN [found |-> FALSE, wr |-> <<>>, rest |-> <<>>]
    ELSE LET ln == LineOf(buf)
             e  == MatchEnd(ln, p)
             l  == Raw(ln, e)
         IN IF e >= 0
            THEN [found |-> TRUE, wr |-> SubSeq(buf, 1, l),
                  rest |-> SubSeq(buf, l + 1, Len(buf))]
            ELSE IF ln[Len(ln)] = "N"
                 THEN LET r == HandleSynchro(SubSeq(buf, Len(ln) + 1, Len(buf)), p)
                      IN [r EXCEPT !.wr = ln \o @]
                 ELSE [found |-> FALSE, wr |-> <<>>, rest |-> buf]

-----------------------------------------------------------------------------
(* Children and SIGCHLD *)
Children == {c \in {"prog", "sh"} : IF c = "prog" THEN pst # "reaped"
                                    ELSE shc \in {"run", "zombie"}}
Zombies  == {c \in Children : IF c = "prog" THEN pst = "zombie" ELSE shc = "zombie"}
\* A child's exit makes SIGCHLD pending only while it is caught: the
\* default action of SIGCHLD is to ignore it, and the signal is discarded.
Generate == sigpend' = (sigpend \/ disp = "catch")
Reap(c) == /\ pst' = IF c = "prog" THEN "reaped" ELSE pst
           /\ shc' = IF c = "sh" THEN "reaped" ELSE shc
StatusCodeNoSignal(s) == s
\* pdip_exit_prog: WEXITSTATUS() for an exit, 1 for a death by signal
StatusCode(s) == IF s = Killed THEN 1 ELSE s
ProgReady == pty # <<>> \/ pst # "run"   \* data, or the slave side hung up
Running == mpc # "done"

-----------------------------------------------------------------------------
(* pdip_sig_chld(), first part: waitpid(-1, WNOHANG).  With SA_RESETHAND  *)
(* the disposition is back to default on entry.  A pid other than         *)
(* pdip_pid (0, an `sh` child, or any child while pdip_pid is still -1)   *)
(* is logged as an asynchronous program and the handler returns.          *)
HandlerWait ==
    /\ Running /\ sigpend /\ disp = "catch" /\ hpc = "idle"
    /\ sigpend' = FALSE /\ disp' = "dfl"
    /\ intr' \in IF mpc = "sel" THEN BOOLEAN ELSE {intr}
    /\ IF Zombies = {}
       THEN UNCHANGED <<pst, shc, dead, exitprog, hpc>>
       ELSE \E c \in Zombies :
              /\ Reap(c)
              /\ IF c = "prog" /\ pidset
                 THEN /\ exitprog' = StatusCode(pstat)
                      /\ dead' = TRUE
                      /\ hpc' = "second"
                 ELSE UNCHANGED <<dead, exitprog, hpc>>
    /\ UNCHANGED <<mpc, mainv, pidset, pstat, seg, wpos, sent, hup, pty, out,
                   stdout, written, pmatch>>

\* Second part: a second waitpid(-1, WNOHANG) under
\* assert(0 == pid || (-1 == pid && ECHILD == errno)); a failed assert aborts pdip.
HandlerCheck ==
    /\ Running /\ hpc = "second"
    /\ hpc' = "idle"
    /\ IF Zombies = {}
       THEN UNCHANGED <<mpc, ending>>
       ELSE mpc' = "done" /\ ending' = "abort"
    /\ UNCHANGED <<text, script, line, fdin, fdprog, synchro, pat, to, armed, rdy, rc,
                   ret, pidset, dead, exitprog, disp, sigpend, intr>>
    /\ UNCHANGED <<progv, shc, pty, out, stdout, written, pmatch>>

(* The program: it writes its segments, reads one line per further segment, *)
(* and exits; closing the master makes the session leader get SIGHUP.      *)
ProgWrite ==
    /\ Running /\ pst = "run" /\ wpos < Len(Prog[seg])
    /\ pty' = Append(pty, Prog[seg][wpos + 1])
    /\ written' = Append(written, Prog[seg][wpos + 1])
    /\ wpos' = wpos + 1
    /\ UNCHANGED <<mpc, mainv, sigv, pst, pstat, seg, sent, hup, shc, out, stdout, pmatch>>

ProgNext ==
    /\ Running /\ pst = "run" /\ wpos = Len(Prog[seg]) /\ seg < Len(Prog) /\ sent > 0
    /\ sent' = sent - 1 /\ seg' = seg + 1 /\ wpos' = 0
    /\ UNCHANGED <<mpc, mainv, sigv, pst, pstat, hup, shc, pty, out, stdout, written, pmatch>>

ProgEnd(status) ==
    /\ pst' = "zombie" /\ pstat' = status
    /\ Generate
    /\ UNCHANGED <<mpc, mainv, pidset, dead, exitprog, disp, hpc, intr, seg, wpos,
                   sent, hup, shc, pty, out, stdout, written, pmatch>>

ProgExit ==
    /\ Running /\ pst = "run" /\ wpos = Len(Prog[seg]) /\ seg = Len(Prog)
    /\ ProgEnd(ExitCode)

\* execvp() failing in the child: _exit(1) before any output.
ExecFail ==
    /\ Running /\ pst = "run" /\ seg = 1 /\ wpos = 0
    /\ ProgEnd(1)

ProgHangup == Running /\ pst = "run" /\ hup /\ ProgEnd(Killed)

ShExit ==
    /\ Running /\ shc = "run"
    /\ shc' = "zombie"
    /\ Generate
    /\ UNCHANGED <<mpc, mainv, pidset, dead, exitprog, disp, hpc, intr, progv,
                   pty, out, stdout, written, pmatch>>

-----------------------------------------------------------------------------
(* main(): pdip_capture_sigchld() and fork() are done in Init; the program *)
(* may run and die before fork() returns pdip_pid to the father.          *)
MainStep == Running /\ hpc = "idle"
Return ==
    /\ ret' = IF rc # 0 THEN 1 ELSE IF PropagateExit THEN exitprog ELSE 0
    /\ ending' = "return" /\ mpc' = "done"
Rearm(s, t) == armed' = (s /\ t > 0)   \* pTimeout at the bottom of the loop

ForkReturn ==
    /\ MainStep /\ mpc = "fork"
    /\ pidset' = TRUE /\ mpc' = "start"
    /\ UNCHANGED <<mainv, dead, exitprog, disp, sigpend, hpc, intr, progv, shc,
                   pty, out, stdout, written, pmatch>>

\* pdip_chld_failed_on_exec is set only when waitpid() returns pdip_pid
\* while pdip_pid is -1, which cannot happen: that test is never true.
Started ==
    /\ MainStep /\ mpc = "start"
    /\ dead' = FALSE /\ mpc' = "top"
    /\ UNCHANGED <<mainv, pidset, exitprog, disp, sigpend, hpc, intr, progv, shc,
                   pty, out, stdout, written, pmatch>>

(* pdip_interact(), top of the loop: a dead program ends the session after *)
(* the outstanding data and what pdip_flush() reads from the pty.          *)
CheckFlushFirst ==
    /\ MainStep /\ mpc = "top"
    /\ IF dead
       THEN /\ stdout' = stdout \o pty \o out
            /\ out' = <<>> /\ pty' = <<>> /\ rc' = 0 /\ mpc' = "end"
       ELSE UNCHANGED <<stdout, out, pty, rc>> /\ mpc' = "sel"
    /\ UNCHANGED <<text, script, line, fdin, fdprog, synchro, pat, to, armed, rdy, ret,
                   ending, sigv, progv, shc, written, pmatch>>
Check ==
    /\ MainStep /\ mpc = "top"
    /\ IF dead
       THEN /\ stdout' = stdout \o out \o pty
            /\ out' = <<>> /\ pty' = <<>> /\ rc' = 0 /\ mpc' = "end"
       ELSE UNCHANGED <<stdout, out, pty, rc>> /\ mpc' = "sel"
    /\ UNCHANGED <<text, script, line, fdin, fdprog, synchro, pat, to, armed, rdy, ret,
                   ending, sigv, progv, shc, written, pmatch>>

\* select(): EINTR when the handler ran while it was blocked, a timeout
\* when pTimeout is set and nothing is ready, or the ready descriptors.
SelectIntr ==
    /\ MainStep /\ mpc = "sel" /\ intr
    /\ intr' = FALSE /\ mpc' = "top"
    /\ UNCHANGED <<mainv, pidset, dead, exitprog, disp, sigpend, hpc, progv, shc,
                   pty, out, stdout, written, pmatch>>

SelectTimeout ==
    /\ MainStep /\ mpc = "sel" /\ armed /\ ~fdin /\ ~(fdprog /\ ProgReady)
    /\ rc' = -2 /\ mpc' = "end"
    /\ UNCHANGED <<text, script, line, fdin, fdprog, synchro, pat, to, armed, rdy, ret,
                   ending, sigv, progv, shc, pty, out, stdout, written, pmatch>>

SelectReady ==
    /\ MainStep /\ mpc = "sel" /\ (fdin \/ (fdprog /\ ProgReady))
    /\ rdy' = {d \in {"in", "prog"} : IF d = "in" THEN fdin ELSE fdprog /\ ProgReady}
    /\ intr' = FALSE /\ mpc' = "prog"
    /\ UNCHANGED <<text, script, line, fdin, fdprog, synchro, pat, to, armed, rc, ret,
                   ending, pidset, dead, exitprog, disp, sigpend, hpc, progv, shc,
                   pty, out, stdout, written, pmatch>>

(* Data from the program: read() returns 1..MaxRead bytes, or EIO once the *)
(* slave side is closed and drained.  The bytes go to the outstanding      *)
(* buffer; with a recv on track, pdip_handle_synchro() runs on it.         *)
ReadFailedRetry == mpc' = "in" /\ UNCHANGED rc
\* pdip_read() < 0: rc = -1 and goto end
ReadFailed == rc' = -1 /\ mpc' = "end"

ReadProgram ==
    /\ MainStep /\ mpc = "prog" /\ "prog" \in rdy
    /\ \/ /\ pty = <<>>
          /\ ReadFailed
          /\ UNCHANGED <<fdin, fdprog, synchro, pty, out, stdout, pmatch>>
       \/ \E k \in 1..Min({MaxRead, Len(pty)}) :
            LET buf == out \o SubSeq(pty, 1, k)
                hs  == HandleSynchro(buf, pat)
                fnd == synchro /\ hs.found
            IN /\ pty' = SubSeq(pty, k + 1, Len(pty))
               /\ out' = IF synchro THEN hs.rest ELSE buf
               /\ stdout' = IF synchro THEN stdout \o hs.wr ELSE stdout
               /\ fdin' = (fdin \/ fnd)
               /\ fdprog' = IF fnd THEN Backread ELSE fdprog
               /\ synchro' = (synchro /\ ~fnd)
               /\ pmatch' = IF fnd /\ pat = "P" THEN pmatch + 1 ELSE pmatch
               /\ mpc' = "in" /\ UNCHANGED rc
    /\ UNCHANGED <<text, script, line, pat, to, armed, rdy, ret, ending, sigv, progv, shc,
                   written>>

NoProgramData ==
    /\ MainStep /\ mpc = "prog" /\ "prog" \notin rdy
    /\ mpc' = "in"
    /\ UNCHANGED <<mainv, sigv, progv, shc, pty, out, stdout, written, pmatch>>

(* Script input.  Without a ready line the loop goes on after re-arming    *)
(* pTimeout; at end of file the outstanding data are written out.          *)
NoInput ==
    /\ MainStep /\ mpc = "in" /\ "in" \notin rdy
    /\ Rearm(synchro, to) /\ mpc' = "top"
    /\ UNCHANGED <<text, script, line, fdin, fdprog, synchro, pat, to, rdy, rc, ret,
                   ending, sigv, progv, shc, pty, out, stdout, written, pmatch>>

EndOfScript ==
    /\ MainStep /\ mpc = "in" /\ "in" \in rdy /\ line = Len(script)
    /\ stdout' = stdout \o out /\ out' = <<>>
    /\ rc' = 0 /\ mpc' = "end"
    /\ UNCHANGED <<text, script, line, fdin, fdprog, synchro, pat, to, armed, rdy, ret,
                   ending, sigv, progv, shc, pty, written, pmatch>>

\* A script line is read, split and dispatched on its keyword.  `script`
\* holds the command each line parses to: the parse is a function of the
\* line alone, so it is computed once, when the script is chosen.
Parsed(s) == [k \in DOMAIN s |-> Command(s[k])]
ScriptCmd == script[line + 1]
ReadLine(kw) ==
    /\ MainStep /\ mpc = "in" /\ "in" \in rdy /\ line < Len(script)
    /\ ScriptCmd.kw = kw /\ line' = line + 1

\* The control of the loop after a command that stays in the loop.
Continue == mpc' = "top" /\ Rearm(synchro', to')
Abort(r) == rc' = r /\ mpc' = "end"

CmdTimeout ==
    /\ ReadLine("timeout")
    /\ to' = IF ScriptCmd.arg = "1" THEN 1 ELSE 0
    /\ UNCHANGED synchro /\ Continue
    /\ UNCHANGED <<text, script, fdin, fdprog, pat, rdy, rc, ret, ending, sigv,
                   progv, shc, pty, out, stdout, written, pmatch>>

\* recv: fd_input = -1, fd_program = pdip_pty, synchro = 1, then a look
\* at the outstanding data, if any, for the new pattern.
CmdRecv ==
    /\ ReadLine("recv")
    /\ LET hs  == HandleSynchro(out, ScriptCmd.arg)
           fnd == out # <<>> /\ hs.found
       IN /\ pat' = ScriptCmd.arg
          /\ out' = IF out # <<>> THEN hs.rest ELSE out
          /\ stdout' = IF out # <<>> THEN stdout \o hs.wr ELSE stdout
          /\ fdin' = fnd /\ synchro' = ~fnd
          /\ fdprog' = IF fnd THEN Backread ELSE TRUE
          /\ pmatch' = IF fnd /\ ScriptCmd.arg = "P" THEN pmatch + 1 ELSE pmatch
    /\ UNCHANGED to /\ Continue
    /\ UNCHANGED <<text, script, rdy, rc, ret, ending, sigv, progv, shc, pty, written>>

\* send: the line goes to the program's input.  A write on the master after
\* the slave side closed is accepted and the data are lost.
CmdSend ==
    /\ ReadLine("send")
    /\ sent' = IF pst = "run" THEN sent + 1 ELSE sent
    /\ UNCHANGED <<synchro, to>> /\ Continue
    /\ UNCHANGED <<text, script, fdin, fdprog, pat, rdy, rc, ret, ending, sigv, pst, pstat,
                   seg, wpos, hup, shc, pty, out, stdout, written, pmatch>>

\* sig: kill(pid) on a reaped pid fails and ends the session with rc -1.
CmdSig ==
    /\ ReadLine("sig")
    /\ IF pst = "reaped"
       THEN Abort(-1) /\ UNCHANGED <<pst, pstat, sigpend, armed>>
       ELSE /\ IF pst = "run"
               THEN pst' = "zombie" /\ pstat' = Killed /\ Generate
               ELSE UNCHANGED <<pst, pstat, sigpend>>
            /\ UNCHANGED <<synchro, to, rc>> /\ Continue
    /\ UNCHANGED <<text, script, fdin, fdprog, synchro, pat, to, rdy, ret, ending, pidset,
                   dead, exitprog, disp, hpc, intr, seg, wpos, sent, hup, shc, pty,
                   out, stdout, written, pmatch>>

\* print writes its text to stdout; sleep, dbg and a sig without exactly one
\* parameter change nothing modelled.
CmdPrint ==
    /\ ReadLine("print")
    /\ stdout' = Append(stdout, "print")
    /\ UNCHANGED <<synchro, to>> /\ Continue
    /\ UNCHANGED <<text, script, fdin, fdprog, pat, rdy, rc, ret, ending, sigv, progv, shc,
                   pty, out, written, pmatch>>

CmdNoop ==
    /\ \/ ReadLine("sleep")
       \/ ReadLine("dbg")
       \/ ReadLine("nop")
    /\ UNCHANGED <<synchro, to>> /\ Continue
    /\ UNCHANGED <<text, script, fdin, fdprog, pat, rdy, rc, ret, ending, sigv, progv, shc,
                   pty, out, stdout, written, pmatch>>

\* exit: loop = 0, the loop ends with rc 0.
CmdExit ==
    /\ ReadLine("exit")
    /\ Abort(0)
    /\ UNCHANGED <<text, script, fdin, fdprog, synchro, pat, to, armed, rdy, ret, ending,
                   sigv, progv, shc, pty, out, stdout, written, pmatch>>

\* An unknown keyword, or a keyword with bad parameters, ends the session
\* with rc -1, a line that does not split with rc -3; an empty line is a
\* `continue` that skips the re-arming of pTimeout.
CmdBad ==
    /\ ReadLine("bad") \/ ReadLine("error")
    /\ Abort(-1)
    /\ UNCHANGED <<text, script, fdin, fdprog, synchro, pat, to, armed, rdy, ret, ending,
                   sigv, progv, shc, pty, out, stdout, written, pmatch>>

CmdSyntax ==
    /\ ReadLine("syntax")
    /\ Abort(-3)
    /\ UNCHANGED <<text, script, fdin, fdprog, synchro, pat, to, armed, rdy, ret, ending,
                   sigv, progv, shc, pty, out, stdout, written, pmatch>>

CmdEmpty ==
    /\ ReadLine("empty")
    /\ mpc' = "top"
    /\ UNCHANGED <<text, script, fdin, fdprog, synchro, pat, to, armed, rdy, rc, ret, ending,
                   sigv, progv, shc, pty, out, stdout, written, pmatch>>

\* sh cmd: fork() a child and go on.
CmdSh ==
    /\ ReadLine("sh")
    /\ shc' = "run"
    /\ UNCHANGED <<synchro, to>> /\ Continue
    /\ UNCHANGED <<text, script, fdin, fdprog, pat, rdy, rc, ret, ending, sigv, progv,
                   pty, out, stdout, written, pmatch>>

\* sh -s cmd: signal(SIGCHLD, SIG_DFL) (which discards a pending SIGCHLD),
\* fork(), waitpid(pid_sh), then pdip_capture_sigchld() again.
CmdShSync ==
    /\ ReadLine("shs")
    /\ disp' = "dfl" /\ sigpend' = FALSE
    /\ shc' = "run" /\ mpc' = "shwait"
    /\ UNCHANGED <<text, script, fdin, fdprog, synchro, pat, to, armed, rdy, rc, ret, ending,
                   pidset, dead, exitprog, hpc, intr, progv, pty, out, stdout,
                   written, pmatch>>

ShSyncDone ==
    /\ MainStep /\ mpc = "shwait" /\ shc = "zombie"
    /\ shc' = "reaped" /\ disp' = "catch"
    /\ UNCHANGED <<synchro, to>> /\ Continue
    /\ UNCHANGED <<text, script, line, fdin, fdprog, pat, rdy, rc, ret, ending, pidset, dead,
                   exitprog, sigpend, hpc, intr, progv, pty, out, stdout, written,
                   pmatch>>

(* End of pdip_interact() and of main(): close(pdip_pty) hangs the program *)
(* up; if pdip_dead_prog is not set, alarm(3) and waitpid(-1, &status, 0), *)
(* whose status is discarded; then the return code.                         *)
End ==
    /\ MainStep /\ mpc = "end"
    /\ hup' = TRUE
    /\ IF dead THEN Return ELSE mpc' = "wait" /\ UNCHANGED <<ret, ending>>
    /\ UNCHANGED <<text, script, line, fdin, fdprog, synchro, pat, to, armed, rdy, rc, sigv,
                   pst, pstat, seg, wpos, sent, shc, pty, out, stdout, written, pmatch>>

MainWait ==
    /\ MainStep /\ mpc = "wait"
    /\ \/ \E c \in Zombies : Reap(c)
       \/ Children = {} /\ UNCHANGED <<pst, shc>>
    /\ mpc' = "waited"
    /\ UNCHANGED <<mainv, sigv, pstat, seg, wpos, sent, hup, pty, out, stdout, written,
                   pmatch>>

MainReturn ==
    /\ MainStep /\ mpc = "waited"
    /\ Return
    /\ UNCHANGED <<text, script, line, fdin, fdprog, synchro, pat, to, armed, rdy, rc, sigv,
                   progv, shc, pty, out, stdout, written, pmatch>>

\* pdip_sig_alarm(): no child ended within 3 seconds; pdip_kill_chld() and exit(1).
Alarm ==
    /\ MainStep /\ mpc = "wait" /\ Zombies = {} /\ Children # {}
    /\ ret' = 1 /\ ending' = "alarm" /\ mpc' = "done"
    /\ UNCHANGED <<text, script, line, fdin, fdprog, synchro, pat, to, armed, rdy, rc, sigv,
                   progv, shc, pty, out, stdout, written, pmatch>>

Finished == mpc = "done" /\ UNCHANGED vars

-----------------------------------------------------------------------------
Init ==
    /\ mpc = "fork" /\ text \in Scripts /\ script = Parsed(text) /\ line = 0
    /\ fdin = TRUE /\ fdprog = FALSE /\ synchro = FALSE /\ pat = "$"
    /\ to = 0 /\ armed = FALSE /\ rdy = {}
    /\ rc = 0 /\ ret = 0 /\ ending = "none"
    /\ pidset = FALSE /\ dead = TRUE /\ exitprog = 0      \* their static initialisers
    /\ disp = "catch" /\ sigpend = FALSE /\ hpc = "idle" /\ intr = FALSE
    /\ pst = "run" /\ pstat = 0 /\ seg = 1 /\ wpos = 0 /\ sent = 0 /\ hup = FALSE
    /\ shc = "none"
    /\ pty = <<>> /\ out = <<>> /\ stdout = <<>> /\ written = <<>> /\ pmatch = 0

Commands == CmdTimeout \/ CmdRecv \/ CmdSend \/ CmdSig \/ CmdPrint \/ CmdNoop
            \/ CmdExit \/ CmdBad \/ CmdSyntax \/ CmdEmpty \/ CmdSh \/ CmdShSync
MainNext == ForkReturn \/ Started \/ Check \/ SelectIntr \/ SelectTimeout
            \/ SelectReady \/ ReadProgram \/ NoProgramData \/ NoInput \/ EndOfScript \/ Commands
            \/ ShSyncDone \/ End \/ MainWait \/ MainReturn \/ Alarm
ChildSteps == ProgWrite \/ ProgNext \/ ProgExit \/ ExecFail \/ ProgHangup \/ ShExit
Next == MainNext \/ HandlerWait \/ HandlerCheck \/ ChildSteps \/ Finished

\* The main thread, the handler and the children are scheduled by the
\* kernel; a pending caught signal is delivered.
Spec == /\ Init /\ [][Next]_vars
        /\ WF_vars(MainNext) /\ WF_vars(HandlerWait) /\ WF_vars(HandlerCheck)
        /\ WF_vars(ProgWrite) /\ WF_vars(ProgNext) /\ WF_vars(ProgExit)
        /\ WF_vars(ProgHangup) /\ WF_vars(ShExit)

-----------------------------------------------------------------------------
Bytes == {"a", "P", "C", "N"}
TypeOK ==
    /\ mpc \in {"fork", "start", "top", "sel", "prog", "in", "shwait", "end",
                "wait", "waited", "done"}
    /\ line \in 0..Len(script) /\ rdy \subseteq {"in", "prog"}
    /\ {fdin, fdprog, synchro, armed, pidset, dead, sigpend, intr, hup} \subseteq BOOLEAN
    /\ pat \in {"P", "$"} /\ to \in {0, 1} /\ rc \in {0, -1, -2, -3}
    /\ ending \in {"none", "return", "alarm", "abort"}
    /\ disp \in {"catch", "dfl"} /\ hpc \in {"idle", "second"}
    /\ pst \in {"run", "zombie", "reaped"} /\ shc \in {"none", "run", "zombie", "reaped"}
    /\ /\ exitprog \in {0, 1, ExitCode}
    /\ pstat \in {0, 1, ExitCode, Killed}
    /\ {pty, out, written} \subseteq Seq(Bytes)
    /\ stdout \in Seq(Bytes \cup {"print"})

\* pdip_handle_synchro(), the dead-program flush and the end-of-script
\* write hand every byte the program wrote to stdout once and in order:
\* what was printed, then the outstanding buffer, then the unread pty.
Conservation ==
    SelectSeq(stdout, LAMBDA x : x # "print") \o out \o pty = written

\* A recv on the pattern returns only after a pattern byte of its own
\* reached stdout: the control characters skipped for regexec() are
\* counted back (line_skip) when the matched prefix is written and shifted.
RecvMatchesOutput ==
    pmatch <= Cardinality({k \in DOMAIN stdout : stdout[k] = "P"})

\* Every send line pdip carries out writes to the program exactly the bytes
\* the notation gives its string: the lines of the script it runs, and every
\* line of the bounded alphabet (SendLinesAsWritten, a constant evaluated
\* once).  pdip_split_cmdline() and pdip_format_params() must agree on where
\* the string ends and decode the escapes and '^' characters as documented.
SendAsWritten ==
    /\ SendLinesAsWritten
    /\ \A k \in DOMAIN text :
          script[k].kw = "send" => script[k].bytes \in SendMeaning(text[k])

\* A blank and a comment at the end of a line change nothing: each line of
\* the running script whose first '#' follows a blank is carried out as the
\* line cut before that blank, and so is every '#'-free send and recv line
\* of the bounded alphabet with " #..." appended (CommentLinesIgnored).
\* next_param() and get_string() must stop at the '#' (pdip.c 571, 623).
CommentIgnored ==
    /\ CommentLinesIgnored
    /\ \A k \in DOMAIN text : \A j \in 2..Len(text[k]) :
          (/\ text[k][j - 1] = " " /\ text[k][j] = "#"
           /\ \A i \in 1..j - 1 : text[k][i] # "#")
             => script[k] = Command(SubSeq(text[k], 1, j - 2))

\* Once the program has ended (by itself, by `sig` or by the hang-up),
\* pdip ends: the select() loop does not wait forever on it.
SessionEnds == (pst # "run") ~> (mpc = "done")

\* With -p, a session that ends normally returns the exit code of a
\* program that exited by itself ("Propagate the exit code of controlled
\* program"); a program killed by a signal, e.g. the hang-up when pdip
\* closes the pty, is left out, as the comment in pdip_sig_chld() admits.
ExitCodePropagated ==
    (mpc = "done" /\ ending = "return" /\ rc = 0 /\ PropagateExit /\ pst # "run"
     /\ pstat # Killed)
        => ret = pstat

\* pdip_sig_chld()'s assert(0 == pid || ...) never fails.
NoAbort == ending # "abort"
=============================================================================
