------------------------------ MODULE Rsystemd ------------------------------
(***************************************************************************)
(* The shell-pool daemon (src/rsys/rsystemd.c) and its clients            *)
(* (rsystem() in src/rsys/rsystem.c).                                      *)
(*                                                                         *)
(* The daemon's main loop select()s on the listening socket, the shells'  *)
(* PTYs and the clients' sockets, then handles in one pass: one accept(),  *)
(* the ready shells in index order, the ready clients in list order.  A    *)
(* shell event calls pdip_recv("^<prompt>$") with RECV_ON_THE_FLOW and no  *)
(* timeout, which blocks the whole loop until a line or the prompt comes. *)
(*                                                                         *)
(* Shell output is a sequence of tokens: a complete line "L", the start   *)
(* of a line with no NL yet "P", and the prompt "PROMPT", each tagged     *)
(* with the client whose command produced it (who).  pdip_recv reads one   *)
(* token per read().                                                      *)
(***************************************************************************)
EXTENDS Naturals, Sequences, FiniteSets

CONSTANTS
  Shells,          \* shell slots, 1..N (their order is the loop's order)
  Clients,         \* rsystem() processes
  Outputs,         \* what a command may print: sequences over {"L", "P"}
  CmdKinds,        \* commands: "ok", "long" (over pdip_send's buffer), "exit"
  MaxCmds,         \* bound: rsystem() calls per client
  QuitMidCommand,  \* a client may die while its rsystem() call waits
  MallocFails,     \* malloc() of a client record may fail
  ShellKill,       \* a shell may be killed from outside at any time
  Listen,          \* the listening socket, as an fd of select()
  None, Err        \* no client; the dummy error status -1

Tokens == [k : {"L", "P", "PROMPT"}, who : Clients \cup {None}]

Frames == [t : {"DISPLAY", "EOC", "BUSY", "OOM"}, who : Clients \cup {None, Err}]

VARIABLES
  \* the daemon
  fsm,       \* shell->state
  bound,     \* shell->client
  status,    \* shell->status: who the parsed "echo $?" line belongs to
  partial,   \* the PDIP object's outstanding data hold an incomplete line
  cstate,    \* client->state (ALLOCATED), or "none" (no record)
  cshell,    \* client->shell
  clist,     \* rsysd_clients, head first
  dsock,     \* daemon side of a client socket: none, open, graceful, closed
  dpc,       \* select, pass, recv (blocked in pdip_recv), dead
  todo,      \* fds select() reported and the pass has not handled yet
  rs,        \* the shell pdip_recv() is reading
  \* the shells
  inq,       \* lines written to the shell and not yet run
  pty,       \* tokens the shell printed and the daemon did not read
  alive,     \* the shell process exists
  last,      \* who ran the shell's last command ($?)
  \* the clients
  ccon,      \* client side of its socket: none, open, closed
  cpc,       \* idle, wait (in rsystem()), done (exited)
  toD,       \* CMD frames not yet read by the daemon
  toC,       \* frames not yet read by the client
  sent       \* rsystem() calls made

dvars == <<fsm, bound, status, partial, cstate, cshell, clist, dsock, dpc,
           todo, rs>>
svars == <<inq, pty, alive, last>>
cvars == <<ccon, cpc, toD, toC, sent>>
vars == <<dvars, svars, cvars>>

Tok(k, w) == [k |-> k, who |-> w]

-----------------------------------------------------------------------------
(* Writing to a client (rsys_send_msg*, rsys_send_eoc).  The frame is    *)
(* queued while the peer is there; SIGPIPE is never ignored, so a write   *)
(* to a socket whose peer is gone kills the daemon (see Dies).            *)
Reply(c, t, w) ==
  IF ccon[c] = "closed" THEN UNCHANGED toC
  ELSE toC' = [toC EXCEPT ![c] = Append(@, [t |-> t, who |-> w])]

Dies(c) == ccon[c] = "closed"

(* Fault variant: only the shell's pointer is cleared.                    *)
UnlinkHalf(s) ==
  /\ bound' = [bound EXCEPT ![s] = None]
  /\ cshell' = cshell

(* rsysd_unlink_client(): both pointers are cleared.                      *)
Unlink(s) ==
  /\ bound' = [bound EXCEPT ![s] = None]
  /\ cshell' = [cshell EXCEPT ![bound[s]] = None]

(* End of the handling of fd: back to select() when nothing is left, or  *)
(* the daemon is gone when a write of this step raised SIGPIPE.           *)
Handled(fd, died) ==
  /\ todo' = todo \ {fd}
  /\ dpc' = IF died THEN "dead" ELSE IF todo' = {} THEN "select" ELSE "pass"

-----------------------------------------------------------------------------
(* select()                                                               *)

ListenReady == \E c \in Clients : ccon[c] # "none" /\ dsock[c] = "none"

ShellReady(s) == pty[s] # <<>> \/ ~alive[s]

ClientReady(c) == cstate[c] = "ALLOCATED" /\ (toD[c] # <<>> \/ ccon[c] = "closed")

Select ==
  /\ dpc = "select"
  /\ LET r == (IF ListenReady THEN {Listen} ELSE {})
              \cup {s \in Shells : ShellReady(s)}
              \cup {c \in Clients : ClientReady(c)}
     IN /\ r # {}
        /\ todo' = r
  /\ dpc' = "pass"
  /\ UNCHANGED <<fsm, bound, status, partial, cstate, cshell, clist, dsock, rs>>
  /\ UNCHANGED <<svars, cvars>>


(* rsysd_shell_fsm() on RSYSD_EVT_DATA, after pdip_recv() returned r      *)
(* (DATA, FOUND or ERROR) with a line or prompt of client w.  Reading a    *)
(* token at a time, the display before a FOUND prompt is always empty.   *)
Resume(died) == dpc' = IF died THEN "dead" ELSE IF todo = {} THEN "select" ELSE "pass"

(* Fault variant: the EOC frame is never written.                         *)
EocAndFreeSilent(s, st) ==
  /\ UNCHANGED toC
  /\ Unlink(s)
  /\ fsm' = [fsm EXCEPT ![s] = "FREE"]
  /\ Resume(FALSE)
  /\ UNCHANGED <<status, inq>>

EocAndFree(s, st) ==
  /\ Reply(bound[s], "EOC", st)
  /\ Unlink(s)
  /\ fsm' = [fsm EXCEPT ![s] = "FREE"]
  /\ Resume(Dies(bound[s]))
  /\ UNCHANGED <<status, inq>>

FsmData(s, r, w) ==
  \/ /\ fsm[s] = "WAIT_EOC" /\ r = "DATA"
     /\ Reply(bound[s], "DISPLAY", w)
     /\ Resume(Dies(bound[s]))
     /\ UNCHANGED <<fsm, bound, cshell, status, inq>>
  \/ /\ fsm[s] = "WAIT_EOC" /\ r = "FOUND" /\ alive[s]   \* request_status
     /\ inq' = [inq EXCEPT ![s] = Append(@, [kind |-> "echo", by |-> bound[s], ck |-> "ok"])]
     /\ fsm' = [fsm EXCEPT ![s] = "WAIT_STATUS"]
     /\ Resume(FALSE)
     /\ UNCHANGED <<bound, cshell, status, toC>>
  \/ /\ \/ fsm[s] = "WAIT_EOC" /\ r = "FOUND" /\ ~alive[s] \* pdip_send fails
        \/ fsm[s] \in {"WAIT_EOC", "WAIT_STATUS"} /\ r = "ERROR"
     /\ EocAndFree(s, Err)
  \/ /\ fsm[s] = "WAIT_STATUS" /\ r = "DATA"       \* atoi() of the line
     /\ status' = [status EXCEPT ![s] = w]
     /\ Resume(FALSE)
     /\ UNCHANGED <<fsm, bound, cshell, inq, toC>>
  \/ /\ fsm[s] = "WAIT_STATUS" /\ r = "FOUND"
     /\ EocAndFree(s, status[s])
  \/ /\ fsm[s] = "FREEING"                        \* rsysd_flush_shell_display
     /\ fsm' = [fsm EXCEPT ![s] = IF r = "DATA" THEN "FREEING" ELSE "FREE"]
     /\ Resume(FALSE)
     /\ UNCHANGED <<bound, cshell, status, inq, toC>>

-----------------------------------------------------------------------------
(* The pass over the fds select() reported.                               *)

(* accept() and rsysd_new_client(), or the OOM answer when malloc fails.  *)
Accept ==
  /\ dpc = "pass" /\ Listen \in todo
  /\ \E c \in Clients :
       /\ ccon[c] # "none" /\ dsock[c] = "none"
       /\ \/ /\ cstate' = [cstate EXCEPT ![c] = "ALLOCATED"]
             /\ clist' = <<c>> \o clist
             /\ dsock' = [dsock EXCEPT ![c] = "open"]
             /\ Handled(Listen, FALSE)
             /\ UNCHANGED toC
          \/ /\ MallocFails
             /\ Reply(c, "OOM", None)
             /\ dsock' = [dsock EXCEPT ![c] = "graceful"]
             /\ Handled(Listen, Dies(c))
             /\ UNCHANGED <<cstate, clist>>
  /\ UNCHANGED <<fsm, bound, status, partial, cshell, rs>>
  /\ UNCHANGED <<svars, ccon, cpc, toD, sent>>

(* A ready shell, in index order: rsysd_shell_fsm(RSYSD_EVT_DATA).  In    *)
(* FREE and ALLOCATED the event is unexpected and nothing is read; in the *)
(* other states the loop enters a blocking pdip_recv().                   *)
ShellEvent(s) ==
  /\ dpc = "pass" /\ Listen \notin todo
  /\ s \in todo /\ \A x \in todo \cap Shells : s <= x
  /\ \/ /\ fsm[s] \in {"FREE", "ALLOCATED"}
        /\ Handled(s, FALSE)
        /\ UNCHANGED rs
     \/ /\ fsm[s] \in {"WAIT_EOC", "WAIT_STATUS", "FREEING"}
        /\ dpc' = "recv" /\ rs' = s
        /\ todo' = todo \ {s}
  /\ UNCHANGED <<fsm, bound, status, partial, cstate, cshell, clist, dsock>>
  /\ UNCHANGED <<svars, cvars>>

(* One read() of pdip_recv(): a prompt glued to an incomplete line does   *)
(* not match "^prompt$" and no line is complete, so the read goes on.     *)
RecvMore ==
  /\ dpc = "recv" /\ pty[rs] # <<>>
  /\ LET t == Head(pty[rs]) IN t.k = "P" \/ (t.k = "PROMPT" /\ partial[rs])
  /\ pty' = [pty EXCEPT ![rs] = Tail(@)]
  /\ partial' = [partial EXCEPT ![rs] = TRUE]
  /\ UNCHANGED <<fsm, bound, status, cstate, cshell, clist, dsock, dpc, todo, rs>>
  /\ UNCHANGED <<inq, alive, last, cvars>>

(* pdip_recv() returns DATA on a complete line, FOUND on a prompt at the  *)
(* start of a line, ERROR when the shell is gone (EIO); the FSM goes on.  *)
RecvDone ==
  /\ dpc = "recv"
  /\ \/ /\ pty[rs] # <<>>
        /\ LET t == Head(pty[rs]) IN
           /\ t.k = "L" \/ (t.k = "PROMPT" /\ ~partial[rs])
           /\ pty' = [pty EXCEPT ![rs] = Tail(@)]
           /\ partial' = [partial EXCEPT ![rs] = FALSE]
           /\ FsmData(rs, IF t.k = "L" THEN "DATA" ELSE "FOUND", t.who)
     \/ /\ pty[rs] = <<>> /\ ~alive[rs]
        /\ FsmData(rs, "ERROR", None)
        /\ UNCHANGED <<pty, partial>>
  /\ UNCHANGED <<cstate, clist, dsock, todo, rs, alive, last>>
  /\ UNCHANGED <<ccon, cpc, toD, sent>>


(* Fault variant: the client is deleted but its record is never freed.     *)
FreeClientDeleteOnly(c) ==
  /\ cstate' = [cstate EXCEPT ![c] = "FREE"]
  /\ clist' = clist
  /\ dsock' = dsock

(* rsysd_free_client(): out of the list, socket to the graceful thread.   *)
FreeClient(c) ==
  /\ cstate' = [cstate EXCEPT ![c] = "none"]
  /\ clist' = SelectSeq(clist, LAMBDA x : x # c)
  /\ dsock' = [dsock EXCEPT ![c] = "graceful"]

(* Fault variant: a shell with a command in flight goes straight to FREE. *)
OnDcnxNoFreeing(st) == "FREE"

(* RSYSD_EVT_CLIENT_DCNX: an idle shell (ALLOCATED, or FREE just linked)  *)
(* is FREE again; one with a command or status request in flight must     *)
(* drain to its prompt in FREEING.                                        *)
OnDcnx(st) == IF st \in {"FREE", "ALLOCATED"} THEN "FREE" ELSE "FREEING"

(* rsysd_read_client(): the next CMD frame, or the end of the connection  *)
(* (read() returns 0) once the client closed and everything was read.     *)
ReadClient(c) == IF toD[c] # <<>> THEN "CMD" ELSE "DCNX"

(* rsysd_get_shell(): the first FREE shell.                               *)
GetShell == LET free == {s \in Shells : fsm[s] = "FREE"}
            IN IF free = {} THEN None ELSE CHOOSE s \in free : \A x \in free : s <= x

(* A ready client, in list order: link it to a free shell if it has none, *)
(* rsysd_read_client(), then RSYSD_EVT_CMD or RSYSD_EVT_CLIENT_DCNX to   *)
(* its shell, or BUSY or rsysd_delete_client() when it has none, and      *)
(* rsysd_free_client() of a deleted client.  A client is never linked    *)
(* when its CMD comes (rsystem() waits for the EOC), so the linked shell  *)
(* is the one just taken, in ALLOCATED.                                   *)
ClientEvent(c) ==
  /\ dpc = "pass" /\ todo \cap ({Listen} \cup Shells) = {}
  /\ c \in todo
  /\ \E i \in 1..Len(clist) : clist[i] = c /\ \A j \in 1..(i - 1) : clist[j] \notin todo
  /\ LET s == IF cshell[c] # None THEN cshell[c] ELSE GetShell IN
     \/ /\ s # None /\ ReadClient(c) = "CMD"         \* RSYSD_EVT_CMD
        /\ toD' = [toD EXCEPT ![c] = Tail(@)]
        /\ \/ /\ Head(toD[c]).ck # "long" /\ alive[s]  \* rsysd_run_cmd
              /\ inq' = [inq EXCEPT ![s] = Append(@, [kind |-> "cmd", by |-> c,
                                                      ck |-> Head(toD[c]).ck])]
              /\ fsm' = [fsm EXCEPT ![s] = "WAIT_EOC"]
              /\ bound' = [bound EXCEPT ![s] = c]
              /\ cshell' = [cshell EXCEPT ![c] = s]
              /\ Handled(c, FALSE)
              /\ UNCHANGED toC
           \/ /\ Head(toD[c]).ck = "long" \/ ~alive[s]  \* pdip_send fails
              /\ Reply(c, "EOC", Err)
              /\ fsm' = [fsm EXCEPT ![s] = "FREE"]
              /\ bound' = [bound EXCEPT ![s] = None]
              /\ cshell' = [cshell EXCEPT ![c] = None]
              /\ Handled(c, Dies(c))
              /\ UNCHANGED inq
        /\ UNCHANGED <<cstate, clist, dsock>>
     \/ /\ s # None /\ ReadClient(c) = "DCNX"        \* RSYSD_EVT_CLIENT_DCNX
        /\ fsm' = [fsm EXCEPT ![s] = OnDcnx(@)]
        /\ bound' = [bound EXCEPT ![s] = None]
        /\ cshell' = [cshell EXCEPT ![c] = None]
        /\ FreeClient(c)
        /\ Handled(c, FALSE)
        /\ UNCHANGED <<inq, toD, toC>>
     \/ /\ s = None /\ ReadClient(c) = "CMD"         \* no shell: BUSY
        /\ toD' = [toD EXCEPT ![c] = Tail(@)]
        /\ Reply(c, "BUSY", None)
        /\ Handled(c, Dies(c))
        /\ UNCHANGED <<fsm, bound, cshell, cstate, clist, dsock, inq>>
     \/ /\ s = None /\ ReadClient(c) = "DCNX"        \* end of connection
        /\ FreeClient(c)
        /\ Handled(c, FALSE)
        /\ UNCHANGED <<fsm, bound, cshell, inq, toD, toC>>
  /\ UNCHANGED <<status, partial, rs, pty, alive, last, ccon, cpc, sent>>

(* rsysd_graceful_thd closes a socket once its peer sends or closes.      *)
GracefulClose(c) ==
  /\ dpc # "dead"
  /\ dsock[c] = "graceful" /\ (toD[c] # <<>> \/ ccon[c] = "closed")
  /\ dsock' = [dsock EXCEPT ![c] = "closed"]
  /\ UNCHANGED <<fsm, bound, status, partial, cstate, cshell, clist, dpc, todo, rs>>
  /\ UNCHANGED <<svars, cvars>>

-----------------------------------------------------------------------------
(* The shell: runs the lines written to it in order.  A command prints   *)
(* one of Outputs and the prompt; "echo $?" prints the status line of the *)
(* last command and the prompt; "exit" ends the shell.                    *)
Run(s) ==
  /\ alive[s] /\ inq[s] # <<>>
  /\ LET j == Head(inq[s]) IN
     \/ /\ j.kind = "cmd" /\ j.ck = "ok"
        /\ \E o \in Outputs :
             pty' = [pty EXCEPT ![s] = @ \o [i \in 1..Len(o) |-> Tok(o[i], j.by)]
                                         \o <<Tok("PROMPT", j.by)>>]
        /\ last' = [last EXCEPT ![s] = j.by]
        /\ inq' = [inq EXCEPT ![s] = Tail(@)]
        /\ UNCHANGED alive
     \/ /\ j.kind = "echo"
        /\ pty' = [pty EXCEPT ![s] = @ \o <<Tok("L", last[s]), Tok("PROMPT", j.by)>>]
        /\ inq' = [inq EXCEPT ![s] = Tail(@)]
        /\ UNCHANGED <<alive, last>>
     \/ /\ j.kind = "cmd" /\ j.ck = "exit"
        /\ alive' = [alive EXCEPT ![s] = FALSE]
        /\ inq' = [inq EXCEPT ![s] = <<>>]
        /\ UNCHANGED <<pty, last>>
  /\ UNCHANGED <<dvars, cvars>>

(* The shell is killed from outside (kill -9, the OOM killer).          *)
Killed(s) ==
  /\ ShellKill /\ alive[s]
  /\ alive' = [alive EXCEPT ![s] = FALSE]
  /\ inq' = [inq EXCEPT ![s] = <<>>]
  /\ UNCHANGED <<pty, last, dvars, cvars>>

-----------------------------------------------------------------------------
(* rsystem(): the library connects when it is loaded (rsys_lib_init);    *)
(* each call writes a CMD frame and reads DISPLAY frames up to the EOC,   *)
(* or a BUSY or OOM frame, or the end of the connection.                  *)

Connect(c) ==
  /\ ccon[c] = "none"
  /\ ccon' = [ccon EXCEPT ![c] = "open"]
  /\ UNCHANGED <<dvars, svars, cpc, toD, toC, sent>>

DaemonGone(c) == dsock[c] = "closed" \/ dpc = "dead"

(* A write to a socket the daemon closed raises SIGPIPE in the caller.    *)
Call(c) ==
  /\ cpc[c] = "idle" /\ ccon[c] = "open" /\ sent[c] < MaxCmds
  /\ sent' = [sent EXCEPT ![c] = @ + 1]
  /\ \/ /\ ~DaemonGone(c)
        /\ \E k \in CmdKinds : toD' = [toD EXCEPT ![c] = Append(@, [ck |-> k])]
        /\ cpc' = [cpc EXCEPT ![c] = "wait"]
        /\ UNCHANGED ccon
     \/ /\ DaemonGone(c)
        /\ cpc' = [cpc EXCEPT ![c] = "done"]
        /\ ccon' = [ccon EXCEPT ![c] = "closed"]
        /\ UNCHANGED toD
  /\ UNCHANGED <<dvars, svars, toC>>

(* Fault variant: the call returns on the first frame, whatever it is.     *)
AnswerFirstFrame(c) ==
  /\ cpc[c] = "wait" /\ toC[c] # <<>>
  /\ toC' = [toC EXCEPT ![c] = Tail(@)]
  /\ cpc' = [cpc EXCEPT ![c] = "idle"]
  /\ UNCHANGED <<dvars, svars, ccon, toD, sent>>

Answer(c) ==
  /\ cpc[c] = "wait" /\ toC[c] # <<>>
  /\ toC' = [toC EXCEPT ![c] = Tail(@)]
  /\ cpc' = [cpc EXCEPT ![c] = IF Head(toC[c]).t = "DISPLAY" THEN "wait" ELSE "idle"]
  /\ UNCHANGED <<dvars, svars, ccon, toD, sent>>

Eof(c) ==
  /\ cpc[c] = "wait" /\ toC[c] = <<>> /\ DaemonGone(c)
  /\ cpc' = [cpc EXCEPT ![c] = "idle"]
  /\ UNCHANGED <<dvars, svars, ccon, toD, toC, sent>>

(* The process exits (rsys_lib_exit closes the socket), or is killed in   *)
(* the middle of a call when QuitMidCommand.                              *)
Exit(c) ==
  /\ ccon[c] = "open"
  /\ cpc[c] = "idle" \/ (cpc[c] = "wait" /\ QuitMidCommand)
  /\ ccon' = [ccon EXCEPT ![c] = "closed"]
  /\ cpc' = [cpc EXCEPT ![c] = "done"]
  /\ UNCHANGED <<dvars, svars, toD, toC, sent>>


-----------------------------------------------------------------------------
(* main() after rsysd_create_shells(): every shell FREE with its output   *)
(* drained, no client.                                                    *)
Init ==
  /\ fsm = [s \in Shells |-> "FREE"]
  /\ bound = [s \in Shells |-> None]
  /\ status = [s \in Shells |-> None]
  /\ partial = [s \in Shells |-> FALSE]
  /\ cstate = [c \in Clients |-> "none"]
  /\ cshell = [c \in Clients |-> None]
  /\ clist = <<>>
  /\ dsock = [c \in Clients |-> "none"]
  /\ dpc = "select" /\ todo = {} /\ rs = None
  /\ inq = [s \in Shells |-> <<>>]
  /\ pty = [s \in Shells |-> <<>>]
  /\ alive = [s \in Shells |-> TRUE]
  /\ last = [s \in Shells |-> None]
  /\ ccon = [c \in Clients |-> "none"]
  /\ cpc = [c \in Clients |-> "idle"]
  /\ toD = [c \in Clients |-> <<>>]
  /\ toC = [c \in Clients |-> <<>>]
  /\ sent = [c \in Clients |-> 0]

(* The daemon's main thread: one step of its loop.                        *)
Daemon ==
  \/ Select \/ Accept \/ RecvMore \/ RecvDone
  \/ \E s \in Shells : ShellEvent(s)
  \/ \E c \in Clients : ClientEvent(c)

(* Every client has exited and nothing is left for anyone to do.          *)
Quiescent ==
  /\ \A c \in Clients : cpc[c] = "done"
  /\ \A s \in Shells : inq[s] = <<>> \/ ~alive[s]
  /\ \/ dpc = "dead"
     \/ dpc = "select" /\ ~ENABLED Select /\ \A c \in Clients : dsock[c] # "graceful"
  /\ UNCHANGED vars

Next ==
  \/ Daemon
  \/ \E s \in Shells : Run(s) \/ Killed(s)
  \/ \E c \in Clients : Connect(c) \/ Call(c) \/ Answer(c) \/ Eof(c) \/ Exit(c)
                        \/ GracefulClose(c)
  \/ Quiescent

(* The daemon thread and the graceful thread never stop while they have  *)
(* work; a shell runs what it is given; rsystem() keeps reading its       *)
(* socket.  Nothing forces a client to call or to exit.                   *)
Fairness ==
  /\ WF_vars(Daemon)
  /\ \A s \in Shells : WF_vars(Run(s))
  /\ \A c \in Clients : WF_vars(Answer(c) \/ Eof(c)) /\ WF_vars(GracefulClose(c))

Spec == Init /\ [][Next]_vars /\ Fairness

-----------------------------------------------------------------------------
TypeOK ==
  /\ fsm \in [Shells -> {"FREE", "ALLOCATED", "WAIT_EOC", "WAIT_STATUS", "FREEING"}]
  /\ bound \in [Shells -> Clients \cup {None}]
  /\ status \in [Shells -> Clients \cup {None}]
  /\ partial \in [Shells -> BOOLEAN]
  /\ cstate \in [Clients -> {"none", "ALLOCATED"}]
  /\ cshell \in [Clients -> Shells \cup {None}]
  /\ clist \in Seq(Clients)
  /\ dsock \in [Clients -> {"none", "open", "graceful", "closed"}]
  /\ dpc \in {"select", "pass", "recv", "dead"}
  /\ todo \subseteq {Listen} \cup Shells \cup Clients
  /\ rs \in Shells \cup {None}
  /\ \A s \in Shells : \A i \in DOMAIN pty[s] : pty[s][i] \in Tokens
  /\ alive \in [Shells -> BOOLEAN]
  /\ ccon \in [Clients -> {"none", "open", "closed"}]
  /\ cpc \in [Clients -> {"idle", "wait", "done"}]
  /\ \A c \in Clients : \A i \in DOMAIN toC[c] : toC[c][i] \in Frames
  /\ sent \in [Clients -> 0..MaxCmds]

(* The shell->client and client->shell pointers agree, and a shell has a *)
(* client exactly in ALLOCATED, WAIT_EOC and WAIT_STATUS: DCNX, errors   *)
(* and the EOC must each unlink both sides.                               *)
LinkConsistent ==
  /\ \A s \in Shells :
       /\ (bound[s] # None) = (fsm[s] \in {"ALLOCATED", "WAIT_EOC", "WAIT_STATUS"})
       /\ bound[s] # None => cshell[bound[s]] = s /\ cstate[bound[s]] = "ALLOCATED"
  /\ \A c \in Clients : cshell[c] # None => bound[cshell[c]] = c

(* A client is only sent the output and the status of its own command:    *)
(* after a client leaves mid-command, FREEING must swallow the rest of     *)
(* its output before the shell serves anyone else.                        *)
OwnOutput ==
  \A c \in Clients : \A i \in DOMAIN toC[c] :
    toC[c][i].t \in {"DISPLAY", "EOC"} => toC[c][i].who \in {c, Err}

(* When rsystem() has returned, no frame answering that call is still on  *)
(* its way to be taken as the answer of the next call (an OOM frame is    *)
(* sent at accept() time, before any call, and is meant for the next).    *)
NoStrayFrame ==
  \A c \in Clients : cpc[c] = "idle" =>
    \A i \in DOMAIN toC[c] : toC[c][i].t = "OOM"

(* Every rsystem() call returns: an EOC, BUSY, OOM or the end of the     *)
(* connection reaches it.                                                  *)
CallReturns ==
  \A c \in Clients : cpc[c] = "wait" ~> cpc[c] # "wait"

(* The daemon is never killed by writing to a client that went away.     *)
DaemonSurvives == dpc # "dead"

=============================================================================
