------------------------------ MODULE PdipSend ------------------------------
(***************************************************************************)
(* pdip_send() and its write loop pdip_write() (src/pdip_lib.c), driven by *)
(* a caller that sends its lines one after the other and gives up at the  *)
(* first negative return, as isystem() and rsystemd do.  Three actors:    *)
(*   - the caller's thread, in pdip_send()/pdip_write();                  *)
(*   - the controlled program, reading its pty and possibly exiting;      *)
(*   - the SIGCHLD handler, pdip_signal_handler(), which marks the PDIP   *)
(*     object ZOMBIE some time after the program exited.                  *)
(* A byte is <<k, j>>: the j-th byte of the k-th line.  The pty input     *)
(* queue holds at most PtyCap bytes, so write() can block, be interrupted *)
(* by a signal after a partial transfer, or fail with EINTR (SIGCHLD is   *)
(* installed without SA_RESTART, pdip_lib.c:3065).  As on Linux, a write  *)
(* on the master is accepted after the program has exited (nobody reads   *)
(* it any more) and blocks once the queue is full; write() does not fail  *)
(* otherwise, so the error branch of pdip_write() (pdip_lib.c:203-229) is *)
(* not reached and is left out.                                           *)
(***************************************************************************)
EXTENDS Integers, Sequences, SequencesExt

CONSTANTS
  Msgs,      \* lengths of the formatted lines the caller sends, in order
  BufSize,   \* sizeof(str) in pdip_send(): 4096 in the code
  PtyCap,    \* bytes the pty input queue holds before write() blocks
  MaxIntr    \* bound on the signals that interrupt write()

ASSUME Msgs \in Seq(Nat) /\ BufSize \in Nat \ {0} /\ PtyCap \in Nat \ {0}

EPERM == "EPERM"
ENOSPC == "ENOSPC"
EINTR == "EINTR"

VARIABLES
  spc,     \* caller: "call", "write" (in pdip_write()), "done"
  k,       \* index in Msgs of the line being sent
  l,       \* pdip_write(): bytes of line k written so far
  rcs,     \* values returned by the completed pdip_send() calls
  errno,
  intr,    \* signals delivered so far (bounded by MaxIntr)
  pty,     \* bytes written to the master, not yet read by the program
  rcvd,    \* bytes the program has read, in order
  prog,    \* "running" or "exited"
  state    \* ctxp->state: "ALIVE" or "ZOMBIE"

vars == <<spc, k, l, rcs, errno, intr, pty, rcvd, prog, state>>

Line(m) == [j \in 1..Msgs[m] |-> <<m, j>>]

(* The bytes of line m present on the program's side of the pty.           *)
Delivered(m) == SelectSeq(rcvd \o pty, LAMBDA b : b[1] = m)

Init ==
  /\ spc = "call" /\ k = 1 /\ l = 0 /\ rcs = <<>> /\ errno = "none"
  /\ intr = 0 /\ pty = <<>> /\ rcvd = <<>> /\ prog = "running" /\ state = "ALIVE"

(* pdip_send() returns r: the caller goes on with its next line, or gives  *)
(* up on a negative return.                                               *)
Return(r) ==
  /\ rcs' = Append(rcs, r)
  /\ k' = k + 1
  /\ spc' = IF r < 0 \/ k = Len(Msgs) THEN "done" ELSE "call"

(* pdip_send(): read the state with SIGCHLD masked, format the line into  *)
(* str[BufSize], then enter pdip_write() with l = 0.                     *)
SendTooLong(len) == len + 1 > BufSize

(* Mutant: pdip_write() without its l = 0, so a line starts at the count *)
(* of the previous one.                                                   *)
SendNoReset ==
  /\ spc = "call"
  /\ IF state # "ALIVE"
       THEN Return(-1) /\ errno' = EPERM /\ UNCHANGED l
     ELSE IF SendTooLong(Msgs[k])
       THEN Return(-1) /\ errno' = ENOSPC /\ UNCHANGED l
     ELSE spc' = "write" /\ UNCHANGED <<k, l, rcs, errno>>
  /\ UNCHANGED <<intr, pty, rcvd, prog, state>>

Send ==
  /\ spc = "call"
  /\ IF state # "ALIVE"
       THEN Return(-1) /\ errno' = EPERM /\ UNCHANGED l
     ELSE IF SendTooLong(Msgs[k])
       THEN Return(-1) /\ errno' = ENOSPC /\ UNCHANGED l
     ELSE spc' = "write" /\ l' = 0 /\ UNCHANGED <<k, rcs, errno>>
  /\ UNCHANGED <<intr, pty, rcvd, prog, state>>

(* rc = write(pty_master, buf + l, len - l) moves n > 0 bytes into the  *)
(* pty: what fits, after which a blocking write() sleeps until the      *)
(* program reads, or fewer when a signal interrupts it after a partial  *)
(* transfer; then l += rc and the loop ends when l == len.             *)
(* Mutant: write(pty_master, buf, len - l), the offset forgotten.        *)
WriteFromStart(n) == SubSeq(Line(k), 1, n)

WriteFrom(n) == SubSeq(Line(k), l + 1, l + n)

Room == PtyCap - Len(pty)

WriteSome ==
  /\ spc = "write"
  /\ \E n \in 1..Min({Msgs[k] - l, Room}) :
       /\ n < Min({Msgs[k] - l, Room}) => intr < MaxIntr
       /\ intr' = IF n < Min({Msgs[k] - l, Room}) THEN intr + 1 ELSE intr
       /\ pty' = pty \o WriteFrom(n)
       /\ l' = l + n
       /\ IF l + n = Msgs[k]
            THEN Return(Msgs[k]) /\ UNCHANGED errno
            ELSE UNCHANGED <<spc, k, rcs, errno>>
  /\ UNCHANGED <<rcvd, prog, state>>

(* Mutant: no rc < 0 test before l += rc, so EINTR adds -1 to l.       *)
WriteIntrAddsRc ==
  /\ spc = "write" /\ intr < MaxIntr
  /\ intr' = intr + 1 /\ errno' = EINTR /\ l' = l - 1
  /\ UNCHANGED <<spc, k, rcs, pty, rcvd, prog, state>>

(* write() interrupted before transferring anything: goto one_more_time. *)
WriteIntr ==
  /\ spc = "write" /\ intr < MaxIntr
  /\ intr' = intr + 1 /\ errno' = EINTR
  /\ UNCHANGED <<spc, k, l, rcs, pty, rcvd, prog, state>>

(* The program reads what is in its pty input queue.                     *)
ProgRead ==
  /\ prog = "running" /\ pty # <<>>
  /\ rcvd' = rcvd \o pty /\ pty' = <<>>
  /\ UNCHANGED <<spc, k, l, rcs, errno, intr, prog, state>>

ProgExit ==
  /\ prog = "running"
  /\ prog' = "exited"
  /\ UNCHANGED <<spc, k, l, rcs, errno, intr, pty, rcvd, state>>

(* pdip_signal_handler(): SIGCHLD of the program sets the state ZOMBIE.   *)
(* A write() it interrupts returns EINTR or a partial count and is        *)
(* resumed: WriteIntr and WriteSome cover both.                           *)
SigChld ==
  /\ prog = "exited" /\ state = "ALIVE"
  /\ state' = "ZOMBIE"
  /\ UNCHANGED <<spc, k, l, rcs, errno, intr, pty, rcvd, prog>>

Sender == Send \/ WriteSome \/ WriteIntr

(* The system stops when the caller is done, or when it is blocked for   *)
(* ever in write() on the full queue of a program that has exited         *)
(* ("pdip_write may block if the PTY buffer is full", spec.md); the cfg   *)
(* does not check deadlock.                                               *)
Next == Sender \/ ProgRead \/ ProgExit \/ SigChld

(* The scheduler runs the caller's thread and the program; the kernel     *)
(* delivers SIGCHLD.  Nothing forces the program to exit.                 *)
Spec == Init /\ [][Next]_vars
          /\ WF_vars(Sender) /\ WF_vars(ProgRead) /\ WF_vars(SigChld)

-----------------------------------------------------------------------------

TypeOK ==
  /\ spc \in {"call", "write", "done"}
  /\ k \in 1..Len(Msgs) + 1
  /\ l \in 0..BufSize
  /\ rcs \in Seq({-1} \cup 0..BufSize)
  /\ errno \in {"none", EPERM, ENOSPC, EINTR}
  /\ intr \in 0..MaxIntr
  /\ Len(pty) <= PtyCap
  /\ prog \in {"running", "exited"} /\ state \in {"ALIVE", "ZOMBIE"}

(* The program receives the caller's lines in the order they were sent,    *)
(* each one a prefix of its line with nothing lost or repeated, and never *)
(* two lines interleaved: pdip_write() resumes write() at buf + l.        *)
InOrder ==
  /\ rcvd \o pty = FlattenSeq([m \in 1..Len(Msgs) |-> Delivered(m)])
  /\ \A m \in 1..Len(Msgs) : IsPrefix(Delivered(m), Line(m))

(* While the program keeps running, every pdip_send() returns: the loop   *)
(* resumes write() at buf + l with len - l after each partial transfer or *)
(* EINTR, and stops when l == len.  Once the program has exited a send may *)
(* block for ever on the full queue, which the spec allows.               *)
SendReturns == (spc = "write" /\ prog = "running") ~> (spc # "write" \/ prog = "exited")

=============================================================================
