----------------------------- MODULE PdipReaper -----------------------------
(***************************************************************************)
(* The life cycle of PDIP objects and the SIGCHLD reaper (src/pdip_lib.c): *)
(* pdip_new, pdip_exec, pdip_status, pdip_sig, pdip_delete (with           *)
(* pdip_terminate_child), pdip_configure and pdip_signal_handler.          *)
(*                                                                         *)
(* The application's threads call the API; any thread that does not mask  *)
(* SIGCHLD may be interrupted by the handler, which runs on that thread's  *)
(* stack until it returns.  PDIP_MASK_SIG() is per thread                  *)
(* (pthread_sigmask) and pdip_mtx is a non-recursive mutex.  The kernel    *)
(* keeps one pending SIGCHLD: a second exit while one is pending is        *)
(* merged into it.  Children are the processes forked by pdip_exec.        *)
(***************************************************************************)
EXTENDS Integers, FiniteSets

CONSTANTS
  Pcos,             \* PDIP object handles
  Threads,          \* the application's threads
  Callers,          \* the threads that call the PDIP API
  MaxChildren,      \* bound: fork()s in one behaviour
  ConfigureAnyTime, \* pdip_configure() may be called after children exist
  NoObj             \* a null ctxp

ASSUME Callers \subseteq Threads /\ NoObj \notin Pcos

Children == 1..MaxChildren
NoPid    == -1          \* ctxp->pid of an object without a child
NoSig    == 0           \* no SIGCHLD pending
NoOwner  == "none"      \* pdip_mtx is free

VARIABLES
  state,      \* ctxp->state, or "FREED" before pdip_new / after pdip_delete
  pid,        \* ctxp->pid
  status,     \* ctxp->status: the child whose exit word it holds, 0 if none
  linked,     \* the objects in pdip_ctx_list
  proc,       \* kernel: each child is none, running, exited (zombie), reaped
  owner,      \* history: the object whose pdip_exec forked each child
  pending,    \* kernel: si_pid of the pending SIGCHLD
  installed,  \* the SIGCHLD disposition reaches pdip_signal_handler
  mask,       \* SIGCHLD blocked in the thread (PDIP_MASK_SIG)
  lock,       \* holder of pdip_mtx
  pc,         \* where each thread is in its API call
  cur,        \* the object of the thread's current call
  loc,        \* state read by the thread under PDIP_MASK_SIG
  hpc,        \* where the handler running on the thread is
  hinfo,      \* info->si_pid of that handler
  hctx,       \* the object that handler found in the list
  lpid        \* pid returned by fork() in pdip_exec

vars == <<state, pid, status, linked, proc, owner, pending, installed, mask,
          lock, pc, cur, loc, hpc, hinfo, hctx, lpid>>

States == {"INIT", "ALIVE", "ZOMBIE", "DEAD"}

-----------------------------------------------------------------------------
(* Kernel                                                                 *)

(* Child c terminates: it becomes a zombie and SIGCHLD is generated; with *)
(* a SIGCHLD already pending the two are merged, and with the default     *)
(* disposition it is discarded.                                           *)
Exit(c) ==
  /\ proc' = [proc EXCEPT ![c] = "exited"]
  /\ pending' = IF installed /\ pending = NoSig THEN c ELSE pending

(* waitpid(p, ..., WNOHANG or 0): the values it may return.  p = -1 waits *)
(* for any child.                                                         *)
Waitable(p) == IF p = NoPid THEN Children ELSE {p}

WaitResults(p, blocking) ==
  LET zombies  == {c \in Waitable(p) : proc[c] = "exited"}
      unreaped == {c \in Waitable(p) : proc[c] \in {"running", "exited"}}
  IN  zombies \cup (IF unreaped = {} THEN {-1} ELSE {})
              \cup (IF unreaped # {} /\ zombies = {} /\ ~blocking
                    THEN {0} ELSE {})

Reap(rc) == proc' = IF rc > 0 THEN [proc EXCEPT ![rc] = "reaped"] ELSE proc

-----------------------------------------------------------------------------
(* Helpers                                                                *)

Goto(t, l) == pc' = [pc EXCEPT ![t] = l]

Return(t) == pc' = [pc EXCEPT ![t] = "idle"] /\ cur' = [cur EXCEPT ![t] = NoObj]

Running(t) == hpc[t] = "idle"

(* pdip_init_ctx() through pdip_free_resources().                         *)
InitCtx(p) ==
  /\ state' = [state EXCEPT ![p] = "INIT"]
  /\ pid' = [pid EXCEPT ![p] = NoPid]
  /\ status' = [status EXCEPT ![p] = 0]

(* Fault variants of pdip_update_dead_child(): the return code of         *)
(* waitpid() is stored as the status; a WNOHANG 0 counts as an exit; any  *)
(* reaped child counts as the object's.                                   *)
UpdateDeadChildRc(p, rc) ==
  IF rc = pid[p]
  THEN /\ state' = [state EXCEPT ![p] = "DEAD"]
       /\ pid' = [pid EXCEPT ![p] = NoPid]
       /\ status' = [status EXCEPT ![p] = rc]
  ELSE UNCHANGED <<state, pid, status>>

UpdateDeadChildOnZero(p, rc) ==
  IF rc = pid[p] \/ rc = 0
  THEN /\ state' = [state EXCEPT ![p] = "DEAD"]
       /\ pid' = [pid EXCEPT ![p] = NoPid]
       /\ status' = [status EXCEPT ![p] = IF rc > 0 THEN rc ELSE status[p]]
  ELSE UNCHANGED <<state, pid, status>>

(* pdip_update_dead_child(), when the waitpid() of wait/check_child      *)
(* returned the pid read from the object.                                 *)
UpdateDeadChild(p, rc) ==
  IF rc = pid[p]
  THEN /\ state' = [state EXCEPT ![p] = "DEAD"]
       /\ pid' = [pid EXCEPT ![p] = NoPid]
       /\ status' = [status EXCEPT ![p] = IF rc > 0 THEN rc ELSE status[p]]
  ELSE UNCHANGED <<state, pid, status>>

(* pdip_wait_child(): a blocking waitpid() on the object's pid, unless it *)
(* is DEAD.                                                               *)
WaitChild(p) ==
  IF state[p] = "DEAD" THEN UNCHANGED <<state, pid, status, proc>>
  ELSE \E rc \in WaitResults(pid[p], TRUE) :
         Reap(rc) /\ UpdateDeadChild(p, rc)

(* pdip_check_child(): the same with WNOHANG; EPERM on an INIT object.    *)
CheckChild(p) ==
  IF state[p] \in {"DEAD", "INIT"} THEN UNCHANGED <<state, pid, status, proc>>
  ELSE \E rc \in WaitResults(pid[p], FALSE) :
         Reap(rc) /\ UpdateDeadChild(p, rc)

(* waitpid() returns at once (a blocking one is not waiting).             *)
WaitReady(p) == state[p] = "DEAD" \/ WaitResults(pid[p], TRUE) # {}

(* pdip_kill_child(): kill(ctxp->pid) when pid > 0.  The child may die   *)
(* of it (SIGKILL always kills it).                                        *)
KillChild(p, sure) ==
  IF pid[p] > 0 /\ proc[pid[p]] = "running"
  THEN IF sure THEN Exit(pid[p])
       ELSE \/ Exit(pid[p])
            \/ UNCHANGED <<proc, pending>>
  ELSE UNCHANGED <<proc, pending>>

-----------------------------------------------------------------------------
(* The API, one action per step a thread takes under its own mask.  A     *)
(* call on an object in a state the call rejects (EPERM) returns without  *)
(* effect and is not shown.                                               *)

Call(t) == t \in Callers /\ Running(t) /\ pc[t] = "idle"

Step(t, l) == t \in Callers /\ Running(t) /\ pc[t] = l

Handler == <<pending, hpc, hinfo, hctx>>

(* pdip_new(): MASK, LOCK, insert at the head of the list.                *)
PdipNew(t, p) ==
  /\ Call(t)
  /\ state[p] = "FREED"
  /\ lock = NoOwner
  /\ InitCtx(p)
  /\ linked' = linked \cup {p}
  /\ UNCHANGED <<proc, owner, installed, mask, lock, pc, cur, loc, lpid>>
  /\ UNCHANGED Handler

(* pdip_exec() up to fork(): the state is read under MASK; a DEAD object  *)
(* is reinitialised by pdip_free_resources().                             *)
ExecStart(t, p) ==
  /\ Call(t)
  /\ p \in linked
  /\ state[p] \in {"INIT", "DEAD"}
  /\ \E c \in Children : proc[c] = "none"
  /\ IF state[p] = "DEAD" THEN InitCtx(p) ELSE UNCHANGED <<state, pid, status>>
  /\ Goto(t, "exec_fork")
  /\ cur' = [cur EXCEPT ![t] = p]
  /\ UNCHANGED <<linked, proc, owner, installed, mask, lock, loc, lpid>>
  /\ UNCHANGED Handler

(* fork(): SIGCHLD is not masked until the pid is recorded.               *)
ExecFork(t) ==
  /\ Step(t, "exec_fork")
  /\ LET c == CHOOSE c \in Children : proc[c] = "none" /\
                 \A d \in Children : proc[d] = "none" => c <= d
     IN /\ proc' = [proc EXCEPT ![c] = "running"]
        /\ owner' = [owner EXCEPT ![c] = cur[t]]
        /\ lpid' = [lpid EXCEPT ![t] = c]
  /\ Goto(t, "exec_setpid")
  /\ UNCHANGED <<state, pid, status, linked, installed, mask, lock, cur, loc>>
  /\ UNCHANGED Handler

(* fork() fails: the error path frees the resources and returns -1.       *)
ExecForkFails(t) ==
  /\ Step(t, "exec_fork")
  /\ InitCtx(cur[t])
  /\ Return(t)
  /\ UNCHANGED <<linked, proc, owner, installed, mask, lock, loc, lpid>>
  /\ UNCHANGED Handler

(* MASK; ctxp->pid = pid; UNMASK.                                         *)
ExecSetPid(t) ==
  /\ Step(t, "exec_setpid")
  /\ pid' = [pid EXCEPT ![cur[t]] = lpid[t]]
  /\ Goto(t, "exec_readstate")
  /\ UNCHANGED <<state, status, linked, proc, owner, installed, mask, lock,
                 cur, loc, lpid>>
  /\ UNCHANGED Handler

(* MASK; if (PDIP_STATE_INIT != ctxp->state) ...: the read.               *)
ExecReadState(t) ==
  /\ Step(t, "exec_readstate")
  /\ mask' = [mask EXCEPT ![t] = TRUE]
  /\ loc' = [loc EXCEPT ![t] = state[cur[t]]]
  /\ Goto(t, "exec_writestate")
  /\ UNCHANGED <<state, pid, status, linked, proc, owner, installed, lock,
                 cur, lpid>>
  /\ UNCHANGED Handler

(* Fault variant: the parent insists on INIT after fork(), as if the      *)
(* handler could not have run yet.                                        *)
ExecWriteStateStrict(t) ==
  /\ Step(t, "exec_writestate")
  /\ mask' = [mask EXCEPT ![t] = FALSE]
  /\ IF loc[t] = "INIT"
     THEN state' = [state EXCEPT ![cur[t]] = "ALIVE"] /\ Return(t)
     ELSE UNCHANGED <<state, cur>> /\ Goto(t, "abort")
  /\ UNCHANGED <<pid, status, linked, proc, owner, installed, lock, loc, lpid>>
  /\ UNCHANGED Handler

(* ... pdip_assert(ZOMBIE) else ctxp->state = ALIVE; UNMASK; return pid.  *)
ExecWriteState(t) ==
  /\ Step(t, "exec_writestate")
  /\ mask' = [mask EXCEPT ![t] = FALSE]
  /\ CASE loc[t] = "INIT" ->
            state' = [state EXCEPT ![cur[t]] = "ALIVE"] /\ Return(t)
       [] loc[t] = "ZOMBIE" -> UNCHANGED state /\ Return(t)
       [] OTHER -> UNCHANGED <<state, cur>> /\ Goto(t, "abort")
  /\ UNCHANGED <<pid, status, linked, proc, owner, installed, lock, loc, lpid>>
  /\ UNCHANGED Handler

(* pdip_status(ctx, &st, 0): pdip_check_child().                          *)
StatusNonBlocking(t, p) ==
  /\ Call(t)
  /\ p \in linked
  /\ CheckChild(p)
  /\ UNCHANGED <<linked, owner, pending, installed, mask, lock, pc, cur, loc,
                 lpid>>
  /\ UNCHANGED <<hpc, hinfo, hctx>>

(* pdip_status(ctx, &st, 1): pdip_wait_child(), blocked in waitpid().     *)
StatusBlocking(t, p) ==
  /\ Call(t)
  /\ p \in linked
  /\ Goto(t, "status_wait")
  /\ cur' = [cur EXCEPT ![t] = p]
  /\ UNCHANGED <<state, pid, status, linked, proc, owner, installed, mask,
                 lock, loc, lpid>>
  /\ UNCHANGED Handler

StatusWait(t) ==
  /\ Step(t, "status_wait")
  /\ WaitReady(cur[t])
  /\ WaitChild(cur[t])
  /\ Return(t)
  /\ UNCHANGED <<linked, owner, pending, installed, mask, lock, loc, lpid>>
  /\ UNCHANGED <<hpc, hinfo, hctx>>

(* pdip_sig() on an ALIVE object: pdip_kill_child().                      *)
PdipSig(t, p) ==
  /\ Call(t)
  /\ p \in linked
  /\ state[p] = "ALIVE"
  /\ KillChild(p, FALSE)
  /\ UNCHANGED <<state, pid, status, linked, owner, installed, mask, lock, pc,
                 cur, loc, lpid>>
  /\ UNCHANGED <<hpc, hinfo, hctx>>

(* pdip_delete(): MASK, LOCK, look for the object, UNLOCK, read its state *)
(* and status, UNMASK.                                                    *)
DeleteStart(t, p) ==
  /\ Call(t)
  /\ p \in linked
  /\ lock = NoOwner
  /\ loc' = [loc EXCEPT ![t] = state[p]]
  /\ cur' = [cur EXCEPT ![t] = p]
  /\ Goto(t, CASE state[p] = "ALIVE"  -> "del_sigterm"
               [] state[p] = "ZOMBIE" -> "del_wait"
               [] OTHER               -> "del_unlink")
  /\ UNCHANGED <<state, pid, status, linked, proc, owner, installed, mask,
                 lock, lpid>>
  /\ UNCHANGED Handler

(* pdip_terminate_child(): SIGTERM ...                                    *)
DelSigterm(t) ==
  /\ Step(t, "del_sigterm")
  /\ KillChild(cur[t], FALSE)
  /\ Goto(t, "del_check1")
  /\ UNCHANGED <<state, pid, status, linked, owner, installed, mask, lock,
                 cur, loc, lpid>>
  /\ UNCHANGED <<hpc, hinfo, hctx>>

(* ... pdip_check_child(), and if the child is not dead, nanosleep(25 ms) *)
(* and pdip_check_child() again, then SIGKILL and pdip_wait_child().      *)
DelCheck(t, l, next) ==
  /\ Step(t, l)
  /\ CheckChild(cur[t])
  /\ Goto(t, IF state'[cur[t]] = "DEAD" THEN "del_unlink" ELSE next)
  /\ UNCHANGED <<linked, owner, pending, installed, mask, lock, cur, loc,
                 lpid>>
  /\ UNCHANGED <<hpc, hinfo, hctx>>

(* Fault variant: the escalation sends SIGTERM again instead of SIGKILL.  *)
DelSigkillSoft(t) ==
  /\ Step(t, "del_sigkill")
  /\ KillChild(cur[t], FALSE)
  /\ Goto(t, "del_wait")
  /\ UNCHANGED <<state, pid, status, linked, owner, installed, mask, lock,
                 cur, loc, lpid>>
  /\ UNCHANGED <<hpc, hinfo, hctx>>

DelSigkill(t) ==
  /\ Step(t, "del_sigkill")
  /\ KillChild(cur[t], TRUE)
  /\ Goto(t, "del_wait")
  /\ UNCHANGED <<state, pid, status, linked, owner, installed, mask, lock,
                 cur, loc, lpid>>
  /\ UNCHANGED <<hpc, hinfo, hctx>>

(* pdip_wait_child(): after SIGKILL its result is ignored; on a ZOMBIE    *)
(* object a failure makes pdip_delete() return -1 and keep the object.    *)
DelWait(t) ==
  /\ Step(t, "del_wait")
  /\ WaitReady(cur[t])
  /\ WaitChild(cur[t])
  /\ IF loc[t] = "ZOMBIE" /\ state'[cur[t]] # "DEAD"
     THEN Return(t)
     ELSE Goto(t, "del_unlink") /\ UNCHANGED cur
  /\ UNCHANGED <<linked, owner, pending, installed, mask, lock, loc, lpid>>
  /\ UNCHANGED <<hpc, hinfo, hctx>>

(* pdip_unlink_ctx() (MASK, LOCK, unlink, UNLOCK, UNMASK), then           *)
(* pdip_free_resources() and free().                                      *)
DelUnlink(t) ==
  /\ Step(t, "del_unlink")
  /\ lock = NoOwner
  /\ linked' = linked \ {cur[t]}
  /\ state' = [state EXCEPT ![cur[t]] = "FREED"]
  /\ pid' = [pid EXCEPT ![cur[t]] = NoPid]
  /\ status' = [status EXCEPT ![cur[t]] = 0]
  /\ Return(t)
  /\ UNCHANGED <<proc, owner, installed, mask, lock, loc, lpid>>
  /\ UNCHANGED Handler

(* pdip_configure(1, level): LOCK, then MASK ... UNMASK, UNLOCK, then     *)
(* sigaction(SIGCHLD, pdip_internal_sig_hdl).                              *)
ConfigureStart(t) ==
  /\ Call(t)
  /\ ConfigureAnyTime \/ \A c \in Children : proc[c] = "none"
  /\ lock = NoOwner
  /\ lock' = t
  /\ Goto(t, "cfg_mask")
  /\ UNCHANGED <<state, pid, status, linked, proc, owner, installed, mask,
                 cur, loc, lpid>>
  /\ UNCHANGED Handler

ConfigureEnd(t) ==
  /\ Step(t, "cfg_mask")
  /\ lock' = NoOwner
  /\ installed' = TRUE
  /\ Return(t)
  /\ UNCHANGED <<state, pid, status, linked, proc, owner, mask, loc, lpid>>
  /\ UNCHANGED Handler

-----------------------------------------------------------------------------
(* pdip_signal_handler(SIGCHLD, info), run by pdip_internal_sig_hdl on a  *)
(* thread that does not block SIGCHLD; sa_mask blocks SIGCHLD until it    *)
(* returns.                                                               *)

Deliver(t) ==
  /\ pending # NoSig
  /\ installed
  /\ ~mask[t]
  /\ hpc[t] = "idle"
  /\ hpc' = [hpc EXCEPT ![t] = "lock"]
  /\ hinfo' = [hinfo EXCEPT ![t] = pending]
  /\ pending' = NoSig
  /\ UNCHANGED <<state, pid, status, linked, proc, owner, installed, mask,
                 lock, pc, cur, loc, hctx, lpid>>

(* PDIP_LOCK(): a thread that already holds pdip_mtx waits forever.       *)
HandlerLock(t) ==
  /\ hpc[t] = "lock"
  /\ lock = NoOwner
  /\ lock' = t
  /\ hpc' = [hpc EXCEPT ![t] = "walk"]
  /\ UNCHANGED <<state, pid, status, linked, proc, owner, pending, installed,
                 mask, pc, cur, loc, hinfo, hctx, lpid>>

(* Walk the list for info->si_pid, then PDIP_UNLOCK(); no object: ERROR.  *)
HandlerWalk(t) ==
  /\ hpc[t] = "walk"
  /\ LET found == {p \in linked : pid[p] = hinfo[t]}
     IN  /\ hctx' = [hctx EXCEPT ![t] = IF found = {} THEN NoObj
                                       ELSE CHOOSE p \in found : TRUE]
         /\ hpc' = [hpc EXCEPT ![t] = IF found = {} THEN "idle" ELSE "check"]
  /\ lock' = NoOwner
  /\ UNCHANGED <<state, pid, status, linked, proc, owner, pending, installed,
                 mask, pc, cur, loc, hinfo, lpid>>

(* if (ALIVE != ctxp->state) pdip_assert(INIT == ctxp->state): abort().  *)
(* The object may have been freed meanwhile: its state is then any value. *)
HandlerCheck(t) ==
  /\ hpc[t] = "check"
  /\ \E v \in IF state[hctx[t]] = "FREED" THEN States ELSE {state[hctx[t]]} :
       hpc' = [hpc EXCEPT ![t] = IF v \in {"ALIVE", "INIT"} THEN "write"
                                                       ELSE "abort"]
  /\ UNCHANGED <<state, pid, status, linked, proc, owner, pending, installed,
                 mask, lock, pc, cur, loc, hinfo, hctx, lpid>>

(* ctxp->state = PDIP_STATE_ZOMBIE; return HANDLED.                       *)
HandlerWrite(t) ==
  /\ hpc[t] = "write"
  /\ state' = IF state[hctx[t]] = "FREED" THEN state
              ELSE [state EXCEPT ![hctx[t]] = "ZOMBIE"]
  /\ hpc' = [hpc EXCEPT ![t] = "idle"]
  /\ hctx' = [hctx EXCEPT ![t] = NoObj]
  /\ UNCHANGED <<pid, status, linked, proc, owner, pending, installed, mask,
                 lock, pc, cur, loc, hinfo, lpid>>

-----------------------------------------------------------------------------
(* The children                                                           *)

ChildExit(c) ==
  /\ proc[c] = "running"
  /\ Exit(c)
  /\ UNCHANGED <<state, pid, status, linked, owner, installed, mask, lock, pc,
                 cur, loc, hpc, hinfo, hctx, lpid>>

-----------------------------------------------------------------------------
Init ==
  /\ state = [p \in Pcos |-> "FREED"]
  /\ pid = [p \in Pcos |-> NoPid]
  /\ status = [p \in Pcos |-> 0]
  /\ linked = {}
  /\ proc = [c \in Children |-> "none"]
  /\ owner = [c \in Children |-> NoObj]
  /\ pending = NoSig
  /\ installed = FALSE
  /\ mask = [t \in Threads |-> FALSE]
  /\ lock = NoOwner
  /\ pc = [t \in Threads |-> "idle"]
  /\ cur = [t \in Threads |-> NoObj]
  /\ loc = [t \in Threads |-> "INIT"]
  /\ hpc = [t \in Threads |-> "idle"]
  /\ hinfo = [t \in Threads |-> NoSig]
  /\ hctx = [t \in Threads |-> NoObj]
  /\ lpid = [t \in Threads |-> NoPid]

(* The steps of a thread's API calls.                                     *)
CallerStep(t) ==
  \/ \E p \in Pcos :
       \/ PdipNew(t, p)
       \/ ExecStart(t, p)
       \/ StatusNonBlocking(t, p)
       \/ StatusBlocking(t, p)
       \/ PdipSig(t, p)
       \/ DeleteStart(t, p)
  \/ ExecFork(t) \/ ExecForkFails(t) \/ ExecSetPid(t)
  \/ ExecReadState(t) \/ ExecWriteState(t)
  \/ StatusWait(t)
  \/ DelSigterm(t)
  \/ DelCheck(t, "del_check1", "del_check2")
  \/ DelCheck(t, "del_check2", "del_sigkill")
  \/ DelSigkill(t) \/ DelWait(t) \/ DelUnlink(t)
  \/ ConfigureStart(t) \/ ConfigureEnd(t)

HandlerStep(t) ==
  HandlerLock(t) \/ HandlerWalk(t) \/ HandlerCheck(t) \/ HandlerWrite(t)

Next ==
  \/ \E t \in Threads : CallerStep(t) \/ Deliver(t) \/ HandlerStep(t)
  \/ \E c \in Children : ChildExit(c)

(* Threads that can run are scheduled, a pending unblocked signal is      *)
(* delivered, a handler runs to its end; children need not ever exit.     *)
Fairness ==
  /\ \A t \in Threads : WF_vars(CallerStep(t)) /\ WF_vars(HandlerStep(t))
  /\ WF_vars(\E t \in Threads : Deliver(t))

Spec == Init /\ [][Next]_vars /\ Fairness

-----------------------------------------------------------------------------
(* Properties                                                             *)

TypeOK ==
  /\ state \in [Pcos -> States \cup {"FREED"}]
  /\ pid \in [Pcos -> Children \cup {NoPid}]
  /\ status \in [Pcos -> Children \cup {0}]
  /\ linked \subseteq Pcos
  /\ proc \in [Children -> {"none", "running", "exited", "reaped"}]
  /\ owner \in [Children -> Pcos \cup {NoObj}]
  /\ pending \in Children \cup {NoSig}
  /\ installed \in BOOLEAN
  /\ mask \in [Threads -> BOOLEAN]
  /\ lock \in Threads \cup {NoOwner}
  /\ cur \in [Threads -> Pcos \cup {NoObj}]
  /\ hpc \in [Threads -> {"idle", "lock", "walk", "check", "write", "abort"}]
  /\ hctx \in [Threads -> Pcos \cup {NoObj}]

(* No pdip_assert() aborts the process: the handler only finds ALIVE or   *)
(* INIT objects and pdip_exec() only finds INIT or ZOMBIE after fork().   *)
NoAssertFailure ==
  \A t \in Threads : pc[t] # "abort" /\ hpc[t] # "abort"

(* A DEAD object has no pid and leaves no child of its own unreaped: the  *)
(* status, delete and terminate paths only mark it DEAD after waitpid()   *)
(* returned its child.                                                    *)
DeadMeansReaped ==
  \A p \in Pcos :
    state[p] = "DEAD" =>
      /\ pid[p] = NoPid
      /\ \A c \in Children : owner[c] = p => proc[c] = "reaped"

(* Every pdip_delete() returns, through the SIGTERM, 25 ms, SIGKILL        *)
(* escalation of pdip_terminate_child() and the waitpid() that follows.   *)
DeleteReturns ==
  \A t \in Callers :
    pc[t] \in {"del_sigterm", "del_check1", "del_check2", "del_sigkill",
               "del_wait", "del_unlink"} ~> pc[t] = "idle"

(* The reaper does not lose an exit: an ALIVE object whose child has      *)
(* exited still has its SIGCHLD pending or in a running handler, so the   *)
(* object will move to ZOMBIE (the reaper's contract).                    *)
ExitNotified ==
  \A p \in linked :
    (installed /\ state[p] = "ALIVE" /\ pid[p] > 0 /\ proc[pid[p]] = "exited")
      => \/ pending = pid[p]
         \/ \E t \in Threads : hpc[t] # "idle" /\ hinfo[t] = pid[p]

(* An ALIVE or ZOMBIE object's child has not been reaped by anyone else,  *)
(* so pdip_status() and pdip_delete() can still reap it.                  *)
OwnChildNotStolen ==
  \A p \in linked :
    (state[p] \in {"ALIVE", "ZOMBIE"} /\ pid[p] > 0) => proc[pid[p]] # "reaped"

(* The handler never waits for pdip_mtx held by the thread it interrupted *)
(* (signals are masked before the mutex is taken).                        *)
NoSelfDeadlock ==
  \A t \in Threads : ~(hpc[t] = "lock" /\ lock = t)

(* An object's state only moves along the PCO state machine: INIT to      *)
(* ALIVE or ZOMBIE, ALIVE to ZOMBIE or DEAD, ZOMBIE to DEAD, DEAD to INIT *)
(* (pdip_exec), and any state to freed.                                   *)
Allowed ==
  {<<"INIT", "ALIVE">>, <<"INIT", "ZOMBIE">>, <<"ALIVE", "ZOMBIE">>,
   <<"ALIVE", "DEAD">>, <<"ZOMBIE", "DEAD">>, <<"DEAD", "INIT">>,
   <<"FREED", "INIT">>} \cup {<<s, "FREED">> : s \in States}

TransitionsAllowed ==
  [][\A p \in Pcos : state'[p] # state[p] => <<state[p], state'[p]>> \in Allowed]_vars

=============================================================================
