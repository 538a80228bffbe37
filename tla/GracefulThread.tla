--------------------------- MODULE GracefulThread ---------------------------
(***************************************************************************)
(* rsysd_graceful_thd() and rsysd_graceful_close() (src/rsys/rsystemd.c): *)
(* the main loop adds a client socket to rsysd_graceful_fdset under        *)
(* rsysd_graceful_lock and signals rsysd_graceful_cond; the graceful       *)
(* thread waits while rsysd_graceful_fdmax < 0, copies the set, select()s *)
(* on it for RSYSD_GRACEFUL_TIMEOUT seconds and closes the readable        *)
(* sockets, or every socket of its copy when select() fails (EINTR).      *)
(***************************************************************************)
EXTENDS Integers, FiniteSets

CONSTANTS
  Fds,        \* descriptor numbers 0..N-1
  MaxOpen,    \* bound: client sockets accepted by the main loop
  Spurious,   \* pthread_cond_wait() may return without a signal (POSIX)
  Eintr,      \* a signal may interrupt the thread's select()
  NoFd

VARIABLES
  sock,     \* per descriptor: free, main (client of the main loop), graceful
  peer,     \* open, or gone (the client closed or wrote: readable)
  gset,     \* rsysd_graceful_fdset
  gmax,     \* rsysd_graceful_fdmax
  owner,    \* holder of rsysd_graceful_lock: none, main, thd
  tpc,      \* the graceful thread: top, check, wait, relock, snap, select, close, abort
  nfds,     \* its copy of fdmax + 1
  sel,      \* its copy of the set for select()
  orig,     \* its copy of the set to close on error
  toclose,  \* descriptors left to close in the current round
  mfd,      \* descriptor the main loop is handing over, or NoFd
  opened    \* sockets accepted so far

vars == <<sock, peer, gset, gmax, owner, tpc, nfds, sel, orig, toclose, mfd, opened>>
tvars == <<nfds, sel, orig, toclose>>

MaxOf(S) == CHOOSE x \in S : \A y \in S : y <= x
MinOf(S) == CHOOSE x \in S : \A y \in S : x <= y

-----------------------------------------------------------------------------
(* Fault variant: fdmax takes the count nfds instead of the highest fd.   *)
AddSetCount(fd) ==
  /\ gset' = gset \cup {fd}
  /\ gmax' = IF fd >= gmax THEN fd + 1 ELSE gmax

(* rsysd_add_set()                                                        *)
AddSet(fd) ==
  /\ gset' = gset \cup {fd}
  /\ gmax' = IF fd > gmax THEN fd ELSE gmax

(* Fault variant: the bit is never cleared (FD_CLR forgotten).           *)
RemoveSetNoClear(fd) ==
  /\ gset' = gset
  /\ LET below == {i \in gset : i < fd}
     IN gmax' = IF gmax = fd /\ below # {} THEN MaxOf(below) ELSE gmax

(* rsysd_remove_set(): fdmax moves down to the highest remaining member,  *)
(* and stays where it is when no member is left below it.                 *)
RemoveSet(fd) ==
  /\ gset' = gset \ {fd}
  /\ LET below == {i \in gset : i < fd}
     IN gmax' = IF gmax = fd /\ below # {} THEN MaxOf(below) ELSE gmax

-----------------------------------------------------------------------------
(* The main loop: accept() returns the lowest free descriptor.            *)
Accept ==
  /\ opened < MaxOpen
  /\ \E fd \in Fds : sock[fd] = "free"
  /\ LET fd == MinOf({i \in Fds : sock[i] = "free"}) IN
     /\ sock' = [sock EXCEPT ![fd] = "main"]
     /\ peer' = [peer EXCEPT ![fd] = "open"]
  /\ opened' = opened + 1
  /\ UNCHANGED <<gset, gmax, owner, tpc, tvars, mfd>>

(* rsysd_graceful_close(sd): RSYSD_GRACEFUL_LOCK() ...                    *)
CloseLock(fd) ==
  /\ mfd = NoFd /\ sock[fd] = "main" /\ owner = "none"
  /\ owner' = "main" /\ mfd' = fd
  /\ UNCHANGED <<sock, peer, gset, gmax, tpc, tvars, opened>>

(* ... rsysd_add_set(), pthread_cond_signal(), RSYSD_GRACEFUL_UNLOCK().   *)
(* The signal wakes the thread only if it is waiting.                     *)
CloseAdd ==
  /\ mfd # NoFd
  /\ AddSet(mfd)
  /\ sock' = [sock EXCEPT ![mfd] = "graceful"]
  /\ tpc' = IF tpc = "wait" THEN "relock" ELSE tpc
  /\ owner' = "none" /\ mfd' = NoFd
  /\ UNCHANGED <<peer, tvars, opened>>

(* The client closes its end, or writes to it.                            *)
PeerGoes(fd) ==
  /\ sock[fd] # "free" /\ peer[fd] = "open"
  /\ peer' = [peer EXCEPT ![fd] = "gone"]
  /\ UNCHANGED <<sock, gset, gmax, owner, tpc, tvars, mfd, opened>>

-----------------------------------------------------------------------------
(* The graceful thread.                                                   *)

Lock ==
  /\ tpc = "top" /\ owner = "none"
  /\ owner' = "thd" /\ tpc' = "check"
  /\ UNCHANGED <<sock, peer, gset, gmax, tvars, mfd, opened>>

(* if (fdmax < 0) pthread_cond_wait(): the lock is released while waiting *)
Check ==
  /\ tpc = "check"
  /\ \/ /\ gmax < 0
        /\ tpc' = "wait" /\ owner' = "none"
     \/ /\ gmax >= 0
        /\ tpc' = "snap" /\ UNCHANGED owner
  /\ UNCHANGED <<sock, peer, gset, gmax, tvars, mfd, opened>>

SpuriousWakeup ==
  /\ Spurious /\ tpc = "wait"
  /\ tpc' = "relock"
  /\ UNCHANGED <<sock, peer, gset, gmax, owner, tvars, mfd, opened>>

(* pthread_cond_wait() takes the lock back before returning.              *)
Relock ==
  /\ tpc = "relock" /\ owner = "none"
  /\ owner' = "thd" /\ tpc' = "snap"
  /\ UNCHANGED <<sock, peer, gset, gmax, tvars, mfd, opened>>

(* Still no descriptor: assert(0).  Otherwise copy nfds and the set, and  *)
(* release the lock.                                                      *)
Snap ==
  /\ tpc = "snap"
  /\ \/ /\ gmax < 0
        /\ tpc' = "abort"
        /\ UNCHANGED <<owner, tvars>>
     \/ /\ gmax >= 0
        /\ nfds' = gmax + 1 /\ sel' = gset /\ orig' = gset
        /\ owner' = "none" /\ tpc' = "select"
        /\ UNCHANGED toclose
  /\ UNCHANGED <<sock, peer, gset, gmax, mfd, opened>>

(* select(nfds, &fdset, ..., 5 s): readable descriptors are closed; on a  *)
(* timeout (rc = 0) the loop "for (i < nfds && rc)" closes nothing; on    *)
(* -1 every descriptor of the copy is closed.                             *)
Select ==
  /\ tpc = "select"
  /\ LET ready == {fd \in sel : fd < nfds /\ peer[fd] = "gone"}
         err == {fd \in orig : fd < nfds}
     IN \/ /\ ready # {}
           /\ toclose' = ready /\ tpc' = "close"
        \/ /\ ready = {}
           /\ tpc' = "top" /\ UNCHANGED toclose
        \/ /\ Eintr
           /\ toclose' = err
           /\ tpc' = IF err = {} THEN "top" ELSE "close"
  /\ UNCHANGED <<sock, peer, gset, gmax, owner, nfds, sel, orig, mfd, opened>>

(* One descriptor, lowest first, under the lock: shutdown(), close(),     *)
(* rsysd_remove_set().                                                    *)
CloseOne ==
  /\ tpc = "close" /\ owner = "none"
  /\ LET fd == MinOf(toclose) IN
     /\ sock' = [sock EXCEPT ![fd] = "free"]
     /\ RemoveSet(fd)
     /\ toclose' = toclose \ {fd}
     /\ tpc' = IF toclose' = {} THEN "top" ELSE "close"
  /\ UNCHANGED <<peer, owner, nfds, sel, orig, mfd, opened>>

-----------------------------------------------------------------------------
Init ==
  /\ sock = [fd \in Fds |-> "free"]
  /\ peer = [fd \in Fds |-> "open"]
  /\ gset = {} /\ gmax = -1
  /\ owner = "none" /\ tpc = "top"
  /\ nfds = 0 /\ sel = {} /\ orig = {} /\ toclose = {}
  /\ mfd = NoFd /\ opened = 0

Thread == Lock \/ Check \/ SpuriousWakeup \/ Relock \/ Snap \/ Select \/ CloseOne

(* assert(0) ends the daemon: nothing moves any more.                     *)
Aborted == tpc = "abort" /\ UNCHANGED vars

Next ==
  \/ Thread
  \/ tpc # "abort" /\ (Accept \/ CloseAdd \/ \E fd \in Fds : CloseLock(fd) \/ PeerGoes(fd))
  \/ Aborted

(* The thread runs whenever it can; the main loop finishes a              *)
(* rsysd_graceful_close() it started.  Clients need not ever close.       *)
Spec == Init /\ [][Next]_vars /\ WF_vars(Thread) /\ WF_vars(CloseAdd)


-----------------------------------------------------------------------------
TypeOK ==
  /\ sock \in [Fds -> {"free", "main", "graceful"}]
  /\ peer \in [Fds -> {"open", "gone"}]
  /\ gset \subseteq Fds /\ gmax \in {-1} \cup Fds
  /\ owner \in {"none", "main", "thd"}
  /\ tpc \in {"top", "check", "wait", "relock", "snap", "select", "close", "abort"}
  /\ nfds \in 0..Cardinality(Fds) /\ sel \subseteq Fds /\ orig \subseteq Fds
  /\ toclose \subseteq Fds /\ mfd \in Fds \cup {NoFd} /\ opened \in 0..MaxOpen

(* The thread never reaches the assert(0) after pthread_cond_wait():      *)
(* when it wakes up there is a descriptor to watch.                        *)
NoAbort == tpc # "abort"

(* The thread implements the graceful-close promise: it closes only       *)
(* descriptors handed to it (never one the main loop owns again after a   *)
(* reuse of the number), and closes every handed one whose client went.   *)
GC == INSTANCE GracefulClose WITH
        fdstate <- [fd \in Fds |-> IF sock[fd] = "graceful" THEN "held" ELSE sock[fd]]

GracefulRefines == GC!Spec

(* Every handed socket is eventually closed, by the client or by the     *)
(* timeout, as the comment on orig_fdset says ("to close after the        *)
(* timeout") and the spec's "force-closes locally" on timeout.            *)
EveryHandedClosed ==
  \A fd \in Fds : sock[fd] = "graceful" ~> sock[fd] # "graceful"

=============================================================================
