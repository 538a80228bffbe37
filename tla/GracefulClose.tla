--------------------------- MODULE GracefulClose ---------------------------
(***************************************************************************)
(* What the graceful-close helper of rsystemd promises (spec, "Graceful-  *)
(* close thread"): the main loop hands over a client socket it is done    *)
(* with; the helper closes only sockets handed to it, each once, and a     *)
(* socket whose peer has closed (or sent something) is eventually closed.  *)
(***************************************************************************)
CONSTANTS Fds   \* descriptor numbers

VARIABLES
  fdstate,  \* free, main (a client socket of the main loop), held (handed over)
  peer      \* open, or gone: the peer closed or wrote, the socket is readable

avars == <<fdstate, peer>>

Init ==
  /\ fdstate = [fd \in Fds |-> "free"]
  /\ peer = [fd \in Fds |-> "open"]

Open(fd) ==
  /\ fdstate[fd] = "free"
  /\ fdstate' = [fdstate EXCEPT ![fd] = "main"]
  /\ peer' = [peer EXCEPT ![fd] = "open"]

Hand(fd) ==
  /\ fdstate[fd] = "main"
  /\ fdstate' = [fdstate EXCEPT ![fd] = "held"]
  /\ UNCHANGED peer

PeerGoes(fd) ==
  /\ fdstate[fd] # "free" /\ peer[fd] = "open"
  /\ peer' = [peer EXCEPT ![fd] = "gone"]
  /\ UNCHANGED fdstate

Close(fd) ==
  /\ fdstate[fd] = "held"
  /\ fdstate' = [fdstate EXCEPT ![fd] = "free"]
  /\ UNCHANGED peer

Next == \E fd \in Fds : Open(fd) \/ Hand(fd) \/ PeerGoes(fd) \/ Close(fd)

Spec ==
  /\ Init /\ [][Next]_avars
  /\ \A fd \in Fds : WF_avars(peer[fd] = "gone" /\ Close(fd))
=============================================================================
