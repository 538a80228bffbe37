--------------------------- MODULE MCGracefulThread ---------------------------
(* Three descriptor numbers, reused across four accepted clients.         *)
EXTENDS GracefulThread

MCFds == 0..2
MCMaxOpen == 4
=============================================================================
