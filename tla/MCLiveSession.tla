---------------------------- MODULE MCLiveSession ----------------------------
(* The live session for TLC: the kinds of commands of each run. *)
EXTENDS LiveSession

AllKinds == AllOps
NoReopen == AllOps \ {"same", "reopen"}
CompileOnly == {"compile"}
=============================================================================
