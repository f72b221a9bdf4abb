----------------------------- MODULE MCShutdown -----------------------------
(***************************************************************************)
(* A small instance of Shutdown.                                           *)
(***************************************************************************)
EXTENDS Shutdown

MCMaxQueued == [s \in Streams |-> IF s = "video" THEN 2 ELSE 1]
=============================================================================
