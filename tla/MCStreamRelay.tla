----------------------------- MODULE MCStreamRelay -----------------------------
(***************************************************************************)
(* Instance of StreamRelay: the web process, which may be restarted, and   *)
(* the pipeline worker process.                                            *)
(***************************************************************************)
EXTENDS StreamRelay

MCProcs == {"web", "pipe"}
MCStarts == [web |-> 2, pipe |-> 1]
=============================================================================
