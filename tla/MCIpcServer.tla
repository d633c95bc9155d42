---------------------------- MODULE MCIpcServer ----------------------------
(* Two clients of a small socket buffer.                                   *)
EXTENDS IpcServer

AllVerbs == Acked \cup {"subscribe", "status"}
=============================================================================
