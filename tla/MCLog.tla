------------------------------- MODULE MCLog -------------------------------
(***************************************************************************)
(* A small instance of Log: the main thread, which runs the library's own  *)
(* logging, and one that polls a pin; a hook of four functions, whose      *)
(* trace printers are the default ones.                                    *)
(***************************************************************************)
EXTENDS Log

MCHooks ==
  {[f \in {"view", "static", "setup", "flush", "trace"} |->
      IF f = "trace" THEN "default" ELSE "custom"]}
=============================================================================
