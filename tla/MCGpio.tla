------------------------------- MODULE MCGpio -------------------------------
(***************************************************************************)
(* A small instance of Gpio: the main thread and a polling one, and a hook *)
(* whose entry does not handle reentry, whose view may panic, and whose    *)
(* halt may return; with the default one in between, they mix.             *)
(***************************************************************************)
EXTENDS Gpio

MCHooks ==
  {[DefaultHook EXCEPT !.entry = "custom", !.view = "custom", !.halt = "custom"]}
=============================================================================
