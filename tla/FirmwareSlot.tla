---------------------------- MODULE FirmwareSlot ----------------------------
(***************************************************************************)
(* What Update::run promises of the device, without files, requests or     *)
(* statements: a slot that holds one binary, which a process runs. Only a  *)
(* process that runs the binary of the slot receives others and may put    *)
(* one in its place; meanwhile nothing can be started, and a process that  *)
(* stops leaves it so; once it is done it does nothing but start what it   *)
(* put there.                                                              *)
(***************************************************************************)
CONSTANTS Binary, None

VARIABLES
  firmware,   \* the binary to run, now or once someone put it back
  startable,  \* it is where it is started from
  running,    \* the binary the process runs, None if there is no process
  received    \* the first binary, and what answers held since

vars == <<firmware, startable, running, received>>

Init ==
  /\ firmware \in Binary
  /\ startable = TRUE
  /\ running = firmware
  /\ received = {firmware}

UpToDate == startable /\ running = firmware

Receive ==
  /\ UpToDate
  /\ \E b \in Binary : received' = received \cup {b}
  /\ UNCHANGED <<firmware, startable, running>>

BeginReplacing ==
  /\ UpToDate
  /\ startable' = FALSE
  /\ UNCHANGED <<firmware, running, received>>

EndReplacing ==
  /\ ~startable /\ running = firmware
  /\ firmware' \in received
  /\ startable' = TRUE
  /\ UNCHANGED <<running, received>>

Start ==
  /\ startable
  /\ running' = firmware
  /\ UNCHANGED <<firmware, startable, received>>

Stop ==
  /\ running' = None
  /\ UNCHANGED <<firmware, startable, received>>

Next == Receive \/ BeginReplacing \/ EndReplacing \/ Start \/ Stop

Spec == Init /\ [][Next]_vars
=============================================================================
