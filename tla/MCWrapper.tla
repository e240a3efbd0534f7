----------------------------- MODULE MCWrapper -----------------------------
(* Finite instances of Wrapper. *)
EXTENDS Wrapper

CONSTANTS main, timer

MainAndTimer == {main, timer}
OnlyMain == {main}

AllChanging ==
  {"sequencer_activate", "sequencer_init", "sequencer_write",
   "sequencer_softtrigger", "sequencer_hardtrigger", "speedcontrol_activate",
   "speedcontrol_init", "speedcontrol_write", "set_stdenvironment", "clear_error"}

\* All are one read; they differ in the error block only.
SomeGetting == {"sequencer_getstatus"}

\* One or two elements, for lists of three.
OneOrTwo == {<<"ccw">>, <<"cw", "ccw">>}

\* The lists are full: a sequence first cuts them to one element, then extends them.
FoundFull == {Capacity}

\* The mode in which a drive is found; both activations are called in it.
FoundMode == {DRIVEMODE_SPEEDCONTROL}
NoFaults == {}
AllFaults == {"refused", "serial", "command", "torque"}
=============================================================================
