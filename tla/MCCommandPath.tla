---------------------------- MODULE MCCommandPath ----------------------------
(***************************************************************************)
(* TLC instance of CommandPath: one run over several deployments.          *)
(***************************************************************************)
EXTENDS CommandPath, TLC

CONSTANTS o1, o2, h1

AllCommands == (Order \X Kind) \ {<<o2, "cancel">>, <<o2, "snapshot">>}

Base == [mode |-> "SIMULATION_CALIBRATION", submitFuse |-> 2, cancelFuse |-> 2,
         cmds |-> {<<o1, "submit">>}, probe |-> {}, sessions |-> 2, expire |-> {},
         crash |-> TRUE, lapse |-> TRUE]

\* The OMS submits, with every fault.
Submits == [Base EXCEPT !.expire = {<<o1, "submit">>}]

\* The OMS submits and cancels.
Cancels == [Base EXCEPT !.cmds = {<<o1, "submit">>, <<o1, "cancel">>}, !.sessions = 1,
                        !.crash = FALSE, !.lapse = FALSE]

\* The probe submits, the OMS takes the order over and cancels it.
Probe == [Cancels EXCEPT !.probe = {o1}, !.crash = TRUE, !.lapse = FALSE]

\* The live canary: two submits and a cancel, quota 1.
Canary == [Base EXCEPT !.mode = "LIVE_CANARY", !.probe = {o1, o2}, !.submitFuse = 1,
                       !.cmds = {<<o1, "submit">>, <<o1, "cancel">>, <<o2, "submit">>}]

\* The shadow template, which also serves Galaxy.
Shadow == [Canary EXCEPT !.mode = "SHADOW",
                         !.cmds = {<<o1, "submit">>, <<o1, "snapshot">>},
                         !.expire = {<<o1, "submit">>}]

Scenarios == {Submits, Cancels, Probe, Canary, Shadow}
=============================================================================
