---------------------------- MODULE ModeMachine ----------------------------
(***************************************************************************)
(* What the risk daemon promises of the operating mode                     *)
(* (src/internal/risk/daemon.go:208): by itself it only escalates, and not *)
(* past SAFE; everything else is someone's command.                        *)
(***************************************************************************)
EXTENDS Modes

VARIABLES
    mode,
    forced    \* the mode was commanded and has not been evaluated since

Init == mode = "RUNNING" /\ forced = FALSE

\* An evaluation that demands a mode.
Evaluate(demanded) ==
    /\ mode' = IF mode \notin Final /\ Rank(demanded) > Rank(mode) THEN demanded ELSE mode
    /\ forced' = FALSE

SetMode(m) == mode' = m /\ forced' = TRUE

Next ==
    \/ \E demanded \in {"RUNNING", "PAUSED", "SAFE"} : Evaluate(demanded)
    \/ \E m \in Modes : SetMode(m)

Spec == Init /\ [][Next]_<<mode, forced>>

-----------------------------------------------------------------------------

\* The severity falls only by command.
OnlyCommandsRelax == [][Rank(mode') < Rank(mode) => forced']_<<mode, forced>>
=============================================================================
