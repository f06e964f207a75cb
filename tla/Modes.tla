-------------------------------- MODULE Modes --------------------------------
(***************************************************************************)
(* The operating modes and their severity (src/internal/risk).             *)
(***************************************************************************)
EXTENDS Naturals

Modes == {"RUNNING", "PAUSED", "SAFE", "FLATTEN", "HALTED"}

Rank(m) == CASE m = "PAUSED" -> 1 [] m = "SAFE" -> 2
             [] m = "FLATTEN" -> 3 [] m = "HALTED" -> 4 [] OTHER -> 0

\* The modes evaluation leaves alone.
Final == {"FLATTEN", "HALTED"}
=============================================================================
