------------------------------ MODULE BootFile ------------------------------
(***************************************************************************)
(* What saving the setup promises about the bootorder file in flash,       *)
(* whatever the chip, the driver and the power supply do: the file is      *)
(* always one whole version or torn, it never goes back to an older        *)
(* version, a save that reports success has stored its version, and a save *)
(* that reports "write protected" has not touched the file.                *)
(***************************************************************************)
EXTENDS Integers

CONSTANT Versions   \* the versions of the file, 0 being the one in flash at first

Torn == -1

VARIABLES
    file,     \* the version stored, or Torn
    target,   \* the version the last save was asked to store
    result,   \* what became of that save
    touched   \* the save may have changed the file

fileVars == <<file, target, result, touched>>

FileInit ==
    /\ file = 0
    /\ target = 0
    /\ result = "idle"
    /\ touched = FALSE

Begin ==
    /\ result # "saving"
    /\ target' \in Versions
    /\ target' > target
    /\ result' = "saving"
    /\ touched' = FALSE
    /\ UNCHANGED file

\* The old version disappears.  A save that gave up on a slow chip may still
\* see this happen after it has returned.
Wipe ==
    /\ result \in {"saving", "failed"}
    /\ file' = Torn
    /\ touched' = TRUE
    /\ UNCHANGED <<target, result>>

\* The new version becomes whole, only ever out of the torn file.
Complete ==
    /\ result \in {"saving", "failed"}
    /\ file = Torn
    /\ file' = target
    /\ touched' = TRUE
    /\ UNCHANGED <<target, result>>

Touch ==
    /\ result = "saving"
    /\ touched' = TRUE
    /\ UNCHANGED <<file, target, result>>

Return ==
    /\ result = "saving"
    /\ \/ result' = "saved" /\ file = target
       \/ result' = "refused" /\ ~touched
       \/ result' = "failed" /\ touched
    /\ UNCHANGED <<file, target, touched>>

\* The next session starts.
Restart ==
    /\ result # "saving"
    /\ result' = "idle"
    /\ UNCHANGED <<file, target, touched>>

\* Power is lost: the step under way may or may not have had its effect.
Crash ==
    /\ result' = "idle"
    /\ \/ file' = file
       \/ result \in {"saving", "failed"} /\ file' = Torn
       \/ result \in {"saving", "failed"} /\ file = Torn /\ file' = target
    /\ UNCHANGED <<target, touched>>

FileNext ==
    Begin \/ Wipe \/ Complete \/ Touch \/ Return \/ Restart \/ Crash

FileSpec == FileInit /\ [][FileNext]_fileVars
=============================================================================
