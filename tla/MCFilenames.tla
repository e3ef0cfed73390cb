----------------------------- MODULE MCFilenames -----------------------------
(***************************************************************************)
(* One character of each kind, for TLC.                                    *)
(***************************************************************************)
EXTENDS Filenames

CONSTANTS a, percent, eacute

\* "<id>.kmz", shortened.
IdName == <<a, a, Dot, a>>
===============================================================================
