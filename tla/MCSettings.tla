------------------------------ MODULE MCSettings ------------------------------
(* Enough edits to overwrite the file, replace it and edit it again, in any *)
(* order, with a reload between any two of their steps.                     *)
EXTENDS Settings
=============================================================================
