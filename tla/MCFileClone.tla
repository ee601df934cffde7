------------------------------ MODULE MCFileClone ------------------------------
(***************************************************************************)
(* An instance of FileClone for TLC.                                       *)
(***************************************************************************)
EXTENDS FileClone

CONSTANTS a1, a2, h1, h2
================================================================================
