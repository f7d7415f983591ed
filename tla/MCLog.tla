------------------------------- MODULE MCLog --------------------------------
(***************************************************************************)
(* Two threads, four periods and three lines: a thread can sleep through  *)
(* a rotation and turn it back.  File names that come again after two      *)
(* periods, and names that do not.                                         *)
(***************************************************************************)
EXTENDS Log

MCRolls  == {2, 5}
=============================================================================
