---------------------------- MODULE MCController ----------------------------
(* Small instance of Controller for TLC.                                     *)
EXTENDS Controller, TLC

CONSTANTS touch, create, s1, s2

MCMsg == {touch, create}
MCNonDroppable == {create}
MCSize == {s1, s2}
=============================================================================
