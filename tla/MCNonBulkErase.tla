---------------------------- MODULE MCNonBulkErase ----------------------------
(* Three pages of two words, the last one cut short.                        *)
EXTENDS NonBulkErase
CONSTANTS b1
MCBits == {b1}
===============================================================================
