------------------------------ MODULE MCReprogram ------------------------------
(* Two pages and write buffers of two words, the last ones cut short.      *)
EXTENDS Reprogram
CONSTANTS b1
MCBits == {b1}
===============================================================================
