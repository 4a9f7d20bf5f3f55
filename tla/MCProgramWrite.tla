---------------------------- MODULE MCProgramWrite ----------------------------
(* Two rows of two words, every image of every size, every old content.     *)
EXTENDS ProgramWrite
CONSTANTS b1
MCBits == {b1}
===============================================================================
