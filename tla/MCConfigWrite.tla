---------------------------- MODULE MCConfigWrite ----------------------------
(* Three bytes of configuration, an image with room for four.               *)
EXTENDS ConfigWrite
MCByte == {0, 1, 2}
===============================================================================
