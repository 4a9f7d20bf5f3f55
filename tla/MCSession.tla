------------------------------ MODULE MCSession ------------------------------
(* Every command line and file there is; a device that lpicp knows, one of  *)
(* the wrong sub type, of the wrong group, and one that a swap of the bytes *)
(* of the id would make a known one. A log of two records, three transfers. *)
EXTENDS Session
MCDevid1s == {4, 36}
MCDevid2s == {4, 32}
===============================================================================
