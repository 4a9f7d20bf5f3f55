---------------------------- MODULE MCProgramRead ----------------------------
(* Four bytes of program memory, read in whole, in part and past its end.   *)
(* Three bytes of configuration and four of EEPROM, each told apart from its*)
(* neighbours.                                                              *)
EXTENDS ImageRead
MCByte == {0, 1, 2}
MCSizes == 0 .. 5
MCInit ==
  /\ eedata = 0
  /\ configMemory = [i \in Config!ConfigIdx |-> i % 3]
  /\ eeprom = [a \in Eeprom!Addr |-> (a + 1) % 3]
  /\ ImageInit
MCSpec == MCInit /\ [][ImageNext]_imageVars
===============================================================================
