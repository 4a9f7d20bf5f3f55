----------------------------- MODULE MCEepromWrite -----------------------------
(* Four bytes in two halves of the address, two polls a byte. Of the images *)
(* those whose first two bytes differ; the EEPROM may hold anything.        *)
EXTENDS EepromVerify
MCByte == {0, 1}
MCInit == VerifyInit /\ image[0] = 0 /\ image[1] = 1
MCSpec == MCInit /\ [][VerifyNext]_verifyVars /\ WF_verifyVars(VerifyProgram)
===============================================================================
