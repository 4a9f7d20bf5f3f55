------------------------------- MODULE BulkErase -------------------------------
(***************************************************************************)
(* Erasing the whole code memory with one command:                         *)
(* lpp_device_18f2xx_4xx_bulk_erase, a write to a control register, a NOP  *)
(* and a command-only transfer during which the chip erases. The other     *)
(* group's function writes two registers and is otherwise the same.        *)
(*                                                                         *)
(* The code sets no mode before it writes the register, so the module takes*)
(* it that the chip needs none.                                            *)
(***************************************************************************)
EXTENDS CodeMemory

VARIABLES pc  \* the next step; "done" returned 1, "failed" returned 0

\* The control register of the erase, in config space.
BulkEraseReg == 3932164  \* 0x3C0004

\* The result of the chain, and a slip: always success.
ResultIgnored == "done"
ResultOnFailure == "failed"

Init == DeviceInit /\ pc = "start"

\* write_16(0x3C0004, 0x0080) and the NOP.
WriteCommand ==
  /\ pc = "start"
  /\ \/ tblptr' = BulkEraseReg + 2 /\ armed' = FALSE /\ pc' \in {"erase", ResultOnFailure}
     \/ tblptr' \in PartlySet(tblptr, BulkEraseReg) /\ UNCHANGED armed /\ pc' = ResultOnFailure
  /\ UNCHANGED <<flash, latch, select, free, multiPanel>>

\* The command, during which the chip erases; the last transfer.
EraseAll ==
  /\ pc = "erase"
  /\ \/ flash' = [w \in WordAddr |-> Erased] /\ pc' \in {"done", ResultOnFailure}
     \/ UNCHANGED flash /\ pc' = ResultOnFailure
  /\ UNCHANGED <<latch, tblptr, armed, select, free, multiPanel>>

Next == WriteCommand \/ EraseAll
===============================================================================
