------------------------------ MODULE EepromWrite ------------------------------
(***************************************************************************)
(* Writing the data EEPROM:                                                *)
(* lpp_device_18f2xx_4xx_image_to_device_eeprom starts the write of one    *)
(* byte, polls EECON1.WR until the chip is done or a number of polls has   *)
(* gone by, and goes on to the next byte.                                  *)
(*                                                                         *)
(* The chip writes in its own time (Complete), or never. A step is a chain *)
(* of transfers joined by && in the code; one of them may fail, and the    *)
(* chip then has acted on a prefix of the chain. The chain is one step: the*)
(* completion of an earlier write in its middle has the same effect as one *)
(* before or after it, with the registers taken or not as in Loaded.       *)
(***************************************************************************)
EXTENDS DataEeprom

CONSTANT MaxTicks  \* 100, the polls for one byte

ASSUME TicksAssumption == MaxTicks \in Nat \ {0}

VARIABLES
  image,          \* image->eeprom
  pc,             \* the next step; "done" returned 1, "error" returned 0
  byteIdx,        \* eeprom_byte_idx
  ticks,          \* eeprom_wait_time_ticks
  writeComplete,  \* write_complete
  failed,         \* history: a transfer has failed
  before          \* history: the EEPROM before the call

picture   == <<image, before>>
polling   == <<ticks, writeComplete>>
vars == <<eepromChip, picture, pc, byteIdx, polling, failed>>

\* for (...; eeprom_byte_idx < eeprom_bytes; ...).
MoreBytes(i) == i < EepromBytes

\* write_complete = ((eecon1 & 0x2) == 0), and a slip: != for ==.
SeenCompleteInverted(wrBit) == wrBit
SeenComplete(wrBit) == ~wrBit

\* eeprom_wait_time_ticks--, and a slip that wraps around before it is 0.
TicksAfterWrapping(n) == IF n > 1 THEN n - 1 ELSE MaxTicks
TicksAfter(n) == n - 1

\* ret = (ret && (eeprom_wait_time_ticks == 0) ? 0 : 1), and a slip: the
\* timeout is not looked at.
ByteResultIgnored(ret, n) == TRUE
ByteResult(ret, n) == ~(ret /\ n = 0)

\* "disable writes if no error occured", and a slip that leaves them enabled.
DisabledForgotten(enabled) == {enabled}
Disabled(enabled) == Loaded(enabled, FALSE)

Init ==
  /\ ChipInit
  /\ image \in [Addr -> Byte]
  /\ pc = "enter"
  /\ byteIdx = 0 /\ ticks = 0 /\ writeComplete = FALSE
  /\ failed = FALSE
  /\ before = eeprom

\* EEPGD and CFGS cleared: table and EECON1 operations reach the EEPROM.
EnterEeprom ==
  /\ pc = "enter"
  /\ \/ pc' = "byte" /\ failed' = failed
     \/ pc' = "error" /\ failed' = TRUE
  /\ UNCHANGED <<eepromChip, picture, byteIdx, polling>>

\* EEADR and EEADRH. There is no else: when a transfer fails, ret keeps its 1
\* and the loop goes on to the next byte.
SetAddress ==
  /\ pc = "byte" /\ MoreBytes(byteIdx)
  /\ \/ /\ eeadr' \in AddressSet(byteIdx)
        /\ pc' = "write"
        /\ UNCHANGED <<byteIdx, failed>>
     \/ /\ eeadr' \in AddressPartlySet(byteIdx)
        /\ byteIdx' = byteIdx + 1
        /\ failed' = TRUE
        /\ UNCHANGED pc
  /\ UNCHANGED <<eeprom, eedata, wren, wr, picture, polling>>

\* EEDATA, WREN, the unlock sequence and WR. When a transfer fails ret is 0: the
\* polling loop is skipped and ByteResult makes it 1 again.
StartWrite ==
  /\ pc = "write"
  /\ ticks' = MaxTicks /\ writeComplete' = FALSE
  /\ \/ /\ eedata' \in Loaded(eedata, image[byteIdx])
        /\ wren' \in Loaded(wren, TRUE)
        /\ wr' = (wr \/ wren')
        /\ pc' = "poll"
        /\ UNCHANGED <<byteIdx, failed>>
     \/ /\ \/ UNCHANGED <<eedata, wren, wr>>
           \/ eedata' = image[byteIdx] /\ wren' \in {wren, TRUE} /\ wr' \in {wr, wr \/ wren'}
        /\ failed' = TRUE
        /\ byteIdx' = byteIdx + 1
        /\ pc' = IF ByteResult(FALSE, MaxTicks) THEN "byte" ELSE "error"
  /\ UNCHANGED <<eeprom, eeadr, picture>>

\* One round of the polling loop. The tick is counted whatever was read.
Poll ==
  /\ pc = "poll" /\ ~writeComplete /\ ticks > 0
  /\ ticks' = TicksAfter(ticks)
  /\ \/ /\ writeComplete' = SeenComplete(wr)
        /\ UNCHANGED <<pc, byteIdx, failed>>
     \/ /\ failed' = TRUE
        /\ byteIdx' = byteIdx + 1
        /\ pc' = IF ByteResult(FALSE, ticks') THEN "byte" ELSE "error"
        /\ UNCHANGED writeComplete
  /\ UNCHANGED <<eepromChip, picture>>

\* The polling loop has ended without a failed transfer.
EndPoll ==
  /\ pc = "poll" /\ (writeComplete \/ ticks = 0)
  /\ IF ByteResult(TRUE, ticks)
     THEN pc' = "byte" /\ byteIdx' = byteIdx + 1
     ELSE pc' = "error" /\ UNCHANGED byteIdx
  /\ UNCHANGED <<eepromChip, picture, polling, failed>>

\* WREN cleared; its result is the function's.
DisableWrites ==
  /\ pc = "byte" /\ ~MoreBytes(byteIdx)
  /\ \/ wren' \in Disabled(wren) /\ pc' = "done" /\ failed' = failed
     \/ wren' \in {wren, FALSE} /\ pc' = "error" /\ failed' = TRUE
  /\ UNCHANGED <<eeprom, eeadr, eedata, wr, picture, byteIdx, polling>>

\* The chip ends the write in progress.
Complete ==
  /\ WriteEnds
  /\ UNCHANGED <<picture, pc, byteIdx, polling, failed>>

Program ==
  \/ EnterEeprom \/ SetAddress \/ StartWrite
  \/ Poll \/ EndPoll \/ DisableWrites

Next == Program \/ Complete

\* The program takes its next step; the chip may be stuck.
Spec == Init /\ [][Next]_vars /\ WF_vars(Program)

-------------------------------------------------------------------------------

\* As long as no transfer fails, the bytes before the current one are the
\* image's, the bytes after it are the old ones, and the current one is either:
\* image_to_device_eeprom never moves on before the chip has finished a byte.
CleanPrefix ==
  ~failed => \A a \in Addr :
    /\ a < byteIdx => eeprom[a] = image[a]
    /\ a > byteIdx => eeprom[a] = before[a]
    /\ eeprom[a] \in {before[a], image[a]}

\* As long as no transfer fails, EEADR, EEDATA and WREN are left alone while the
\* chip is writing, even by a poll loop that gives up.
NoOverlap == [][~failed' /\ wr => UNCHANGED registers]_vars

\* A call in which no transfer fails and that returns 1 leaves the chip idle,
\* with the whole image written and writes disabled.
CleanSuccess ==
  pc = "done" /\ ~failed => ~wren /\ ~wr /\ eeprom = image

\* The call returns even when the chip never completes a write: the polling
\* loop is bounded and every failure moves on.
Returns == <>(pc \in {"done", "error"})

\* "disable writes if no error occured" (image_to_device_eeprom): the function
\* gets to disabling writes and returns 1 only when no transfer failed.
SuccessMeansNoError == pc = "done" => ~failed
===============================================================================
