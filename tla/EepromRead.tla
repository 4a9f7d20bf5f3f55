------------------------------ MODULE EepromRead ------------------------------
(***************************************************************************)
(* Reading the data EEPROM into an image:                                  *)
(* lpp_device_18f2xx_4xx_device_eeprom_to_image sets the address of a byte,*)
(* has the chip fetch it into EEDATA, and shifts it out through TABLAT.    *)
(* Unlike the write, the loop ends with the first transfer that fails.     *)
(***************************************************************************)
EXTENDS DataEeprom

CONSTANT Garbage  \* the byte a failed transfer leaves in the image

VARIABLES
  image,    \* image->eeprom
  pc,       \* the next step; "done" returned 1, "error" returned 0
  byteIdx   \* eeprom_byte_idx

vars == <<eepromChip, image, pc, byteIdx>>

\* The address of a byte, low byte first; and a slip: EEADRH always 0.
AddressLow(i) == i % LowRange
AddressOf(i) == i

\* What RD leaves in EEDATA, and a slip: RD is not set.
FetchedNothing == {eedata}
Fetched == Loaded(eedata, eeprom[eeadr])

Init ==
  /\ ChipInit
  /\ image \in [Addr -> Byte]
  /\ pc = "enter" /\ byteIdx = 0

\* EEPGD and CFGS cleared.
EnterEeprom ==
  /\ pc = "enter"
  /\ pc' \in {"byte", "error"}
  /\ UNCHANGED <<eepromChip, image, byteIdx>>

SetAddress ==
  /\ pc = "byte" /\ byteIdx < EepromBytes
  /\ \/ eeadr' \in AddressSet(AddressOf(byteIdx)) /\ pc' = "read"
     \/ eeadr' \in AddressPartlySet(AddressOf(byteIdx)) /\ pc' = "error"
  /\ UNCHANGED <<eeprom, eedata, wren, wr, image, byteIdx>>

\* RD, EEDATA to W, W to TABLAT, and the byte shifted out. A shift that fails
\* stores what is in the transfer's word.
ReadByte ==
  /\ pc = "read"
  /\ \/ /\ eedata' \in Fetched
        /\ image' = [image EXCEPT ![byteIdx] = eedata']
        /\ byteIdx' = byteIdx + 1
        /\ pc' = "byte"
     \/ /\ eedata' \in {eedata} \cup Fetched
        /\ image' \in {image, [image EXCEPT ![byteIdx] = Garbage]}
        /\ pc' = "error"
        /\ UNCHANGED byteIdx
  /\ UNCHANGED <<eeprom, eeadr, wren, wr>>

Return ==
  /\ pc = "byte" /\ byteIdx >= EepromBytes
  /\ pc' = "done"
  /\ UNCHANGED <<eepromChip, image, byteIdx>>

Next == EnterEeprom \/ SetAddress \/ ReadByte \/ Return
===============================================================================
