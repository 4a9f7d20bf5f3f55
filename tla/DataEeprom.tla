------------------------------ MODULE DataEeprom ------------------------------
(***************************************************************************)
(* The data EEPROM of a PIC18F, as lpicp drives it. The chip is not part of*)
(* the repository: this module says what the code in src/ relies on when it*)
(* loads the address and data registers and starts a write, which the chip *)
(* ends in its own time.                                                   *)
(***************************************************************************)
EXTENDS Integers

CONSTANTS
  EepromBytes,  \* device.eeprom_bytes
  LowRange,     \* 256, the addresses of EEADR; the rest is in EEADRH
  Byte          \* the values of a byte

ASSUME EepromAssumption ==
  /\ EepromBytes \in Nat
  /\ LowRange \in Nat \ {0}
  /\ EepromBytes % LowRange = 0

VARIABLES
  eeprom,  \* the memory
  eeadr,   \* EEADR and EEADRH
  eedata,  \* EEDATA
  wren,    \* EECON1.WREN: writes are enabled
  wr       \* EECON1.WR: a write is in progress

registers == <<eeadr, eedata, wren>>
eepromChip == <<eeprom, registers, wr>>

Addr == 0 .. EepromBytes - 1

\* A register the chip is told to load. While a write is in progress the chip
\* does not promise to take it.
Loaded(old, new) == IF wr THEN {old, new} ELSE {new}

\* EEADR is loaded first, then EEADRH: what they hold after the low byte, after
\* both, and when one of the transfers has failed.
LowLoaded(old, new) == (old - (old % LowRange)) + (new % LowRange)
AddressSet(a) == Loaded(eeadr, a) \cup Loaded(LowLoaded(eeadr, a), a)
AddressPartlySet(a) == {eeadr, LowLoaded(eeadr, a), a}

\* The chip ends the write in progress.
WriteEnds ==
  /\ wr
  /\ eeprom' = [eeprom EXCEPT ![eeadr] = eedata]
  /\ wr' = FALSE
  /\ UNCHANGED registers

\* An idle chip, writes disabled, the memory whatever it holds.
ChipInit ==
  /\ eeprom \in [Addr -> Byte]
  /\ eeadr = 0 /\ eedata \in Byte
  /\ wren = FALSE /\ wr = FALSE
===============================================================================
