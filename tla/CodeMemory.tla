------------------------------ MODULE CodeMemory ------------------------------
(***************************************************************************)
(* The code memory of a PIC18F, as the ICSP transfers of lpicp drive it.   *)
(* The chip is not part of the repository: this module says what the code  *)
(* in src/ relies on when it sets TBLPTR, fills the write buffer and sends *)
(* the programming pulse (command-only, delay, 16 data bits).              *)
(*                                                                         *)
(* A program word is the set of its 1 bits: erasing sets every bit, and    *)
(* programming can only clear bits, hence the intersection in Programmed.  *)
(***************************************************************************)
EXTENDS Integers

CONSTANTS
  Bits,            \* the bits of a program word
  CodeMemorySize,  \* device.code_memory_size, in bytes
  WordsPerWrite,   \* device.code_words_per_write: the words of the write buffer
  PageSize         \* device.code_erase_page_size, in bytes

ASSUME DeviceAssumption ==
  /\ CodeMemorySize \in Nat
  /\ CodeMemorySize % 2 = 0
  /\ WordsPerWrite \in Nat \ {0}
  /\ PageSize \in Nat \ {0}

VARIABLES
  flash,      \* the code memory, by word address
  latch,      \* the write buffer (holding registers), by lane
  tblptr,     \* the table pointer, a byte address
  armed,      \* the last table write was TBL_WR_PROG: a pulse will program
  eepgd,      \* EECON1.EEPGD: table writes reach flash, not the data EEPROM
  cfgs,       \* EECON1.CFGS: table writes reach configuration space
  free,       \* EECON1.FREE: a pulse erases a page instead of programming
  multiPanel  \* multi-panel writes: a pulse programs every panel at once

select == <<eepgd, cfgs>>
device == <<flash, latch, tblptr, armed, eepgd, cfgs, free, multiPanel>>

Word     == SUBSET Bits
Erased   == Bits
WordAddr == 0 .. CodeMemorySize \div 2 - 1
Lane     == 0 .. WordsPerWrite - 1
EmptyLatch == [l \in Lane |-> Erased]

\* The control register that switches multi-panel writes, in config space.
MultiPanelReg == 3932166  \* 0x3C0006

RowOf(w)  == w \div WordsPerWrite
LaneOf(a) == (a \div 2) % WordsPerWrite
PageOf(a) == a \div PageSize

\* TBLPTR is set by three byte stores, upper first (lpp_tblptr_set). When one
\* of them fails, TBLPTR holds a mix of the old and the new address.
HighPart(a, n)   == a - (a % n)
PartlySet(old, new) ==
  {old,
   HighPart(new, 65536) + (old % 65536),
   HighPart(new, 256) + (old % 256),
   new}

\* The words a programming pulse reaches, and what it leaves in the flash.
Selected(w) ==
  /\ armed /\ eepgd /\ ~cfgs
  /\ multiPanel \/ RowOf(w) = RowOf(tblptr \div 2)
Programmed ==
  [w \in WordAddr |->
    IF Selected(w) THEN flash[w] \cap latch[w % WordsPerWrite] ELSE flash[w]]
PageErased ==
  [w \in WordAddr |->
    IF armed /\ eepgd /\ ~cfgs /\ PageOf(2 * w) = PageOf(tblptr)
    THEN Erased ELSE flash[w]]

\* The pulse: command-only with PGC held high, the delay, 16 bits of data.
Pulse ==
  /\ flash' = IF free THEN PageErased ELSE Programmed
  /\ latch' = EmptyLatch
  /\ armed' = FALSE
  /\ free' = FALSE
  /\ UNCHANGED <<tblptr, eepgd, cfgs, multiPanel>>

DeviceTypeOK ==
  /\ flash \in [WordAddr -> Word]
  /\ latch \in [Lane -> Word]
  /\ tblptr \in Nat
  /\ armed \in BOOLEAN
  /\ eepgd \in BOOLEAN
  /\ cfgs \in BOOLEAN
  /\ free \in BOOLEAN
  /\ multiPanel \in BOOLEAN

\* The state in which the ICSP driver hands the chip over: registers reset,
\* the memory whatever it holds, the multi-panel setting unknown to lpicp.
DeviceInit ==
  /\ flash \in [WordAddr -> Word]
  /\ latch = EmptyLatch
  /\ tblptr = 0
  /\ armed = FALSE
  /\ eepgd = FALSE
  /\ cfgs = FALSE
  /\ free = FALSE
  /\ multiPanel \in BOOLEAN

\* The driver is opened again and the chip re-enters programming mode: its
\* registers are reset, its memory is not.
ChipReset ==
  /\ latch' = EmptyLatch
  /\ tblptr' = 0
  /\ armed' = FALSE
  /\ eepgd' = FALSE
  /\ cfgs' = FALSE
  /\ free' = FALSE
  /\ multiPanel' \in BOOLEAN
  /\ UNCHANGED flash
===============================================================================
