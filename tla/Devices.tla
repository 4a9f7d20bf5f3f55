-------------------------------- MODULE Devices --------------------------------
(***************************************************************************)
(* The device a device id stands for: how lpp_read_16 puts the id together,*)
(* how lpp_device_init_by_family chooses the group by one byte of it, and  *)
(* how the group's open() chooses the sizes by the other.                  *)
(***************************************************************************)
EXTENDS Integers

\* The byte at the lower address, DEVID1, becomes the high byte of the id. And
\* a slip: it becomes the low one.
IdOfSwapped(devid1, devid2) == devid1 + 256 * devid2
IdOf(devid1, devid2) == devid2 + 256 * devid1

\* "none" or the group.
GroupOf(id) == IF id % 256 \in {4, 8} THEN "18f2xx_4xx" ELSE "none"

\* "by sub type (get 3 MSb)"
SubType(id) == id \div 8192

\* A context is zeroed before it is used.
NoSizes == [codeWordsPerWrite |-> 0, codeErasePageSize |-> 0, codeMemorySize |-> 0,
            configAddress |-> 0, configBytes |-> 0, eepromAddress |-> 0, eepromBytes |-> 0]

\* The sizes of a PIC18F452, and a slip: page and write buffer exchanged.
PIC18F452Exchanged ==
  [codeWordsPerWrite |-> 64, codeErasePageSize |-> 4, codeMemorySize |-> 32 * 1024,
   configAddress |-> 3145728, configBytes |-> 14,
   eepromAddress |-> 15728640, eepromBytes |-> 256]
PIC18F452 ==
  [codeWordsPerWrite |-> 4, codeErasePageSize |-> 64, codeMemorySize |-> 32 * 1024,
   configAddress |-> 3145728, configBytes |-> 14,
   eepromAddress |-> 15728640, eepromBytes |-> 256]

\* What open() leaves in the context, and a slip: the sizes are those of the only
\* device there is.
SizesOfAny(id) == PIC18F452
SizesOf(id) == IF GroupOf(id) # "none" /\ SubType(id) = 1 THEN PIC18F452 ELSE NoSizes

\* What the device's operations take for granted of the sizes: words, an address
\* that fits 16 bits, whole rows in a page and pages in the memory, the arrays of
\* an image and the bits of config_valid, and two address extensions that differ
\* from 0 and from each other.
SizesFit(s) ==
  /\ s.codeMemorySize % 2 = 0 /\ s.codeMemorySize <= 65536
  /\ s.codeErasePageSize % (2 * s.codeWordsPerWrite) = 0
  /\ s.codeMemorySize % s.codeErasePageSize = 0
  /\ s.configBytes <= 32
  /\ s.eepromBytes <= 512 /\ s.eepromBytes % 256 = 0
  /\ 0 \notin {s.configAddress \div 256, s.eepromAddress \div 256}
  /\ s.configAddress \div 256 # s.eepromAddress \div 256
===============================================================================
