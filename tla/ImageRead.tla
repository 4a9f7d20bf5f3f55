------------------------------- MODULE ImageRead -------------------------------
(***************************************************************************)
(* What lpicp -r does: the program (ProgramRead), the configuration        *)
(* (ConfigRead) and the EEPROM (EepromRead) are read into one image, one   *)
(* after the other on one chip, and the image is printed if all three      *)
(* succeeded. Configuration and program share TBLPTR.                      *)
(***************************************************************************)
EXTENDS ProgramRead

CONSTANTS ConfigAddress, ConfigBytes, EepromBytes, LowRange

ASSUME PartsAssumption == {ConfigAddress, ConfigBytes, EepromBytes} \subseteq Nat

VARIABLES
  configMemory, config, configValid, configPc, configIdx,  \* ConfigRead
  eeprom, eeadr, eedata, wren, wr,                         \* DataEeprom
  eepromImage, eepromPc, eepromIdx,                        \* EepromRead
  printed                                                  \* what is on the terminal

programVars == <<flash, maxContents, contents, contentsSize, pc, totalWords, wordsLeft, shown>>
configVars  == <<configMemory, config, configValid, configPc, configIdx>>
eepromVars  == <<eeprom, eeadr, eedata, wren, wr, eepromImage, eepromPc, eepromIdx>>
imageVars   == <<vars, configVars, eepromVars, printed>>

Config == INSTANCE ConfigRead WITH pc <- configPc, byteIdx <- configIdx
Eeprom == INSTANCE EepromRead WITH image <- eepromImage, pc <- eepromPc, byteIdx <- eepromIdx

ImageInit ==
  /\ Init
  /\ configMemory \in [Config!ConfigIdx -> Byte]
  /\ config = [i \in Config!ConfigIdx |-> Blank] /\ configValid = {}
  /\ configPc = "enter" /\ configIdx = 0
  /\ Eeprom!ChipInit
  /\ eepromImage = [a \in Eeprom!Addr |-> Blank]
  /\ eepromPc = "enter" /\ eepromIdx = 0
  /\ printed = {}

\* What && makes of a part's result, and a slip: any result will do.
PartReturned(partPc) == partPc \in {"done", "error"}
PartSucceeded(partPc) == partPc = "done"

ProgramStep == Next /\ UNCHANGED <<configVars, eepromVars, printed>>

ConfigStep ==
  /\ PartSucceeded(pc)
  /\ Config!Next
  /\ UNCHANGED <<programVars, eepromVars, printed>>

EepromStep ==
  /\ PartSucceeded(configPc)
  /\ Eeprom!Next
  /\ UNCHANGED <<vars, configVars, printed>>

\* lpp_image_print: contents_size bytes of program, the valid configuration
\* bytes, and the EEPROM bytes.
Listing ==
  [program |-> [a \in 0 .. contentsSize - 1 |-> contents[a]],
   config  |-> [i \in configValid \cap Config!ConfigIdx |-> config[i]],
   eeprom  |-> eepromImage]

PrintImage ==
  /\ PartSucceeded(eepromPc) /\ printed = {}
  /\ printed' = {Listing}
  /\ UNCHANGED <<vars, configVars, eepromVars>>

ImageNext == ProgramStep \/ ConfigStep \/ EepromStep \/ PrintImage
ImageSpec == ImageInit /\ [][ImageNext]_imageVars

-------------------------------------------------------------------------------

\* Whatever is printed is the device's, in all three parts: bytes a failed
\* transfer left in the image, or that were marked valid without having been
\* read, are never shown. The two bytes of a program word are printed in the
\* host's order.
PrintedIsDevice ==
  \A listing \in printed :
    /\ \A a \in 0 .. contentsSize - 1 :
         listing.program[a] = ByteAt(IF a % 2 = 0 THEN a + 1 ELSE a - 1)
    /\ listing.config = configMemory
    /\ listing.eeprom = eeprom
===============================================================================
