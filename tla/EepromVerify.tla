----------------------------- MODULE EepromVerify -----------------------------
(***************************************************************************)
(* What lpicp -w does for the EEPROM: image_to_device_eeprom, then, if it  *)
(* returned 1, device_eeprom_to_image into a second image on the same chip,*)
(* and the comparison of the two. The write forgives failed transfers, so  *)
(* that the verification is what the result rests on.                      *)
(***************************************************************************)
EXTENDS EepromWrite

CONSTANTS
  Blank,   \* what lpp_image_init fills the EEPROM bytes with
  Garbage  \* the byte a failed transfer leaves in the image

VARIABLES
  verifyImage,      \* verify_image.eeprom
  readPc, readIdx,  \* the read's next step ("idle" before it) and byte
  verified,         \* the verification's message: "none", "success" or "failed"
  idleAtRead        \* history: no write was in progress when the read began

verification == <<verifyImage, readPc, readIdx, verified, idleAtRead>>
verifyVars == <<vars, verification>>

Read == INSTANCE EepromRead WITH image <- verifyImage, pc <- readPc, byteIdx <- readIdx

VerifyInit ==
  /\ Init
  /\ verifyImage = [a \in Addr |-> Blank]
  /\ readPc = "idle" /\ readIdx = 0
  /\ verified = "none" /\ idleAtRead = FALSE

\* The program memory has been read back, and the EEPROM's turn has come. The
\* chip may or may not have finished a write by now.
BeginRead ==
  /\ pc = "done" /\ readPc = "idle"
  /\ readPc' = "enter"
  /\ idleAtRead' = ~wr
  /\ UNCHANGED <<vars, verifyImage, readIdx, verified>>

ReadStep == Read!Next /\ UNCHANGED <<picture, pc, byteIdx, polling, failed, verified, idleAtRead>>

\* The comparison of the EEPROM bytes, and a slip: of the first half of them.
MatchesFirstHalf == \A a \in Addr : a < LowRange => image[a] = verifyImage[a]
Matches == image = verifyImage

Compare ==
  /\ readPc = "done" /\ verified = "none"
  /\ verified' = IF Matches THEN "success" ELSE "failed"
  /\ UNCHANGED <<vars, verifyImage, readPc, readIdx, idleAtRead>>

VerifyProgram ==
  \/ Program /\ UNCHANGED verification
  \/ BeginRead \/ ReadStep \/ Compare

VerifyNext == VerifyProgram \/ (Complete /\ UNCHANGED verification)

\* As for the write alone: the program takes its next step, the chip may not.
VerifySpec == VerifyInit /\ [][VerifyNext]_verifyVars /\ WF_verifyVars(VerifyProgram)

-------------------------------------------------------------------------------

\* When the verification says success, the EEPROM is the image's, however many
\* transfers of the write failed and were forgiven. The exception is a write
\* still in progress when the read begins, which only a failed transfer can
\* leave behind: the chip promises nothing about reads during a write.
VerifiedMeansEeprom == verified = "success" /\ idleAtRead => eeprom = image

\* The verification gives no false alarm: it says failed only when a transfer of
\* the write has failed. A read with a failed transfer gives no verdict.
NoFalseAlarm == verified = "failed" => failed
===============================================================================
