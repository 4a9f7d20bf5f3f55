------------------------------ MODULE ConfigWrite ------------------------------
(***************************************************************************)
(* Writing the configuration bytes of an image:                            *)
(* lpp_device_18f2xx_4xx_image_to_device_config walks over the bytes of the*)
(* configuration space with TBLPTR in step, and programs those the image   *)
(* has, one pulse each. A transfer may fail, after the chip has acted on it*)
(* or not; the function then returns 0.                                    *)
(***************************************************************************)
EXTENDS Integers

CONSTANTS
  ConfigBytes,  \* device.config_bytes
  ImageBytes,   \* sizeof(image->config), for which config_valid has a bit each
  Byte          \* the values of a byte

ASSUME ConfigAssumption ==
  /\ ConfigBytes \in Nat /\ ImageBytes \in Nat
  /\ ConfigBytes <= ImageBytes
  /\ 0 \in Byte

VARIABLES
  configuration,  \* the chip's configuration space, by offset
  tblptr,         \* TBLPTR, as an offset in it; -1 is any address outside it
  latch,          \* the word loaded for the pulse, as its low and high byte
  config,         \* image->config
  configValid,    \* image->config_valid, as a set
  pc,             \* the next step; "done" returned 1, "aborted" returned 0
  byteIdx,        \* config_byte_idx
  before          \* history: the configuration before the first call

image == <<config, configValid, before>>
vars  == <<configuration, tblptr, latch, image, pc, byteIdx>>

Offset == 0 .. ConfigBytes - 1

\* The word for a byte: odd addresses use the msb, even ones the lsb. And a
\* slip: always the lsb.
WordLow(i) == <<config[i], 0>>
WordFor(i) == IF i % 2 = 1 THEN <<0, config[i]>> ELSE <<config[i], 0>>

\* Where the walk goes when a byte has been dealt with, and a slip: TBLPTR only
\* moves after a byte that was programmed.
StepOfProgrammed(i) == IF i \in configValid THEN 1 ELSE 0
StepOf(i) == 1

\* for (...; config_byte_idx < config_bytes; ...).
MoreBytes(i) == i < ConfigBytes

\* The bytes of the image that are programmed, and a slip: all of them.
ProgrammedAll(i) == TRUE
Programmed(i) == i \in configValid

Init ==
  /\ configuration \in [Offset -> Byte]
  /\ tblptr = -1
  /\ latch = <<0, 0>>
  /\ config \in [0 .. ImageBytes - 1 -> Byte]
  /\ configValid \in SUBSET (0 .. ImageBytes - 1)
  /\ pc = "start" /\ byteIdx = 0
  /\ before = configuration

Fails == pc' = "aborted"

\* Configuration space selected, the PC set, TBLPTR at config_address.
EnterConfig ==
  /\ pc = "start"
  /\ \/ tblptr' = 0 /\ (pc' = "byte" \/ Fails)
     \/ tblptr' \in {tblptr, -1} /\ Fails
  /\ byteIdx' = 0
  /\ UNCHANGED <<configuration, latch, image>>

\* A valid byte goes into the write buffer.
LoadByte ==
  /\ pc = "byte" /\ MoreBytes(byteIdx) /\ Programmed(byteIdx)
  /\ \/ latch' = WordFor(byteIdx) /\ (pc' = "pulse" \/ Fails)
     \/ UNCHANGED latch /\ Fails
  /\ UNCHANGED <<configuration, tblptr, image, byteIdx>>

\* The pulse programs the byte TBLPTR is at, from its half of the word.
ProgramByte ==
  /\ pc = "pulse"
  /\ \/ /\ configuration' = [configuration EXCEPT ![tblptr] = latch[1 + (tblptr % 2)]]
        /\ pc' = "next" \/ Fails
     \/ UNCHANGED configuration /\ Fails
  /\ UNCHANGED <<tblptr, latch, image, byteIdx>>

\* A byte the image does not have is passed over.
SkipByte ==
  /\ pc = "byte" /\ MoreBytes(byteIdx) /\ ~Programmed(byteIdx)
  /\ pc' = "next"
  /\ UNCHANGED <<configuration, tblptr, latch, image, byteIdx>>

\* INC TBLPTRL.
NextByte ==
  /\ pc = "next"
  /\ \/ tblptr' = tblptr + StepOf(byteIdx) /\ (pc' = "byte" \/ Fails)
     \/ UNCHANGED tblptr /\ Fails
  /\ byteIdx' = byteIdx + 1
  /\ UNCHANGED <<configuration, latch, image>>

Return ==
  /\ pc = "byte" /\ ~MoreBytes(byteIdx)
  /\ pc' = "done"
  /\ UNCHANGED <<configuration, tblptr, latch, image, byteIdx>>

\* The write is tried again with the same image.
Rerun ==
  /\ pc = "aborted"
  /\ pc' = "start"
  /\ UNCHANGED <<configuration, tblptr, latch, image, byteIdx>>

Program == EnterConfig \/ LoadByte \/ ProgramByte \/ SkipByte \/ NextByte \/ Return
Next == Program \/ Rerun
Spec == Init /\ [][Next]_vars

-------------------------------------------------------------------------------

TypeOK ==
  /\ configuration \in [Offset -> Byte] /\ before \in [Offset -> Byte]
  /\ config \in [0 .. ImageBytes - 1 -> Byte]
  /\ configValid \subseteq 0 .. ImageBytes - 1
  /\ tblptr \in -1 .. ConfigBytes
  /\ latch \in Byte \X Byte
  /\ pc \in {"start", "byte", "pulse", "next", "done", "aborted"}
  /\ byteIdx \in 0 .. ConfigBytes

\* The chip's byte TBLPTR is at and the image's byte in hand are the same one,
\* over programmed and skipped bytes, so that the half of the word that is
\* loaded is the half the chip takes.
InStep == pc \in {"byte", "pulse", "next"} => tblptr = byteIdx

\* A pulse is sent for a byte the file gave only, with that byte in its half.
PulseLoaded ==
  pc = "pulse" => byteIdx \in Offset \cap configValid /\ latch = WordFor(byteIdx)

\* However often image_to_device_config fails and is run again, a byte the file
\* did not give keeps its value, and one it gave has its old value or the file's.
OldOrGiven ==
  \A i \in Offset :
    configuration[i] \in IF i \in configValid THEN {before[i], config[i]} ELSE {before[i]}

\* When it returns 1, every byte the file gave is in the device.
DoneMeansGiven ==
  pc = "done" => \A i \in Offset \cap configValid : configuration[i] = config[i]

\* The walk has written what it has passed, whatever an earlier call has left.
GivenBehind ==
  /\ pc \in {"byte", "pulse"} => \A i \in configValid : i < byteIdx => configuration[i] = config[i]
  /\ pc = "next" => /\ byteIdx \in Offset
                    /\ \A i \in configValid : i <= byteIdx => configuration[i] = config[i]

\* What image_to_device_config keeps between any two transfers, first try or
\* not: TBLPTR, write buffer and image agree, and the bytes behind are written.
IInv == TypeOK /\ InStep /\ PulseLoaded /\ OldOrGiven /\ GivenBehind /\ DoneMeansGiven
===============================================================================
