------------------------------ MODULE ConfigRead ------------------------------
(***************************************************************************)
(* Reading the configuration bytes into an image:                          *)
(* lpp_read_device_config_to_image sets TBLPTR once and lets each byte read*)
(* move it on. A byte is marked valid whether or not its read succeeded.   *)
(***************************************************************************)
EXTENDS Integers

CONSTANTS
  ConfigAddress,  \* device.config_address
  ConfigBytes,    \* device.config_bytes
  Byte,           \* the values of a byte
  Blank,          \* what lpp_image_init fills the image with
  Garbage         \* the byte a failed transfer leaves in the image

VARIABLES
  configMemory,   \* the configuration bytes of the chip
  tblptr,         \* TBLPTR
  config,         \* image->config
  configValid,    \* image->config_valid, as a set of bit numbers
  pc,             \* the next step; "done" returned 1, "error" returned 0
  byteIdx         \* config_byte_idx

vars == <<configMemory, tblptr, config, configValid, pc, byteIdx>>

ConfigIdx == 0 .. ConfigBytes - 1

\* A table read from configuration space; elsewhere is the program memory.
ConfigAt(a) ==
  IF a - ConfigAddress \in ConfigIdx THEN configMemory[a - ConfigAddress] ELSE Blank

\* The address set, and a slip: TBLPTR is where the program read has left it.
PointerLeft == tblptr
Pointer == ConfigAddress

Init ==
  /\ configMemory \in [ConfigIdx -> Byte]
  /\ tblptr \in Nat
  /\ config = [i \in ConfigIdx |-> Blank] /\ configValid = {}
  /\ pc = "enter" /\ byteIdx = 0

SetAddress ==
  /\ pc = "enter"
  /\ \/ tblptr' = Pointer /\ pc' \in {"byte", "error"}
     \/ UNCHANGED tblptr /\ pc' = "error"
  /\ UNCHANGED <<configMemory, config, configValid, byteIdx>>

ReadByte ==
  /\ pc = "byte" /\ byteIdx < ConfigBytes
  /\ \/ /\ config' = [config EXCEPT ![byteIdx] = ConfigAt(tblptr)]
        /\ tblptr' = tblptr + 1
        /\ UNCHANGED pc
     \/ /\ config' = [config EXCEPT ![byteIdx] = Garbage]
        /\ tblptr' \in {tblptr, tblptr + 1}
        /\ pc' = "error"
  /\ configValid' = configValid \cup {byteIdx}
  /\ byteIdx' = byteIdx + 1
  /\ UNCHANGED configMemory

Return ==
  /\ pc = "byte" /\ byteIdx >= ConfigBytes
  /\ pc' = "done"
  /\ UNCHANGED <<configMemory, tblptr, config, configValid, byteIdx>>

Next == SetAddress \/ ReadByte \/ Return
===============================================================================
