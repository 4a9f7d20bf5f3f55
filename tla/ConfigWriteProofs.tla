--------------------------- MODULE ConfigWriteProofs ---------------------------
(***************************************************************************)
(* ConfigWrite is correct for every number of configuration bytes and every*)
(* image: IInv is inductive, over failed calls and repeated ones, and what *)
(* a caller of image_to_device_config relies on follows from it.           *)
(***************************************************************************)
EXTENDS ConfigWrite, TLAPS

\* The word loaded for a byte is a pair of bytes, and the byte itself is in the
\* half the chip takes at that offset.
LEMMA HalfOfWord ==
  ASSUME TypeOK, NEW i \in Offset
  PROVE  /\ WordFor(i) \in Byte \X Byte
         /\ WordFor(i)[1 + (i % 2)] = config[i]
<1>1. i \in 0 .. ImageBytes - 1 /\ i \in Nat
  BY ConfigAssumption DEF Offset
<1>2. config[i] \in Byte /\ 0 \in Byte
  BY <1>1, ConfigAssumption DEF TypeOK
<1>3. CASE i % 2 = 1
  BY <1>2, <1>3 DEF WordFor
<1>4. CASE i % 2 # 1
  <2>1. i % 2 = 0
    BY <1>1, <1>4
  <2> QED
    BY <1>2, <2>1 DEF WordFor
<1> QED
  BY <1>3, <1>4

LEMMA InitIInv == Init => IInv
<1> SUFFICES ASSUME Init PROVE IInv
  OBVIOUS
<1>1. TypeOK
  BY ConfigAssumption DEF Init, TypeOK
<1>2. pc = "start" /\ OldOrGiven
  BY DEF Init, OldOrGiven
<1> QED
  BY <1>1, <1>2 DEF IInv, InStep, PulseLoaded, GivenBehind, DoneMeansGiven

\* A call that ends early, or has not begun its walk, keeps the invariant if it
\* leaves the memory and the image alone.
LEMMA OutOfWalk ==
  ASSUME IInv, TypeOK', UNCHANGED <<configuration, image>>, pc' \in {"start", "aborted"}
  PROVE  IInv'
BY DEF IInv, InStep, PulseLoaded, OldOrGiven, GivenBehind, DoneMeansGiven, image

LEMMA EnterConfigInv == IInv /\ EnterConfig => IInv'
<1> SUFFICES ASSUME IInv, EnterConfig PROVE IInv'
  OBVIOUS
<1>1. TypeOK'
  BY ConfigAssumption DEF IInv, TypeOK, EnterConfig, Fails, image
<1>2. CASE pc' = "aborted"
  BY <1>1, <1>2, OutOfWalk DEF EnterConfig
<1>3. CASE pc' # "aborted"
  <2>1. tblptr' = 0 /\ byteIdx' = 0 /\ pc' = "byte"
    BY <1>3 DEF EnterConfig, Fails
  <2>2. \A i \in configValid : ~(i < byteIdx')
    BY <2>1 DEF IInv, TypeOK
  <2> QED
    BY <1>1, <2>1, <2>2 DEF EnterConfig, IInv, InStep, PulseLoaded, OldOrGiven,
                            GivenBehind, DoneMeansGiven, image
<1> QED
  BY <1>2, <1>3

\* The byte in hand goes into its half of the write buffer.
LEMMA LoadByteInv == IInv /\ LoadByte => IInv'
<1> SUFFICES ASSUME IInv, LoadByte PROVE IInv'
  OBVIOUS
<1>1. byteIdx \in Offset /\ byteIdx \in configValid
  BY ConfigAssumption DEF LoadByte, MoreBytes, Programmed, IInv, TypeOK, Offset
<1>2. TypeOK'
  BY <1>1, HalfOfWord DEF IInv, TypeOK, LoadByte, Fails, image
<1>3. CASE pc' = "aborted"
  BY <1>2, <1>3, OutOfWalk DEF LoadByte
<1>4. CASE pc' # "aborted"
  <2>1. pc = "byte" /\ pc' = "pulse" /\ latch' = WordFor(byteIdx)
    BY <1>4 DEF LoadByte, Fails
  <2>2. WordFor(byteIdx)' = WordFor(byteIdx)
    BY DEF LoadByte, WordFor, image
  <2> QED
    BY <1>1, <1>2, <2>1, <2>2 DEF LoadByte, IInv, InStep, PulseLoaded, OldOrGiven,
                                  GivenBehind, DoneMeansGiven, image
<1> QED
  BY <1>3, <1>4

\* The pulse programs the byte in hand, whether or not its result arrives.
LEMMA ProgramByteInv == IInv /\ ProgramByte => IInv'
<1> SUFFICES ASSUME IInv, ProgramByte PROVE IInv'
  OBVIOUS
<1>1. /\ pc = "pulse" /\ tblptr = byteIdx
      /\ byteIdx \in Offset /\ byteIdx \in configValid /\ byteIdx \in Nat
      /\ latch[1 + (tblptr % 2)] = config[byteIdx]
  <2>1. /\ pc = "pulse" /\ tblptr = byteIdx /\ latch = WordFor(byteIdx)
        /\ byteIdx \in Offset /\ byteIdx \in configValid
    BY DEF ProgramByte, IInv, InStep, PulseLoaded
  <2> QED
    BY <2>1, HalfOfWord DEF IInv, Offset
<1>2. config[byteIdx] \in Byte
  BY <1>1, ConfigAssumption DEF IInv, TypeOK, Offset
<1>3. CASE UNCHANGED configuration
  <2>1. pc' = "aborted" \/ configuration[byteIdx] = config[byteIdx]
    BY <1>1, <1>3 DEF ProgramByte, Fails, IInv, TypeOK
  <2>2. TypeOK'
    BY <1>3 DEF IInv, TypeOK, ProgramByte, Fails, image
  <2>3. CASE pc' = "aborted"
    BY <1>3, <2>2, <2>3, OutOfWalk DEF ProgramByte
  <2>4. CASE pc' # "aborted"
    <3>1. pc' = "next"
      BY <2>4 DEF ProgramByte, Fails
    <3>2. \A i \in configValid : i <= byteIdx => configuration[i] = config[i]
      <4>1. TAKE i \in configValid
      <4>2. HAVE i <= byteIdx
      <4>3. i = byteIdx \/ i < byteIdx
        BY <1>1, <4>2 DEF IInv, TypeOK
      <4> QED
        BY <1>1, <2>1, <2>4, <4>3 DEF IInv, GivenBehind
    <3> QED
      BY <1>1, <1>3, <2>2, <3>1, <3>2 DEF ProgramByte, IInv, InStep, PulseLoaded,
                                  OldOrGiven, GivenBehind, DoneMeansGiven, image
  <2> QED
    BY <2>3, <2>4
<1>4. CASE configuration' = [configuration EXCEPT ![tblptr] = latch[1 + (tblptr % 2)]]
  <2>1. /\ configuration'[byteIdx] = config[byteIdx]
        /\ \A i \in Offset : i # byteIdx => configuration'[i] = configuration[i]
        /\ configuration' \in [Offset -> Byte]
    BY <1>1, <1>2, <1>4 DEF IInv, TypeOK
  <2>2. TypeOK'
    BY <2>1 DEF IInv, TypeOK, ProgramByte, Fails, image
  <2>3. OldOrGiven'
    BY <1>1, <2>1 DEF IInv, OldOrGiven, ProgramByte, image
  <2>4. \A i \in configValid : i <= byteIdx => configuration'[i] = config[i]
    <3>1. TAKE i \in configValid
    <3>2. HAVE i <= byteIdx
    <3>3. i \in Offset /\ (i = byteIdx \/ i < byteIdx)
      BY <1>1, <3>2, ConfigAssumption DEF IInv, TypeOK, Offset
    <3> QED
      BY <1>1, <2>1, <3>3 DEF IInv, GivenBehind
  <2>5. pc' \in {"next", "aborted"}
    BY DEF ProgramByte, Fails
  <2> QED
    BY <1>1, <2>2, <2>3, <2>4, <2>5 DEF ProgramByte, IInv, InStep, PulseLoaded,
                                    GivenBehind, DoneMeansGiven, image
<1> QED
  BY <1>3, <1>4 DEF ProgramByte

\* A byte the file does not give is passed over; TBLPTR moves on all the same.
LEMMA SkipByteInv == IInv /\ SkipByte => IInv'
<1> SUFFICES ASSUME IInv, SkipByte PROVE IInv'
  OBVIOUS
<1>1. /\ pc = "byte" /\ pc' = "next"
      /\ byteIdx \in Offset /\ byteIdx \notin configValid
  BY ConfigAssumption DEF SkipByte, MoreBytes, Programmed, IInv, TypeOK, Offset
<1>2. TypeOK'
  BY <1>1 DEF IInv, TypeOK, SkipByte, image
<1>3. \A i \in configValid : i <= byteIdx => configuration[i] = config[i]
  <2>1. TAKE i \in configValid
  <2>2. HAVE i <= byteIdx
  <2>3. i < byteIdx
    BY <1>1, <2>2 DEF IInv, TypeOK
  <2> QED
    BY <1>1, <2>3 DEF IInv, GivenBehind
<1> QED
  BY <1>1, <1>2, <1>3 DEF SkipByte, IInv, InStep, PulseLoaded, OldOrGiven,
                          GivenBehind, DoneMeansGiven, image

LEMMA NextByteInv == IInv /\ NextByte => IInv'
<1> SUFFICES ASSUME IInv, NextByte PROVE IInv'
  OBVIOUS
<1>1. /\ pc = "next" /\ tblptr = byteIdx /\ byteIdx \in Offset
      /\ byteIdx' = byteIdx + 1 /\ tblptr' \in {tblptr, tblptr + 1}
      /\ byteIdx \in Nat /\ byteIdx + 1 \in 0 .. ConfigBytes
  BY ConfigAssumption DEF NextByte, StepOf, IInv, InStep, GivenBehind, TypeOK, Offset
<1>2. TypeOK'
  BY <1>1 DEF IInv, TypeOK, NextByte, Fails, image
<1>3. CASE pc' = "aborted"
  BY <1>2, <1>3, OutOfWalk DEF NextByte
<1>4. CASE pc' # "aborted"
  <2>1. pc' = "byte" /\ tblptr' = byteIdx'
    BY <1>1, <1>4 DEF NextByte, Fails, StepOf
  <2>2. \A i \in configValid : i < byteIdx' => configuration[i] = config[i]
    <3>1. TAKE i \in configValid
    <3>2. HAVE i < byteIdx'
    <3>3. i <= byteIdx
      BY <1>1, <3>2 DEF IInv, TypeOK
    <3> QED
      BY <1>1, <3>3 DEF IInv, GivenBehind
  <2> QED
    BY <1>2, <2>1, <2>2 DEF NextByte, IInv, InStep, PulseLoaded, OldOrGiven,
                            GivenBehind, DoneMeansGiven, image
<1> QED
  BY <1>3, <1>4

\* The walk ends with every byte behind it.
LEMMA ReturnInv == IInv /\ Return => IInv'
<1> SUFFICES ASSUME IInv, Return PROVE IInv'
  OBVIOUS
<1>1. pc = "byte" /\ pc' = "done" /\ byteIdx = ConfigBytes
  BY ConfigAssumption DEF Return, MoreBytes, IInv, TypeOK
<1>2. TypeOK'
  BY <1>1 DEF IInv, TypeOK, Return, image
<1>3. \A i \in Offset \cap configValid : configuration[i] = config[i]
  <2>1. \A i \in Offset : i < byteIdx
    BY <1>1, ConfigAssumption DEF Offset
  <2> QED
    BY <1>1, <2>1 DEF IInv, GivenBehind
<1>4. DoneMeansGiven'
  BY <1>3 DEF DoneMeansGiven, Return, image
<1> QED
  BY <1>1, <1>2, <1>4 DEF Return, IInv, InStep, PulseLoaded, OldOrGiven,
                          GivenBehind, image

LEMMA RerunInv == IInv /\ Rerun => IInv'
<1> SUFFICES ASSUME IInv, Rerun PROVE IInv'
  OBVIOUS
<1>1. TypeOK'
  BY DEF IInv, TypeOK, Rerun, image
<1> QED
  BY <1>1, OutOfWalk DEF Rerun

LEMMA NextIInv == IInv /\ [Next]_vars => IInv'
<1> SUFFICES ASSUME IInv, [Next]_vars PROVE IInv'
  OBVIOUS
<1>1. CASE UNCHANGED vars
  BY <1>1 DEF IInv, TypeOK, InStep, PulseLoaded, OldOrGiven, GivenBehind,
              DoneMeansGiven, WordFor, vars, image
<1> QED
  BY <1>1, EnterConfigInv, LoadByteInv, ProgramByteInv, SkipByteInv, NextByteInv,
     ReturnInv, RerunInv DEF Next, Program

-------------------------------------------------------------------------------

\* Between any two transfers of image_to_device_config, TBLPTR, the write buffer
\* and the byte of the image in hand agree, and the bytes behind are written.
THEOREM WalkInStep == Spec => []IInv
BY InitIInv, NextIInv, PTL DEF Spec

\* However often image_to_device_config fails and is run again, no byte of the
\* configuration ever holds anything but its old value or the one the file gave
\* for it: a wrong word would land in a fuse.
THEOREM ConfigNeverStrays == Spec => []OldOrGiven
BY WalkInStep, PTL DEF IInv

\* When image_to_device_config returns 1, every byte the file gave is written.
THEOREM ConfigDone == Spec => []DoneMeansGiven
BY WalkInStep, PTL DEF IInv
===============================================================================
