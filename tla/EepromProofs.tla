------------------------------ MODULE EepromProofs ------------------------------
(***************************************************************************)
(* EepromWrite and EepromVerify are correct for every size of the EEPROM,  *)
(* every image and every number of polls: what the write promises when no  *)
(* transfer fails, and what its verification promises when some do.        *)
(***************************************************************************)
EXTENDS EepromVerify, TLAPS

\* The types of the memory and of the loop; a write is started and awaited for a
\* byte of the EEPROM only.
WriteTypeOK ==
  /\ eeprom \in [Addr -> Byte] /\ image \in [Addr -> Byte] /\ before \in [Addr -> Byte]
  /\ eedata \in Byte
  /\ EepromBytes > 0 => eeadr \in Addr
  /\ pc \in {"enter", "byte", "write", "poll", "done", "error"}
  /\ byteIdx \in 0 .. EepromBytes
  /\ pc \in {"write", "poll"} => byteIdx \in Addr

\* A byte is in the chip's hands, or already in the memory.
InHand == wr => byteIdx \in Addr /\ eeadr = byteIdx /\ eedata = image[byteIdx]

\* What the steps of the write leave for the ones after it, as long as no transfer
\* fails: the chip is idle whenever a byte begins, and while it is not, it has
\* been given the byte in hand.
CleanChip ==
  ~failed =>
    /\ InHand
    /\ pc \in {"enter", "byte", "write", "done"} => ~wr
    /\ pc = "write" => eeadr = byteIdx
    /\ pc = "poll" /\ writeComplete => ~wr
    /\ pc = "poll" /\ ~wr => eeprom[byteIdx] = image[byteIdx]

\* The inductive invariant of image_to_device_eeprom.
WriteInv == WriteTypeOK /\ CleanChip /\ CleanPrefix /\ CleanSuccess

\* An address of which only EEADR or only EEADRH has been loaded is still one of
\* the EEPROM's, which is made of whole ranges of EEADR.
LEMMA HalfSetAddress ==
  ASSUME NEW old \in Addr, NEW new \in Addr
  PROVE  LowLoaded(old, new) \in Addr
<1> DEFINE L == LowRange
           q == old \div L
           m == EepromBytes \div L
           r == new % L
<1>1. L \in Nat \ {0} /\ old \in Nat /\ new \in Nat /\ EepromBytes \in Nat /\ old < EepromBytes
  BY EepromAssumption DEF Addr
<1>2. old = L * q + (old % L) /\ q \in Nat /\ old % L \in 0 .. L - 1
  BY <1>1
<1>3. EepromBytes = L * m /\ m \in Nat
  BY <1>1, EepromAssumption
<1>4. r \in 0 .. L - 1
  BY <1>1
<1>5. LowLoaded(old, new) = (old - (old % L)) + r
  BY DEF LowLoaded
<1> HIDE DEF L, q, m, r
<1>6. L * q < L * m /\ L * q \in Nat
  BY <1>1, <1>2, <1>3
<1>7. q + 1 <= m
  BY <1>1, <1>2, <1>3, <1>6
<1>8. L * (q + 1) <= L * m
  BY <1>1, <1>2, <1>3, <1>7
<1>9. L * q + L <= EepromBytes
  BY <1>1, <1>2, <1>3, <1>8
<1>10. LowLoaded(old, new) = L * q + r
  BY <1>1, <1>2, <1>4, <1>5, <1>6
<1> QED
  BY <1>1, <1>4, <1>6, <1>9, <1>10 DEF Addr

\* Whatever becomes of an address that is set, EEADR stays in the EEPROM.
LEMMA AddressInMemory ==
  ASSUME NEW a \in Addr, EepromBytes > 0 => eeadr \in Addr
  PROVE  AddressSet(a) \cup AddressPartlySet(a) \subseteq Addr
<1>1. eeadr \in Addr
  BY EepromAssumption DEF Addr
<1>2. LowLoaded(eeadr, a) \in Addr
  BY <1>1, HalfSetAddress
<1> QED
  BY <1>1, <1>2 DEF AddressSet, AddressPartlySet, Loaded

LEMMA InitWriteInv == Init => WriteInv
<1> SUFFICES ASSUME Init PROVE WriteInv
  OBVIOUS
<1>1. WriteTypeOK
  BY EepromAssumption DEF Init, ChipInit, WriteTypeOK, Addr
<1>2. CleanPrefix
  BY EepromAssumption DEF Init, CleanPrefix, Addr
<1> QED
  BY <1>1, <1>2 DEF Init, ChipInit, WriteInv, CleanChip, CleanSuccess, InHand

\* Once a transfer has failed, the write promises nothing but its types.
LEMMA Failed == WriteTypeOK /\ failed => WriteInv
BY DEF WriteInv, CleanChip, CleanPrefix, CleanSuccess

\* A chip that is not writing takes the address, the data and WREN it is told.
LEMMA IdleChipLoads ==
  ASSUME ~wr
  PROVE  /\ \A old, new : Loaded(old, new) = {new}
         /\ \A a : AddressSet(a) = {a}
BY DEF Loaded, AddressSet

LEMMA EnterEepromInv == WriteInv /\ EnterEeprom => WriteInv'
<1> SUFFICES ASSUME WriteInv, EnterEeprom PROVE WriteInv'
  OBVIOUS
<1>1. WriteTypeOK'
  BY DEF EnterEeprom, WriteInv, WriteTypeOK, eepromChip, registers, picture, polling
<1>2. CASE failed'
  BY <1>1, <1>2, Failed DEF WriteInv, WriteTypeOK, CleanChip, CleanPrefix, CleanSuccess
<1>3. CASE ~failed'
  BY <1>1, <1>3 DEF EnterEeprom, WriteInv, CleanChip, CleanPrefix, CleanSuccess, InHand,
                    eepromChip, registers, picture, polling
<1> QED
  BY <1>2, <1>3

LEMMA SetAddressInv == WriteInv /\ SetAddress => WriteInv'
<1> SUFFICES ASSUME WriteInv, SetAddress PROVE WriteInv'
  OBVIOUS
<1>1. byteIdx \in Addr /\ byteIdx + 1 \in 0 .. EepromBytes /\ pc = "byte"
  BY EepromAssumption DEF SetAddress, MoreBytes, WriteInv, WriteTypeOK, Addr
<1>2. WriteTypeOK'
  <2>1. eeadr' \in Addr
    BY <1>1, AddressInMemory DEF SetAddress, WriteInv, WriteTypeOK
  <2> QED
    BY <1>1, <2>1 DEF SetAddress, WriteInv, WriteTypeOK, picture, polling
<1>3. CASE failed'
  BY <1>2, <1>3, Failed DEF WriteInv, WriteTypeOK, CleanChip, CleanPrefix, CleanSuccess
<1>4. CASE ~failed'
  <2>1. eeadr' \in AddressSet(byteIdx) /\ pc' = "write" /\ byteIdx' = byteIdx /\ ~failed
    BY <1>4 DEF SetAddress
  <2>2. ~wr
    BY <1>1, <2>1 DEF WriteInv, CleanChip
  <2>3. eeadr' = byteIdx
    BY <2>1, <2>2, IdleChipLoads
  <2> QED
    BY <1>1, <1>2, <1>4, <2>1, <2>2, <2>3
       DEF SetAddress, WriteInv, CleanChip, CleanPrefix, CleanSuccess, InHand, picture, polling
<1> QED
  BY <1>3, <1>4

LEMMA StartWriteInv == WriteInv /\ StartWrite => WriteInv'
<1> SUFFICES ASSUME WriteInv, StartWrite PROVE WriteInv'
  OBVIOUS
<1>1. byteIdx \in Addr /\ byteIdx + 1 \in 0 .. EepromBytes /\ pc = "write"
  BY EepromAssumption DEF StartWrite, WriteInv, WriteTypeOK, Addr
<1>2. WriteTypeOK'
  <2>1. eedata' \in Byte
    BY <1>1 DEF StartWrite, WriteInv, WriteTypeOK, Loaded
  <2>2. pc' \in {"poll", "byte", "error"} /\ byteIdx' \in {byteIdx, byteIdx + 1}
        /\ (pc' = "poll" => byteIdx' = byteIdx)
    BY DEF StartWrite, ByteResult
  <2> QED
    BY <1>1, <2>1, <2>2 DEF StartWrite, WriteInv, WriteTypeOK, picture
<1>3. CASE failed'
  BY <1>2, <1>3, Failed DEF WriteInv, WriteTypeOK, CleanChip, CleanPrefix, CleanSuccess
<1>4. CASE ~failed'
  <2>1. pc' = "poll" /\ byteIdx' = byteIdx /\ ~failed /\ ~writeComplete'
    <3>1. failed' # TRUE
      BY <1>4
    <3>2. pc' = "poll" /\ UNCHANGED <<byteIdx, failed>> /\ writeComplete' = FALSE
      BY <3>1, Zenon DEF StartWrite
    <3> QED
      BY <1>4, <3>2
  <2>2. ~wr /\ eeadr = byteIdx
    BY <1>1, <2>1 DEF WriteInv, CleanChip
  <2>3. eedata' = image[byteIdx]
    BY <1>4, <2>2 DEF StartWrite, Loaded
  <2>4. wr'
    BY <1>4, <2>2 DEF StartWrite, Loaded
  <2> QED
    BY <1>1, <1>2, <1>4, <2>1, <2>2, <2>3, <2>4
       DEF StartWrite, WriteInv, CleanChip, CleanPrefix, CleanSuccess, InHand, picture
<1> QED
  BY <1>3, <1>4

LEMMA PollInv == WriteInv /\ Poll => WriteInv'
<1> SUFFICES ASSUME WriteInv, Poll PROVE WriteInv'
  OBVIOUS
<1>1. byteIdx \in Addr /\ byteIdx + 1 \in 0 .. EepromBytes /\ pc = "poll"
  BY EepromAssumption DEF Poll, WriteInv, WriteTypeOK, Addr
<1>2. WriteTypeOK'
  BY <1>1 DEF Poll, WriteInv, WriteTypeOK, picture, ByteResult, eepromChip, registers
<1>3. CASE failed'
  BY <1>2, <1>3, Failed DEF WriteInv, WriteTypeOK, CleanChip, CleanPrefix, CleanSuccess
<1>4. CASE ~failed'
  <2>1. writeComplete' = ~wr /\ UNCHANGED <<pc, byteIdx, failed>>
    BY <1>4 DEF Poll, SeenComplete
  <2> QED
    BY <1>1, <1>2, <1>4, <2>1
       DEF Poll, WriteInv, CleanChip, CleanPrefix, CleanSuccess, InHand, picture,
           eepromChip, registers
<1> QED
  BY <1>3, <1>4

\* A byte is left behind only when the chip has been seen idle, with the byte
\* in the memory.
LEMMA EndPollInv == WriteInv /\ EndPoll => WriteInv'
<1> SUFFICES ASSUME WriteInv, EndPoll PROVE WriteInv'
  OBVIOUS
<1>1. /\ byteIdx \in Addr /\ byteIdx + 1 \in 0 .. EepromBytes /\ pc = "poll"
      /\ UNCHANGED <<eeprom, eeadr, eedata, wren, wr, image, before, failed>>
  BY EepromAssumption
     DEF EndPoll, WriteInv, WriteTypeOK, Addr, eepromChip, registers, picture, polling
<1>2. WriteTypeOK'
  BY <1>1 DEF EndPoll, WriteInv, WriteTypeOK
<1>3. CASE failed
  BY <1>1, <1>2, <1>3, Failed DEF WriteInv, WriteTypeOK, CleanChip, CleanPrefix, CleanSuccess
<1>4. CASE ~failed /\ pc' = "error"
  <2>1. byteIdx' = byteIdx
    BY <1>4 DEF EndPoll
  <2> QED
    BY <1>1, <1>2, <1>4, <2>1 DEF WriteInv, CleanChip, CleanPrefix, CleanSuccess, InHand
<1>5. CASE ~failed /\ pc' # "error"
  <2>1. ticks # 0 /\ writeComplete /\ pc' = "byte" /\ byteIdx' = byteIdx + 1
    BY <1>5 DEF EndPoll, ByteResult
  <2>2. ~wr /\ eeprom[byteIdx] = image[byteIdx]
    BY <1>1, <1>5, <2>1 DEF WriteInv, CleanChip
  <2>3. CleanPrefix'
    <3>1. SUFFICES ASSUME NEW a \in Addr
                   PROVE  /\ a < byteIdx + 1 => eeprom[a] = image[a]
                          /\ a > byteIdx + 1 => eeprom[a] = before[a]
                          /\ eeprom[a] \in {before[a], image[a]}
      BY <1>1, <2>1 DEF CleanPrefix
    <3>2. a \in Int /\ byteIdx \in Int
      BY <1>1 DEF Addr
    <3>3. a < byteIdx + 1 => a < byteIdx \/ a = byteIdx
      BY <3>2
    <3>4. a > byteIdx + 1 => a > byteIdx
      BY <3>2
    <3> QED
      BY <1>5, <2>2, <3>3, <3>4 DEF WriteInv, CleanPrefix
  <2> QED
    BY <1>1, <1>2, <1>5, <2>1, <2>2, <2>3 DEF WriteInv, CleanChip, CleanSuccess, InHand
<1> QED
  BY <1>3, <1>4, <1>5

\* The write ends with every byte behind it.
LEMMA DisableWritesInv == WriteInv /\ DisableWrites => WriteInv'
<1> SUFFICES ASSUME WriteInv, DisableWrites PROVE WriteInv'
  OBVIOUS
<1>1. pc = "byte" /\ byteIdx = EepromBytes /\ UNCHANGED <<eeprom, wr, image, before, byteIdx>>
  BY EepromAssumption DEF DisableWrites, MoreBytes, WriteInv, WriteTypeOK, picture
<1>2. WriteTypeOK'
  BY <1>1 DEF DisableWrites, WriteInv, WriteTypeOK
<1>3. CASE failed'
  BY <1>2, <1>3, Failed DEF WriteInv, WriteTypeOK, CleanChip, CleanPrefix, CleanSuccess
<1>4. CASE ~failed'
  <2>1. pc' = "done" /\ ~failed
    <3>1. failed' # TRUE
      BY <1>4
    <3>2. pc' = "done" /\ failed' = failed
      BY <3>1, Zenon DEF DisableWrites
    <3> QED
      BY <1>4, <3>2
  <2>2. ~wr
    BY <1>1, <2>1 DEF WriteInv, CleanChip
  <2>3. ~wren'
    BY <1>4, <2>2 DEF DisableWrites, Disabled, Loaded
  <2>4. eeprom = image
    <3>1. \A a \in Addr : a < byteIdx
      BY <1>1, EepromAssumption DEF Addr
    <3>2. \A a \in Addr : eeprom[a] = image[a]
      BY <2>1, <3>1 DEF WriteInv, CleanPrefix
    <3> QED
      BY <3>2 DEF WriteInv, WriteTypeOK
  <2> QED
    BY <1>1, <1>2, <2>1, <2>2, <2>3, <2>4
       DEF WriteInv, CleanChip, CleanPrefix, CleanSuccess, InHand
<1> QED
  BY <1>3, <1>4

\* The chip ends a write whenever it likes: during a poll, or after a poll loop
\* that gave up.
LEMMA CompleteInv == WriteInv /\ Complete => WriteInv'
<1> SUFFICES ASSUME WriteInv, Complete PROVE WriteInv'
  OBVIOUS
<1>1. /\ wr /\ ~wr' /\ eeprom' = [eeprom EXCEPT ![eeadr] = eedata]
      /\ UNCHANGED <<eeadr, eedata, wren, image, before, pc, byteIdx, writeComplete, failed>>
  BY DEF Complete, WriteEnds, registers, picture, polling
<1>2. WriteTypeOK'
  BY <1>1 DEF WriteInv, WriteTypeOK
<1>3. CASE failed
  BY <1>1, <1>2, <1>3, Failed DEF WriteInv, WriteTypeOK, CleanChip, CleanPrefix, CleanSuccess
<1>4. CASE ~failed
  <2>1. byteIdx \in Addr /\ eeadr = byteIdx /\ eedata = image[byteIdx] /\ pc # "done"
    BY <1>1, <1>4 DEF WriteInv, CleanChip, InHand
  <2>2. /\ eeprom'[byteIdx] = image[byteIdx]
        /\ \A a \in Addr : a # byteIdx => eeprom'[a] = eeprom[a]
    BY <1>1, <2>1 DEF WriteInv, WriteTypeOK
  <2>3. CleanPrefix'
    <3>1. SUFFICES ASSUME NEW a \in Addr
                   PROVE  /\ a < byteIdx => eeprom'[a] = image[a]
                          /\ a > byteIdx => eeprom'[a] = before[a]
                          /\ eeprom'[a] \in {before[a], image[a]}
      BY <1>1 DEF CleanPrefix
    <3>2. byteIdx \in Int
      BY <2>1 DEF Addr
    <3> QED
      BY <1>4, <2>2, <3>2 DEF WriteInv, CleanPrefix
  <2> QED
    BY <1>1, <1>2, <1>4, <2>1, <2>2, <2>3 DEF WriteInv, CleanChip, CleanSuccess, InHand
<1> QED
  BY <1>3, <1>4

\* Every step of the write and of the chip keeps the invariant.
LEMMA NextWriteInv == WriteInv /\ [Next]_vars => WriteInv'
<1> SUFFICES ASSUME WriteInv, [Next]_vars PROVE WriteInv'
  OBVIOUS
<1>1. CASE UNCHANGED vars
  BY <1>1 DEF WriteInv, WriteTypeOK, CleanChip, CleanPrefix, CleanSuccess, InHand,
              vars, eepromChip, registers, picture, polling
<1> QED
  BY <1>1, EnterEepromInv, SetAddressInv, StartWriteInv, PollInv, EndPollInv,
     DisableWritesInv, CompleteInv DEF Next, Program

\* Without failures the chip is never given another byte while it is writing.
LEMMA StepNoOverlap ==
  WriteInv /\ [Next]_vars => [~failed' /\ wr => UNCHANGED registers]_vars
<1> SUFFICES ASSUME WriteInv, Next, ~failed', wr PROVE UNCHANGED registers
  BY DEF vars, eepromChip
<1>1. CASE EnterEeprom \/ Poll \/ EndPoll
  BY <1>1 DEF EnterEeprom, Poll, EndPoll, eepromChip
<1>2. CASE Complete
  BY <1>2 DEF Complete, WriteEnds
<1>3. CASE SetAddress \/ StartWrite \/ DisableWrites
  <2>1. pc \in {"byte", "write"} /\ ~failed
    <3>1. failed' # TRUE
      OBVIOUS
    <3>2. pc \in {"byte", "write"} /\ failed' = failed
      BY <1>3, <3>1, Zenon DEF SetAddress, StartWrite, DisableWrites
    <3> QED
      BY <3>2
  <2> QED
    BY <2>1 DEF WriteInv, CleanChip
<1> QED
  BY <1>1, <1>2, <1>3 DEF Next, Program

-------------------------------------------------------------------------------

\* image_to_device_eeprom never leaves a byte before the chip has written it: as
\* long as no transfer fails, the bytes behind are the image's and those ahead
\* untouched, whatever the chip's speed.
THEOREM WritesInOrder == Spec => []CleanPrefix
<1>1. WriteInv => CleanPrefix
  BY DEF WriteInv
<1> QED
  BY <1>1, InitWriteInv, NextWriteInv, PTL DEF Spec

\* A call without failed transfers that returns 1 has written the whole image,
\* left the chip idle and disabled writes.
THEOREM CleanWriteIsComplete == Spec => []CleanSuccess
<1>1. WriteInv => CleanSuccess
  BY DEF WriteInv
<1> QED
  BY <1>1, InitWriteInv, NextWriteInv, PTL DEF Spec

\* Without failed transfers the registers are left alone while the chip writes,
\* even when the polls run out.
THEOREM NeverOverlaps == Spec => NoOverlap
BY StepNoOverlap, InitWriteInv, NextWriteInv, PTL DEF Spec, NoOverlap

-------------------------------------------------------------------------------

\* The types of the verification. It begins when the write has returned 1, and
\* says something only after the read of every byte.
ReadTypeOK ==
  /\ verifyImage \in [Addr -> Byte \cup {Blank, Garbage}]
  /\ readPc \in {"idle", "enter", "byte", "read", "done", "error"}
  /\ readIdx \in 0 .. EepromBytes
  /\ readPc \in {"idle", "enter"} => readIdx = 0
  /\ readPc = "read" => readIdx \in Addr
  /\ readPc = "done" => readIdx = EepromBytes
  /\ readPc # "idle" => pc = "done"
  /\ verified \in {"none", "success", "failed"}
  /\ verified # "none" => readPc = "done"

\* The bytes read so far are the device's, if the chip was idle when the read
\* began: it then stays so, and takes every address it is given.
BytesRead ==
  idleAtRead =>
    /\ readPc # "idle" /\ ~wr
    /\ readPc = "read" => eeadr = readIdx
    /\ readPc \in {"byte", "read", "done"} =>
         \A a \in Addr : a < readIdx => verifyImage[a] = eeprom[a]

\* A write without failed transfers leaves an idle chip for the read.
IdleAfterWrite == readPc # "idle" /\ ~failed => idleAtRead

\* The inductive invariant of the write and its verification.
VerifyInv ==
  WriteInv /\ ReadTypeOK /\ BytesRead /\ IdleAfterWrite /\ VerifiedMeansEeprom /\ NoFalseAlarm

LEMMA InitVerifyInv == VerifyInit => VerifyInv
<1> SUFFICES ASSUME VerifyInit PROVE VerifyInv
  OBVIOUS
<1>1. WriteInv
  BY InitWriteInv DEF VerifyInit
<1>2. ReadTypeOK
  BY EepromAssumption DEF VerifyInit, ReadTypeOK, Addr
<1> QED
  BY <1>1, <1>2 DEF VerifyInit, VerifyInv, BytesRead, IdleAfterWrite, VerifiedMeansEeprom, NoFalseAlarm

\* While the write runs there is nothing to verify yet.
LEMMA ProgramVerifyInv == VerifyInv /\ Program /\ UNCHANGED verification => VerifyInv'
<1> SUFFICES ASSUME VerifyInv, Program, UNCHANGED verification PROVE VerifyInv'
  OBVIOUS
<1>1. WriteInv'
  BY NextWriteInv DEF VerifyInv, Next
<1>2. pc # "done"
  BY DEF Program, EnterEeprom, SetAddress, StartWrite, Poll, EndPoll, DisableWrites
<1>3. readPc = "idle" /\ verified = "none" /\ ~idleAtRead
  BY <1>2 DEF VerifyInv, ReadTypeOK, BytesRead
<1>4. ReadTypeOK'
  BY <1>3 DEF VerifyInv, ReadTypeOK, verification
<1> QED
  BY <1>1, <1>3, <1>4
     DEF VerifyInv, BytesRead, IdleAfterWrite, VerifiedMeansEeprom, NoFalseAlarm, verification

LEMMA CompleteVerifyInv == VerifyInv /\ Complete /\ UNCHANGED verification => VerifyInv'
<1> SUFFICES ASSUME VerifyInv, Complete, UNCHANGED verification PROVE VerifyInv'
  OBVIOUS
<1>1. WriteInv'
  BY NextWriteInv DEF VerifyInv, Next
<1>2. wr /\ UNCHANGED <<pc, failed, image>>
  BY DEF Complete, WriteEnds, picture
<1>3. ~idleAtRead
  BY <1>2 DEF VerifyInv, BytesRead
<1>4. ReadTypeOK'
  BY <1>2 DEF VerifyInv, ReadTypeOK, verification
<1> QED
  BY <1>1, <1>2, <1>3, <1>4
     DEF VerifyInv, BytesRead, IdleAfterWrite, VerifiedMeansEeprom, NoFalseAlarm, verification

LEMMA BeginReadInv == VerifyInv /\ BeginRead => VerifyInv'
<1> SUFFICES ASSUME VerifyInv, BeginRead PROVE VerifyInv'
  OBVIOUS
<1>1. /\ pc = "done" /\ readPc = "idle" /\ readPc' = "enter" /\ readIdx = 0
      /\ verified = "none"
      /\ UNCHANGED <<vars, verifyImage, readIdx, verified>>
  BY DEF BeginRead, VerifyInv, ReadTypeOK
<1>2. UNCHANGED <<eeprom, eeadr, eedata, wren, wr, image, before, pc, byteIdx, writeComplete, failed>>
  BY <1>1 DEF vars, eepromChip, registers, picture, polling
<1>3. WriteInv'
  BY <1>1, NextWriteInv DEF VerifyInv
<1>4. ReadTypeOK'
  BY <1>1, <1>2 DEF VerifyInv, ReadTypeOK
<1>5. ~failed => ~wr
  BY <1>1 DEF VerifyInv, WriteInv, CleanChip
<1>6. idleAtRead' = ~wr
  BY DEF BeginRead
<1>7. BytesRead' /\ IdleAfterWrite'
  BY <1>1, <1>2, <1>5, <1>6 DEF BytesRead, IdleAfterWrite
<1> QED
  BY <1>1, <1>2, <1>3, <1>4, <1>7 DEF VerifyInv, VerifiedMeansEeprom, NoFalseAlarm

\* The read moves the address and the data, of which a write that is over
\* promises nothing.
LEMMA ReadKeepsWriteInv == VerifyInv /\ ReadStep => WriteInv'
<1> SUFFICES ASSUME VerifyInv, ReadStep PROVE WriteInv'
  OBVIOUS
<1>1. /\ UNCHANGED <<eeprom, wren, wr, image, before, pc, byteIdx, writeComplete, failed>>
      /\ pc = "done"
  BY DEF ReadStep, Read!Next, Read!EnterEeprom, Read!SetAddress, Read!ReadByte, Read!Return,
         Read!eepromChip, Read!registers, picture, polling, VerifyInv, ReadTypeOK
<1>2. eedata' \in Byte /\ (EepromBytes > 0 => eeadr' \in Addr)
  <2>1. CASE Read!EnterEeprom \/ Read!Return
    BY <2>1 DEF Read!EnterEeprom, Read!Return, Read!eepromChip, Read!registers,
                VerifyInv, WriteInv, WriteTypeOK
  <2>2. CASE Read!SetAddress
    <3>1. readIdx \in Addr
      BY <2>2, EepromAssumption DEF Read!SetAddress, VerifyInv, ReadTypeOK, Addr
    <3>2. eeadr' \in AddressSet(readIdx) \cup AddressPartlySet(readIdx) /\ eedata' = eedata
      BY <2>2 DEF Read!SetAddress, Read!AddressOf, Read!AddressSet, Read!AddressPartlySet,
                  Read!Loaded, Read!LowLoaded, AddressSet, AddressPartlySet, Loaded, LowLoaded
    <3>3. EepromBytes > 0 => eeadr \in Addr
      BY DEF VerifyInv, WriteInv, WriteTypeOK
    <3> QED
      BY <3>1, <3>2, <3>3, AddressInMemory DEF VerifyInv, WriteInv, WriteTypeOK
  <2>3. CASE Read!ReadByte
    <3>1. readIdx \in Addr /\ eeadr \in Addr
      BY <2>3, EepromAssumption DEF Read!ReadByte, VerifyInv, ReadTypeOK, WriteInv, WriteTypeOK, Addr
    <3>2. eedata \in Byte /\ eeprom[eeadr] \in Byte
      BY <3>1 DEF VerifyInv, WriteInv, WriteTypeOK
    <3>3. eedata' \in {eedata, eeprom[eeadr]} /\ eeadr' = eeadr
      BY <2>3 DEF Read!ReadByte, Read!Fetched, Read!Loaded
    <3> QED
      BY <3>1, <3>2, <3>3
  <2> QED
    BY <2>1, <2>2, <2>3 DEF ReadStep, Read!Next
<1>3. WriteTypeOK'
  BY <1>1, <1>2 DEF VerifyInv, WriteInv, WriteTypeOK
<1>4. ~failed => ~wr
  BY <1>1 DEF VerifyInv, WriteInv, CleanChip
<1> QED
  BY <1>1, <1>3, <1>4 DEF VerifyInv, WriteInv, CleanChip, CleanPrefix, CleanSuccess, InHand

LEMMA ReadStepInv == VerifyInv /\ ReadStep => VerifyInv'
<1> SUFFICES ASSUME VerifyInv, ReadStep PROVE VerifyInv'
  OBVIOUS
<1>1. WriteInv'
  BY ReadKeepsWriteInv
<1>2. /\ UNCHANGED <<eeprom, wr, image, pc, failed, verified, idleAtRead>>
      /\ readPc \notin {"idle", "done", "error"}
      /\ readPc' # "idle"
  BY DEF ReadStep, Read!Next, Read!EnterEeprom, Read!SetAddress, Read!ReadByte, Read!Return,
         Read!eepromChip, Read!registers, picture
<1>3. pc = "done" /\ verified = "none"
  BY <1>2 DEF VerifyInv, ReadTypeOK
<1>4. readIdx \in Nat /\ readIdx <= EepromBytes /\ EepromBytes \in Nat
  BY EepromAssumption DEF VerifyInv, ReadTypeOK
<1>5. IdleAfterWrite' /\ VerifiedMeansEeprom' /\ NoFalseAlarm'
  BY <1>2, <1>3 DEF VerifyInv, IdleAfterWrite, VerifiedMeansEeprom, NoFalseAlarm
<1>6. CASE Read!EnterEeprom
  <2>1. UNCHANGED <<verifyImage, readIdx>> /\ readPc = "enter" /\ readPc' \in {"byte", "error"}
    BY <1>6 DEF Read!EnterEeprom
  <2>2. ReadTypeOK'
    BY <1>2, <1>3, <2>1 DEF VerifyInv, ReadTypeOK
  <2>3. \A a \in Addr : ~(a < readIdx)
    BY <2>1 DEF VerifyInv, ReadTypeOK, Addr
  <2>4. BytesRead'
    BY <1>2, <2>1, <2>3 DEF VerifyInv, BytesRead
  <2> QED
    BY <1>1, <1>5, <2>2, <2>4 DEF VerifyInv
<1>7. CASE Read!SetAddress
  <2>1. /\ UNCHANGED <<verifyImage, readIdx>> /\ readPc = "byte" /\ readIdx \in Addr
        /\ readPc' \in {"read", "error"}
        /\ readPc' = "read" => eeadr' \in AddressSet(readIdx)
    BY <1>4, <1>7 DEF Read!SetAddress, Read!AddressOf, Read!AddressSet, Read!Loaded, Read!LowLoaded,
                      AddressSet, Loaded, LowLoaded, Addr
  <2>2. ReadTypeOK'
    BY <1>2, <1>3, <2>1 DEF VerifyInv, ReadTypeOK
  <2>3. ~wr /\ readPc' = "read" => eeadr' = readIdx
    BY <2>1, IdleChipLoads
  <2>4. BytesRead'
    BY <1>2, <2>1, <2>3 DEF VerifyInv, BytesRead
  <2> QED
    BY <1>1, <1>5, <2>2, <2>4 DEF VerifyInv
<1>8. CASE Read!ReadByte /\ readPc' = "byte"
  <2>1. /\ readPc = "read" /\ readIdx \in Addr /\ readIdx' = readIdx + 1
        /\ eedata' \in Read!Fetched
        /\ verifyImage' = [verifyImage EXCEPT ![readIdx] = eedata']
    BY <1>8 DEF Read!ReadByte, VerifyInv, ReadTypeOK
  <2>2. eedata' \in Byte
    BY <1>1 DEF WriteInv, WriteTypeOK
  <2>3. verifyImage' \in [Addr -> Byte \cup {Blank, Garbage}]
    BY <2>1, <2>2 DEF VerifyInv, ReadTypeOK
  <2>4. readIdx' \in 0 .. EepromBytes
    BY <1>4, <2>1 DEF Addr
  <2>5. ReadTypeOK'
    BY <1>2, <1>3, <1>8, <2>3, <2>4 DEF VerifyInv, ReadTypeOK
  <2>6. ASSUME idleAtRead, NEW a \in Addr, a < readIdx + 1
        PROVE  verifyImage'[a] = eeprom[a]
    <3>1. eedata' = eeprom[readIdx]
      BY <2>1, <2>6 DEF VerifyInv, BytesRead, Read!Fetched, Read!Loaded
    <3>2. a < readIdx \/ a = readIdx
      BY <1>4, <2>6 DEF Addr
    <3>3. verifyImage'[a] = IF a = readIdx THEN eedata' ELSE verifyImage[a]
      BY <2>1 DEF VerifyInv, ReadTypeOK
    <3> QED
      BY <2>1, <2>6, <3>1, <3>2, <3>3 DEF VerifyInv, BytesRead
  <2>7. BytesRead'
    BY <1>2, <1>8, <2>1, <2>6 DEF VerifyInv, BytesRead
  <2> QED
    BY <1>1, <1>5, <2>5, <2>7 DEF VerifyInv
<1>9. CASE Read!ReadByte /\ readPc' # "byte"
  <2>1. /\ readPc' = "error" /\ readIdx' = readIdx
        /\ verifyImage' \in {verifyImage, [verifyImage EXCEPT ![readIdx] = Garbage]}
    BY <1>9 DEF Read!ReadByte
  <2>2. ReadTypeOK'
    BY <1>2, <1>3, <2>1 DEF VerifyInv, ReadTypeOK
  <2>3. BytesRead'
    BY <1>2, <2>1 DEF VerifyInv, BytesRead
  <2> QED
    BY <1>1, <1>5, <2>2, <2>3 DEF VerifyInv
<1>10. CASE Read!Return
  <2>1. /\ UNCHANGED <<verifyImage, readIdx>> /\ readPc = "byte" /\ readPc' = "done"
        /\ readIdx = EepromBytes
    BY <1>4, <1>10 DEF Read!Return
  <2>2. ReadTypeOK'
    BY <1>2, <1>3, <2>1 DEF VerifyInv, ReadTypeOK
  <2>3. BytesRead'
    BY <1>2, <2>1 DEF VerifyInv, BytesRead
  <2> QED
    BY <1>1, <1>5, <2>2, <2>3 DEF VerifyInv
<1> QED
  BY <1>6, <1>7, <1>8, <1>9, <1>10 DEF ReadStep, Read!Next

\* The verdict: the two images agree, and the second is the device's.
LEMMA CompareInv == VerifyInv /\ Compare => VerifyInv'
<1> SUFFICES ASSUME VerifyInv, Compare PROVE VerifyInv'
  OBVIOUS
<1>1. /\ readPc = "done" /\ pc = "done"
      /\ verified' = IF image = verifyImage THEN "success" ELSE "failed"
      /\ UNCHANGED <<vars, verifyImage, readPc, readIdx, idleAtRead>>
  BY DEF Compare, Matches, VerifyInv, ReadTypeOK
<1>2. UNCHANGED <<eeprom, eeadr, wr, image, pc, failed>>
  BY <1>1 DEF vars, eepromChip, registers, picture
<1>3. WriteInv'
  BY <1>1, NextWriteInv DEF VerifyInv
<1>4. ReadTypeOK'
  BY <1>1, <1>2 DEF VerifyInv, ReadTypeOK
<1>5. BytesRead' /\ IdleAfterWrite'
  BY <1>1, <1>2 DEF VerifyInv, BytesRead, IdleAfterWrite
<1>6. idleAtRead => verifyImage = eeprom
  <2>1. readIdx = EepromBytes /\ \A a \in Addr : a < readIdx
    BY <1>1, EepromAssumption DEF VerifyInv, ReadTypeOK, Addr
  <2>2. idleAtRead => \A a \in Addr : verifyImage[a] = eeprom[a]
    BY <1>1, <2>1 DEF VerifyInv, BytesRead
  <2> QED
    BY <2>2 DEF VerifyInv, ReadTypeOK, WriteInv, WriteTypeOK
<1>7. VerifiedMeansEeprom'
  BY <1>1, <1>2, <1>6 DEF VerifiedMeansEeprom
<1>8. ~failed => image = verifyImage
  BY <1>1, <1>6 DEF VerifyInv, IdleAfterWrite, WriteInv, CleanSuccess
<1>9. NoFalseAlarm'
  BY <1>1, <1>2, <1>8 DEF NoFalseAlarm
<1> QED
  BY <1>3, <1>4, <1>5, <1>7, <1>9 DEF VerifyInv

LEMMA NextVerifyInv == VerifyInv /\ [VerifyNext]_verifyVars => VerifyInv'
<1> SUFFICES ASSUME VerifyInv, [VerifyNext]_verifyVars PROVE VerifyInv'
  OBVIOUS
<1>1. CASE UNCHANGED verifyVars
  <2>1. WriteInv'
    BY <1>1, NextWriteInv DEF VerifyInv, verifyVars
  <2>2. UNCHANGED <<eeprom, eeadr, wr, image, pc, failed, verification>>
    BY <1>1 DEF verifyVars, vars, eepromChip, registers, picture
  <2> QED
    BY <2>1, <2>2 DEF VerifyInv, ReadTypeOK, BytesRead, IdleAfterWrite, VerifiedMeansEeprom,
                      NoFalseAlarm, verification
<1> QED
  BY <1>1, ProgramVerifyInv, CompleteVerifyInv, BeginReadInv, ReadStepInv, CompareInv
     DEF VerifyNext, VerifyProgram

-------------------------------------------------------------------------------

\* A verification that says success means that the EEPROM is the image's, after
\* any number of failed and forgiven transfers of the write, if the chip was idle
\* when the read began.
THEOREM VerificationIsRight == VerifySpec => []VerifiedMeansEeprom
<1>1. VerifyInv => VerifiedMeansEeprom
  BY DEF VerifyInv
<1> QED
  BY <1>1, InitVerifyInv, NextVerifyInv, PTL DEF VerifySpec

\* A verification says failed only of a write in which a transfer has failed.
THEOREM NoVerificationWithoutCause == VerifySpec => []NoFalseAlarm
<1>1. VerifyInv => NoFalseAlarm
  BY DEF VerifyInv
<1> QED
  BY <1>1, InitVerifyInv, NextVerifyInv, PTL DEF VerifySpec

\* What the write promises holds while its result is read back, too: in the
\* specification that the runs check.
THEOREM WritePromisesHold == VerifySpec => [](CleanPrefix /\ CleanSuccess) /\ NoOverlap
<1>1. VerifyInv => CleanPrefix /\ CleanSuccess
  BY DEF VerifyInv, WriteInv
<1>2. VerifyInv /\ [VerifyNext]_verifyVars => [~failed' /\ wr => UNCHANGED registers]_vars
  <2> SUFFICES ASSUME VerifyInv, [VerifyNext]_verifyVars
               PROVE  [~failed' /\ wr => UNCHANGED registers]_vars
    OBVIOUS
  <2>1. CASE Program \/ Complete \/ UNCHANGED vars
    BY <2>1, StepNoOverlap DEF VerifyInv, Next
  <2>2. CASE ReadStep
    <3>1. pc = "done" /\ failed' = failed
      BY <2>2 DEF ReadStep, Read!Next, Read!EnterEeprom, Read!SetAddress, Read!ReadByte,
                  Read!Return, VerifyInv, ReadTypeOK
    <3>2. ~(~failed' /\ wr)
      BY <3>1 DEF VerifyInv, WriteInv, CleanChip
    <3> QED
      BY <3>2
  <2> QED
    BY <2>1, <2>2 DEF VerifyNext, VerifyProgram, BeginRead, Compare, verifyVars
<1> QED
  BY <1>1, <1>2, InitVerifyInv, NextVerifyInv, PTL DEF VerifySpec, NoOverlap
===============================================================================
