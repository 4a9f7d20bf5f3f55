---------------------------- MODULE ImageReadProofs ----------------------------
(***************************************************************************)
(* ProgramRead and ImageRead are correct for every memory, every size that *)
(* is read and every buffer: what the read of the program says and stores, *)
(* and that a listing shows the device.                                    *)
(***************************************************************************)
EXTENDS ImageRead, TLAPS

\* The other byte of a program word.
Swapped(a) == IF a % 2 = 0 THEN a + 1 ELSE a - 1

\* The types of the loop over the words. Of the bytes nothing need be known but
\* where they are.
ProgramTypeOK ==
  /\ contentsSize \in Nat /\ maxContents \in Nat
  /\ contents = [a \in Heap |-> contents[a]]
  /\ pc \in {"start", "word", "done", "error"}
  /\ totalWords \in Nat /\ wordsLeft \in 0 .. totalWords
  /\ shown \in Nat

\* The loop is entered when there is room for the bytes, and left with no word
\* to go. TBLPTR moves with the position in the buffer.
LoopInv ==
  /\ pc = "start" => shown = 0
  /\ pc \in {"word", "done"} => totalWords = Words(contentsSize) /\ contentsSize <= maxContents
  /\ pc = "word" => tblptr = Position /\ shown <= Position /\ (shown = 0 \/ shown < contentsSize)
  /\ pc = "done" => wordsLeft = 0

\* Whatever has been read is the device's, word by word.
WordsRead ==
  pc \in {"word", "done"} => \A a \in 0 .. Position - 1 : contents[a] = ByteAt(Swapped(a))

\* The inductive invariant of lpp_read_device_program_to_image.
ProgramInv == ProgramTypeOK /\ LoopInv /\ WordsRead /\ StaysInBuffer

\* A number of bytes takes as many words, the last of which may have one to spare.
LEMMA WordsOf ==
  ASSUME NEW n \in Nat
  PROVE  /\ Words(n) \in Nat
         /\ n % 2 = 0 => 2 * Words(n) = n
         /\ n % 2 # 0 => 2 * Words(n) = n + 1
         /\ n <= 2 * Words(n) /\ 2 * Words(n) <= n + 1
<1> DEFINE q == n \div 2
           r == n % 2
<1>1. q \in Nat /\ r \in {0, 1} /\ n = 2 * q + r
  OBVIOUS
<1>2. Words(n) = q + r
  BY DEF Words
<1> HIDE DEF q
<1> QED
  BY <1>1, <1>2

\* The position of the word at hand, and the two bytes a word goes to.
LEMMA PositionInBuffer ==
  ASSUME ProgramTypeOK, LoopInv, pc = "word", wordsLeft > 0
  PROVE  /\ Position \in Nat /\ Position % 2 = 0
         /\ Position < contentsSize /\ Position + 1 <= contentsSize
         /\ contentsSize % 2 = 0 => Position + 1 < contentsSize
         /\ Position \in Heap /\ Position + 1 \in Heap
<1> DEFINE k == totalWords - wordsLeft
<1>1. k \in Nat /\ k + 1 <= totalWords /\ Position = 2 * k
  BY DEF ProgramTypeOK, Position
<1>2. contentsSize \in Nat /\ maxContents \in Nat /\ contentsSize <= maxContents
      /\ totalWords = Words(contentsSize)
  BY DEF ProgramTypeOK, LoopInv
<1>3. 2 * totalWords <= contentsSize + 1 /\ (contentsSize % 2 = 0 => 2 * totalWords = contentsSize)
  BY <1>2, WordsOf
<1>4. totalWords \in Nat
  BY DEF ProgramTypeOK
<1> HIDE DEF k
<1>5. (2 * k) % 2 = 0
  BY <1>1
<1>6. Position + 2 <= contentsSize + 1
  BY <1>1, <1>2, <1>3, <1>4
<1>7. contentsSize % 2 = 0 => Position + 2 <= contentsSize
  BY <1>1, <1>2, <1>3, <1>4
<1> QED
  BY <1>1, <1>2, <1>5, <1>6, <1>7 DEF Heap

LEMMA InitProgramInv == Init => ProgramInv
<1> SUFFICES ASSUME Init PROVE ProgramInv
  OBVIOUS
<1>1. ProgramTypeOK
  BY ReadAssumption DEF Init, ProgramTypeOK, Heap
<1>2. \A a \in Heap : contents[a] = Blank
  BY DEF Init, Heap
<1> QED
  BY <1>1, <1>2 DEF Init, ProgramInv, LoopInv, WordsRead, StaysInBuffer

LEMMA StartInv == ProgramInv /\ Start => ProgramInv'
<1> SUFFICES ASSUME ProgramInv, Start PROVE ProgramInv'
  OBVIOUS
<1>1. /\ UNCHANGED <<flash, maxContents, contents, contentsSize, shown>>
      /\ contentsSize \in Nat /\ maxContents \in Nat /\ shown = 0
  BY DEF Start, ProgramInv, ProgramTypeOK, LoopInv
<1>2. CASE contentsSize <= maxContents
  <2>1. /\ totalWords' = Words(contentsSize) /\ wordsLeft' = totalWords'
        /\ pc' \in {"word", "error"} /\ (pc' = "word" => tblptr' = 0)
    BY <1>2 DEF Start, HasRoom
  <2>2. totalWords' \in Nat /\ Position' = 0
    BY <1>1, <2>1, WordsOf DEF Position
  <2>3. ProgramTypeOK'
    BY <1>1, <2>1, <2>2 DEF ProgramInv, ProgramTypeOK, Heap
  <2>4. LoopInv'
    BY <1>1, <1>2, <2>1, <2>2 DEF LoopInv, Words
  <2>5. WordsRead'
    BY <2>2 DEF WordsRead
  <2> QED
    BY <1>1, <2>3, <2>4, <2>5 DEF ProgramInv, StaysInBuffer, Heap
<1>3. CASE ~(contentsSize <= maxContents)
  <2>1. pc' = "error" /\ UNCHANGED <<totalWords, wordsLeft>>
    BY <1>3 DEF Start, HasRoom
  <2> QED
    BY <1>1, <2>1 DEF ProgramInv, ProgramTypeOK, LoopInv, WordsRead, StaysInBuffer, Heap
<1> QED
  BY <1>2, <1>3

\* Storing a word changes the two bytes at the position, and nothing behind the
\* buffer unless an odd size fills it.
LEMMA StoredInPlace ==
  ASSUME ProgramInv, pc = "word", wordsLeft > 0, NEW lsb, NEW msb,
         contents' = Stored(lsb, msb), UNCHANGED <<maxContents, contentsSize>>
  PROVE  /\ contents' = [a \in Heap |-> contents'[a]]
         /\ \A a \in Heap : contents'[a] = IF a = Position THEN msb
                                           ELSE IF a = Position + 1 THEN lsb
                                           ELSE contents[a]
         /\ StaysInBuffer'
<1>1. /\ Position \in Nat /\ Position < contentsSize /\ Position + 1 <= contentsSize
      /\ contentsSize % 2 = 0 => Position + 1 < contentsSize
      /\ Position \in Heap /\ Position + 1 \in Heap
  BY PositionInBuffer DEF ProgramInv
<1>2. contents = [a \in Heap |-> contents[a]] /\ contentsSize \in Nat /\ maxContents \in Nat
      /\ contentsSize <= maxContents
  BY DEF ProgramInv, ProgramTypeOK, LoopInv
<1>3. Position # Position + 1
  BY <1>1
<1>4. contents' = [[contents EXCEPT ![Position] = msb] EXCEPT ![Position + 1] = lsb]
  BY DEF Stored
<1>5. contents' = [a \in Heap |-> IF a = Position + 1 THEN lsb
                                  ELSE IF a = Position THEN msb ELSE contents[a]]
  BY <1>1, <1>2, <1>4
<1>6. \A a \in Heap : contents'[a] = IF a = Position THEN msb
                                     ELSE IF a = Position + 1 THEN lsb
                                     ELSE contents[a]
  BY <1>3, <1>5
<1>7. StaysInBuffer'
  <2>1. SUFFICES ASSUME contentsSize < maxContents \/ maxContents % 2 = 0,
                        NEW a \in Heap, a >= maxContents
                 PROVE  contents'[a] = Blank
    BY DEF StaysInBuffer, Heap
  <2>2. Position < maxContents /\ Position + 1 < maxContents
    BY <1>1, <1>2, <2>1
  <2>3. a # Position /\ a # Position + 1
    BY <1>1, <1>2, <2>1, <2>2 DEF Heap
  <2> QED
    BY <1>6, <2>1, <2>3 DEF ProgramInv, StaysInBuffer
<1> QED
  BY <1>5, <1>6, <1>7

LEMMA ReadWordInv == ProgramInv /\ ReadWord => ProgramInv'
<1> SUFFICES ASSUME ProgramInv, ReadWord PROVE ProgramInv'
  OBVIOUS
<1>1. /\ pc = "word" /\ wordsLeft > 0 /\ wordsLeft' = wordsLeft - 1
      /\ UNCHANGED <<flash, maxContents, contentsSize, totalWords>>
  BY DEF ReadWord
<1>2. totalWords \in Nat /\ wordsLeft \in Nat /\ wordsLeft <= totalWords /\ shown \in Nat
  BY DEF ProgramInv, ProgramTypeOK
<1>3. totalWords' \in Nat /\ wordsLeft' \in 0 .. totalWords' /\ Position' = Position + 2
  BY <1>1, <1>2 DEF Position
<1>4. Position \in Nat /\ Position % 2 = 0 /\ Position < contentsSize
  BY <1>1, PositionInBuffer DEF ProgramInv
<1>5. PICK lsb, msb : contents' = Stored(lsb, msb)
  BY DEF ReadWord
<1>6. /\ contents' = [a \in Heap |-> contents'[a]]
      /\ \A a \in Heap : contents'[a] = IF a = Position THEN msb
                                        ELSE IF a = Position + 1 THEN lsb
                                        ELSE contents[a]
      /\ StaysInBuffer'
  BY <1>1, <1>5, StoredInPlace
<1>7. pc' \in {"word", "error"} /\ shown' \in {shown, Position}
  BY <1>1 DEF ReadWord
<1>8. ProgramTypeOK'
  BY <1>1, <1>2, <1>3, <1>4, <1>6, <1>7 DEF ProgramInv, ProgramTypeOK, Heap
<1>9. CASE pc' = "error"
  BY <1>6, <1>8, <1>9 DEF ProgramInv, LoopInv, WordsRead
<1>10. CASE pc' # "error"
  <2>1. /\ pc' = "word" /\ tblptr' = tblptr + 2 /\ shown' = Position
        /\ contents' = Stored(ByteAt(tblptr), ByteAt(tblptr + 1))
    BY <1>1, <1>10 DEF ReadWord
  <2>2. /\ tblptr = Position /\ totalWords = Words(contentsSize) /\ contentsSize <= maxContents
    BY <1>1 DEF ProgramInv, LoopInv
  <2>3. LoopInv'
    BY <1>1, <1>3, <1>4, <2>1, <2>2 DEF LoopInv, Words
  <2>4. \A a \in Heap : contents'[a] = IF a = Position THEN ByteAt(tblptr + 1)
                                       ELSE IF a = Position + 1 THEN ByteAt(tblptr)
                                       ELSE contents[a]
    BY <1>1, <2>1, StoredInPlace
  <2>5. ASSUME NEW a \in 0 .. Position + 1
        PROVE  contents'[a] = ByteAt(Swapped(a))
    <3>1. a \in Heap
      <4>1. Position + 1 \in Heap /\ maxContents \in Nat
        BY <1>1, PositionInBuffer DEF ProgramInv, ProgramTypeOK
      <4> QED
        BY <1>4, <4>1 DEF Heap
    <3>2. CASE a = Position
      <4>1. Swapped(a) = tblptr + 1
        BY <1>4, <2>2, <3>2 DEF Swapped
      <4> QED
        BY <2>4, <3>1, <3>2, <4>1
    <3>3. CASE a = Position + 1
      <4>1. Swapped(a) = tblptr /\ a # Position
        BY <1>4, <2>2, <3>3 DEF Swapped
      <4> QED
        BY <2>4, <3>1, <3>3, <4>1
    <3>4. CASE a # Position /\ a # Position + 1
      <4>1. a \in 0 .. Position - 1
        BY <1>4, <3>4
      <4>2. contents[a] = ByteAt(Swapped(a))
        BY <1>1, <4>1 DEF ProgramInv, WordsRead
      <4> QED
        BY <2>4, <3>1, <3>4, <4>2
    <3> QED
      BY <3>2, <3>3, <3>4
  <2>6. WordsRead'
    <3>1. 0 .. Position' - 1 = 0 .. Position + 1
      BY <1>3, <1>4
    <3> QED
      BY <1>1, <2>5, <3>1 DEF WordsRead, ByteAt, Swapped
  <2> QED
    BY <1>6, <1>8, <2>3, <2>6 DEF ProgramInv
<1> QED
  BY <1>9, <1>10

LEMMA FinishInv == ProgramInv /\ Finish => ProgramInv'
<1> SUFFICES ASSUME ProgramInv, Finish PROVE ProgramInv'
  OBVIOUS
<1>1. /\ pc = "word" /\ pc' = "done" /\ wordsLeft = 0 /\ shown' = contentsSize
      /\ UNCHANGED <<flash, maxContents, contents, contentsSize, totalWords, wordsLeft>>
  BY DEF Finish
<1> QED
  BY <1>1 DEF ProgramInv, ProgramTypeOK, LoopInv, WordsRead, StaysInBuffer, Position, Heap, ByteAt,
              Words

\* Every step of the read keeps the invariant, and so does what happens once the
\* read is over, when TBLPTR is another's.
LEMMA NextProgramInv == ProgramInv /\ [Next]_vars => ProgramInv'
<1> SUFFICES ASSUME ProgramInv, [Next]_vars PROVE ProgramInv'
  OBVIOUS
<1>1. CASE UNCHANGED vars
  BY <1>1 DEF vars, ProgramInv, ProgramTypeOK, LoopInv, WordsRead, StaysInBuffer, Position, Heap,
              ByteAt
<1> QED
  BY <1>1, StartInv, ReadWordInv, FinishInv DEF Next

LEMMA AfterProgramInv == ProgramInv /\ pc = "done" /\ UNCHANGED programVars => ProgramInv'
BY DEF programVars, ProgramInv, ProgramTypeOK, LoopInv, WordsRead, StaysInBuffer, Position, Heap,
       ByteAt

\* When the loop has run to its end, every byte has been read.
LEMMA AllWordsRead == ProgramInv => DoneMeansRead
<1> SUFFICES ASSUME ProgramInv, pc = "done", NEW a \in 0 .. contentsSize - 1
             PROVE  contents[a] = ByteAt(Swapped(a))
  BY DEF DoneMeansRead, Swapped
<1>1. Position = 2 * Words(contentsSize) /\ contentsSize \in Nat
  BY WordsOf DEF ProgramInv, ProgramTypeOK, LoopInv, Position
<1>2. a \in 0 .. Position - 1
  BY <1>1, WordsOf
<1> QED
  BY <1>2 DEF ProgramInv, WordsRead

\* No word's progress is that of the whole, and none is behind the one before.
LEMMA StepProgressIsHonest ==
  ProgramInv /\ [Next]_vars =>
    [shown' >= shown /\ (shown' = contentsSize => pc' = "done" \/ shown = shown')]_vars
<1> SUFFICES ASSUME ProgramInv, Next
             PROVE  shown' >= shown /\ (shown' = contentsSize => pc' = "done" \/ shown = shown')
  OBVIOUS
<1>1. shown \in Nat /\ contentsSize \in Nat
  BY DEF ProgramInv, ProgramTypeOK
<1>2. CASE Start
  BY <1>1, <1>2 DEF Start
<1>3. CASE ReadWord
  <2>1. pc = "word" /\ wordsLeft > 0 /\ shown' \in {shown, Position}
    BY <1>3 DEF ReadWord
  <2>2. Position \in Nat /\ Position < contentsSize /\ shown <= Position
    BY <2>1, PositionInBuffer DEF ProgramInv, LoopInv
  <2> QED
    BY <1>1, <2>1, <2>2
<1>4. CASE Finish
  <2>1. pc' = "done" /\ shown' = contentsSize /\ (shown = 0 \/ shown < contentsSize)
    BY <1>4 DEF Finish, ProgramInv, LoopInv
  <2> QED
    BY <1>1, <2>1
<1> QED
  BY <1>2, <1>3, <1>4 DEF Next

-------------------------------------------------------------------------------

\* The configuration bytes behind the current one have been read, and TBLPTR is
\* at the current one. A byte is valid once its turn is over.
ConfigInv ==
  /\ configMemory \in [Config!ConfigIdx -> Byte]
  /\ config = [i \in Config!ConfigIdx |-> config[i]]
  /\ configPc \in {"enter", "byte", "done", "error"}
  /\ configPc # "enter" => pc = "done"
  /\ configIdx \in 0 .. ConfigBytes
  /\ configPc = "enter" => configIdx = 0
  /\ configPc = "byte" => tblptr = ConfigAddress + configIdx
  /\ configPc = "done" => configIdx = ConfigBytes
  /\ configValid = 0 .. configIdx - 1
  /\ configPc \in {"byte", "done"} =>
       \A i \in Config!ConfigIdx : i < configIdx => config[i] = configMemory[i]

\* The same of the EEPROM, where no write is in progress.
EepromInv ==
  /\ eeprom \in [Eeprom!Addr -> Byte]
  /\ eepromImage = [a \in Eeprom!Addr |-> eepromImage[a]]
  /\ ~wr
  /\ eepromPc \in {"enter", "byte", "read", "done", "error"}
  /\ eepromPc # "enter" => configPc = "done"
  /\ eepromIdx \in 0 .. EepromBytes
  /\ eepromPc = "enter" => eepromIdx = 0
  /\ eepromPc = "read" => eepromIdx \in Eeprom!Addr /\ eeadr = eepromIdx
  /\ eepromPc = "done" => eepromIdx = EepromBytes
  /\ eepromPc \in {"byte", "read", "done"} =>
       \A a \in Eeprom!Addr : a < eepromIdx => eepromImage[a] = eeprom[a]

\* The image is printed when all three parts have been read, and nothing is read
\* after it.
ListingInv == printed # {} => eepromPc = "done" /\ printed = {Listing}

ImageInv == ProgramInv /\ ConfigInv /\ EepromInv /\ ListingInv

LEMMA PartSizes == ConfigAddress \in Nat /\ ConfigBytes \in Nat /\ EepromBytes \in Nat
BY PartsAssumption

LEMMA InitImageInv == ImageInit => ImageInv
<1> SUFFICES ASSUME ImageInit PROVE ImageInv
  OBVIOUS
<1>1. ProgramInv
  BY InitProgramInv DEF ImageInit
<1>2. ConfigInv
  BY PartSizes DEF ImageInit, ConfigInv, Config!ConfigIdx
<1>3. EepromInv
  BY PartSizes DEF ImageInit, EepromInv, Eeprom!ChipInit, Eeprom!Addr
<1>4. ListingInv
  BY DEF ImageInit, ListingInv
<1> QED
  BY <1>1, <1>2, <1>3, <1>4 DEF ImageInv

LEMMA ProgramStepInv == ImageInv /\ ProgramStep => ImageInv'
<1> SUFFICES ASSUME ImageInv, ProgramStep PROVE ImageInv'
  OBVIOUS
<1>1. ProgramInv'
  BY NextProgramInv DEF ImageInv, ProgramStep
<1>2. pc # "done" /\ UNCHANGED <<configVars, eepromVars, printed>>
  BY DEF ProgramStep, Next, Start, ReadWord, Finish
<1>3. configPc = "enter" /\ eepromPc = "enter" /\ printed = {}
  BY <1>2 DEF ImageInv, ConfigInv, EepromInv, ListingInv
<1>4. UNCHANGED <<configMemory, config, configValid, configPc, configIdx>>
  BY <1>2 DEF configVars
<1>5. UNCHANGED <<eeprom, eeadr, wr, eepromImage, eepromPc, eepromIdx>>
  BY <1>2 DEF eepromVars
<1>6. ConfigInv'
  BY <1>3, <1>4 DEF ImageInv, ConfigInv, Config!ConfigIdx
<1>7. EepromInv'
  BY <1>3, <1>4, <1>5 DEF ImageInv, EepromInv, Eeprom!Addr
<1>8. ListingInv'
  BY <1>2, <1>3 DEF ListingInv
<1> QED
  BY <1>1, <1>6, <1>7, <1>8 DEF ImageInv

LEMMA ConfigStepInv == ImageInv /\ ConfigStep => ImageInv'
<1> SUFFICES ASSUME ImageInv, ConfigStep PROVE ImageInv'
  OBVIOUS
<1>1. /\ pc = "done" /\ Config!Next /\ UNCHANGED <<programVars, eepromVars, printed>>
  BY DEF ConfigStep, PartSucceeded
<1>2. ProgramInv'
  BY <1>1, AfterProgramInv DEF ImageInv
<1>3. /\ configPc \in {"enter", "byte"} /\ configMemory' = configMemory
      /\ configPc' \in {"byte", "done", "error"}
  BY <1>1 DEF Config!Next, Config!SetAddress, Config!ReadByte, Config!Return, ImageInv, ConfigInv
<1>4. eepromPc = "enter" /\ printed = {} /\ pc' = "done"
  BY <1>1, <1>3 DEF ImageInv, EepromInv, ListingInv, programVars
<1>5. EepromInv' /\ ListingInv'
  BY <1>1, <1>4 DEF ImageInv, EepromInv, ListingInv, eepromVars, Eeprom!Addr
<1>6. configIdx \in Nat /\ configIdx <= ConfigBytes
  BY PartSizes DEF ImageInv, ConfigInv
<1>7. CASE Config!SetAddress
  <2>1. /\ UNCHANGED <<config, configValid, configIdx>> /\ configIdx = 0
        /\ configPc' \in {"byte", "error"} /\ (configPc' = "byte" => tblptr' = ConfigAddress)
    BY <1>7 DEF Config!SetAddress, Config!Pointer, ImageInv, ConfigInv
  <2>2. \A i \in Config!ConfigIdx : ~(i < configIdx)
    BY <2>1 DEF Config!ConfigIdx
  <2>3. ConfigInv'
    BY <1>3, <1>4, <2>1, <2>2, PartSizes DEF ImageInv, ConfigInv, Config!ConfigIdx
  <2> QED
    BY <1>2, <1>5, <2>3 DEF ImageInv
<1>8. CASE Config!ReadByte
  <2>1. /\ configPc = "byte" /\ configIdx \in Config!ConfigIdx /\ configIdx' = configIdx + 1
        /\ configValid' = configValid \cup {configIdx}
        /\ tblptr = ConfigAddress + configIdx
    BY <1>6, <1>8, PartSizes DEF Config!ReadByte, ImageInv, ConfigInv, Config!ConfigIdx
  <2>2. PICK byte : config' = [config EXCEPT ![configIdx] = byte]
    BY <1>8 DEF Config!ReadByte
  <2>3. config' = [i \in Config!ConfigIdx |-> IF i = configIdx THEN byte ELSE config[i]]
    BY <2>2 DEF ImageInv, ConfigInv
  <2>4. configIdx' \in 0 .. ConfigBytes /\ configValid' = 0 .. configIdx' - 1
    BY <1>6, <2>1, PartSizes DEF ImageInv, ConfigInv, Config!ConfigIdx
  <2>5. ASSUME configPc' = "byte"
        PROVE  /\ tblptr' = ConfigAddress + configIdx'
               /\ \A i \in Config!ConfigIdx : i < configIdx' => config'[i] = configMemory[i]
    <3>1. /\ config' = [config EXCEPT ![configIdx] = Config!ConfigAt(tblptr)]
          /\ tblptr' = tblptr + 1
      BY <1>8, <2>5 DEF Config!ReadByte
    <3>2. Config!ConfigAt(tblptr) = configMemory[configIdx]
      BY <1>6, <2>1, PartSizes DEF Config!ConfigAt
    <3>3. config' = [i \in Config!ConfigIdx |->
                      IF i = configIdx THEN configMemory[configIdx] ELSE config[i]]
      BY <3>1, <3>2 DEF ImageInv, ConfigInv
    <3>4. \A i \in Config!ConfigIdx : i < configIdx + 1 => i < configIdx \/ i = configIdx
      BY <1>6 DEF Config!ConfigIdx
    <3>5. \A i \in Config!ConfigIdx : i < configIdx' => config'[i] = configMemory[i]
      BY <2>1, <3>3, <3>4 DEF ImageInv, ConfigInv
    <3> QED
      BY <1>6, <2>1, <3>1, <3>5, PartSizes
  <2>6. configPc' \in {"byte", "error"}
    BY <1>8, <2>1 DEF Config!ReadByte
  <2>7. ConfigInv'
    BY <1>3, <1>4, <2>3, <2>4, <2>5, <2>6 DEF ImageInv, ConfigInv, Config!ConfigIdx
  <2> QED
    BY <1>2, <1>5, <2>7 DEF ImageInv
<1>9. CASE Config!Return
  <2>1. /\ configPc = "byte" /\ configPc' = "done" /\ configIdx = ConfigBytes
        /\ UNCHANGED <<config, configValid, configIdx>>
    BY <1>6, <1>9, PartSizes DEF Config!Return
  <2>2. ConfigInv'
    BY <1>3, <1>4, <2>1 DEF ImageInv, ConfigInv, Config!ConfigIdx
  <2> QED
    BY <1>2, <1>5, <2>2 DEF ImageInv
<1> QED
  BY <1>1, <1>7, <1>8, <1>9 DEF Config!Next

LEMMA EepromStepInv == ImageInv /\ EepromStep => ImageInv'
<1> SUFFICES ASSUME ImageInv, EepromStep PROVE ImageInv'
  OBVIOUS
<1>1. /\ configPc = "done" /\ Eeprom!Next
      /\ UNCHANGED <<vars, configVars, printed>>
  BY DEF EepromStep, PartSucceeded
<1>2. ProgramInv'
  BY <1>1, NextProgramInv DEF ImageInv
<1>3. UNCHANGED <<configMemory, config, configValid, configPc, configIdx, tblptr, pc>>
  BY <1>1 DEF configVars, vars
<1>4. ConfigInv'
  BY <1>3 DEF ImageInv, ConfigInv, Config!ConfigIdx
<1>5. /\ eepromPc \in {"enter", "byte", "read"} /\ UNCHANGED <<eeprom, wr>>
      /\ eepromPc' \in {"byte", "read", "done", "error"}
  BY <1>1 DEF Eeprom!Next, Eeprom!EnterEeprom, Eeprom!SetAddress, Eeprom!ReadByte, Eeprom!Return,
              Eeprom!eepromChip, Eeprom!registers
<1>6. printed' = {}
  BY <1>1, <1>5 DEF ImageInv, ListingInv
<1>7. eepromIdx \in Nat /\ eepromIdx <= EepromBytes
  BY PartSizes DEF ImageInv, EepromInv
<1>8. CASE Eeprom!EnterEeprom
  <2>1. /\ UNCHANGED <<eepromImage, eepromIdx>> /\ eepromIdx = 0 /\ eepromPc' \in {"byte", "error"}
    BY <1>8 DEF Eeprom!EnterEeprom, ImageInv, EepromInv
  <2>2. \A a \in Eeprom!Addr : ~(a < eepromIdx)
    BY <2>1 DEF Eeprom!Addr
  <2>3. EepromInv'
    BY <1>1, <1>3, <1>5, <2>1, <2>2 DEF ImageInv, EepromInv, Eeprom!Addr
  <2> QED
    BY <1>2, <1>4, <1>6, <2>3 DEF ImageInv, ListingInv
<1>9. CASE Eeprom!SetAddress
  <2>1. /\ UNCHANGED <<eepromImage, eepromIdx>> /\ eepromPc = "byte" /\ eepromIdx \in Eeprom!Addr
        /\ eepromPc' \in {"read", "error"}
    BY <1>7, <1>9, PartSizes DEF Eeprom!SetAddress, Eeprom!Addr
  <2>2. eepromPc' = "read" => eeadr' = eepromIdx
    BY <1>9 DEF Eeprom!SetAddress, Eeprom!AddressOf, Eeprom!AddressSet, Eeprom!Loaded,
                ImageInv, EepromInv
  <2>3. EepromInv'
    BY <1>1, <1>3, <1>5, <2>1, <2>2 DEF ImageInv, EepromInv, Eeprom!Addr
  <2> QED
    BY <1>2, <1>4, <1>6, <2>3 DEF ImageInv, ListingInv
<1>10. CASE Eeprom!ReadByte
  <2>1. eepromIdx \in Eeprom!Addr /\ eeadr = eepromIdx /\ eepromPc = "read"
    BY <1>10 DEF Eeprom!ReadByte, ImageInv, EepromInv
  <2>2. PICK byte : eepromImage' \in {eepromImage, [eepromImage EXCEPT ![eepromIdx] = byte]}
    BY <1>10 DEF Eeprom!ReadByte
  <2>3. eepromImage' = [a \in Eeprom!Addr |-> eepromImage'[a]]
    BY <2>2 DEF ImageInv, EepromInv
  <2>4. CASE eepromPc' = "error"
    <3>1. eepromIdx' = eepromIdx
      BY <1>10, <2>4 DEF Eeprom!ReadByte
    <3>2. EepromInv'
      BY <1>1, <1>3, <1>5, <2>3, <2>4, <3>1 DEF ImageInv, EepromInv, Eeprom!Addr
    <3> QED
      BY <1>2, <1>4, <1>6, <3>2 DEF ImageInv, ListingInv
  <2>5. CASE eepromPc' # "error"
    <3>1. /\ eepromPc' = "byte" /\ eepromIdx' = eepromIdx + 1 /\ eedata' \in Eeprom!Fetched
          /\ eepromImage' = [eepromImage EXCEPT ![eepromIdx] = eedata']
      BY <1>10, <2>5 DEF Eeprom!ReadByte
    <3>2. eedata' = eeprom[eepromIdx]
      BY <2>1, <3>1 DEF Eeprom!Fetched, Eeprom!Loaded, ImageInv, EepromInv
    <3>3. eepromImage' = [a \in Eeprom!Addr |->
                           IF a = eepromIdx THEN eeprom[eepromIdx] ELSE eepromImage[a]]
      BY <3>1, <3>2 DEF ImageInv, EepromInv
    <3>4. \A a \in Eeprom!Addr : a < eepromIdx + 1 => a < eepromIdx \/ a = eepromIdx
      BY <1>7 DEF Eeprom!Addr
    <3>5. \A a \in Eeprom!Addr : a < eepromIdx' => eepromImage'[a] = eeprom[a]
      BY <2>1, <3>1, <3>3, <3>4 DEF ImageInv, EepromInv
    <3>6. eepromIdx' \in 0 .. EepromBytes
      BY <1>7, <2>1, <3>1, PartSizes DEF Eeprom!Addr
    <3>7. EepromInv'
      BY <1>1, <1>3, <1>5, <2>3, <3>1, <3>5, <3>6 DEF ImageInv, EepromInv, Eeprom!Addr
    <3> QED
      BY <1>2, <1>4, <1>6, <3>7 DEF ImageInv, ListingInv
  <2> QED
    BY <2>4, <2>5
<1>11. CASE Eeprom!Return
  <2>1. /\ UNCHANGED <<eepromImage, eepromIdx>> /\ eepromPc = "byte" /\ eepromPc' = "done"
        /\ eepromIdx = EepromBytes
    BY <1>7, <1>11, PartSizes DEF Eeprom!Return
  <2>2. EepromInv'
    BY <1>1, <1>3, <1>5, <2>1 DEF ImageInv, EepromInv, Eeprom!Addr
  <2> QED
    BY <1>2, <1>4, <1>6, <2>2 DEF ImageInv, ListingInv
<1> QED
  BY <1>1, <1>8, <1>9, <1>10, <1>11 DEF Eeprom!Next

LEMMA PrintImageInv == ImageInv /\ PrintImage => ImageInv'
<1> SUFFICES ASSUME ImageInv, PrintImage PROVE ImageInv'
  OBVIOUS
<1>1. /\ eepromPc = "done" /\ printed' = {Listing}
      /\ UNCHANGED <<vars, configVars, eepromVars>>
  BY DEF PrintImage, PartSucceeded
<1>2. ProgramInv'
  BY <1>1, NextProgramInv DEF ImageInv
<1>3. ConfigInv' /\ EepromInv'
  BY <1>1 DEF ImageInv, ConfigInv, EepromInv, Config!ConfigIdx, Eeprom!Addr,
              configVars, eepromVars, vars
<1>4. Listing' = Listing
  BY <1>1 DEF Listing, Config!ConfigIdx, configVars, eepromVars, vars
<1> QED
  BY <1>1, <1>2, <1>3, <1>4 DEF ImageInv, ListingInv, eepromVars

LEMMA NextImageInv == ImageInv /\ [ImageNext]_imageVars => ImageInv'
<1> SUFFICES ASSUME ImageInv, [ImageNext]_imageVars PROVE ImageInv'
  OBVIOUS
<1>1. CASE UNCHANGED imageVars
  <2>1. ProgramInv'
    BY <1>1, NextProgramInv DEF ImageInv, imageVars
  <2>2. Listing' = Listing
    BY <1>1 DEF Listing, Config!ConfigIdx, imageVars, configVars, eepromVars, vars
  <2>3. ConfigInv' /\ EepromInv' /\ ListingInv'
    BY <1>1, <2>2 DEF ImageInv, ConfigInv, EepromInv, ListingInv, Config!ConfigIdx, Eeprom!Addr,
                imageVars, configVars, eepromVars, vars
  <2> QED
    BY <2>1, <2>3 DEF ImageInv
<1> QED
  BY <1>1, ProgramStepInv, ConfigStepInv, EepromStepInv, PrintImageInv DEF ImageNext

\* What is printed when all three parts have been read is the device.
LEMMA ListingIsDevice == ImageInv => PrintedIsDevice
<1> SUFFICES ASSUME ImageInv, NEW listing \in printed
             PROVE  /\ \A a \in 0 .. contentsSize - 1 : listing.program[a] = ByteAt(Swapped(a))
                    /\ listing.config = configMemory
                    /\ listing.eeprom = eeprom
  BY DEF PrintedIsDevice, Swapped
<1>1. listing = Listing /\ eepromPc = "done" /\ configPc = "done" /\ pc = "done"
  BY DEF ImageInv, ListingInv, EepromInv, ConfigInv
<1>2. \A a \in 0 .. contentsSize - 1 : listing.program[a] = ByteAt(Swapped(a))
  <2>1. DoneMeansRead
    BY AllWordsRead DEF ImageInv
  <2>2. \A a \in 0 .. contentsSize - 1 : listing.program[a] = contents[a]
    BY <1>1 DEF Listing
  <2> QED
    BY <1>1, <2>1, <2>2 DEF DoneMeansRead, Swapped
<1>3. listing.config = configMemory
  <2>1. configIdx = ConfigBytes /\ configValid \cap Config!ConfigIdx = Config!ConfigIdx
    BY <1>1 DEF ImageInv, ConfigInv, Config!ConfigIdx
  <2>2. listing.config = [i \in Config!ConfigIdx |-> config[i]]
    BY <1>1, <2>1 DEF Listing
  <2>3. \A i \in Config!ConfigIdx : config[i] = configMemory[i]
    BY <1>1, <2>1, PartSizes DEF ImageInv, ConfigInv, Config!ConfigIdx
  <2> QED
    BY <2>2, <2>3 DEF ImageInv, ConfigInv
<1>4. listing.eeprom = eeprom
  <2>1. \A a \in Eeprom!Addr : eepromImage[a] = eeprom[a]
    BY <1>1, PartSizes DEF ImageInv, EepromInv, Eeprom!Addr
  <2>2. listing.eeprom = eepromImage
    BY <1>1 DEF Listing
  <2> QED
    BY <2>1, <2>2 DEF ImageInv, EepromInv
<1> QED
  BY <1>2, <1>3, <1>4

-------------------------------------------------------------------------------

\* A read of the program that returns 1 has put every byte of a whole word where
\* the loader puts the file's, for every size and wherever TBLPTR was before.
THEOREM ReadIsComplete == Spec => []DoneMeansRead
BY InitProgramInv, NextProgramInv, AllWordsRead, PTL DEF Spec

\* The read stores nothing behind the buffer it was given, unless an odd size
\* fills it.
THEOREM ReadStaysInBuffer == Spec => []StaysInBuffer
<1>1. ProgramInv => StaysInBuffer
  BY DEF ProgramInv
<1> QED
  BY <1>1, InitProgramInv, NextProgramInv, PTL DEF Spec

\* The progress of the read never goes back, and is that of the whole only when
\* the whole has been read.
THEOREM ReadProgress == Spec => ProgressIsHonest
BY InitProgramInv, NextProgramInv, StepProgressIsHonest, PTL DEF Spec, ProgressIsHonest

\* What lpicp -r prints is the device's program, configuration and EEPROM, for
\* every size of the three and whichever transfers fail.
THEOREM ListingsAreTrue == ImageSpec => []PrintedIsDevice
BY InitImageInv, NextImageInv, ListingIsDevice, PTL DEF ImageSpec

\* What the read of the program promises holds in the command as a whole, in
\* which the configuration takes TBLPTR over.
THEOREM ReadPromisesHold ==
  ImageSpec => [](DoneMeansRead /\ StaysInBuffer) /\ ProgressIsHonest
<1>1. ImageInv => ProgramInv
  BY DEF ImageInv
<1>2. ImageInv => DoneMeansRead /\ StaysInBuffer
  BY AllWordsRead DEF ImageInv, ProgramInv
<1>3. ImageInv /\ [ImageNext]_imageVars =>
        [shown' >= shown /\ (shown' = contentsSize => pc' = "done" \/ shown = shown')]_vars
  <2> SUFFICES ASSUME ImageInv, [ImageNext]_imageVars
               PROVE  [shown' >= shown /\ (shown' = contentsSize => pc' = "done" \/ shown = shown')]_vars
    OBVIOUS
  <2>1. CASE ProgramStep
    BY <1>1, <2>1, StepProgressIsHonest DEF ProgramStep
  <2>2. CASE UNCHANGED programVars
    BY <1>1, <2>2 DEF programVars, ProgramInv, ProgramTypeOK
  <2> QED
    BY <2>1, <2>2 DEF ImageNext, ConfigStep, EepromStep, PrintImage, imageVars, vars, programVars
<1> QED
  BY <1>2, <1>3, InitImageInv, NextImageInv, PTL DEF ImageSpec, ProgressIsHonest
===============================================================================
