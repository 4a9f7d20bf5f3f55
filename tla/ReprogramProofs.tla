---------------------------- MODULE ReprogramProofs ----------------------------
(***************************************************************************)
(* An erase and the write behind it leave the image, for every size of the *)
(* memory, its pages and its rows, every old program and image, and however*)
(* often the write fails; and an erase that failed half way costs the image*)
(* words of its first page only. The proofs rest on those of the parts:    *)
(* Writes and Erases below are the modules with their theorems, on the one *)
(* chip that Reprogram's instances share.                                  *)
(***************************************************************************)
EXTENDS Reprogram, TLAPS

Writes == INSTANCE ProgramWriteProofs
Erases == INSTANCE NonBulkEraseProofs WITH
  pc <- erasePc, currentAddress <- eraseAddress,
  failed <- eraseFailed, before <- atFirst

\* Before the write: the image has its type and the write's variables their
\* initial values.
ImageInv ==
  /\ contents \in [WordAddr -> Word]
  /\ contentsSize \in 0 .. CodeMemorySize
  /\ wordsLeft = 0 /\ wordsToWrite = 0 /\ wordIndex = 0
  /\ currentAddress = 0 /\ currentData = 0

\* An erase by pages, cut short or not, leaves a word in the buffer's first lane
\* at most.
PagesInv ==
  /\ Erases!IInv
  /\ \A l \in Lane : latch[l] = Erased \/ l = 0

\* A bulk erase has nothing to do with the write buffer or FREE.
BulkInv ==
  /\ DeviceTypeOK
  /\ bulkPc \in {"start", "erase", "done", "failed"}
  /\ erasePc = "start" /\ eraseFailed = FALSE
  /\ atFirst \in [WordAddr -> Word]
  /\ latch = EmptyLatch /\ free = FALSE
  /\ \A w \in WordAddr : flash[w] \in {Erased, atFirst[w]}
  /\ bulkPc = "done" => \A w \in WordAddr : flash[w] = Erased

\* What FailedEraseCostsOnePage allows a word, and what it asks of the words that
\* the write has passed.
Written(w) == {Reprogrammed(w), atFirst[w] \cap Reprogrammed(w)}
MayHold(w) == {Erased, atFirst[w]} \cup Written(w)
Passed(w) == (Writes!InLoop /\ w < Writes!Base) \/ pc = "done"

\* After an erase that failed, the pulse that FREE turns into an erase is the
\* first of the write's loop.
MixedInv ==
  /\ free /\ Writes!InLoop => Writes!Base = 0
  /\ \A w \in WordAddr :
       /\ flash[w] \in MayHold(w)
       /\ Passed(w) /\ 2 * w < contentsSize /\ PageOf(2 * w) # 0 => flash[w] \in Written(w)

\* After one that did not, the write starts from erased memory and none of its
\* pulses erases.
CleanInv ==
  ~eraseFailed => Writes!IInv /\ \A w \in WordAddr : before[w] = Erased

IInv ==
  /\ pc = "idle" =>
       /\ ImageInv
       /\ bulkPc = "unused" => PagesInv
       /\ bulkPc # "unused" => BulkInv
  /\ pc # "idle" =>
       /\ eraseFailed \in BOOLEAN
       /\ atFirst \in [WordAddr -> Word]
       /\ Writes!RunInv
       /\ MixedInv
       /\ CleanInv

-------------------------------------------------------------------------------

\* The instances of a component and of its proofs are the same: the write's ...
LEMMA SameWrite == Write!Next => Writes!Next
<1>1. Write!ConfigWriteStart => Writes!ConfigWriteStart
  BY DEF Write!ConfigWriteStart, Writes!ConfigWriteStart, Write!Fail, Writes!Fail,
         Write!device, Writes!device, Write!picture, Writes!picture, Write!locals, Writes!locals
<1>2. Write!DisableMultiPanel => Writes!DisableMultiPanel
  BY DEF Write!DisableMultiPanel, Writes!DisableMultiPanel, Write!select, Writes!select,
         Write!PartlySet, Writes!PartlySet, Write!HighPart, Writes!HighPart,
         Write!MultiPanelReg, Writes!MultiPanelReg,
         Write!picture, Writes!picture, Write!locals, Writes!locals
<1>3. Write!CodeWriteStart => Writes!CodeWriteStart
  BY DEF Write!CodeWriteStart, Writes!CodeWriteStart, Write!TotalWords, Writes!TotalWords,
         Write!device, Writes!device, Write!picture, Writes!picture
<1>4. Write!NextBlock => Writes!NextBlock
  BY DEF Write!NextBlock, Writes!NextBlock, Write!BlockWords, Writes!BlockWords,
         Write!PartlySet, Writes!PartlySet, Write!HighPart, Writes!HighPart,
         Write!select, Writes!select, Write!picture, Writes!picture
<1>5. Write!WriteWord => Writes!WriteWord
  BY DEF Write!WriteWord, Writes!WriteWord, Write!LaneOf, Writes!LaneOf,
         Write!AfterWord, Writes!AfterWord, Write!NextAddress, Writes!NextAddress,
         Write!Fail, Writes!Fail, Write!select, Writes!select,
         Write!device, Writes!device, Write!picture, Writes!picture, Write!locals, Writes!locals
<1>6. Write!BurnBlock => Writes!BurnBlock
  <2>1. Write!Pulse => Writes!Pulse
    BY DEF Write!Pulse, Writes!Pulse, Write!PageErased, Writes!PageErased,
           Write!Programmed, Writes!Programmed, Write!Selected, Writes!Selected,
           Write!RowOf, Writes!RowOf, Write!PageOf, Writes!PageOf,
           Write!EmptyLatch, Writes!EmptyLatch, Write!Lane, Writes!Lane,
           Write!Erased, Writes!Erased, Write!WordAddr, Writes!WordAddr
  <2> QED
    BY <2>1 DEF Write!BurnBlock, Writes!BurnBlock, Write!device, Writes!device,
                Write!picture, Writes!picture
<1>7. Write!Return => Writes!Return
  BY DEF Write!Return, Writes!Return, Write!device, Writes!device,
         Write!picture, Writes!picture, Write!locals, Writes!locals
<1>8. Write!Rerun => Writes!Rerun
  BY DEF Write!Rerun, Writes!Rerun, Write!ChipReset, Writes!ChipReset,
         Write!EmptyLatch, Writes!EmptyLatch, Write!Lane, Writes!Lane,
         Write!Erased, Writes!Erased, Write!device, Writes!device, Write!picture, Writes!picture
<1> QED
  BY <1>1, <1>2, <1>3, <1>4, <1>5, <1>6, <1>7, <1>8
     DEF Write!Next, Writes!Next, Write!Program, Writes!Program

\* ... and the erase's.
LEMMA SameEraseInit == Erase!Init => Erases!Init
BY DEF Erase!Init, Erases!Init, Erase!DeviceInit, Erases!DeviceInit,
       Erase!EmptyLatch, Erases!EmptyLatch, Erase!Lane, Erases!Lane,
       Erase!Erased, Erases!Erased, Erase!WordAddr, Erases!WordAddr, Erase!Word, Erases!Word

LEMMA SameErase == Erase!Next => Erases!Next
<1> USE DEF Erase!Succeeds, Erases!Succeeds, Erase!Fails, Erases!Fails,
            Erase!Returned, Erases!Returned
<1>1. Erase!ConfigWriteStart => Erases!ConfigWriteStart
  BY DEF Erase!ConfigWriteStart, Erases!ConfigWriteStart, Erase!CfgsSet, Erases!CfgsSet
<1>2. Erase!DisableMultiPanel => Erases!DisableMultiPanel
  BY DEF Erase!DisableMultiPanel, Erases!DisableMultiPanel, Erase!select, Erases!select,
         Erase!PartlySet, Erases!PartlySet, Erase!HighPart, Erases!HighPart,
         Erase!MultiPanelReg, Erases!MultiPanelReg
<1>3. Erase!SelectPage => Erases!SelectPage
  <2>1. \A old, new : Erase!PartlySet(old, new) = Erases!PartlySet(old, new)
    BY DEF Erase!PartlySet, Erases!PartlySet, Erase!HighPart, Erases!HighPart
  <2>2. \A a : /\ Erase!LaneOf(a) = Erases!LaneOf(a)
               /\ Erase!NextPage(a) = Erases!NextPage(a)
               /\ Erase!MorePages(a) = Erases!MorePages(a)
    BY DEF Erase!LaneOf, Erases!LaneOf, Erase!NextPage, Erases!NextPage,
           Erase!MorePages, Erases!MorePages
  <2> QED
    BY <2>1, <2>2 DEF Erase!SelectPage, Erases!SelectPage, Erase!FreeSet, Erases!FreeSet
<1>4. Erase!ErasePage => Erases!ErasePage
  <2>1. Erase!Pulse => Erases!Pulse
    BY DEF Erase!Pulse, Erases!Pulse, Erase!PageErased, Erases!PageErased,
           Erase!Programmed, Erases!Programmed, Erase!Selected, Erases!Selected,
           Erase!RowOf, Erases!RowOf, Erase!PageOf, Erases!PageOf,
           Erase!EmptyLatch, Erases!EmptyLatch, Erase!Lane, Erases!Lane,
           Erase!Erased, Erases!Erased, Erase!WordAddr, Erases!WordAddr
  <2> QED
    BY <2>1 DEF Erase!ErasePage, Erases!ErasePage, Erase!device, Erases!device,
                Erase!NextPage, Erases!NextPage
<1>5. Erase!Return => Erases!Return
  BY DEF Erase!Return, Erases!Return, Erase!device, Erases!device,
         Erase!MorePages, Erases!MorePages
<1> QED
  BY <1>1, <1>2, <1>3, <1>4, <1>5 DEF Erase!Next, Erases!Next

-------------------------------------------------------------------------------

\* A write buffer is no longer than a page.
LEMMA RowFits ==
  ASSUME NEW P \in Nat \ {0}, NEW R \in Nat \ {0}, P % R = 0
  PROVE  R <= P
<1> SUFFICES ASSUME P < R PROVE FALSE
  OBVIOUS
<1>1. P \in 0 .. R - 1
  OBVIOUS
<1>2. P % R = P
  BY <1>1
<1> QED
  BY <1>2

\* A page starts at the first lane of the write buffer.
LEMMA PageStartsRow ==
  ASSUME NEW a \in Nat, a % PageSize = 0
  PROVE  LaneOf(a) = 0
<1> DEFINE q == a \div PageSize
           k == PageSize \div (2 * WordsPerWrite)
<1>1. q \in Nat /\ a = PageSize * q
  BY DeviceAssumption
<1>2. k \in Nat /\ PageSize = (2 * WordsPerWrite) * k
  BY DeviceAssumption, PagesAreRows
<1> HIDE DEF q, k
<1>3. k * q \in Nat /\ a = 2 * (WordsPerWrite * (k * q))
  BY <1>1, <1>2, DeviceAssumption
<1> DEFINE n == k * q
<1>4. n \in Nat /\ a = 2 * (WordsPerWrite * n)
  BY <1>3
<1> HIDE DEF n
<1>5. WordsPerWrite * n \in Nat
  BY <1>4, DeviceAssumption
<1>6. a \div 2 = WordsPerWrite * n + 0
  BY <1>4, <1>5
<1>7. (WordsPerWrite * n + 0) % WordsPerWrite = 0
  <2>1. \A W \in Nat \ {0} : \A i \in Nat : (W * i + 0) % W = 0
    OBVIOUS
  <2> QED
    BY <1>4, <2>1, DeviceAssumption
<1> QED
  BY <1>6, <1>7 DEF LaneOf

\* Words that fit one write buffer from the start of the memory are in its first
\* page.
LEMMA FirstPage ==
  ASSUME NEW w \in Nat, w < WordsPerWrite
  PROVE  PageOf(2 * w) = 0
<1>1. 2 * WordsPerWrite <= PageSize
  BY RowFits, PagesAreRows, DeviceAssumption
<1>2. 2 * w \in 0 .. PageSize - 1
  BY <1>1, DeviceAssumption
<1>3. \A x \in 0 .. PageSize - 1 : x \div PageSize = 0
  BY DeviceAssumption
<1> QED
  BY <1>2, <1>3 DEF PageOf

-------------------------------------------------------------------------------

\* The chip before the erase, and the image for the write.
LEMMA InitIInv == Init => IInv
<1> SUFFICES ASSUME Init PROVE IInv
  OBVIOUS
<1>1. pc = "idle" /\ ImageInv
  BY DEF Init, ImageInv
<1>2. PagesInv
  <2>1. Erases!IInv
    BY SameEraseInit, Erases!InitIInv, DeviceAssumption DEF Init, Erases!DeviceAssumption
  <2>2. latch = EmptyLatch
    BY DEF Init, Erase!Init, Erase!DeviceInit, Erase!EmptyLatch, Erase!Lane, Erase!Erased,
           EmptyLatch, Lane, Erased
  <2> QED
    BY <2>1, <2>2 DEF PagesInv, EmptyLatch
<1>3. ASSUME bulkPc # "unused" PROVE BulkInv
  <2>1. /\ DeviceInit /\ atFirst = flash /\ bulkPc = "start"
        /\ erasePc = "start" /\ eraseFailed = FALSE
    BY <1>3 DEF Init, Erase!Init, Erase!DeviceInit, Erase!EmptyLatch, Erase!Lane,
                Erase!Erased, Erase!WordAddr, Erase!Word,
                DeviceInit, EmptyLatch, Lane, Erased, WordAddr, Word
  <2> QED
    BY <2>1 DEF BulkInv, DeviceInit, DeviceTypeOK, EmptyLatch, Erased, Word
<1> QED
  BY <1>1, <1>2, <1>3 DEF IInv

\* An erase by pages keeps its own invariant, and the later lanes of the write
\* buffer empty: the word that arms its pulse goes into the first.
LEMMA EraseStepInv == IInv /\ EraseStep => IInv'
<1> SUFFICES ASSUME IInv, EraseStep PROVE IInv'
  OBVIOUS
<1>1. /\ pc = "idle" /\ pc' = "idle" /\ bulkPc = "unused" /\ bulkPc' = "unused"
      /\ ImageInv /\ PagesInv /\ Erases!Next
  BY SameErase DEF EraseStep, IInv, writeVars
<1>2. ImageInv'
  BY <1>1 DEF EraseStep, ImageInv, writeVars
<1>3. Erases!IInv'
  BY <1>1, Erases!NextIInv, DeviceAssumption DEF Erases!DeviceAssumption, PagesInv
<1>4. ASSUME NEW l \in Lane, l # 0 PROVE latch'[l] = Erased
  <2>1. eraseAddress \in Nat /\ eraseAddress % PageSize = 0 /\ latch \in [Lane -> Word]
    BY <1>1, DeviceAssumption
       DEF PagesInv, Erases!IInv, Erases!TypeOK, Erases!DeviceTypeOK, Erases!Lane, Erases!Word,
           Lane, Word
  <2>2. Erases!LaneOf(eraseAddress) = 0
    BY <2>1, PageStartsRow DEF Erases!LaneOf, LaneOf
  <2>3. latch[l] = Erased
    BY <1>1, <1>4 DEF PagesInv
  <2>4. \/ UNCHANGED latch
        \/ latch' = [latch EXCEPT ![Erases!LaneOf(eraseAddress)] = {}]
        \/ latch' = Erases!EmptyLatch
    BY <1>1 DEF Erases!Next, Erases!ConfigWriteStart, Erases!DisableMultiPanel,
                Erases!SelectPage, Erases!ErasePage, Erases!Return, Erases!Pulse, Erases!device
  <2> QED
    BY <1>4, <2>1, <2>2, <2>3, <2>4 DEF Erases!EmptyLatch, Erases!Erased, Erases!Lane,
                                        Erased, Lane
<1> QED
  BY <1>1, <1>2, <1>3, <1>4 DEF IInv, PagesInv

\* A bulk erase keeps its own: the memory is erased all at once, by its last
\* transfer.
LEMMA BulkEraseStepInv == IInv /\ BulkEraseStep => IInv'
<1> SUFFICES ASSUME IInv, BulkEraseStep PROVE IInv'
  OBVIOUS
<1>1. /\ pc = "idle" /\ pc' = "idle" /\ bulkPc # "unused" /\ bulkPc' # "unused"
      /\ ImageInv /\ BulkInv /\ Bulk!Next
  BY DEF BulkEraseStep, IInv, writeVars, Bulk!Next, Bulk!WriteCommand, Bulk!EraseAll,
         Bulk!ResultOnFailure
<1>2. ImageInv'
  BY <1>1 DEF BulkEraseStep, ImageInv, writeVars
<1>3. CASE Bulk!WriteCommand
  <2>1. tblptr' \in Nat
    <3>1. tblptr \in Nat
      BY <1>1 DEF BulkInv, DeviceTypeOK
    <3>2. Bulk!PartlySet(tblptr, Bulk!BulkEraseReg) \subseteq Nat
      BY <3>1 DEF Bulk!PartlySet, Bulk!HighPart, Bulk!BulkEraseReg
    <3> QED
      BY <1>3, <3>2 DEF Bulk!WriteCommand, Bulk!BulkEraseReg
  <2> QED
    BY <1>1, <1>2, <1>3, <2>1
       DEF IInv, BulkInv, DeviceTypeOK, Bulk!WriteCommand, Bulk!ResultOnFailure, Bulk!select,
           BulkEraseStep, eraseVars
<1>4. CASE Bulk!EraseAll
  <2>1. /\ UNCHANGED <<latch, tblptr, armed, eepgd, cfgs, free, multiPanel, eraseVars>>
        /\ bulkPc' \in {"done", "failed"}
        /\ flash' = [w \in WordAddr |-> Erased] \/ (UNCHANGED flash /\ bulkPc' = "failed")
    BY <1>4 DEF Bulk!EraseAll, Bulk!ResultOnFailure, Bulk!select, BulkEraseStep,
                Bulk!WordAddr, Bulk!Erased, WordAddr, Erased
  <2>2. flash' \in [WordAddr -> Word]
    BY <1>1, <2>1 DEF BulkInv, DeviceTypeOK, Word, Erased
  <2>3. DeviceTypeOK'
    BY <1>1, <2>1, <2>2 DEF BulkInv, DeviceTypeOK
  <2>4. BulkInv'
    BY <1>1, <2>1, <2>3 DEF BulkInv, eraseVars
  <2> QED
    BY <1>1, <1>2, <2>4 DEF IInv
<1> QED
  BY <1>1, <1>3, <1>4 DEF Bulk!Next

\* What an erase that returned 1 leaves for the write, whichever it was.
LEMMA AfterErase ==
  ASSUME IInv, pc = "idle", erasePc = "done" \/ bulkPc = "done"
  PROVE  /\ DeviceTypeOK /\ ImageInv
         /\ eraseFailed \in BOOLEAN /\ atFirst \in [WordAddr -> Word]
         /\ \A l \in Lane : latch[l] = Erased \/ l = 0
         /\ \A w \in WordAddr : flash[w] \in {Erased, atFirst[w]}
         /\ ~eraseFailed => ~free /\ \A w \in WordAddr : flash[w] = Erased
<1>1. ImageInv
  BY DEF IInv
<1>2. CASE bulkPc = "unused"
  <2>1. PagesInv /\ erasePc = "done"
    BY <1>2 DEF IInv
  <2>2. /\ DeviceTypeOK /\ eraseFailed \in BOOLEAN /\ atFirst \in [WordAddr -> Word]
    BY <2>1 DEF PagesInv, Erases!IInv, Erases!TypeOK, Erases!DeviceTypeOK, Erases!WordAddr,
                Erases!Word, Erases!Lane, DeviceTypeOK, WordAddr, Word, Lane
  <2>3. \A w \in WordAddr : flash[w] \in {Erased, atFirst[w]}
    BY <2>1 DEF PagesInv, Erases!IInv, Erases!OnlyErases, Erases!WordAddr, Erases!Erased,
                WordAddr, Erased
  <2>4. ~eraseFailed => ~free /\ \A w \in WordAddr : flash[w] = Erased
    BY <2>1 DEF PagesInv, Erases!IInv, Erases!PagesInOrder, Erases!LeavesReady,
                Erases!WordAddr, Erases!Erased, WordAddr, Erased
  <2> QED
    BY <1>1, <2>1, <2>2, <2>3, <2>4 DEF PagesInv
<1>3. CASE bulkPc # "unused"
  BY <1>1, <1>3 DEF IInv, BulkInv, EmptyLatch
<1> QED
  BY <1>2, <1>3

\* The write begins on the chip as the erase left it, or on one whose registers
\* have been reset.
LEMMA BeginWriteInv == IInv /\ BeginWrite => IInv'
<1> SUFFICES ASSUME IInv, BeginWrite PROVE IInv'
  OBVIOUS
<1>1. /\ pc = "idle" /\ pc' = "start" /\ before' = flash
      /\ UNCHANGED <<eraseVars, contents, contentsSize, wordsLeft, wordsToWrite,
                     wordIndex, currentAddress, currentData>>
  BY DEF BeginWrite
<1>2. /\ DeviceTypeOK /\ ImageInv
      /\ eraseFailed \in BOOLEAN /\ atFirst \in [WordAddr -> Word]
      /\ \A l \in Lane : latch[l] = Erased \/ l = 0
      /\ \A w \in WordAddr : flash[w] \in {Erased, atFirst[w]}
      /\ ~eraseFailed => ~free /\ \A w \in WordAddr : flash[w] = Erased
  BY <1>1, AfterErase DEF BeginWrite
<1>3. /\ DeviceTypeOK' /\ flash' = flash
      /\ free' => free
      /\ \A l \in Lane : latch'[l] = Erased \/ l = 0
  <2>1. CASE UNCHANGED device
    BY <1>2, <2>1 DEF device, DeviceTypeOK
  <2>2. CASE ChipReset
    BY <1>2, <2>2 DEF ChipReset, DeviceTypeOK, EmptyLatch, Erased, Word
  <2> QED
    BY <2>1, <2>2 DEF BeginWrite
<1>4. Writes!RunInv'
  <2>1. Writes!TypeOK'
    <3>1. Writes!DeviceTypeOK'
      BY <1>3 DEF DeviceTypeOK, Writes!DeviceTypeOK, WordAddr, Writes!WordAddr,
                  Word, Writes!Word, Lane, Writes!Lane
    <3>2. /\ contents' \in [WordAddr -> Word] /\ before' \in [WordAddr -> Word]
          /\ contentsSize' \in 0 .. CodeMemorySize
          /\ wordsLeft' \in Nat /\ wordsToWrite' \in Nat /\ wordIndex' \in Nat
          /\ currentData' \in Nat /\ currentAddress' \in 0 .. AddrSpace - 1
      BY <1>1, <1>2, AddressAssumption DEF ImageInv, DeviceTypeOK
    <3> QED
      BY <1>1, <3>1, <3>2 DEF Writes!TypeOK, WordAddr, Writes!WordAddr, Word, Writes!Word
  <2>2. Writes!RegisterInv' /\ Writes!LoopInv'
    BY <1>1 DEF Writes!RegisterInv, Writes!LoopInv, Writes!InLoop
  <2>3. Writes!LatchInv'
    BY <1>1, <1>3 DEF Writes!LatchInv, Writes!InLoop, Writes!Lane, Writes!Erased, Lane, Erased
  <2> QED
    BY <2>1, <2>2, <2>3 DEF Writes!RunInv
<1>5. MixedInv'
  BY <1>1, <1>2, <1>3 DEF MixedInv, MayHold, Passed, Writes!InLoop, eraseVars
<1>6. CleanInv'
  <2> SUFFICES ASSUME ~eraseFailed PROVE Writes!IInv' /\ \A w \in WordAddr : before'[w] = Erased
    BY <1>1 DEF CleanInv, eraseVars
  <2>1. ~free' /\ \A w \in WordAddr : before'[w] = Erased
    BY <1>1, <1>2, <1>3
  <2>2. Writes!FlashInv'
    BY <1>1, <1>3 DEF Writes!FlashInv, Writes!InLoop
  <2> QED
    BY <1>4, <2>1, <2>2 DEF Writes!IInv
<1> QED
  BY <1>1, <1>2, <1>4, <1>5, <1>6 DEF IInv, eraseVars

\* The theorems about the write hold of its instance here.
LEMMA WriteFacts ==
  ASSUME Writes!RunInv
  PROVE  /\ Writes!Total \in Nat
         /\ \A w \in WordAddr : w \in Nat /\ (2 * w < contentsSize <=> w < Writes!Total)
         /\ DeviceTypeOK /\ contents \in [WordAddr -> Word]
<1>1. /\ Writes!Total \in Nat
      /\ \A w \in Writes!WordAddr : w \in Nat /\ (2 * w < contentsSize <=> w < Writes!Total)
  BY Writes!ImageWords, DeviceAssumption, AddressAssumption
     DEF Writes!RunInv, Writes!DeviceAssumption, Writes!AddressAssumption
<1> QED
  BY <1>1 DEF Writes!RunInv, Writes!TypeOK, Writes!DeviceTypeOK, Writes!WordAddr, Writes!Word,
              Writes!Lane, DeviceTypeOK, WordAddr, Word, Lane

\* Programming a word of the image adds its zeros to whatever the word may hold.
LEMMA ProgrammedWord ==
  ASSUME NEW w \in WordAddr, 2 * w < contentsSize, contents[w] \in Word,
         flash[w] \in MayHold(w)
  PROVE  flash[w] \cap contents[w] \in Written(w)
<1>1. Reprogrammed(w) = contents[w]
  BY DEF Reprogrammed
<1>2. Erased \cap contents[w] = contents[w]
  BY DEF Erased, Word
<1>3. /\ contents[w] \cap contents[w] = contents[w]
      /\ (atFirst[w] \cap contents[w]) \cap contents[w] = atFirst[w] \cap contents[w]
  OBVIOUS
<1> QED
  BY <1>1, <1>2, <1>3 DEF MayHold, Written

\* A pulse of the write keeps the bounds on what a failed erase costs: one that
\* programs brings its words to the image, and one that erases is the first of
\* the loop, whose words are in the first page.
LEMMA BurnMixed ==
  ASSUME Writes!RunInv, MixedInv, atFirst \in [WordAddr -> Word], Writes!BurnBlock,
         UNCHANGED eraseVars
  PROVE  MixedInv'
<1>1. /\ pc = "burn" /\ Writes!InLoop /\ pc' \in {"block", "aborted"}
      /\ Writes!Base \in Nat /\ Writes!Base + wordsLeft = Writes!Total
      /\ wordsToWrite \in Nat /\ wordsToWrite <= wordsLeft /\ wordsToWrite <= WordsPerWrite
  BY Writes!BlockFacts, DeviceAssumption, AddressAssumption
     DEF Writes!BurnBlock, Writes!InLoop, Writes!DeviceAssumption, Writes!AddressAssumption
<1>2. /\ UNCHANGED <<contents, contentsSize, before, atFirst>>
      /\ Writes!Total' = Writes!Total
      /\ Writes!Total \in Nat /\ wordsLeft \in Nat
      /\ Writes!Base' = Writes!Base + wordsToWrite
  <2>1. /\ UNCHANGED <<contents, contentsSize, before, atFirst>>
        /\ wordsLeft' = wordsLeft - wordsToWrite
    BY DEF Writes!BurnBlock, Writes!picture, eraseVars
  <2>2. Writes!Total' = Writes!Total
    BY <2>1 DEF Writes!Total, Writes!TotalWords
  <2>3. Writes!Total \in Nat /\ wordsLeft \in Nat
    BY WriteFacts DEF Writes!RunInv, Writes!TypeOK
  <2>4. Writes!Base = Writes!Total - wordsLeft /\ Writes!Base' = Writes!Total' - wordsLeft'
    BY DEF Writes!Base
  <2> HIDE DEF Writes!Total, Writes!Base
  <2> QED
    BY <1>1, <2>1, <2>2, <2>3, <2>4
<1>3. \A w : MayHold(w)' = MayHold(w) /\ Written(w)' = Written(w)
  BY <1>2 DEF MayHold, Written, Reprogrammed
<1>4. CASE pc' = "aborted" /\ UNCHANGED Writes!device
  BY <1>2, <1>3, <1>4 DEF MixedInv, Passed, Writes!InLoop, Writes!device
<1>5. CASE Writes!Pulse /\ ~free
  <2>1. flash' = [w \in WordAddr |->
                    IF Writes!Base <= w /\ w < Writes!Base + wordsToWrite
                    THEN flash[w] \cap contents[w] ELSE flash[w]]
    BY <1>1, <1>5, Writes!PulseBurnsBlock, DeviceAssumption, AddressAssumption
       DEF WordAddr, Writes!WordAddr, Writes!DeviceAssumption, Writes!AddressAssumption
  <2>2. ~free'
    BY <1>5 DEF Writes!Pulse
  <2>3. ASSUME NEW w \in WordAddr
        PROVE  /\ flash'[w] \in MayHold(w)
               /\ w < Writes!Base' /\ 2 * w < contentsSize /\ PageOf(2 * w) # 0
                    => flash'[w] \in Written(w)
    <3>1. /\ w \in Nat /\ (2 * w < contentsSize <=> w < Writes!Total)
          /\ contents[w] \in Word /\ flash[w] \in MayHold(w)
      BY WriteFacts DEF MixedInv
    <3>2. CASE Writes!Base <= w /\ w < Writes!Base + wordsToWrite
      <4>1. 2 * w < contentsSize
        BY <1>1, <1>2, <3>1, <3>2
      <4>2. flash'[w] \in Written(w)
        BY <2>1, <3>1, <3>2, <4>1, ProgrammedWord
      <4> QED
        BY <4>2 DEF MayHold
    <3>3. CASE ~(Writes!Base <= w /\ w < Writes!Base + wordsToWrite)
      <4>1. flash'[w] = flash[w]
        BY <2>1, <3>3
      <4>2. w < Writes!Base' => w < Writes!Base
        BY <1>1, <1>2, <3>1, <3>3
      <4> QED
        BY <1>1, <3>1, <4>1, <4>2 DEF MixedInv, Passed
    <3> QED
      BY <3>2, <3>3
  <2> QED
    BY <1>1, <1>2, <1>3, <2>2, <2>3 DEF MixedInv, Passed
<1>6. CASE Writes!Pulse /\ free
  <2>1. Writes!Base = 0 /\ ~free'
    BY <1>1, <1>6 DEF MixedInv, Writes!Pulse
  <2>2. ASSUME NEW w \in WordAddr PROVE flash'[w] \in MayHold(w)
    <3>1. flash' = Writes!PageErased
      BY <1>6 DEF Writes!Pulse
    <3>2. flash'[w] = Erased \/ flash'[w] = flash[w]
      BY <3>1 DEF Writes!PageErased, Writes!WordAddr, Writes!Erased, WordAddr, Erased
    <3> QED
      BY <3>2 DEF MixedInv, MayHold
  <2>3. ASSUME NEW w \in WordAddr, w < Writes!Base' PROVE PageOf(2 * w) = 0
    <3>1. w \in Nat /\ w < WordsPerWrite
      BY <1>1, <1>2, <2>1, <2>3, WriteFacts, DeviceAssumption
    <3> QED
      BY <3>1, FirstPage
  <2> QED
    BY <1>1, <1>2, <1>3, <2>1, <2>2, <2>3 DEF MixedInv, Passed
<1> QED
  BY <1>4, <1>5, <1>6 DEF Writes!BurnBlock

\* The other steps of the write leave the memory alone, and FREE if it is clear.
LEMMA QuietMixed ==
  ASSUME Writes!RunInv, MixedInv, [Writes!Next]_(Writes!vars), ~Writes!BurnBlock,
         UNCHANGED eraseVars
  PROVE  MixedInv'
<1>1. /\ UNCHANGED <<flash, contents, contentsSize, before, atFirst>> /\ (free' => free)
      /\ Writes!InLoop' => Writes!Base' = 0 \/ (Writes!InLoop /\ Writes!Base' = Writes!Base)
      /\ pc' = "done" => pc = "done" \/ (Writes!InLoop /\ Writes!Base = Writes!Total)
  BY Writes!QuietSteps, DeviceAssumption, AddressAssumption
     DEF Writes!DeviceAssumption, Writes!AddressAssumption, Writes!picture, eraseVars
<1>2. \A w : MayHold(w)' = MayHold(w) /\ Written(w)' = Written(w)
  BY <1>1 DEF MayHold, Written, Reprogrammed
<1>3. ASSUME NEW w \in WordAddr, Passed(w)', 2 * w < contentsSize PROVE Passed(w)
  <2>1. w \in Nat /\ w < Writes!Total
    BY <1>3, WriteFacts
  <2>2. ~(w < 0)
    BY <2>1
  <2> QED
    BY <1>1, <1>3, <2>1, <2>2 DEF Passed
<1> QED
  BY <1>1, <1>2, <1>3 DEF MixedInv

\* The write keeps its own invariant, whatever the erase has left.
LEMMA WriteStepInv ==
  ASSUME IInv, pc # "idle", [Writes!Next]_(Writes!vars), UNCHANGED <<eraseVars, bulkPc>>
  PROVE  IInv'
<1>1. Writes!RunInv'
  BY Writes!NextRunInv, DeviceAssumption, AddressAssumption
     DEF IInv, Writes!DeviceAssumption, Writes!AddressAssumption
<1>2. pc' # "idle"
  BY <1>1 DEF Writes!RunInv, Writes!TypeOK
<1>3. MixedInv'
  BY BurnMixed, QuietMixed DEF IInv
<1>4. ASSUME ~eraseFailed
      PROVE  Writes!IInv' /\ \A w \in WordAddr : before'[w] = Erased
  <2>1. Writes!IInv /\ \A w \in WordAddr : before[w] = Erased
    BY <1>4 DEF IInv, CleanInv
  <2>2. Writes!IInv'
    BY <2>1, Writes!NextInv, DeviceAssumption, AddressAssumption
       DEF Writes!DeviceAssumption, Writes!AddressAssumption
  <2>3. before' = before
    BY DEF Writes!Next, Writes!Program, Writes!ConfigWriteStart, Writes!DisableMultiPanel,
           Writes!CodeWriteStart, Writes!NextBlock, Writes!WriteWord, Writes!BurnBlock,
           Writes!Return, Writes!Rerun, Writes!Fail, Writes!picture, Writes!vars
  <2> QED
    BY <2>1, <2>2, <2>3
<1> QED
  BY <1>1, <1>2, <1>3, <1>4 DEF IInv, CleanInv, eraseVars

LEMMA NextIInv == IInv /\ [Next]_vars => IInv'
<1> SUFFICES ASSUME IInv, [Next]_vars PROVE IInv'
  OBVIOUS
<1>1. CASE WriteStep
  BY <1>1, WriteStepInv, SameWrite DEF WriteStep
<1>2. CASE UNCHANGED vars
  <2>1. CASE pc # "idle"
    <3>1. UNCHANGED Writes!vars
      BY <1>2 DEF vars, device, writeVars, Writes!vars, Writes!device, Writes!picture,
                  Writes!locals
    <3> QED
      BY <1>2, <2>1, <3>1, WriteStepInv DEF vars
  <2>2. CASE pc = "idle"
    <3>1. /\ pc' = "idle" /\ bulkPc' = bulkPc
          /\ UNCHANGED <<Erases!vars, eraseVars, latch>>
          /\ ImageInv' = ImageInv
      BY <1>2, <2>2 DEF vars, device, writeVars, eraseVars, ImageInv, Erases!vars, Erases!device
    <3>2. ASSUME PagesInv PROVE PagesInv'
      <4>1. Erases!IInv'
        BY <3>1, <3>2, Erases!NextIInv, DeviceAssumption DEF Erases!DeviceAssumption, PagesInv
      <4> QED
        BY <3>1, <3>2, <4>1 DEF PagesInv
    <3>3. ASSUME BulkInv PROVE BulkInv'
      BY <1>2, <3>3 DEF BulkInv, DeviceTypeOK, vars, device, eraseVars
    <3> QED
      BY <2>2, <3>1, <3>2, <3>3 DEF IInv
  <2> QED
    BY <2>1, <2>2
<1> QED
  BY <1>1, <1>2, EraseStepInv, BulkEraseStepInv, BeginWriteInv DEF Next

-------------------------------------------------------------------------------

\* What erase and write keep between any two transfers: the memory and what the
\* registers will let the next pulse do to it.
THEOREM ReprogramInductive == Spec => []IInv
BY InitIInv, NextIInv, PTL DEF Spec

\* A write that returns 1 behind an erase without failures leaves exactly the
\* image: image_to_device_program never leaves a bit of the old program.
THEOREM ReprogramIsExact == Spec => []ExactlyTheImage
<1>1. IInv => ExactlyTheImage
  <2> SUFFICES ASSUME IInv, pc = "done", ~eraseFailed, NEW w \in WordAddr
               PROVE  flash[w] = Reprogrammed(w)
    BY DEF ExactlyTheImage
  <2>1. /\ flash[w] = Writes!Target(w) /\ before[w] = Erased /\ contents[w] \in Word
    BY WriteFacts DEF IInv, CleanInv, Writes!IInv, Writes!FlashInv, WordAddr, Writes!WordAddr
  <2> QED
    BY <2>1 DEF Writes!Target, Reprogrammed, Erased, Word
<1> QED
  BY <1>1, ReprogramInductive, PTL

\* And wherever that write is cut short, a word is erased or the image's.
THEOREM ReprogramNeverMixes == Spec => []ErasedOrImage
<1>1. IInv => ErasedOrImage
  <2> SUFFICES ASSUME IInv, pc # "idle", ~eraseFailed, NEW w \in WordAddr
               PROVE  flash[w] \in {Erased, Reprogrammed(w)}
    BY DEF ErasedOrImage
  <2>1. /\ flash[w] \in {before[w], Writes!Target(w)}
        /\ before[w] = Erased /\ contents[w] \in Word
    BY WriteFacts DEF IInv, CleanInv, Writes!IInv, Writes!FlashInv, WordAddr, Writes!WordAddr
  <2> QED
    BY <2>1 DEF Writes!Target, Reprogrammed, Erased, Word
<1> QED
  BY <1>1, ReprogramInductive, PTL

\* After an erase by pages that failed and is reported as done, the write mixes no
\* address with another, and what its first pulse erases instead of programming
\* lies in the first page.
THEOREM FailedEraseIsBounded == Spec => []FailedEraseCostsOnePage
<1>1. IInv => FailedEraseCostsOnePage
  BY DEF IInv, MixedInv, MayHold, Written, Passed, FailedEraseCostsOnePage
<1> QED
  BY <1>1, ReprogramInductive, PTL

-------------------------------------------------------------------------------
(* The promise of Replacement.                                             *)

\* The memory and the image keep their types through erase and write.
MemoryTypeOK ==
  /\ flash \in [WordAddr -> Word] /\ contents \in [WordAddr -> Word]
  /\ contentsSize \in 0 .. CodeMemorySize
  /\ eraseFailed \in BOOLEAN

LEMMA MemoryType == IInv => MemoryTypeOK
<1> SUFFICES ASSUME IInv PROVE MemoryTypeOK
  OBVIOUS
<1> USE DEF MemoryTypeOK
<1>1. CASE pc = "idle"
  <2>1. contents \in [WordAddr -> Word] /\ contentsSize \in 0 .. CodeMemorySize
    BY <1>1 DEF IInv, ImageInv
  <2>2. flash \in [WordAddr -> Word] /\ eraseFailed \in BOOLEAN
    <3>1. CASE PagesInv
      BY <3>1 DEF PagesInv, Erases!IInv, Erases!TypeOK, Erases!DeviceTypeOK, Erases!WordAddr,
                  Erases!Word, WordAddr, Word
    <3>2. CASE BulkInv
      BY <3>2 DEF BulkInv, DeviceTypeOK
    <3> QED
      BY <1>1, <3>1, <3>2 DEF IInv
  <2> QED
    BY <2>1, <2>2
<1>2. CASE pc # "idle"
  BY <1>2, WriteFacts DEF IInv, DeviceTypeOK, Writes!RunInv, Writes!TypeOK
<1> QED
  BY <1>1, <1>2

\* How the state maps to the promise's.
StatusMaps ==
  /\ eraseFailed => Status = "unsure" /\ Progress = 0
  /\ ~eraseFailed /\ pc = "idle" => Status = "erasing" /\ Progress = 0
  /\ ~eraseFailed /\ pc # "idle" => Status = Writes!Status /\ Progress = Writes!Progress

LEMMA Mapping == StatusMaps
<1>1. Write!Status = Writes!Status
  BY DEF Write!Status, Writes!Status
<1>2. Write!Progress = Writes!Progress
  BY DEF Write!Progress, Writes!Progress, Write!InLoop, Writes!InLoop
<1> QED
  BY <1>1, <1>2 DEF StatusMaps, Status, Progress

\* Both facts hold of the next state too.
LEMMA NextMapping == IInv' => MemoryTypeOK' /\ StatusMaps'
<1>1. IInv => MemoryTypeOK /\ StatusMaps
  BY MemoryType, Mapping
<1> QED
  BY <1>1, PTL

\* A step of an erase that only erases, and that leaves the memory alone once a
\* transfer has failed, is a step of the promise's erase.
LEMMA EraseRefines ==
  ASSUME IInv, IInv', pc = "idle", UNCHANGED writeVars,
         \A w \in WordAddr : flash'[w] \in {flash[w], Erased},
         eraseFailed => eraseFailed' /\ UNCHANGED flash
  PROVE  [Promise!Next]_(Promise!vars)
<1>1. /\ flash \in [WordAddr -> Word] /\ flash' \in [WordAddr -> Word]
      /\ Promise!Addr = WordAddr
      /\ UNCHANGED <<contents, contentsSize, pc>>
  BY MemoryType, NextMapping DEF MemoryTypeOK, Promise!Addr, WordAddr, writeVars
<1>2. CASE eraseFailed
  BY <1>1, <1>2, Mapping, NextMapping DEF StatusMaps, Promise!vars
<1>3. CASE ~eraseFailed
  <2> DEFINE S == {w \in WordAddr : flash'[w] = Erased}
  <2>1. flash' = Promise!Without(S)
    BY <1>1 DEF Promise!Without, Erased
  <2>2. S \in SUBSET Promise!Addr
    BY <1>1
  <2>3. Status = "erasing" /\ Progress = 0 /\ Progress' = 0 /\ Status' \in {"erasing", "unsure"}
    BY <1>1, <1>3, Mapping, NextMapping DEF StatusMaps, MemoryTypeOK
  <2> QED
    BY <1>1, <2>1, <2>2, <2>3 DEF Promise!Next, Promise!Erase
<1> QED
  BY <1>2, <1>3

\* A step of the write behind a failed erase is within what is left of the promise.
LEMMA UnsureRefines ==
  ASSUME IInv, IInv', pc # "idle", eraseFailed, UNCHANGED <<eraseVars>>,
         [Writes!Next]_(Writes!vars)
  PROVE  [Promise!Next]_(Promise!vars)
<1>1. /\ flash' \in [WordAddr -> Word] /\ Promise!Addr = WordAddr
      /\ Status = "unsure" /\ Status' = "unsure" /\ Progress = 0 /\ Progress' = 0
      /\ Writes!RunInv
  BY Mapping, NextMapping
     DEF StatusMaps, MemoryTypeOK, Promise!Addr, WordAddr, eraseVars, IInv
<1>2. CASE ~Writes!BurnBlock
  <2>1. UNCHANGED <<flash, contents, contentsSize>>
    BY <1>1, <1>2, Writes!QuietSteps, DeviceAssumption, AddressAssumption
       DEF Writes!DeviceAssumption, Writes!AddressAssumption, Writes!picture
  <2> QED
    BY <1>1, <2>1 DEF Promise!vars
<1>3. CASE Writes!BurnBlock
  <2>1. /\ pc = "burn" /\ Writes!InLoop /\ UNCHANGED <<contents, contentsSize>>
        /\ UNCHANGED flash \/ Writes!Pulse
    BY <1>3 DEF Writes!BurnBlock, Writes!InLoop, Writes!picture, Writes!device
  <2>2. /\ Writes!Base \in Nat /\ Writes!Base + wordsLeft = Writes!Total
        /\ wordsToWrite \in Nat /\ wordsToWrite <= wordsLeft /\ wordsLeft \in Nat
        /\ Writes!Total \in Nat
    BY <1>1, <2>1, Writes!BlockFacts, WriteFacts, DeviceAssumption, AddressAssumption
       DEF Writes!DeviceAssumption, Writes!AddressAssumption, Writes!RunInv, Writes!TypeOK
  <2>3. Writes!Total = (contentsSize + 1) \div 2
    BY MemoryType, DeviceAssumption DEF MemoryTypeOK, Writes!Total, Writes!TotalWords
  <2>4. ASSUME NEW w \in WordAddr PROVE flash'[w] \in Promise!MayBecome(w)
    <3>1. CASE UNCHANGED flash
      BY <3>1 DEF Promise!MayBecome
    <3>2. CASE Writes!Pulse /\ free
      BY <3>2 DEF Writes!Pulse, Writes!PageErased, Writes!WordAddr, Writes!Erased, WordAddr,
                  Promise!MayBecome
    <3>3. CASE Writes!Pulse /\ ~free
      <4>1. flash'[w] = IF Writes!Base <= w /\ w < Writes!Base + wordsToWrite
                        THEN flash[w] \cap contents[w] ELSE flash[w]
        BY <1>1, <2>1, <3>3, Writes!PulseBurnsBlock, DeviceAssumption, AddressAssumption
           DEF WordAddr, Writes!WordAddr, Writes!DeviceAssumption, Writes!AddressAssumption
      <4>2. w < Writes!Base + wordsToWrite => w < (contentsSize + 1) \div 2
        <5>1. w \in Nat
          BY DEF WordAddr
        <5>2. w < Writes!Base + wordsToWrite => w < Writes!Total
          BY <2>2, <5>1
        <5> QED
          BY <2>3, <5>2
      <4> QED
        BY <4>1, <4>2 DEF Promise!MayBecome
    <3> QED
      BY <2>1, <3>1, <3>2, <3>3
  <2> QED
    BY <1>1, <2>1, <2>4 DEF Promise!Next, Promise!WriteUnsure, Word
<1> QED
  BY <1>2, <1>3

\* A step of the write behind a complete erase is one of the promise's write.
LEMMA CleanRefines ==
  ASSUME IInv, IInv', pc # "idle", pc' # "idle", ~eraseFailed, UNCHANGED <<eraseVars>>,
         [Writes!Next]_(Writes!vars)
  PROVE  [Promise!Next]_(Promise!vars)
<1>1. /\ Status = Writes!Status /\ Progress = Writes!Progress
      /\ Status' = Writes!Status' /\ Progress' = Writes!Progress'
  BY Mapping, NextMapping DEF StatusMaps, eraseVars
<1>2. Writes!IInv /\ Writes!IInv'
  BY DEF IInv, CleanInv, eraseVars
<1>3. [Writes!Promise!Next]_(Writes!Promise!vars)
  BY <1>2, Writes!StepRefines, DeviceAssumption, AddressAssumption
     DEF Writes!DeviceAssumption, Writes!AddressAssumption
<1>4. CASE UNCHANGED Writes!Promise!vars
  BY <1>1, <1>4 DEF Writes!Promise!vars, Promise!vars
<1>5. \A m, n : Writes!Promise!Written(m, n) = Promise!Write!Written(m, n)
  BY DEF Writes!Promise!Written, Promise!Write!Written, Writes!Promise!Addr, Promise!Write!Addr
<1>6. CASE Writes!Promise!Next
  BY <1>1, <1>5, <1>6
     DEF Promise!Next, Promise!Write!Next, Writes!Promise!Next,
         Promise!Write!Advance, Writes!Promise!Advance, Promise!Write!Finish,
         Writes!Promise!Finish, Promise!Write!Abort, Writes!Promise!Abort,
         Promise!Write!Retry, Writes!Promise!Retry
<1> QED
  BY <1>3, <1>4, <1>6

\* Every step of erase and write is a step of the promise or leaves it alone.
LEMMA StepRefines == IInv /\ IInv' /\ [Next]_vars => [Promise!Next]_(Promise!vars)
<1> SUFFICES ASSUME IInv, IInv', [Next]_vars PROVE [Promise!Next]_(Promise!vars)
  OBVIOUS
<1>1. CASE UNCHANGED vars
  <2>1. UNCHANGED <<flash, contents, contentsSize, Status, Progress>>
    BY <1>1 DEF vars, device, eraseVars, writeVars, Status, Progress,
                Write!Status, Write!Progress, Write!InLoop
  <2> QED
    BY <2>1 DEF Promise!vars
<1>2. CASE EraseStep
  <2>1. pc = "idle" /\ UNCHANGED writeVars /\ Erases!Next /\ PagesInv
    BY <1>2, SameErase DEF EraseStep, IInv
  <2>2. /\ eraseFailed => erasePc = "done"
        /\ erasePc = "pulse" => free
    BY <2>1 DEF PagesInv, Erases!IInv, Erases!RegisterInv
  <2>3. UNCHANGED flash \/ flash' = Erases!PageErased
    BY <2>1, <2>2 DEF Erases!Next, Erases!ConfigWriteStart, Erases!DisableMultiPanel,
                      Erases!SelectPage, Erases!ErasePage, Erases!Return, Erases!Pulse,
                      Erases!device
  <2>4. ~eraseFailed
    BY <2>1, <2>2 DEF Erases!Next, Erases!ConfigWriteStart, Erases!DisableMultiPanel,
                      Erases!SelectPage, Erases!ErasePage, Erases!Return
  <2>5. \A w \in WordAddr : flash'[w] \in {flash[w], Erased}
    BY <2>3 DEF Erases!PageErased, Erases!WordAddr, Erases!Erased, WordAddr, Erased
  <2> QED
    BY <2>1, <2>4, <2>5, EraseRefines
<1>3. CASE BulkEraseStep
  <2>1. pc = "idle" /\ UNCHANGED writeVars /\ UNCHANGED eraseVars /\ bulkPc # "unused"
    BY <1>3 DEF BulkEraseStep, Bulk!Next, Bulk!WriteCommand, Bulk!EraseAll
  <2>2. ~eraseFailed
    BY <2>1 DEF IInv, BulkInv
  <2>3. \A w \in WordAddr : flash'[w] \in {flash[w], Erased}
    BY <1>3 DEF BulkEraseStep, Bulk!Next, Bulk!WriteCommand, Bulk!EraseAll, Bulk!WordAddr,
                Bulk!Erased, WordAddr, Erased
  <2> QED
    BY <2>1, <2>2, <2>3, EraseRefines
<1>4. CASE BeginWrite
  <2>1. /\ pc = "idle" /\ pc' = "start" /\ UNCHANGED <<eraseVars, contents, contentsSize, flash>>
    BY <1>4 DEF BeginWrite, ChipReset, device
  <2>2. CASE eraseFailed
    BY <2>1, <2>2, Mapping, NextMapping DEF StatusMaps, Promise!vars, eraseVars
  <2>3. CASE ~eraseFailed
    <3>1. \A w \in WordAddr : flash[w] = Erased
      BY <1>4, <2>1, <2>3, AfterErase DEF BeginWrite
    <3>2. Status' = "running" /\ Progress' = 0
      BY <2>1, <2>3, NextMapping
         DEF StatusMaps, eraseVars, Writes!Status, Writes!Progress, Writes!InLoop
    <3> QED
      BY <2>1, <2>3, <3>1, <3>2, Mapping
         DEF StatusMaps, Promise!Next, Promise!Begin, Promise!Addr, WordAddr, Erased
  <2> QED
    BY <2>2, <2>3
<1>5. CASE WriteStep
  <2>1. /\ pc # "idle" /\ UNCHANGED <<eraseVars, bulkPc>> /\ [Writes!Next]_(Writes!vars)
    BY <1>5, SameWrite DEF WriteStep
  <2>2. pc' # "idle"
    BY <2>1, Writes!NextRunInv, DeviceAssumption, AddressAssumption
       DEF IInv, Writes!DeviceAssumption, Writes!AddressAssumption, Writes!RunInv, Writes!TypeOK
  <2> QED
    BY <2>1, <2>2, UnsureRefines, CleanRefines
<1> QED
  BY <1>1, <1>2, <1>3, <1>4, <1>5 DEF Next

\* The initial states are the promise's.
LEMMA InitRefines == Init => Promise!Init
<1> SUFFICES ASSUME Init PROVE Promise!Init
  OBVIOUS
<1>1. IInv /\ pc = "idle" /\ eraseFailed = FALSE
  BY InitIInv DEF Init, Erase!Init
<1>2. Status = "erasing" /\ Progress = 0
  BY <1>1, Mapping DEF StatusMaps
<1>3. (contentsSize + 1) \div 2 \in 0 .. CodeMemorySize \div 2
  BY <1>1, MemoryType, DeviceAssumption DEF MemoryTypeOK
<1> QED
  BY <1>1, <1>2, <1>3, MemoryType DEF MemoryTypeOK, Promise!Init, Promise!Addr, WordAddr, Word

\* Erase and write, their pages, blocks, transfers, failures and retries together,
\* implement the replacement of a program on every device.
THEOREM ReprogramRefines == Spec => ImplementsReplacement
<1>1. IInv /\ IInv' /\ [Next]_vars => [Promise!Next]_(Promise!vars)
  BY StepRefines
<1> QED
  BY <1>1, InitRefines, ReprogramInductive, PTL DEF Spec, ImplementsReplacement, Promise!Spec

\* The invariant of the promise itself: once the write has begun a word is erased
\* or the image's, and the image's once the write has passed it.
PromiseInv ==
  /\ flash \in [Promise!Addr -> Word] /\ contents \in [Promise!Addr -> Word]
  /\ Progress \in Nat /\ (contentsSize + 1) \div 2 \in Nat
  /\ Status = "aborted" => Progress = 0
  /\ Status = "done" => Progress = (contentsSize + 1) \div 2
  /\ Status \in {"erasing", "unsure"} => Progress = 0
  /\ Status \in {"erasing", "unsure", "running", "aborted", "done"}
  /\ Status \in {"running", "aborted", "done"} =>
       \A w \in Promise!Addr :
         LET image == IF w < (contentsSize + 1) \div 2 THEN contents[w] ELSE Erased IN
         flash[w] \in {Erased, image} /\ (w < Progress => flash[w] = image)

\* The promise is worth its name: whatever keeps it, its status being "done", leaves
\* exactly the image in the memory, and erased words behind it.
THEOREM PromiseSuffices == Promise!Spec => []Promise!OnlyTheImage
<1> DEFINE total == (contentsSize + 1) \div 2
           Image(w) == IF w < total THEN contents[w] ELSE Erased
<1>1. Promise!Init => PromiseInv
  BY DEF Promise!Init, PromiseInv, Word
<1>2. ASSUME PromiseInv, [Promise!Next]_(Promise!vars) PROVE PromiseInv'
  <2>1. CASE UNCHANGED Promise!vars
    <3>1. UNCHANGED <<flash, contents, total, Progress, Status>>
      BY <2>1 DEF Promise!vars
    <3> QED
      BY <1>2, <3>1 DEF PromiseInv, Promise!Addr
  <2>2. CASE Promise!Erase
    <3>1. flash' \in [Promise!Addr -> Word] /\ UNCHANGED <<contents, Progress>>
      BY <1>2, <2>2 DEF PromiseInv, Promise!Erase, Promise!Without, Word
    <3> QED
      BY <1>2, <2>2, <3>1 DEF PromiseInv, Promise!Erase, Promise!Addr
  <2>3. CASE Promise!Begin
    BY <1>2, <2>3 DEF PromiseInv, Promise!Begin, Promise!Addr, Erased
  <2>4. CASE Promise!WriteUnsure
    BY <1>2, <2>4 DEF PromiseInv, Promise!WriteUnsure, Promise!Addr, Word
  <2>5. ASSUME NEW m \in Nat, NEW n \in Nat, n <= total, m = Progress, Status = "running",
               flash' = Promise!Write!Written(m, n), UNCHANGED <<contents, total>>
        PROVE  /\ flash' \in [Promise!Addr -> Word]
               /\ \A w \in Promise!Addr : flash'[w] \in {Erased, Image(w)}
               /\ \A w \in Promise!Addr : w < n => flash'[w] = Image(w)
    <3> SUFFICES ASSUME NEW w \in Promise!Addr
                 PROVE  /\ flash'[w] \in Word
                        /\ flash'[w] \in {Erased, Image(w)}
                        /\ w < n => flash'[w] = Image(w)
      BY <2>5 DEF Promise!Write!Written, Promise!Write!Addr, Promise!Addr
    <3>1. /\ w \in Int /\ contents[w] \in Word /\ flash[w] \in Word
          /\ flash[w] \in {Erased, Image(w)} /\ (w < m => flash[w] = Image(w))
      BY <1>2, <2>5 DEF PromiseInv, Promise!Addr
    <3>2. flash'[w] = IF m <= w /\ w < n THEN flash[w] \cap contents[w] ELSE flash[w]
      BY <2>5 DEF Promise!Write!Written, Promise!Write!Addr, Promise!Addr
    <3>3. CASE m <= w /\ w < n
      <4>1. Image(w) = contents[w] /\ flash'[w] = flash[w] \cap contents[w]
        <5>1. w < total
          BY <1>2, <2>5, <3>1, <3>3 DEF PromiseInv
        <5> QED
          BY <3>2, <3>3, <5>1
      <4>2. flash'[w] = contents[w]
        BY <3>1, <4>1 DEF Erased, Word
      <4> QED
        BY <3>1, <4>1, <4>2
    <3>4. CASE ~(m <= w /\ w < n)
      BY <2>5, <3>1, <3>2, <3>4
    <3> QED
      BY <3>3, <3>4
  <2>6. CASE Promise!Write!Advance
    <3>1. PICK n \in Progress + 1 .. total :
            flash' = Promise!Write!Written(Progress, n) /\ Progress' = n
      BY <2>6 DEF Promise!Write!Advance
    <3>2. /\ Status = "running" /\ Status' = "running" /\ UNCHANGED <<contents, total>>
          /\ Progress \in Nat /\ n \in Nat /\ n <= total
      BY <1>2, <2>6, <3>1 DEF Promise!Write!Advance, PromiseInv
    <3>3. /\ flash' \in [Promise!Addr -> Word]
          /\ \A w \in Promise!Addr : flash'[w] \in {Erased, Image(w)}
          /\ \A w \in Promise!Addr : w < n => flash'[w] = Image(w)
      BY <2>5, <3>1, <3>2
    <3> QED
      BY <1>2, <3>1, <3>2, <3>3 DEF PromiseInv, Promise!Addr
  <2>7. CASE Promise!Write!Abort
    <3>1. PICK n \in Progress .. total : flash' = Promise!Write!Written(Progress, n)
      BY <2>7 DEF Promise!Write!Abort
    <3>2. /\ Status = "running" /\ Status' = "aborted" /\ UNCHANGED <<contents, total>>
          /\ Progress \in Nat /\ n \in Nat /\ n <= total /\ Progress' = 0
      BY <1>2, <2>7, <3>1 DEF Promise!Write!Abort, PromiseInv
    <3>3. /\ flash' \in [Promise!Addr -> Word]
          /\ \A w \in Promise!Addr : flash'[w] \in {Erased, Image(w)}
      BY <2>5, <3>1, <3>2
    <3>4. \A w \in Promise!Addr : ~(w < 0)
      BY DEF Promise!Addr
    <3> QED
      BY <1>2, <3>1, <3>2, <3>3, <3>4 DEF PromiseInv, Promise!Addr
  <2>8. CASE Promise!Write!Finish \/ Promise!Write!Retry
    BY <1>2, <2>8 DEF PromiseInv, Promise!Write!Finish, Promise!Write!Retry, Promise!Addr
  <2> QED
    BY <1>2, <2>1, <2>2, <2>3, <2>4, <2>6, <2>7, <2>8 DEF Promise!Next, Promise!Write!Next
<1>3. PromiseInv => Promise!OnlyTheImage
  <2> SUFFICES ASSUME PromiseInv, Status = "done", NEW w \in Promise!Addr
               PROVE  flash[w] = Image(w)
    BY DEF Promise!OnlyTheImage, Erased
  <2>1. flash[w] \in {Erased, Image(w)} /\ (w < Progress => flash[w] = Image(w))
        /\ Progress = total
    BY DEF PromiseInv
  <2> QED
    BY <2>1
<1> QED
  BY <1>1, <1>2, <1>3, PTL DEF Promise!Spec
===============================================================================
