-------------------------- MODULE ProgramWriteProofs --------------------------
(***************************************************************************)
(* ProgramWrite is correct for every memory size, write buffer size and    *)
(* image: the invariant IInv is inductive, and what a caller of            *)
(* image_to_device_program relies on follows from it.                      *)
(***************************************************************************)
EXTENDS ProgramWrite, TLAPS

\* Division by the size of the write buffer.
LEMMA DivMod ==
  ASSUME NEW W \in Nat \ {0}, NEW a \in Nat
  PROVE  /\ a \div W \in Nat
         /\ a % W \in 0 .. W - 1
         /\ a = W * (a \div W) + (a % W)
  OBVIOUS

\* Quotient and remainder of a word given by its row and its lane.
LEMMA RowAndLane ==
  ASSUME NEW W \in Nat \ {0}, NEW q \in Nat, NEW i \in 0 .. W - 1
  PROVE  /\ (W * q + i) \div W = q
         /\ (W * q + i) % W = i
  OBVIOUS

\* An aligned address, and the lanes that follow it up to the end of its row.
LEMMA Aligned ==
  ASSUME NEW W \in Nat \ {0}, NEW b \in Nat, b % W = 0, NEW i \in 0 .. W - 1
  PROVE  /\ (b + i) \div W = b \div W
         /\ (b + i) % W = i
<1> DEFINE q == b \div W
<1>1. b = W * q /\ q \in Nat
  BY DivMod
<1>2. /\ (W * q + i) \div W = q
      /\ (W * q + i) % W = i
  <2> HIDE DEF q
  <2> QED BY <1>1, RowAndLane
<1> QED
  BY <1>1, <1>2

\* The end of a full row is aligned again.
LEMMA NextAligned ==
  ASSUME NEW W \in Nat \ {0}, NEW b \in Nat, b % W = 0
  PROVE  (b + W) % W = 0
<1>1. b = W * (b \div W) /\ b \div W \in Nat
  BY DivMod
<1>2. b + W = W * (b \div W + 1) + 0
  BY <1>1
<1> QED
  BY <1>1, <1>2, RowAndLane

\* A word in the same row as an aligned address lies one lane after it.
LEMMA SameRow ==
  ASSUME NEW W \in Nat \ {0}, NEW b \in Nat, b % W = 0, NEW w \in Nat,
         w \div W = b \div W
  PROVE  /\ w % W \in 0 .. W - 1
         /\ w = b + (w % W)
<1>1. b = W * (b \div W) + (b % W)
  BY DivMod
<1>2. w = W * (w \div W) + (w % W) /\ w % W \in 0 .. W - 1
  BY DivMod
<1> DEFINE q == b \div W
           r == w % W
<1>3. b = W * q /\ w = W * q + r
  BY <1>1, <1>2
<1>4. W * q \in Nat
  BY <1>3
<1> QED
  BY <1>2, <1>3, <1>4

\* A number below the modulus is its own remainder.
LEMMA SmallMod ==
  ASSUME NEW A \in Nat \ {0}, NEW x \in 0 .. A - 1
  PROVE  x % A = x
  OBVIOUS

\* The words of an image: those that hold one of its bytes.
LEMMA ImageWords ==
  ASSUME TypeOK
  PROVE  /\ Total \in Nat
         /\ 2 * Total <= CodeMemorySize
         /\ \A w \in WordAddr : w \in Nat /\ (2 * w < contentsSize <=> w < Total)
         /\ \A w \in Nat : w < Total => w \in WordAddr
  BY DeviceAssumption DEF TypeOK, Total, TotalWords, WordAddr

\* What one pulse does in the burn state: exactly the block's words are
\* programmed, with the image's words at the same addresses.
LEMMA PulseBurnsBlock ==
  ASSUME RunInv, ~free, pc = "burn", Pulse
  PROVE  flash' = [w \in WordAddr |->
                     IF Base <= w /\ w < Base + wordsToWrite
                     THEN flash[w] \cap contents[w] ELSE flash[w]]
<1> USE DEF RunInv
<1>1. /\ Total \in Nat /\ wordsLeft \in Nat /\ wordsLeft <= Total /\ wordsLeft > 0
      /\ Base \in Nat /\ Base % WordsPerWrite = 0
      /\ WordsPerWrite \in Nat \ {0}
  BY ImageWords, DeviceAssumption DEF LoopInv, InLoop, TypeOK, Base
<1>2. /\ wordsToWrite \in 1 .. WordsPerWrite
      /\ wordsToWrite = WordsPerWrite \/ Base + wordsToWrite = Total
      /\ tblptr = 2 * (Base + (wordsToWrite - 1))
      /\ currentData - Base = wordsToWrite
  BY <1>1 DEF LoopInv, InLoop, TypeOK, Base, BlockWords
<1>3. ASSUME NEW i \in 0 .. WordsPerWrite - 1
      PROVE  (Base + i) \div WordsPerWrite = Base \div WordsPerWrite
  <2>1. \A b \in Nat : b % WordsPerWrite = 0
                       => (b + i) \div WordsPerWrite = b \div WordsPerWrite
    BY <1>1, Aligned
  <2> QED
    BY <1>1, <2>1
<1>4. RowOf(tblptr \div 2) = Base \div WordsPerWrite
  <2>1. tblptr \div 2 = Base + (wordsToWrite - 1)
    BY <1>1, <1>2
  <2>2. wordsToWrite - 1 \in 0 .. WordsPerWrite - 1
    BY <1>1, <1>2
  <2> QED
    BY <1>3, <2>1, <2>2 DEF RowOf
<1>5. ASSUME NEW w \in WordAddr
      PROVE  (IF Selected(w) THEN flash[w] \cap latch[w % WordsPerWrite] ELSE flash[w])
             = IF Base <= w /\ w < Base + wordsToWrite
               THEN flash[w] \cap contents[w] ELSE flash[w]
  <2>1. Selected(w) <=> w \div WordsPerWrite = Base \div WordsPerWrite
    BY <1>4 DEF Selected, RegisterInv, LoopInv, InLoop, RowOf
  <2>2. w \in Nat
    BY DEF WordAddr
  <2>3. CASE Selected(w)
    <3> DEFINE l == w % WordsPerWrite
    <3>1. l \in 0 .. WordsPerWrite - 1 /\ w = Base + l
      BY <1>1, <2>1, <2>2, <2>3, SameRow
    <3>2. l \in Lane
      BY <3>1 DEF Lane
    <3>3. CASE l < wordsToWrite
      <4>1. latch[l] = contents[w]
        BY <1>2, <3>1, <3>2, <3>3 DEF LatchInv
      <4>2. Base <= w /\ w < Base + wordsToWrite
        BY <1>1, <1>2, <3>1, <3>3
      <4> QED
        BY <2>3, <4>1, <4>2
    <3>4. CASE ~(l < wordsToWrite)
      <4>1. ~(w < Base + wordsToWrite)
        BY <1>1, <1>2, <3>1, <3>4
      <4>2. ~((l < Total \/ l = 0) /\ (InLoop => Base = 0))
        BY <1>1, <1>2, <3>1, <3>4 DEF InLoop
      <4>3. latch[l] = Erased
        BY <1>2, <3>2, <3>4, <4>2 DEF LatchInv
      <4>4. flash[w] \subseteq Bits
        BY DEF TypeOK, DeviceTypeOK, Word
      <4> QED
        BY <2>3, <4>1, <4>3, <4>4 DEF Erased
    <3> QED
      BY <3>3, <3>4
  <2>4. CASE ~Selected(w)
    <3>1. ~(Base <= w /\ w < Base + wordsToWrite)
      <4>1. SUFFICES ASSUME Base <= w, w < Base + wordsToWrite PROVE FALSE
        OBVIOUS
      <4>2. w - Base \in 0 .. WordsPerWrite - 1
        BY <1>1, <1>2, <2>2, <4>1
      <4>3. w = Base + (w - Base)
        BY <1>1, <2>2
      <4>4. w \div WordsPerWrite = Base \div WordsPerWrite
        BY <1>3, <4>2, <4>3
      <4> QED
        BY <2>1, <2>4, <4>4
    <3> QED
      BY <2>4, <3>1
  <2> QED
    BY <2>3, <2>4
<1> QED
  BY <1>5 DEF Pulse, Programmed

\* In a block: where the block lies, how much of it is loaded.
LEMMA BlockFacts ==
  ASSUME RunInv, InLoop
  PROVE  /\ Total \in Nat /\ wordsLeft \in 0 .. Total
         /\ Base \in Nat /\ Base + wordsLeft = Total
         /\ pc \in {"fill", "burn"} =>
              /\ Base % WordsPerWrite = 0
              /\ wordsToWrite \in 1 .. WordsPerWrite
              /\ wordsToWrite <= wordsLeft
              /\ wordsToWrite = WordsPerWrite \/ wordsToWrite = wordsLeft
              /\ currentData - Base \in 0 .. wordsToWrite
<1>1. /\ Total \in Nat /\ wordsLeft \in 0 .. Total
      /\ Base \in Nat /\ Base + wordsLeft = Total
  BY ImageWords DEF RunInv, TypeOK, LoopInv, Base
<1>2. CASE pc \in {"fill", "burn"}
  <2>1. /\ wordsLeft > 0 /\ wordsToWrite = BlockWords(wordsLeft)
        /\ Base % WordsPerWrite = 0
    BY <1>2 DEF RunInv, LoopInv, InLoop
  <2>2. /\ wordsToWrite \in 1 .. WordsPerWrite
        /\ wordsToWrite <= wordsLeft
        /\ wordsToWrite = WordsPerWrite \/ wordsToWrite = wordsLeft
    BY <1>1, <2>1, DeviceAssumption DEF BlockWords
  <2>3. currentData - Base \in 0 .. wordsToWrite
    BY <1>1, <1>2, <2>2 DEF RunInv, TypeOK, LoopInv, InLoop
  <2> QED
    BY <1>1, <2>1, <2>2, <2>3
<1> QED
  BY <1>1, <1>2

\* A loaded lane holds a word of the image, or is the first of every block.
LEMMA LoadedLane ==
  ASSUME RunInv, NEW l \in Lane
  PROVE  latch[l] = Erased \/ l < Total \/ l = 0
<1>1. l \in Nat
  BY DeviceAssumption DEF Lane
<1>2. CASE pc \in {"fill", "burn"} /\ l < currentData - Base
  BY <1>1, <1>2, BlockFacts DEF InLoop
<1>3. CASE ~(pc \in {"fill", "burn"} /\ l < currentData - Base)
  BY <1>3 DEF RunInv, LatchInv
<1> QED
  BY <1>2, <1>3

\* Steps outside the loop, and a failure that leaves it, keep the invariant as
\* long as they leave the write buffer alone.
LEMMA OutOfLoop ==
  ASSUME RunInv, TypeOK',
         UNCHANGED picture,
         UNCHANGED latch \/ latch' = EmptyLatch,
         pc' \in {"start", "panel", "mode", "aborted"},
         pc' = "panel" => cfgs',
         pc' = "mode" => ~multiPanel'
  PROVE  RunInv'
<1>1. ~InLoop' /\ pc' # "done"
  BY DEF InLoop
<1>2. Total' = Total
  BY DEF picture, Total
<1>3. LatchInv'
  BY <1>1, <1>2, LoadedLane DEF LatchInv, InLoop, EmptyLatch
<1> QED
  BY <1>1, <1>3 DEF RunInv, RegisterInv, LoopInv

\* Every value TBLPTR can hold after its three stores is an address.
LEMMA PartlySetNat ==
  ASSUME NEW old \in Nat, NEW new \in Nat
  PROVE  PartlySet(old, new) \subseteq Nat
BY DEF PartlySet, HighPart

\* Selecting the control registers keeps the invariant: CFGS is set before the
\* next step, or the run is over.
LEMMA ConfigWriteStartInv == RunInv /\ ConfigWriteStart => RunInv'
<1> SUFFICES ASSUME RunInv, ConfigWriteStart PROVE RunInv'
  OBVIOUS
<1>1. TypeOK'
  BY DEF RunInv, TypeOK, DeviceTypeOK, ConfigWriteStart, Fail, device, picture, locals
<1> QED
  BY <1>1, OutOfLoop DEF ConfigWriteStart, Fail, device, picture

\* Switching to single-panel writes keeps it: with CFGS set, the write reaches
\* the register, and the next step knows that one panel will be programmed.
LEMMA DisableMultiPanelInv == RunInv /\ DisableMultiPanel => RunInv'
<1> SUFFICES ASSUME RunInv, DisableMultiPanel PROVE RunInv'
  OBVIOUS
<1>1. tblptr' \in Nat
  BY PartlySetNat
     DEF RunInv, TypeOK, DeviceTypeOK, DisableMultiPanel, MultiPanelReg
<1>2. TypeOK'
  BY <1>1
     DEF RunInv, TypeOK, DeviceTypeOK, DisableMultiPanel, picture, locals, select
<1>3. cfgs
  BY DEF RunInv, RegisterInv, DisableMultiPanel
<1> QED
  BY <1>2, <1>3, OutOfLoop DEF DisableMultiPanel, picture

\* Beginning again keeps it: the stale words of the write buffer are words
\* that the new run loads again before its first pulse.
LEMMA RerunInv == RunInv /\ Rerun => RunInv'
<1> SUFFICES ASSUME RunInv, Rerun PROVE RunInv'
  OBVIOUS
<1>1. UNCHANGED picture /\ (UNCHANGED latch \/ latch' = EmptyLatch)
  BY DEF Rerun, device, ChipReset
<1>2. TypeOK'
  <2>1. latch' \in [Lane -> Word]
    BY <1>1 DEF RunInv, TypeOK, DeviceTypeOK, EmptyLatch, Erased, Word
  <2>2. DeviceTypeOK'
    <3>1. CASE UNCHANGED device
      BY <2>1, <3>1 DEF RunInv, TypeOK, DeviceTypeOK, device
    <3>2. CASE ChipReset
      BY <2>1, <3>2 DEF RunInv, TypeOK, DeviceTypeOK, ChipReset
    <3> QED
      BY <3>1, <3>2 DEF Rerun
  <2> QED
    BY <2>2, AddressAssumption DEF RunInv, TypeOK, Rerun, picture
<1> QED
  BY <1>1, <1>2, OutOfLoop DEF Rerun

\* Returning 1 keeps it: with no words left, the words done are the image's.
LEMMA ReturnInv == RunInv /\ Return => RunInv'
<1> SUFFICES ASSUME RunInv, Return PROVE RunInv'
  OBVIOUS
<1>1. TypeOK'
  BY DEF RunInv, TypeOK, DeviceTypeOK, Return, device, picture, locals
<1>2. ~InLoop' /\ pc' = "done"
  BY DEF Return, InLoop
<1>3. Total' = Total
  BY DEF Return, picture, Total
<1>4. LatchInv'
  BY <1>2, <1>3, LoadedLane DEF LatchInv, InLoop, Return, device
<1> QED
  BY <1>1, <1>2, <1>4 DEF RunInv, RegisterInv, LoopInv, Return

\* Entering code memory keeps it: the loop starts at word 0 with all words left.
LEMMA CodeWriteStartInv == RunInv /\ CodeWriteStart => RunInv'
<1> SUFFICES ASSUME RunInv, CodeWriteStart PROVE RunInv'
  OBVIOUS
<1>1. Total \in Nat /\ wordsLeft' = Total /\ Total' = Total
  BY ImageWords DEF RunInv, CodeWriteStart, picture, Total
<1>2. TypeOK'
  <2>1. DeviceTypeOK'
    BY DEF RunInv, TypeOK, DeviceTypeOK, CodeWriteStart, device
  <2>2. /\ wordsLeft' \in Nat /\ currentAddress' \in 0 .. AddrSpace - 1
        /\ currentData' \in Nat
    BY <1>1, AddressAssumption DEF CodeWriteStart
  <2> QED
    BY <2>1, <2>2 DEF RunInv, TypeOK, CodeWriteStart, picture
<1>3. CASE pc' = "aborted"
  BY <1>2, <1>3, OutOfLoop DEF CodeWriteStart, device, picture
<1>4. CASE pc' # "aborted"
  <2>1. pc' = "block" /\ Base' = 0 /\ ~InLoop
    BY <1>1, <1>4 DEF CodeWriteStart, Base, InLoop
  <2>2. RegisterInv'
    BY <1>4, <2>1 DEF RunInv, RegisterInv, CodeWriteStart
  <2>3. LoopInv'
    <3>1. /\ Base' % WordsPerWrite = 0
          /\ currentAddress' = (2 * currentData') % AddrSpace
      BY <2>1, AddressAssumption, DeviceAssumption DEF CodeWriteStart
    <3> QED
      BY <1>1, <2>1, <3>1 DEF LoopInv, CodeWriteStart
  <2>4. LatchInv'
    BY <1>1, <1>4, <2>1, LoadedLane DEF LatchInv, CodeWriteStart
  <2> QED
    BY <1>2, <2>2, <2>3, <2>4 DEF RunInv
<1> QED
  BY <1>3, <1>4

\* The head of the outer loop keeps it: a block starts at an aligned word.
LEMMA NextBlockInv == RunInv /\ NextBlock => RunInv'
<1> SUFFICES ASSUME RunInv, NextBlock PROVE RunInv'
  OBVIOUS
<1>1. /\ InLoop /\ pc = "block" /\ wordsLeft > 0 /\ currentData = Base
      /\ Base \in Nat /\ Base + wordsLeft = Total /\ Total \in Nat
      /\ Base % WordsPerWrite = 0
  BY BlockFacts DEF RunInv, TypeOK, LoopInv, NextBlock, InLoop
<1>2. currentAddress = 2 * currentData
  <2>1. 2 * Base \in 0 .. AddrSpace - 1
    BY <1>1, ImageWords, AddressAssumption, DeviceAssumption DEF RunInv, TypeOK
  <2> QED
    BY <1>1, <2>1, SmallMod, AddressAssumption DEF RunInv, LoopInv
<1>3. /\ wordsToWrite' = BlockWords(wordsLeft)
      /\ wordsToWrite' \in Nat /\ wordsToWrite' > 0
  BY <1>1, DeviceAssumption DEF NextBlock, BlockWords, RunInv, TypeOK
<1>4. TypeOK'
  <2>1. tblptr' \in Nat
    BY <1>1, <1>2, PartlySetNat DEF NextBlock, RunInv, TypeOK, DeviceTypeOK
  <2> QED
    BY <1>3, <2>1 DEF RunInv, TypeOK, DeviceTypeOK, NextBlock, picture, select
<1>5. CASE pc' = "aborted"
  BY <1>4, <1>5, OutOfLoop DEF NextBlock, picture
<1>6. CASE pc' # "aborted"
  <2>1. /\ pc' = "fill" /\ tblptr' = 2 * currentData /\ InLoop'
        /\ Base' = Base /\ Total' = Total
    BY <1>2, <1>3, <1>6 DEF NextBlock, InLoop, Base, Total, picture
  <2>2. RegisterInv'
    BY <1>1, <2>1 DEF RunInv, RegisterInv, NextBlock, select
  <2>3. LoopInv'
    BY <1>1, <1>3, <2>1 DEF RunInv, LoopInv, NextBlock
  <2>4. LatchInv'
    <3>1. \A l \in Lane : ~(l < currentData' - Base')
      BY <1>1, <2>1 DEF NextBlock, Lane
    <3> QED
      BY <1>1, <2>1, <3>1 DEF RunInv, LatchInv, NextBlock
  <2> QED
    BY <1>4, <2>2, <2>3, <2>4 DEF RunInv
<1> QED
  BY <1>5, <1>6

\* Loading a word keeps it: lane, address and datum stay in step.
LEMMA WriteWordInv == RunInv /\ WriteWord => RunInv'
<1> SUFFICES ASSUME RunInv, WriteWord PROVE RunInv'
  OBVIOUS
<1>1. CASE Fail
  <2>1. TypeOK'
    BY <1>1 DEF Fail, RunInv, TypeOK, DeviceTypeOK, device, picture, locals
  <2> QED
    BY <1>1, <2>1, OutOfLoop DEF Fail, device, picture
<1>2. CASE ~Fail
  <2> DEFINE last == wordIndex = wordsToWrite - 1
  <2>1. /\ latch' = [latch EXCEPT ![LaneOf(tblptr)] = contents[currentData]]
        /\ armed' = last
        /\ tblptr' = AfterWord(tblptr, last)
        /\ wordIndex' = wordIndex + 1
        /\ currentAddress' = NextAddress(currentAddress)
        /\ currentData' = currentData + 1
        /\ pc' \in {IF last THEN "burn" ELSE "fill", "aborted"}
        /\ UNCHANGED <<flash, select, free, multiPanel, picture, wordsLeft, wordsToWrite>>
    BY <1>2 DEF WriteWord
  <2>2. /\ pc = "fill" /\ InLoop
        /\ Total \in Nat /\ wordsLeft \in 0 .. Total
        /\ Base \in Nat /\ Base + wordsLeft = Total
        /\ Base % WordsPerWrite = 0
        /\ wordsToWrite \in 1 .. WordsPerWrite
        /\ wordsToWrite <= wordsLeft
        /\ wordIndex \in 0 .. wordsToWrite - 1
        /\ currentData = Base + wordIndex
        /\ tblptr = 2 * currentData
    BY BlockFacts DEF WriteWord, RunInv, TypeOK, LoopInv, InLoop
  <2>3. LaneOf(tblptr) = wordIndex /\ wordIndex \in Lane
    <3>1. tblptr \div 2 = Base + wordIndex
      BY <2>2
    <3>2. wordIndex \in 0 .. WordsPerWrite - 1
      BY <2>2, DeviceAssumption
    <3>3. \A b \in Nat : b % WordsPerWrite = 0 => (b + wordIndex) % WordsPerWrite = wordIndex
      BY <3>2, Aligned, DeviceAssumption
    <3> QED
      BY <2>2, <3>1, <3>2, <3>3 DEF LaneOf, Lane
  <2>4. /\ currentData \in WordAddr
        /\ currentData \in 0 .. Total - 1
        /\ currentAddress = 2 * currentData
    <3>1. 2 * currentData \in 0 .. AddrSpace - 1
      BY <2>2, ImageWords, AddressAssumption, DeviceAssumption DEF RunInv, TypeOK
    <3>2. (2 * currentData) % AddrSpace = 2 * currentData
      BY <3>1, SmallMod, AddressAssumption
    <3>3. currentData \in 0 .. Total - 1
      BY <2>2
    <3> QED
      BY <2>2, <3>2, <3>3, ImageWords DEF RunInv, LoopInv
  <2>5. TypeOK'
    <3>1. latch' \in [Lane -> Word]
      BY <2>1, <2>3, <2>4 DEF RunInv, TypeOK, DeviceTypeOK
    <3>2. tblptr' \in Nat /\ armed' \in BOOLEAN
      BY <2>1, <2>2 DEF AfterWord
    <3>3. wordIndex' \in Nat /\ currentData' \in Nat
      BY <2>1, <2>2
    <3>4. currentAddress' \in 0 .. AddrSpace - 1
      BY <2>1, <2>2, <2>4, AddressAssumption DEF NextAddress
    <3>5. DeviceTypeOK'
      BY <2>1, <3>1, <3>2 DEF RunInv, TypeOK, DeviceTypeOK, select
    <3> QED
      BY <2>1, <3>3, <3>4, <3>5 DEF RunInv, TypeOK, picture
  <2>6. Base' = Base /\ Total' = Total
    BY <2>1 DEF Base, Total, picture
  <2>7. RegisterInv'
    BY <2>1, <2>2 DEF RunInv, RegisterInv, InLoop, select
  <2>8. LoopInv'
    <3>1. pc' = "fill" => ~last
      BY <2>1
    <3>2. pc' = "burn" => last
      BY <2>1
    <3>3. currentAddress' = (2 * currentData') % AddrSpace
      BY <2>1, <2>2, <2>4 DEF NextAddress
    <3>4. pc' # "block"
      BY <2>1
    <3>5. pc' = "fill" => wordIndex' < wordsToWrite' /\ tblptr' = 2 * currentData'
      BY <2>1, <2>2, <3>1 DEF AfterWord
    <3>6. ASSUME pc' = "burn"
          PROVE  /\ currentData' = Base' + wordsToWrite'
                 /\ tblptr' = 2 * (currentData' - 1)
                 /\ armed'
      <4>1. last /\ armed'
        BY <2>1, <3>2, <3>6
      <4>2. wordIndex = wordsToWrite - 1 /\ tblptr' = tblptr
        BY <2>1, <4>1 DEF AfterWord
      <4> QED
        BY <2>1, <2>2, <2>6, <4>1, <4>2
    <3>7. wordsToWrite' = BlockWords(wordsLeft')
      BY <2>1, <2>2 DEF RunInv, LoopInv
    <3>8. wordsLeft' > 0 /\ wordsLeft' <= Total' /\ Base' % WordsPerWrite = 0
          /\ currentData' = Base' + wordIndex'
      BY <2>1, <2>2, <2>6
    <3> QED
      BY <3>3, <3>4, <3>5, <3>6, <3>7, <3>8 DEF LoopInv
  <2>9. LatchInv'
    <3>1. SUFFICES ASSUME NEW l \in Lane
                   PROVE  IF pc' \in {"fill", "burn"} /\ l < currentData' - Base'
                          THEN latch'[l] = contents'[Base' + l]
                          ELSE latch'[l] = Erased \/ ((l < Total' \/ l = 0) /\ (InLoop' => Base' = 0))
      BY DEF LatchInv
    <3>2. l \in Nat /\ contents' = contents /\ (InLoop' => InLoop)
      BY <2>1, <2>2, DeviceAssumption DEF Lane, picture
    <3>3. CASE l = wordIndex
      <4>1. latch'[l] = contents[Base + l]
        BY <2>1, <2>2, <2>3, <3>3 DEF RunInv, TypeOK, DeviceTypeOK
      <4>2. l < currentData' - Base' /\ l < Total'
        BY <2>1, <2>2, <2>6, <3>3
      <4>3. pc' \notin {"fill", "burn"} => ~InLoop'
        BY <2>1 DEF InLoop
      <4> QED
        BY <2>6, <3>2, <4>1, <4>2, <4>3
    <3>4. CASE l # wordIndex
      <4>1. latch'[l] = latch[l]
        BY <2>1, <2>3, <3>4 DEF RunInv, TypeOK, DeviceTypeOK
      <4>2. l < currentData' - Base' <=> l < currentData - Base
        BY <2>1, <2>2, <2>6, <3>2, <3>4
      <4>3. CASE pc' = "aborted"
        BY <2>6, <4>1, <4>3, LoadedLane DEF InLoop
      <4>4. CASE pc' # "aborted"
        BY <2>1, <2>2, <2>6, <3>2, <4>1, <4>2, <4>4 DEF RunInv, LatchInv, InLoop
      <4> QED
        BY <4>3, <4>4
    <3> QED
      BY <3>3, <3>4
  <2> QED
    BY <2>5, <2>7, <2>8, <2>9 DEF RunInv
<1> QED
  BY <1>1, <1>2

\* The pulse keeps it: the block's words reach their targets, and the next block
\* starts at an aligned word unless this was the last.
LEMMA BurnBlockInv == RunInv /\ BurnBlock => RunInv'
<1> SUFFICES ASSUME RunInv, BurnBlock PROVE RunInv'
  OBVIOUS
<1>1. /\ pc = "burn" /\ InLoop
      /\ Total \in Nat /\ wordsLeft \in 0 .. Total
      /\ Base \in Nat /\ Base + wordsLeft = Total
      /\ Base % WordsPerWrite = 0
      /\ wordsToWrite \in 1 .. WordsPerWrite
      /\ wordsToWrite <= wordsLeft
      /\ wordsToWrite = WordsPerWrite \/ wordsToWrite = wordsLeft
      /\ currentData = Base + wordsToWrite
  BY BlockFacts DEF BurnBlock, RunInv, LoopInv, InLoop
<1>2. /\ wordsLeft' = wordsLeft - wordsToWrite
      /\ wordsLeft' \in Nat
      /\ Total' = Total
      /\ Base' = Base + wordsToWrite
      /\ UNCHANGED <<picture, wordsToWrite, wordIndex, currentAddress, currentData>>
  BY <1>1 DEF BurnBlock, Total, Base, picture
<1>3. CASE pc' = "aborted" /\ UNCHANGED device
  <2>1. TypeOK'
    BY <1>2, <1>3 DEF RunInv, TypeOK, DeviceTypeOK, device, picture
  <2> QED
    BY <1>2, <1>3, <2>1, OutOfLoop DEF device
<1>4. CASE Pulse /\ pc' \in {"block", "aborted"}
  <2>1. flash' \in [WordAddr -> Word]
    BY <1>4 DEF Pulse, PageErased, Programmed, Erased, Word, RunInv, TypeOK, DeviceTypeOK
  <2>2. DeviceTypeOK'
    <3>1. latch' \in [Lane -> Word]
      BY <1>4 DEF Pulse, EmptyLatch, Erased, Word
    <3> QED
      BY <1>4, <2>1, <3>1 DEF Pulse, RunInv, TypeOK, DeviceTypeOK
  <2>3. TypeOK'
    BY <1>2, <1>4, <2>2 DEF RunInv, TypeOK, picture
  <2>4. RegisterInv'
    BY <1>1, <1>4 DEF Pulse, RunInv, RegisterInv
  <2>5. LoopInv'
    <3>1. wordsLeft' > 0 => Base' % WordsPerWrite = 0
      <4>1. wordsLeft' > 0 => wordsToWrite = WordsPerWrite
        BY <1>1, <1>2
      <4> QED
        BY <1>1, <1>2, <4>1, NextAligned, DeviceAssumption
    <3>2. currentAddress' = (2 * currentData') % AddrSpace
      BY <1>1, <1>2 DEF RunInv, LoopInv
    <3>3. currentData' = Base' /\ wordsLeft' <= Total'
      BY <1>1, <1>2
    <3> QED
      BY <1>4, <3>1, <3>2, <3>3 DEF LoopInv, InLoop
  <2>6. LatchInv'
    <3>1. \A l \in Lane : latch'[l] = Erased
      BY <1>4 DEF Pulse, EmptyLatch
    <3> QED
      BY <1>4, <3>1 DEF LatchInv
  <2> QED
    BY <2>3, <2>4, <2>5, <2>6 DEF RunInv
<1> QED
  BY <1>3, <1>4 DEF BurnBlock

-------------------------------------------------------------------------------

\* Every step keeps the invariant.
-------------------------------------------------------------------------------
(* The memory.                                                             *)

\* A step that is not a pulse leaves the memory alone; the words done stay done,
\* and none are done when a run begins.
LEMMA QuietSteps ==
  ASSUME RunInv, [Next]_vars, ~BurnBlock
  PROVE  /\ UNCHANGED <<flash, picture>> /\ (free' => free)
         /\ InLoop' => Base' = 0 \/ (InLoop /\ Base' = Base)
         /\ pc' = "done" => pc = "done" \/ (InLoop /\ Base = Total)
<1>1. Total \in Nat
  BY ImageWords DEF RunInv
<1>2. CASE UNCHANGED vars
  BY <1>2 DEF vars, device, picture, locals, InLoop, Base, Total
<1>3. CASE ConfigWriteStart \/ DisableMultiPanel
  BY <1>3 DEF ConfigWriteStart, DisableMultiPanel, Fail, device, picture, InLoop
<1>4. CASE CodeWriteStart
  <2>1. UNCHANGED <<flash, picture, free>> /\ wordsLeft' = Total /\ Total' = Total /\ pc' # "done"
    BY <1>4 DEF CodeWriteStart, device, picture, Total
  <2>2. Base' = 0
    BY <1>1, <2>1 DEF Base
  <2> QED
    BY <2>1, <2>2
<1>5. CASE NextBlock \/ WriteWord
  BY <1>5 DEF NextBlock, WriteWord, Fail, device, picture, locals, InLoop, Base, Total
<1>6. CASE Return
  <2>1. InLoop /\ Base = Total
    BY <1>1, <1>6 DEF Return, InLoop, Base
  <2> QED
    BY <1>6, <2>1 DEF Return, device, picture, InLoop
<1>7. CASE Rerun
  <2>1. UNCHANGED <<flash, picture>> /\ pc' = "start"
    BY <1>7 DEF Rerun, device, ChipReset
  <2>2. free' => free
    <3>1. CASE UNCHANGED device
      BY <3>1 DEF device
    <3>2. CASE ChipReset
      BY <3>2, Zenon DEF ChipReset
    <3> QED
      BY <1>7, <3>1, <3>2 DEF Rerun
  <2> QED
    BY <2>1, <2>2 DEF InLoop
<1> QED
  BY <1>2, <1>3, <1>4, <1>5, <1>6, <1>7 DEF Next, Program

\* What is programmed by a pulse is at its target; the others are as they were.
LEMMA BurnFlashInv ==
  ASSUME IInv, BurnBlock
  PROVE  ~free' /\ FlashInv'
<1>1. /\ InLoop /\ Total \in Nat /\ Base \in Nat /\ wordsToWrite \in Nat
      /\ Base + wordsToWrite <= Total /\ Base' = Base + wordsToWrite
      /\ UNCHANGED picture
  BY BlockFacts DEF BurnBlock, IInv, InLoop, Base, Total, picture
<1>2. CASE pc' = "aborted" /\ UNCHANGED device
  BY <1>1, <1>2 DEF IInv, FlashInv, Target, InLoop, device, picture
<1>3. CASE Pulse /\ pc' \in {"block", "aborted"}
  <2>1. flash' = [w \in WordAddr |->
                    IF Base <= w /\ w < Base + wordsToWrite
                    THEN flash[w] \cap contents[w] ELSE flash[w]]
    BY <1>3, PulseBurnsBlock DEF BurnBlock, IInv
  <2>2. ~free'
    BY <1>3, Zenon DEF Pulse
  <2>3. ASSUME NEW w \in WordAddr
        PROVE  /\ flash'[w] \in {before[w], Target(w)}
               /\ w < Base' => flash'[w] = Target(w)
    <3>1. w \in Nat
      BY DEF WordAddr
    <3>2. CASE Base <= w /\ w < Base + wordsToWrite
      <4>1. w < Total
        BY <1>1, <3>1, <3>2
      <4>2. Target(w) = before[w] \cap contents[w]
        BY <4>1, ImageWords DEF Target, IInv, RunInv
      <4>3. flash'[w] = flash[w] \cap contents[w]
        BY <2>1, <3>2
      <4>4. flash[w] = before[w] \/ flash[w] = Target(w)
        BY DEF IInv, FlashInv
      <4> QED
        BY <4>2, <4>3, <4>4
    <3>3. CASE ~(Base <= w /\ w < Base + wordsToWrite)
      <4>1. flash'[w] = flash[w]
        BY <2>1, <3>3
      <4>2. w < Base' => w < Base
        BY <1>1, <3>1, <3>3
      <4> QED
        BY <1>1, <4>1, <4>2 DEF IInv, FlashInv
    <3> QED
      BY <3>2, <3>3
  <2>4. FlashInv'
    BY <1>1, <1>3, <2>3 DEF FlashInv, Target, picture
  <2> QED
    BY <2>2, <2>4
<1> QED
  BY <1>2, <1>3 DEF BurnBlock

\* The invariant holds before the first run.
LEMMA InitIInv == Init => IInv
<1> SUFFICES ASSUME Init PROVE IInv
  OBVIOUS
<1>1. TypeOK
  <2>1. DeviceTypeOK
    BY DEF Init, DeviceInit, DeviceTypeOK, EmptyLatch, Erased, Word
  <2>2. before \in [WordAddr -> Word]
    BY DEF Init, DeviceInit
  <2> QED
    BY <2>1, <2>2, AddressAssumption DEF Init, TypeOK
<1>2. ~InLoop /\ pc = "start" /\ ~free
  BY DEF Init, InLoop, DeviceInit
<1>3. LatchInv
  BY <1>2 DEF LatchInv, Init, DeviceInit, EmptyLatch, InLoop
<1>4. FlashInv
  BY <1>2 DEF FlashInv, Init
<1> QED
  BY <1>1, <1>2, <1>3, <1>4 DEF IInv, RunInv, RegisterInv, LoopInv

\* Every step keeps what holds of a run on any chip.
LEMMA NextRunInv == RunInv /\ [Next]_vars => RunInv'
<1> SUFFICES ASSUME RunInv, [Next]_vars PROVE RunInv'
  OBVIOUS
<1>1. CASE UNCHANGED vars
  BY <1>1
     DEF RunInv, TypeOK, DeviceTypeOK, RegisterInv, LoopInv, LatchInv,
         Total, Base, InLoop, vars, device, picture, locals
<1> QED
  BY <1>1, ConfigWriteStartInv, DisableMultiPanelInv, CodeWriteStartInv,
     NextBlockInv, WriteWordInv, BurnBlockInv, ReturnInv, RerunInv
     DEF Next, Program

\* Every step keeps the invariant: a chip that does not erase burns its words,
\* and a run that returns has burnt all of them.
LEMMA NextInv == IInv /\ [Next]_vars => IInv'
<1> SUFFICES ASSUME IInv, [Next]_vars PROVE IInv'
  OBVIOUS
<1>1. RunInv /\ RunInv'
  BY NextRunInv DEF IInv
<1>2. CASE BurnBlock
  BY <1>1, <1>2, BurnFlashInv DEF IInv
<1>3. CASE ~BurnBlock
  <2>1. /\ UNCHANGED <<flash, picture>> /\ ~free'
        /\ InLoop' => Base' = 0 \/ (InLoop /\ Base' = Base)
        /\ pc' = "done" => pc = "done" \/ (InLoop /\ Base = Total)
    BY <1>1, <1>3, QuietSteps DEF IInv
  <2>2. ASSUME NEW w \in WordAddr
        PROVE  /\ flash'[w] \in {before'[w], Target(w)'}
               /\ (InLoop' /\ w < Base') \/ pc' = "done" => flash'[w] = Target(w)'
    <3>1. Target(w)' = Target(w) /\ before' = before /\ flash' = flash
      BY <2>1 DEF Target, picture
    <3>2. w \in Nat /\ ~(w < 0)
      BY DEF WordAddr
    <3>3. w < Total \/ Target(w) = before[w]
      BY <1>1, ImageWords DEF RunInv, Target
    <3> QED
      BY <2>1, <3>1, <3>2, <3>3 DEF IInv, FlashInv
  <2>3. FlashInv'
    BY <2>2 DEF FlashInv
  <2> QED
    BY <1>1, <2>1, <2>3 DEF IInv
<1> QED
  BY <1>2, <1>3

\* The strengthened invariant holds in every state, whatever the device and the
\* image: it is what the theorems below follow from.
THEOREM Inductive == Spec => []IInv
BY InitIInv, NextInv, PTL DEF Spec

\* Every variable of the write keeps its type; in particular words_left, which is
\* unsigned, is never taken below zero by words_to_write.
THEOREM TypeCorrect == Spec => []TypeOK
BY Inductive, PTL DEF IInv, RunInv

\* However often image_to_device_program fails and is run again, no word of the
\* code memory ever holds anything but its old value or its target.
THEOREM NeverStrays == Spec => []OldOrTarget
<1>1. IInv => OldOrTarget
  BY DEF IInv, RunInv, FlashInv, OldOrTarget
<1> QED
  BY <1>1, Inductive, PTL

\* When image_to_device_program returns 1, every word of the image is in the
\* code memory and every other word is as it was.
THEOREM SuccessMeansWritten == Spec => []DoneMeansWritten
<1>1. IInv => DoneMeansWritten
  <2> SUFFICES ASSUME IInv, pc = "done" PROVE flash = [w \in WordAddr |-> Target(w)]
    BY DEF DoneMeansWritten
  <2>1. flash \in [WordAddr -> Word] /\ \A w \in WordAddr : flash[w] = Target(w)
    BY DEF IInv, RunInv, TypeOK, DeviceTypeOK, FlashInv
  <2> QED
    BY <2>1
<1> QED
  BY <1>1, Inductive, PTL

\* Whatever the sizes, the block loop only ever sends a pulse for one aligned
\* row of the write buffer, with TBLPTR on the block's last word.
THEOREM BlocksAreRows == Spec => []BlockIsOneRow
<1>1. IInv => BlockIsOneRow
  <2> SUFFICES ASSUME IInv, pc = "burn"
               PROVE  /\ LaneOf(2 * (currentData - wordsToWrite)) = 0
                      /\ RowOf(currentData - 1) = RowOf(currentData - wordsToWrite)
                      /\ tblptr = 2 * (currentData - 1)
    BY DEF BlockIsOneRow
  <2>1. /\ Base \in Nat /\ Base % WordsPerWrite = 0
        /\ wordsToWrite \in 1 .. WordsPerWrite
        /\ currentData = Base + wordsToWrite
        /\ tblptr = 2 * (currentData - 1)
    BY BlockFacts DEF IInv, RunInv, LoopInv, InLoop
  <2>2. /\ currentData - wordsToWrite = Base
        /\ currentData - 1 = Base + (wordsToWrite - 1)
        /\ wordsToWrite - 1 \in 0 .. WordsPerWrite - 1
        /\ (2 * Base) \div 2 = Base
    BY <2>1, DeviceAssumption
  <2>3. ASSUME NEW i \in 0 .. WordsPerWrite - 1
        PROVE  (Base + i) \div WordsPerWrite = Base \div WordsPerWrite
    <3>1. \A b \in Nat : b % WordsPerWrite = 0
                         => (b + i) \div WordsPerWrite = b \div WordsPerWrite
      BY Aligned, DeviceAssumption
    <3> QED
      BY <2>1, <3>1
  <2>4. LaneOf(2 * (currentData - wordsToWrite)) = 0
    BY <2>1, <2>2 DEF LaneOf
  <2>5. RowOf(currentData - 1) = RowOf(currentData - wordsToWrite)
    BY <2>2, <2>3 DEF RowOf
  <2> QED
    BY <2>1, <2>4, <2>5
<1> QED
  BY <1>1, Inductive, PTL

-------------------------------------------------------------------------------

\* How the state of the write maps to the state of its promise.
LEMMA Mapping ==
  ASSUME IInv
  PROVE  /\ Total = (contentsSize + 1) \div 2 /\ Total \in Nat
         /\ InLoop => Progress = Base /\ Status = "running"
         /\ pc \in {"start", "panel", "mode"} => Progress = 0 /\ Status = "running"
         /\ pc = "aborted" => Progress = 0 /\ Status = "aborted"
         /\ pc = "done" => Progress = Total /\ Status = "done"
<1>1. Total = (contentsSize + 1) \div 2 /\ Total \in Nat
  BY ImageWords, DeviceAssumption DEF IInv, RunInv, TypeOK, Total, TotalWords
<1> QED
  BY <1>1 DEF Progress, Status, InLoop, Base

\* A run that is cut short and leaves the memory alone has aborted.
LEMMA CutShort ==
  ASSUME IInv, IInv', UNCHANGED <<flash, picture>>,
         pc \notin {"aborted", "done"}, pc' = "aborted"
  PROVE  Promise!Abort
<1>1. /\ Status = "running" /\ Status' = "aborted" /\ Progress' = 0
      /\ Progress \in Nat /\ Progress <= (contentsSize + 1) \div 2
  BY Mapping, BlockFacts DEF IInv, RunInv, TypeOK, InLoop, Status, Progress
<1>2. Progress \in Progress .. (contentsSize + 1) \div 2
  BY <1>1 DEF IInv, RunInv, TypeOK
<1>3. flash' = Promise!Written(Progress, Progress)
  <2>1. \A w \in Promise!Addr : ~(Progress <= w /\ w < Progress)
    BY <1>1 DEF Promise!Addr
  <2>2. Promise!Addr = WordAddr
    BY DEF Promise!Addr, WordAddr
  <2> QED
    BY <2>1, <2>2 DEF IInv, RunInv, TypeOK, DeviceTypeOK, Promise!Written
<1> QED
  BY <1>1, <1>2, <1>3 DEF Promise!Abort, picture

\* The initial states of the write are initial states of its promise.
LEMMA InitRefines == Init => Promise!Init
<1> SUFFICES ASSUME Init PROVE Promise!Init
  OBVIOUS
<1>1. Progress = 0 /\ Status = "running"
  BY DEF Init, Progress, Status, InLoop
<1>2. (contentsSize + 1) \div 2 \in 0 .. CodeMemorySize \div 2
  BY DeviceAssumption DEF Init
<1> QED
  BY <1>1, <1>2 DEF Init, DeviceInit, Promise!Init, Promise!Addr, WordAddr, Word

\* A pulse advances the promise by the block it programs, or aborts it.
LEMMA BurnRefines == IInv /\ IInv' /\ BurnBlock => Promise!Next
<1> SUFFICES ASSUME IInv, IInv', BurnBlock PROVE Promise!Next
  OBVIOUS
<1>1. /\ pc = "burn" /\ Base \in Nat /\ Base + wordsLeft = Total
      /\ wordsToWrite \in Nat /\ wordsToWrite > 0 /\ wordsToWrite <= wordsLeft
      /\ Total \in Nat /\ wordsLeft \in Nat
      /\ UNCHANGED picture
      /\ Total = (contentsSize + 1) \div 2 /\ Progress = Base /\ Status = "running"
  BY BlockFacts, Mapping DEF BurnBlock, IInv, RunInv, TypeOK, InLoop
<1>2. CASE pc' = "aborted" /\ UNCHANGED device
  BY <1>1, <1>2, CutShort DEF device, Promise!Next
<1>3. CASE Pulse /\ pc' \in {"block", "aborted"}
  <2> DEFINE n == Base + wordsToWrite
  <2>1. /\ n \in Progress + 1 .. (contentsSize + 1) \div 2
        /\ n \in Progress .. (contentsSize + 1) \div 2
    BY <1>1
  <2>2. flash' = Promise!Written(Progress, n)
    BY <1>1, <1>3, PulseBurnsBlock DEF IInv, Promise!Written, Promise!Addr, WordAddr
  <2>3. CASE pc' = "block"
    <3>1. Status' = "running" /\ Progress' = n
      <4>1. Status' = "running" /\ Progress' = (contentsSize' + 1) \div 2 - wordsLeft'
        BY <2>3 DEF Status, Progress, InLoop
      <4>2. contentsSize' = contentsSize /\ wordsLeft' = wordsLeft - wordsToWrite
        BY <1>1 DEF BurnBlock, picture
      <4> QED
        BY <1>1, <4>1, <4>2
    <3> QED
      BY <1>1, <2>1, <2>2, <3>1 DEF Promise!Next, Promise!Advance, picture
  <2>4. CASE pc' = "aborted"
    <3>1. Status' = "aborted" /\ Progress' = 0
      BY <2>4 DEF Status, Progress, InLoop
    <3> QED
      BY <1>1, <2>1, <2>2, <3>1 DEF Promise!Next, Promise!Abort, picture
  <2> QED
    BY <1>3, <2>3, <2>4
<1> QED
  BY <1>2, <1>3 DEF BurnBlock

\* A step that leaves the memory, the image and the words left alone and neither
\* starts nor ends a run is invisible to the promise.
LEMMA Invisible ==
  ASSUME UNCHANGED <<flash, picture, wordsLeft>>,
         \/ pc = pc'
         \/ {pc, pc'} \subseteq {"start", "panel", "mode"}
         \/ {pc, pc'} \subseteq {"block", "fill", "burn"}
  PROVE  UNCHANGED Promise!vars
BY DEF Promise!vars, Progress, Status, InLoop, picture

\* Every step of the write is a step of its promise or leaves it alone.
LEMMA StepRefines == IInv /\ IInv' /\ [Next]_vars => [Promise!Next]_(Promise!vars)
<1> SUFFICES ASSUME IInv, IInv', [Next]_vars
             PROVE  Promise!Next \/ UNCHANGED Promise!vars
  OBVIOUS
<1>1. CASE UNCHANGED vars
  BY <1>1, Invisible DEF vars, device, picture, locals
<1>2. ASSUME UNCHANGED <<flash, picture>>, pc \notin {"aborted", "done"}, pc' = "aborted"
      PROVE  Promise!Next
  BY <1>2, CutShort DEF Promise!Next
<1>3. CASE ConfigWriteStart
  BY <1>2, <1>3, Invisible DEF ConfigWriteStart, Fail, device, picture, locals
<1>4. CASE DisableMultiPanel
  BY <1>2, <1>4, Invisible DEF DisableMultiPanel, picture, locals
<1>5. CASE CodeWriteStart
  <2>1. UNCHANGED <<flash, picture>> /\ pc = "mode" /\ pc' \in {"block", "aborted"}
    BY <1>5 DEF CodeWriteStart, device
  <2>2. CASE pc' = "block"
    <3>1. Progress = 0 /\ Status = "running" /\ Status' = "running"
      BY <2>1, <2>2 DEF Progress, Status, InLoop
    <3>2. Progress' = 0
      <4>1. wordsLeft' = Total /\ contentsSize' = contentsSize
        BY <1>5 DEF CodeWriteStart, Total, picture
      <4>2. Progress' = (contentsSize' + 1) \div 2 - wordsLeft'
        BY <2>2 DEF Progress, InLoop
      <4> QED
        BY <4>1, <4>2, Mapping
    <3> QED
      BY <2>1, <3>1, <3>2 DEF Promise!vars, picture
  <2> QED
    BY <1>2, <2>1, <2>2
<1>6. CASE NextBlock
  BY <1>2, <1>6, Invisible DEF NextBlock, picture
<1>7. CASE WriteWord
  BY <1>2, <1>7, Invisible DEF WriteWord, Fail, device, picture, locals
<1>8. CASE BurnBlock
  BY <1>8, BurnRefines
<1>9. CASE Return
  <2>1. /\ pc = "block" /\ wordsLeft = 0 /\ InLoop /\ pc' = "done"
        /\ UNCHANGED <<flash, picture>>
    BY <1>9 DEF Return, InLoop, device
  <2>2. Progress = Total /\ Status = "running" /\ Total = (contentsSize + 1) \div 2
    BY <2>1, Mapping, BlockFacts DEF IInv
  <2>3. Status' = "done" /\ Progress' = (contentsSize + 1) \div 2
    BY <2>1 DEF Status, Progress, InLoop, picture
  <2> QED
    BY <2>1, <2>2, <2>3 DEF Promise!Next, Promise!Finish, picture
<1>10. CASE Rerun
  <2>1. /\ Status = "aborted" /\ Status' = "running" /\ Progress = 0 /\ Progress' = 0
        /\ UNCHANGED <<flash, picture>>
    BY <1>10 DEF Rerun, ChipReset, Status, Progress, InLoop, device
  <2> QED
    BY <2>1 DEF Promise!Next, Promise!Retry, picture
<1> QED
  BY <1>1, <1>3, <1>4, <1>5, <1>6, <1>7, <1>8, <1>9, <1>10 DEF Next, Program

\* The whole write, transfers, blocks, failures and reruns, implements the
\* prefix-by-prefix write of PrefixWrite on every device.
THEOREM Refinement == Spec => ImplementsPrefixWrite
<1>1. IInv' /\ IInv /\ [Next]_vars => [Promise!Next]_(Promise!vars)
  BY StepRefines
<1> QED
  BY <1>1, InitRefines, Inductive, PTL DEF Spec, ImplementsPrefixWrite, Promise!Spec
===============================================================================
