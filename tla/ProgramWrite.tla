----------------------------- MODULE ProgramWrite -----------------------------
(***************************************************************************)
(* Writing the program image to the device:                                *)
(* lpp_device_18f2xx_4xx_image_to_device_program, which switches the chip  *)
(* to single-panel writes and then calls                                   *)
(* lpp_device_18f2xxx_4xxx_image_to_device_program for the block loop.     *)
(*                                                                         *)
(* A step is a chain of ICSP transfers joined by && in the code. A         *)
(* transfer is an ioctl that may fail, before or after the chip has acted  *)
(* on it; the function then returns 0. A process killed between two        *)
(* transfers leaves the same device state, so "aborted" stands for both.   *)
(* The user may run the program again: Rerun.                              *)
(***************************************************************************)
EXTENDS CodeMemory

CONSTANT AddrSpace  \* 2^16, the values of the unsigned short current_address

ASSUME AddressAssumption ==
  /\ AddrSpace \in Nat \ {0}
  /\ CodeMemorySize <= AddrSpace

VARIABLES
  contents,        \* image->contents, as words
  contentsSize,    \* image->contents_size, in bytes
  pc,              \* the next step; "done" returned 1, "aborted" did not
  wordsLeft,       \* words_left
  wordsToWrite,    \* words_to_write
  wordIndex,       \* word_index
  currentAddress,  \* current_address
  currentData,     \* current_data, as an index in contents
  before           \* history: the code memory before the first run

picture == <<contents, contentsSize, before>>
locals  == <<wordsLeft, wordsToWrite, wordIndex, currentAddress, currentData>>
vars    == <<device, picture, locals, pc>>

\* lpp_image_get_content_size_in_words, and a slip that drops an odd last byte.
TotalWordsTruncated(bytes) == bytes \div 2
TotalWords(bytes) == (bytes \div 2) + (bytes % 2)

\* How much of what is left goes into one write buffer; the slips always fill
\* it, or take the remainder.
BlockWordsUncapped(left) == WordsPerWrite
BlockWordsRemainder(left) == left % WordsPerWrite
BlockWords(left) == IF WordsPerWrite < left THEN WordsPerWrite ELSE left

\* current_address += 2, in 16 bits; the slip counts in words.
NextAddressInWords(a) == (a + 1) % AddrSpace
NextAddress(a) == (a + 2) % AddrSpace

\* The last word of a block is written without moving TBLPTR.
AfterWordAlways(a, last) == a + 2
AfterWord(a, last) == IF last THEN a ELSE a + 2

Init ==
  /\ DeviceInit
  /\ contents \in [WordAddr -> Word]
  /\ contentsSize \in 0 .. CodeMemorySize
  /\ pc = "start"
  /\ wordsLeft = 0 /\ wordsToWrite = 0 /\ wordIndex = 0
  /\ currentAddress = 0 /\ currentData = 0
  /\ before = flash

\* A transfer fails and the chip has not acted on it. The local variables are of
\* no consequence once the function has returned.
Fail ==
  /\ pc' = "aborted"
  /\ UNCHANGED <<device, picture, locals>>

\* config_write_start: EEPGD and CFGS set, for the control registers.
ConfigWriteStart ==
  /\ pc = "start"
  /\ \/ /\ eepgd' = TRUE
        /\ \/ cfgs' = TRUE /\ pc' \in {"panel", "aborted"}
           \/ cfgs' = cfgs /\ pc' = "aborted"
        /\ UNCHANGED <<flash, latch, tblptr, armed, free, multiPanel, picture, locals>>
     \/ Fail

\* write_16(0x3C0006, 0): single-panel writes.
DisableMultiPanel ==
  /\ pc = "panel"
  /\ \/ /\ tblptr' = MultiPanelReg + 2
        /\ armed' = FALSE
        /\ multiPanel' = (multiPanel /\ ~cfgs)
        /\ pc' \in {"mode", "aborted"}
        /\ UNCHANGED <<flash, latch, select, free, picture, locals>>
     \/ /\ tblptr' \in PartlySet(tblptr, MultiPanelReg)
        /\ pc' = "aborted"
        /\ UNCHANGED <<flash, latch, armed, select, free, multiPanel, picture, locals>>

\* code_write_start: EEPGD set, CFGS cleared. The loop variables are set up.
CodeWriteStart ==
  /\ pc = "mode"
  /\ \/ /\ eepgd' = TRUE
        /\ \/ cfgs' = FALSE /\ pc' \in {"block", "aborted"}
           \/ cfgs' = cfgs /\ pc' = "aborted"
        /\ UNCHANGED <<flash, latch, tblptr, armed, free, multiPanel>>
     \/ pc' = "aborted" /\ UNCHANGED device
  /\ wordsLeft' = TotalWords(contentsSize)
  /\ currentAddress' = 0
  /\ currentData' = 0
  /\ UNCHANGED <<picture, wordsToWrite, wordIndex>>

\* The head of the outer loop: size the block and point TBLPTR at it.
NextBlock ==
  /\ pc = "block"
  /\ wordsLeft # 0
  /\ wordsToWrite' = BlockWords(wordsLeft)
  /\ wordIndex' = 0
  /\ \/ /\ tblptr' = currentAddress
        /\ pc' = IF wordsToWrite' > 0 THEN "fill" ELSE "burn"
     \/ tblptr' \in PartlySet(tblptr, currentAddress) /\ pc' = "aborted"
  /\ UNCHANGED <<flash, latch, armed, select, free, multiPanel, picture,
                 wordsLeft, currentAddress, currentData>>

\* One word into the write buffer, with TBL_WR_POST_INC_2 or, for the last of
\* the block, TBL_WR_PROG.
WriteWord ==
  /\ pc = "fill"
  /\ LET last == wordIndex = wordsToWrite - 1 IN
     \/ /\ latch' = [latch EXCEPT ![LaneOf(tblptr)] = contents[currentData]]
        /\ armed' = last
        /\ tblptr' = AfterWord(tblptr, last)
        /\ wordIndex' = wordIndex + 1
        /\ currentAddress' = NextAddress(currentAddress)
        /\ currentData' = currentData + 1
        /\ pc' \in {IF last THEN "burn" ELSE "fill", "aborted"}
        /\ UNCHANGED <<flash, select, free, multiPanel, picture, wordsLeft, wordsToWrite>>
     \/ Fail

\* The programming pulse, and the end of the outer loop's body.
BurnBlock ==
  /\ pc = "burn"
  /\ \/ Pulse /\ pc' \in {"block", "aborted"}
     \/ pc' = "aborted" /\ UNCHANGED device
  /\ wordsLeft' = wordsLeft - wordsToWrite
  /\ UNCHANGED <<picture, wordsToWrite, wordIndex, currentAddress, currentData>>

\* No words left: return 1.
Return ==
  /\ pc = "block"
  /\ wordsLeft = 0
  /\ pc' = "done"
  /\ UNCHANGED <<device, picture, locals>>

\* The write is tried again with the same image: by the same process, with the
\* chip as it was left, or by a new one, which opens the driver again.
Rerun ==
  /\ pc = "aborted"
  /\ pc' = "start"
  /\ wordsLeft' = 0 /\ wordsToWrite' = 0 /\ wordIndex' = 0
  /\ currentAddress' = 0 /\ currentData' = 0
  /\ UNCHANGED device \/ ChipReset
  /\ UNCHANGED picture

Program ==
  \/ ConfigWriteStart \/ DisableMultiPanel \/ CodeWriteStart
  \/ NextBlock \/ WriteWord \/ BurnBlock \/ Return

Next == Program \/ Rerun

\* The program takes its next step unless it is killed, which is an abort.
Spec == Init /\ [][Next]_vars /\ WF_vars(Program)

-------------------------------------------------------------------------------

TypeOK ==
  /\ DeviceTypeOK
  /\ contents \in [WordAddr -> Word]
  /\ before \in [WordAddr -> Word]
  /\ contentsSize \in 0 .. CodeMemorySize
  /\ pc \in {"start", "panel", "mode", "block", "fill", "burn", "done", "aborted"}
  /\ wordsLeft \in Nat
  /\ wordsToWrite \in Nat
  /\ wordIndex \in Nat
  /\ currentAddress \in 0 .. AddrSpace - 1
  /\ currentData \in Nat

\* What a complete write leaves at a word: the image's word where the image
\* has a byte, the old word elsewhere.
Target(w) == IF 2 * w < contentsSize THEN before[w] \cap contents[w] ELSE before[w]

\* However often the write fails, is killed and is repeated, every word of the
\* code memory is either as it was before the first run or as the image wants
\* it: no address is ever given another address's word, and words outside the
\* image keep their value (image_to_device_program never strays).
OldOrTarget == \A w \in WordAddr : flash[w] \in {before[w], Target(w)}

\* When image_to_device_program returns 1, the whole image is in the memory,
\* the word of an odd last byte included.
DoneMeansWritten == pc = "done" => flash = [w \in WordAddr |-> Target(w)]

\* The words loaded for one pulse share one row of the chip's write buffer,
\* from lane 0: the buffer can only program an aligned row.
BlockIsOneRow ==
  pc = "burn" =>
    /\ LaneOf(2 * (currentData - wordsToWrite)) = 0
    /\ RowOf(currentData - 1) = RowOf(currentData - wordsToWrite)
    /\ tblptr = 2 * (currentData - 1)

\* The inductive invariant behind the safety properties, part by part.
InLoop == pc \in {"block", "fill", "burn"}
Total  == TotalWords(contentsSize)
Base   == Total - wordsLeft  \* in the loop: the words already programmed

\* What each mode switch leaves for the steps after it.
RegisterInv ==
  /\ pc = "panel" => cfgs
  /\ pc = "mode" => ~multiPanel
  /\ InLoop => eepgd /\ ~cfgs /\ ~multiPanel

\* The loop variables and TBLPTR agree on where the next word goes.
LoopInv ==
  InLoop =>
    /\ wordsLeft <= Total
    /\ wordsLeft > 0 => Base % WordsPerWrite = 0
    /\ currentAddress = (2 * currentData) % AddrSpace
    /\ pc = "block" => currentData = Base
    /\ pc \in {"fill", "burn"} =>
         wordsLeft > 0 /\ wordsToWrite = BlockWords(wordsLeft)
    /\ pc = "fill" =>
         /\ wordIndex < wordsToWrite
         /\ currentData = Base + wordIndex
         /\ tblptr = 2 * currentData
    /\ pc = "burn" =>
         /\ currentData = Base + wordsToWrite
         /\ tblptr = 2 * (currentData - 1)
         /\ armed

\* A lane not loaded for this block is empty, or was left by a run that was cut
\* short (or by an erase that was, in lane 0) and is reloaded before the next pulse.
LatchInv ==
  \A l \in Lane :
    IF pc \in {"fill", "burn"} /\ l < currentData - Base
    THEN latch[l] = contents[Base + l]
    ELSE latch[l] = Erased \/ ((l < Total \/ l = 0) /\ (InLoop => Base = 0))

\* What the steps of the write keep on any chip, one left to erase included.
RunInv == TypeOK /\ RegisterInv /\ LoopInv /\ LatchInv

FlashInv ==
  \A w \in WordAddr :
    /\ flash[w] \in {before[w], Target(w)}
    /\ (InLoop /\ w < Base) \/ pc = "done" => flash[w] = Target(w)

IInv == RunInv /\ ~free /\ FlashInv

\* The promise of PrefixWrite, for this run's words.
Progress ==
  CASE InLoop -> (contentsSize + 1) \div 2 - wordsLeft
    [] pc = "done" -> (contentsSize + 1) \div 2
    [] OTHER -> 0
Status ==
  CASE pc = "done" -> "done" [] pc = "aborted" -> "aborted" [] OTHER -> "running"

Promise == INSTANCE PrefixWrite WITH
  Size <- CodeMemorySize \div 2, mem <- flash, image <- contents,
  total <- (contentsSize + 1) \div 2, progress <- Progress, status <- Status

\* The block loop implements the prefix-by-prefix write it promises.
ImplementsPrefixWrite == Promise!Spec

\* Every run ends: the block loop cannot spin, whatever the image's size.
RunEnds == []<>(pc \in {"done", "aborted"})
===============================================================================
