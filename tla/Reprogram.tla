------------------------------- MODULE Reprogram -------------------------------
(***************************************************************************)
(* The way a device is given a new program: an erase, page by page         *)
(* (NonBulkErase) or all at once (BulkErase), then ProgramWrite, on one    *)
(* chip. Programming can only clear bits, so the write relies on the erase *)
(* before it, and on the registers it leaves behind. The write is the same *)
(* process's, or a new one's, which opens the driver again (main runs one  *)
(* operation). The erase by pages returns 1 when it fails too, so that the *)
(* write may follow a failed one.                                          *)
(***************************************************************************)
EXTENDS CodeMemory

CONSTANT AddrSpace  \* 2^16, the values of an unsigned short

ASSUME AddressAssumption ==
  /\ AddrSpace \in Nat \ {0}
  /\ CodeMemorySize <= AddrSpace

\* A page holds whole write buffers: the first pulse of a write stays in page 0.
ASSUME PagesAreRows == PageSize % (2 * WordsPerWrite) = 0

VARIABLES
  erasePc, eraseAddress, eraseFailed, atFirst,           \* NonBulkErase
  bulkPc,                                                \* BulkErase, or "unused"
  contents, contentsSize, pc, wordsLeft, wordsToWrite,   \* ProgramWrite
  wordIndex, currentAddress, currentData, before

eraseVars == <<erasePc, eraseAddress, eraseFailed, atFirst>>
writeVars == <<contents, contentsSize, pc, wordsLeft, wordsToWrite,
               wordIndex, currentAddress, currentData, before>>
vars == <<device, eraseVars, bulkPc, writeVars>>

Erase == INSTANCE NonBulkErase WITH
  pc <- erasePc, currentAddress <- eraseAddress,
  failed <- eraseFailed, before <- atFirst

Bulk == INSTANCE BulkErase WITH pc <- bulkPc

Write == INSTANCE ProgramWrite

Init ==
  /\ Erase!Init
  /\ bulkPc \in {"unused", "start"}
  /\ contents \in [WordAddr -> Word]
  /\ contentsSize \in 0 .. CodeMemorySize
  /\ pc = "idle"
  /\ wordsLeft = 0 /\ wordsToWrite = 0 /\ wordIndex = 0
  /\ currentAddress = 0 /\ currentData = 0
  /\ before = flash

EraseStep ==
  /\ pc = "idle" /\ bulkPc = "unused"
  /\ Erase!Next
  /\ UNCHANGED <<bulkPc, writeVars>>

BulkEraseStep ==
  /\ pc = "idle"
  /\ Bulk!Next
  /\ UNCHANGED <<eraseVars, writeVars>>

\* The erase has returned 1; the write begins.
BeginWrite ==
  /\ erasePc = "done" \/ bulkPc = "done"
  /\ pc = "idle"
  /\ pc' = "start"
  /\ before' = flash
  /\ UNCHANGED device \/ ChipReset
  /\ UNCHANGED <<eraseVars, bulkPc, contents, contentsSize, wordsLeft, wordsToWrite,
                 wordIndex, currentAddress, currentData>>

WriteStep == pc # "idle" /\ Write!Next /\ UNCHANGED <<eraseVars, bulkPc>>

Next == EraseStep \/ BulkEraseStep \/ BeginWrite \/ WriteStep

Spec == Init /\ [][Next]_vars

-------------------------------------------------------------------------------

\* What the memory holds after an erase and a write: exactly the image.
Reprogrammed(w) == IF 2 * w < contentsSize THEN contents[w] ELSE Erased

\* After a bulk erase that returned 1, or an erase by pages in which no transfer
\* failed, a write that returns 1 (at the first try or a later one) leaves
\* exactly the image, nothing of the old program, and erased memory behind it.
ExactlyTheImage ==
  pc = "done" /\ ~eraseFailed => \A w \in WordAddr : flash[w] = Reprogrammed(w)

\* And on the way there every word is erased or already the image's.
ErasedOrImage ==
  pc # "idle" /\ ~eraseFailed =>
    \A w \in WordAddr : flash[w] \in {Erased, Reprogrammed(w)}

\* An erase by pages that failed is reported as done and may leave FREE set, so
\* that the write's first pulse erases instead of programming. Still no word is
\* ever given another's value, and once the write has returned 1 the words of
\* the image that it has lost are all in the first page.
FailedEraseCostsOnePage ==
  pc # "idle" => \A w \in WordAddr :
    LET written == {Reprogrammed(w), atFirst[w] \cap Reprogrammed(w)}
        old     == {Erased, atFirst[w]} IN
    /\ flash[w] \in written \cup old
    /\ pc = "done" /\ 2 * w < contentsSize /\ PageOf(2 * w) # 0 => flash[w] \in written

\* The promise of Replacement: the write's own status and progress, once the
\* write has begun behind an erase in which no transfer failed.
Status ==
  CASE eraseFailed -> "unsure"
    [] ~eraseFailed /\ pc = "idle" -> "erasing"
    [] OTHER -> Write!Status
Progress == IF eraseFailed \/ pc = "idle" THEN 0 ELSE Write!Progress

Promise == INSTANCE Replacement WITH
  Size <- CodeMemorySize \div 2, mem <- flash, image <- contents,
  total <- (contentsSize + 1) \div 2, progress <- Progress, status <- Status

\* Erase and write together implement the replacement of a program: the image is
\* written to erased memory only, block by block in order, however often the write
\* is cut short; behind an erase that failed unnoticed every word still is kept,
\* erased or given its own word of the image.
ImplementsReplacement == Promise!Spec
===============================================================================
