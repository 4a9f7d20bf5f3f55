------------------------------ MODULE ProgramRead ------------------------------
(***************************************************************************)
(* Reading program memory into an image: lpp_read_device_program_to_image  *)
(* reads words of two bytes each into the image's buffer, TBLPTR moving by *)
(* itself. The caller has allocated the buffer: image_read for the size the*)
(* user asks for, image_write, to verify, for the file's contents_size.    *)
(***************************************************************************)
EXTENDS Integers

CONSTANTS
  Bytes,    \* the bytes of program memory
  Sizes,    \* the sizes read
  Byte,     \* the values of a byte
  Blank,    \* what lpp_image_init fills the buffer with
  Garbage   \* what a failed transfer leaves in a local variable

ASSUME ReadAssumption == Bytes \in Nat /\ Sizes \subseteq Nat

VARIABLES
  flash,         \* the program memory
  maxContents,   \* image->max_contents_size
  contents,      \* image->contents, with what lies behind it
  contentsSize,  \* image->contents_size
  tblptr,        \* TBLPTR
  pc,            \* the next step; "done" returned 1, "error" returned 0
  totalWords, wordsLeft,  \* total_words, words_left
  shown          \* the last progress notification, in bytes

vars == <<flash, maxContents, contents, contentsSize, tblptr, pc, totalWords, wordsLeft, shown>>

\* The bytes of the heap a word read may reach: the buffer, and one behind it.
Heap == 0 .. maxContents + 1

\* lpp_image_get_content_size_in_words, and a slip that drops an odd last byte.
WordsTruncated(bytes) == bytes \div 2
Words(bytes) == (bytes \div 2) + (bytes % 2)

\* current_position, as an index of a byte in contents, and a slip that is one
\* word ahead.
PositionAhead == 2 * (totalWords - wordsLeft + 1)
Position == 2 * (totalWords - wordsLeft)

\* (msb << 8) | lsb, stored through an unsigned short pointer on a big endian
\* host, and a slip that forgets the order of the two bytes.
StoredUnordered(lsb, msb) == [contents EXCEPT ![Position] = lsb, ![Position + 1] = msb]
Stored(lsb, msb) == [contents EXCEPT ![Position] = msb, ![Position + 1] = lsb]

\* make sure we have room, and a slip that is one byte too generous.
HasRoomForOneMore(size) == size <= maxContents + 1
HasRoom(size) == size <= maxContents

ByteAt(a) == flash[a % Bytes]

Init ==
  /\ flash \in [0 .. Bytes - 1 -> Byte]
  /\ contentsSize \in Sizes
  /\ maxContents \in Sizes
  /\ contents = [a \in 0 .. maxContents + 1 |-> Blank]
  /\ tblptr \in {0, 1}
  /\ pc = "start"
  /\ totalWords = 0 /\ wordsLeft = 0 /\ shown = 0

\* The room check, and TBLPTR at the offset, which main always passes as 0.
Start ==
  /\ pc = "start"
  /\ IF HasRoom(contentsSize)
     THEN /\ totalWords' = Words(contentsSize) /\ wordsLeft' = totalWords'
          /\ \/ tblptr' = 0 /\ pc' \in {"word", "error"}
             \/ UNCHANGED tblptr /\ pc' = "error"
     ELSE pc' = "error" /\ UNCHANGED <<totalWords, wordsLeft, tblptr>>
  /\ UNCHANGED <<flash, maxContents, contents, contentsSize, shown>>

\* One word: both bytes read, stored, and the progress shown. When a transfer
\* fails, whatever is in the local variables is stored all the same.
ReadWord ==
  /\ pc = "word" /\ wordsLeft > 0
  /\ \/ /\ contents' = Stored(ByteAt(tblptr), ByteAt(tblptr + 1))
        /\ tblptr' = tblptr + 2
        /\ shown' = Position
        /\ UNCHANGED pc
     \/ /\ \E lsb \in {ByteAt(tblptr), Garbage} : contents' = Stored(lsb, Garbage)
        /\ tblptr' \in tblptr .. tblptr + 2
        /\ pc' = "error"
        /\ UNCHANGED shown
  /\ wordsLeft' = wordsLeft - 1
  /\ UNCHANGED <<flash, maxContents, contentsSize, totalWords>>

Finish ==
  /\ pc = "word" /\ wordsLeft = 0
  /\ pc' = "done"
  /\ shown' = contentsSize
  /\ UNCHANGED <<flash, maxContents, contents, contentsSize, tblptr, totalWords, wordsLeft>>

Next == Start \/ ReadWord \/ Finish
Spec == Init /\ [][Next]_vars

-------------------------------------------------------------------------------

\* When the read returns 1, each byte of contents_size that is in a whole word is
\* the device's, in the order in which HexImage keeps the file's: the
\* verification compares like with like. The TBLPTR before the read is no matter.
DoneMeansRead ==
  pc = "done" => \A a \in 0 .. contentsSize - 1 :
    contents[a] = ByteAt(IF a % 2 = 0 THEN a + 1 ELSE a - 1)

\* Progress never goes back, and never says 100% before the last word is in.
ProgressIsHonest == [][shown' >= shown /\ (shown' = contentsSize => pc' = "done" \/ shown = shown')]_vars

\* Nothing is stored behind the buffer, except by a read of an odd size that
\* fills it: the room check counts bytes, the stores are of whole words.
StaysInBuffer ==
  contentsSize < maxContents \/ maxContents % 2 = 0 =>
    \A a \in Heap : a >= maxContents => contents[a] = Blank
===============================================================================
