------------------------------- MODULE HexImage -------------------------------
(***************************************************************************)
(* Loading an Intel HEX file into an image: lpp_image_init,                *)
(* lpp_image_read_from_file and lpp_image_read_handle_data_record. One step*)
(* is one turn of the reading loop; the file is whatever sequence of lines *)
(* the environment offers. All lines share one record buffer, which is not *)
(* cleared between them.                                                   *)
(***************************************************************************)
EXTENDS IHexRecord

CONSTANTS
  MaxContents,  \* image->max_contents_size, the device's code memory
  ConfigSize,   \* sizeof(image->config)
  EepromSize,   \* sizeof(image->eeprom)
  BufferSize,   \* sizeof(hex_record.data)
  ConfigExt,    \* device.config_address >> 8
  EepromExt,    \* device.eeprom_address >> 8
  Blank,        \* 0xFF, an unprogrammed byte
  Garbage,      \* what the uninitialized record buffer may hold
  Lines,        \* the lines the file may have: [meant, text, damage]: the record the
                \* line was written for, the line as it is now, and what became of
                \* it: "none", "byte" (a pair behind the count is another byte, in
                \* the address in hex digits), "cut" (its end) or "other"
  MaxLines      \* bound on the lines of a file

ASSUME ImageAssumption ==
  /\ {MaxContents, ConfigSize, EepromSize, BufferSize, MaxLines} \subseteq Nat
  /\ BufferSize > 0 /\ BufferSize % 2 = 0
  /\ Blank \in Byte /\ Garbage \subseteq Byte

ASSUME LinesAssumption == \A l \in Lines :
  /\ l.text.pairs \in Seq(Byte) /\ l.text.count \in Int /\ l.text.address \in Address
  /\ Accepted(l.text) => l.text.count <= BufferSize
  /\ l.damage \in {"none", "byte", "cut", "other"}
  /\ l.damage # "other" => WellFormed(l.meant) /\ (Len(l.text.pairs) >= 4 => InDigits(l.text))
  /\ l.damage = "none" => l.text.pairs = LineFor(l.meant)
  /\ l.damage = "byte" => ByteChanged(LineFor(l.meant), l.text.pairs)
  /\ l.damage = "cut"  => CutShort(LineFor(l.meant), l.text.pairs)

VARIABLES
  contents, contentsSize, config, configValid, eeprom,  \* the image
  buffer,      \* hex_record.data
  addressExt,  \* address_ext
  result,      \* "reading", "ok" (returned 1), "error" (returned 0) or "crashed"
  lines,       \* bound: the lines read
  fileProgram, fileConfig, fileEeprom,  \* history: the bytes the file gave, by address,
  givenProgram, givenConfig,            \* and the addresses it gave any for
  evenAddresses, evenLengths,           \* history: of every program record
  damages,     \* history: what had become of the lines that were accepted,
  refused      \* and of the one that was refused

image == <<contents, contentsSize, config, configValid, eeprom>>
given == <<fileProgram, fileConfig, fileEeprom, givenProgram, givenConfig, evenAddresses, evenLengths>>
vars  == <<image, buffer, addressExt, result, lines, given, damages, refused>>

Space(n) == 0 .. n - 1
Spaces == {0, ConfigExt, EepromExt}
End(r) == r.address + r.dataLen

\* The lines the parser refuses, and the others as the parser stores them.
RefusedLines == {l \in Lines : ~Accepted(l.text)}
Parses ==
  {[meant |-> l.meant, record |-> RecordIn(l.text), damage |-> l.damage] : l \in Lines \ RefusedLines}
DataLines == {l \in Parses : l.record.type = 0}
EndLines  == {l \in Parses : l.record.type = 1}
ExtLines  == {l \in Parses : l.record.type = 4}
SkippedLines == Parses \ (DataLines \cup EndLines \cup ExtLines)

\* The buffer once a record has been parsed into it: the rest is stale.
Parsed(data) ==
  [i \in Space(BufferSize) |-> IF i < Len(data) THEN data[i + 1] ELSE buffer[i]]

\* lpp_image_data_record_to_big_endian: the bytes of each word change places, up
\* to and with the partner of an odd last byte. And a slip: no swap.
NotSwapped(buf, len) == buf
Swapped(buf, len) ==
  [i \in Space(BufferSize) |->
     IF i >= len + (len % 2) THEN buf[i]
     ELSE IF i % 2 = 0 THEN buf[i + 1] ELSE buf[i - 1]]

\* memcpy of the record's length of buffer bytes to its address.
Copied(to, buf, r) ==
  [a \in DOMAIN to |-> IF r.address <= a /\ a < End(r) THEN buf[a - r.address] ELSE to[a]]

\* The history: what the file says is at each address.
Stated(to, r) ==
  [a \in DOMAIN to |-> IF r.address <= a /\ a < End(r) THEN r.data[a - r.address + 1] ELSE to[a]]
Addresses(r) == r.address .. r.address + Len(r.data) - 1

\* The size of the space address_ext selects.
SizeOf(ext) ==
  IF ext = 0 THEN MaxContents ELSE IF ext = ConfigExt THEN ConfigSize ELSE EepromSize

\* The room check of each space, and a slip that looks at the start. The end is
\* compared unsigned: one below 0 is larger than any size.
FitsFromStart(r, size) == r.address <= size
Fits(r, size) == End(r) \in 0 .. size

\* A negative length passes: the swap's unsigned index, or memcpy's unsigned
\* length, takes it for a huge one. And a slip: the loop does not stop for 0.
OverrunsIfEmpty(r) == r.dataLen <= 0
Overruns(r) == r.dataLen < 0

\* The high address watermark, and a slip: the last record decides.
LastEnd(size, r) == End(r)
Watermark(size, r) == IF End(r) > size THEN End(r) ELSE size

\* The config bytes a record makes valid, and a slip: counted from 0.
ValidFromZero(r) == Space(Len(r.data))
MadeValid(r) == r.address .. End(r) - 1

Init ==
  /\ contents = [a \in Space(MaxContents) |-> Blank]
  /\ contentsSize = 0
  /\ config = [a \in Space(ConfigSize) |-> Blank]
  /\ configValid = {}
  /\ eeprom = [a \in Space(EepromSize) |-> Blank]
  /\ buffer \in [Space(BufferSize) -> Garbage]
  /\ addressExt = 0
  /\ result = "reading" /\ lines = 0
  /\ fileProgram = contents /\ fileConfig = config /\ fileEeprom = eeprom
  /\ givenProgram = {} /\ givenConfig = {}
  /\ evenAddresses = TRUE /\ evenLengths = TRUE
  /\ damages = {} /\ refused = {}

ReadLine == result = "reading" /\ lines < MaxLines /\ lines' = lines + 1

\* A line that parses.
ReadRecord(l) == ReadLine /\ damages' = damages \cup {l.damage} /\ UNCHANGED refused

\* A line that ends the reading: the image is given up, or the process dies.
Ends(how) ==
  /\ result' = how
  /\ UNCHANGED <<image, addressExt, given>>

\* A data record while address_ext is 0.
ProgramRecord(l, r) ==
  /\ ReadRecord(l) /\ addressExt = 0
  /\ Fits(r, MaxContents) /\ ~Overruns(r)
  /\ buffer' = Swapped(Parsed(r.data), r.dataLen)
  /\ contents' = Copied(contents, buffer', r)
  /\ contentsSize' = Watermark(contentsSize, r)
  /\ fileProgram' = Stated(fileProgram, l.meant)
  /\ givenProgram' = givenProgram \cup Addresses(l.meant)
  /\ evenAddresses' = (evenAddresses /\ r.address % 2 = 0)
  /\ evenLengths' = (evenLengths /\ r.dataLen % 2 = 0)
  /\ UNCHANGED <<config, configValid, eeprom, addressExt, result, fileConfig, fileEeprom, givenConfig>>

\* A data record in configuration space.
ConfigRecord(l, r) ==
  /\ ReadRecord(l) /\ addressExt = ConfigExt /\ ConfigExt # 0
  /\ Fits(r, ConfigSize) /\ ~Overruns(r)
  /\ buffer' = Parsed(r.data)
  /\ config' = Copied(config, buffer', r)
  /\ configValid' = configValid \cup MadeValid(r)
  /\ fileConfig' = Stated(fileConfig, l.meant)
  /\ givenConfig' = givenConfig \cup Addresses(l.meant)
  /\ UNCHANGED <<contents, contentsSize, eeprom, addressExt, result,
                 fileProgram, fileEeprom, givenProgram, evenAddresses, evenLengths>>

\* A data record in EEPROM space.
EepromRecord(l, r) ==
  /\ ReadRecord(l) /\ addressExt = EepromExt /\ EepromExt \notin {0, ConfigExt}
  /\ Fits(r, EepromSize) /\ ~Overruns(r)
  /\ buffer' = Parsed(r.data)
  /\ eeprom' = Copied(eeprom, buffer', r)
  /\ fileEeprom' = Stated(fileEeprom, l.meant)
  /\ UNCHANGED <<contents, contentsSize, config, configValid, addressExt, result,
                 fileProgram, fileConfig, givenProgram, givenConfig, evenAddresses, evenLengths>>

\* "Not enough space", in any of the three.
RejectedRecord(l, r) ==
  /\ ReadRecord(l) /\ addressExt \in Spaces /\ ~Fits(r, SizeOf(addressExt))
  /\ buffer' = Parsed(r.data)
  /\ Ends("error")

\* A record of negative length, in any of the three.
OverrunRecord(l, r) ==
  /\ ReadRecord(l) /\ addressExt \in Spaces
  /\ Fits(r, SizeOf(addressExt)) /\ Overruns(r)
  /\ buffer' = Parsed(r.data)
  /\ Ends("crashed")

\* A data record in any other space is dropped, and the file read on.
OtherRecord(l, r) ==
  /\ ReadRecord(l) /\ addressExt \notin Spaces
  /\ buffer' = Parsed(r.data)
  /\ UNCHANGED <<image, addressExt, result, given>>

\* An extended address record. Its bytes are read as low, then high; if it has
\* less than two, stale ones.
ExtRecord(l, r) ==
  /\ ReadRecord(l)
  /\ buffer' = Parsed(r.data)
  /\ addressExt' = buffer'[0] + 256 * buffer'[1]
  /\ UNCHANGED <<image, result, given>>

\* A record of another type is parsed, and skipped.
SkippedRecord(l, r) ==
  /\ ReadRecord(l)
  /\ buffer' = Parsed(r.data)
  /\ UNCHANGED <<image, addressExt, result, given>>

\* The end record.
EndRecord(l) ==
  /\ ReadRecord(l)
  /\ result' = "ok"
  /\ UNCHANGED <<image, buffer, addressExt, given>>

\* The end of the file.
EndOfFile ==
  /\ result = "reading"
  /\ result' = "ok"
  /\ UNCHANGED <<image, buffer, addressExt, lines, given, damages, refused>>

\* A line that does not parse. An empty one, or a read error, is a line cut short.
\* What it leaves in the buffer is not looked at any more.
BadLine(l) ==
  /\ ReadLine
  /\ Ends("error")
  /\ refused' = {l.damage}
  /\ UNCHANGED <<buffer, damages>>

Next ==
  \/ \E l \in DataLines :
        \/ ProgramRecord(l, l.record) \/ ConfigRecord(l, l.record)
        \/ EepromRecord(l, l.record) \/ OtherRecord(l, l.record)
        \/ RejectedRecord(l, l.record) \/ OverrunRecord(l, l.record)
  \/ \E l \in ExtLines : ExtRecord(l, l.record)
  \/ \E l \in EndLines : EndRecord(l)
  \/ \E l \in SkippedLines : SkippedRecord(l, l.record)
  \/ EndOfFile
  \/ \E l \in RefusedLines : BadLine(l)

Spec == Init /\ [][Next]_vars

-------------------------------------------------------------------------------

TypeOK ==
  /\ DOMAIN contents = Space(MaxContents)
  /\ contentsSize \in 0 .. MaxContents
  /\ DOMAIN config = Space(ConfigSize)
  /\ configValid \subseteq Space(ConfigSize)
  /\ DOMAIN eeprom = Space(EepromSize)
  /\ DOMAIN buffer = Space(BufferSize)
  /\ addressExt \in Address
  /\ result \in {"reading", "ok", "error", "crashed"}
  /\ lines \in 0 .. MaxLines

\* No line of the file has been damaged that the parser accepted.
Intact == damages \subseteq {"none"}

\* A word of contents as image_to_device_program loads it through an unsigned
\* short pointer, on the big endian hosts lpicp is built for.
WordOnHost(w) == 256 * contents[2 * w] + contents[2 * w + 1]

Loaded == \A w \in Space(MaxContents \div 2) :
  WordOnHost(w) = fileProgram[2 * w] + 256 * fileProgram[2 * w + 1]

\* When program records have even addresses and lengths, each word that will be
\* written to the device is the file's: its low byte at the even address. This
\* holds across overlapping records, gaps and switches of address space.
WordsAreTheFiles == Intact /\ evenAddresses /\ evenLengths => Loaded

\* Configuration and EEPROM bytes land where the file says, in the file's order,
\* whatever program records came between; the config bytes marked valid are those
\* the file gave a value for, 0xFF included, and no other: the write goes by them.
BytesAreTheFiles ==
  Intact => config = fileConfig /\ configValid = givenConfig /\ eeprom = fileEeprom

\* contents_size covers every program byte the file gave, 0xFF included, and not
\* a byte more than the device has: the write and the verification stop there.
SizeCoversProgram ==
  Intact => givenProgram \subseteq Space(contentsSize) /\ contentsSize <= MaxContents

\* A line is refused if one pair behind the count has become another byte, in the
\* address in hex digits, or if its end is missing; a line that is undamaged never.
\* No promise is made of other damage. With another count the checksum is looked
\* for elsewhere in the line, where a byte may happen to fit. A character in the
\* address that is no hex digit moves it anywhere, with a sum that may be the same.
\* Several changes may cancel out.
DamageIsTold == damages \subseteq {"none", "other"} /\ "none" \notin refused

\* No file whose lines are undamaged, or damaged in one byte or cut, and be its
\* records empty, overlapping or out of bounds, makes the loader run off the record
\* buffer: that takes a line whose count has become negative.
OnlyOtherDamageCrashes == result = "crashed" => "other" \in damages

\* "HEX file record must contain even number of bytes" (the assertion that
\* lpp_image_data_record_to_big_endian has commented out): a file that is
\* accepted has been loaded as it stands, because a record with an odd number of
\* bytes, which the byte swap does not support, stops the program.
AcceptedIsLoaded == result = "ok" /\ Intact /\ evenAddresses => Loaded
===============================================================================
