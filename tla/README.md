# lpicp: models, checks and proofs

lpicp programs PIC18F microcontrollers from an embedded Linux board: it sends
ICSP transfers through a kernel driver and reads, writes and erases program
memory, configuration and data EEPROM. This directory holds TLA+ models of the
program, TLC configurations that check them on small instances, and proofs
that TLAPS checks for every size.

Paths below are relative to the repository (`main.c`, `src/lpicp.c`, ...); in
`PROJECT.json` they carry the prefix `src/`.

## 1. The system

| part | code | state | operations |
|---|---|---|---|
| command line and operations | `main.c` | `running_config`, images, progress mark | parse arguments; read, write, erase, devid; verify; clean up |
| context, shared helpers | `src/lpicp.c` | `lpp_context_t` | init, destroy; `tblptr_set`, `write_16`, `read_16`; program and configuration read; delegation to the device group |
| device selection | `src/lpicp_device.c`, `open` of each group | `context->device` | read the id, choose the group, set the sizes |
| device group 18F2xx/4xx | `src/devices/18f/lpicp_dev_18f_2xx_4xx.c` | none of its own; the chip's | bulk and non-bulk erase; program, configuration and EEPROM write; EEPROM read |
| device group 18F2xxx/4xxx | `src/devices/18f/lpicp_dev_18f_2xxx_4xxx.c` | none of its own | the block loop of the program write, which the other group uses |
| image | `src/lpicp_image.c` | `lpp_image_t` | init, load a HEX file, print, destroy |
| HEX parser (vendored) | `pkg/src/ihex.c` | the record buffer | read one record |
| ICSP transport | `src/lpicp_icsp.c` | the driver's file descriptor | transfer, command only, data only, delay |
| command log | `src/lpicp_log.c` | records, index | init, log, print, destroy |

`main` calls one operation per process. An operation calls the helpers of
`lpicp.c`, which delegate to the group chosen by the device id; everything ends
in ICSP transfers, one ioctl each, joined by `&&` so that the first failure
leaves out the rest. Two things act besides the program: the chip, which keeps
registers (TBLPTR, EECON1, the write buffer) between transfers and writes the
EEPROM in its own time, and whoever kills or repeats the program.

What is hard here:

- A failure or a kill can fall between any two transfers, before or after the
  chip has acted on one. The chip then keeps half-loaded state, and the operation
  is repeated on top of it.
- The meaning of a transfer depends on modes set many transfers earlier: EEPGD,
  CFGS, FREE, WREN, multi-panel writes, TBLPTR.
- Program memory can only be cleared by a write, in aligned rows; sizes are in
  bytes in one place and in words in another; the last row may be partial and the
  last byte odd.
- The EEPROM write polls a chip that may finish at any moment, or never.
- Records of a file may overlap, come in any order and switch address space; the
  byte order of program words is changed on the way in.

What makes each part correct: a program write puts every word of the image at its
own address, touches no other, and reports success only then (whatever was
interrupted before); an erase erases, page by page, and leaves the chip fit for a
write; an EEPROM write never overtakes the chip; a configuration write puts each
given byte into its own half-word and skips the others; a read has the device's
bytes in the order in which the loader has the file's; a verification says success
only of what is there, and a listing shows only what was read; a damaged file is
refused and a loaded image is the file's; the device the id stands for is the one
whose sizes are used; the log shows how the session began and stays in its memory;
an operation that is reported done has been done, and nothing stays open.

## 2. Modules

| module | models | main definitions and the code |
|---|---|---|
| `CodeMemory` | the chip's code memory as the code drives it (external), and `lpp_tblptr_set`'s partial effects | `Pulse` is command-only, delay, 16 data bits; `Programmed` clears bits in the row of TBLPTR (in all rows when multi-panel); `PageErased` |
| `PrefixWrite` | abstract promise of a program write | words reach the memory in ascending order; `Advance`, `Finish`, `Abort`, `Retry` |
| `Replacement` | abstract promise of an erase and a write together | `Erase` in any order, `Begin` only when every word is erased, then `PrefixWrite`; `WriteUnsure` is what is left of the promise behind an erase that lost track |
| `ProgramWrite` | both `image_to_device_program` functions | one action per `&&` chain: `ConfigWriteStart`, `DisableMultiPanel`, `CodeWriteStart`, `NextBlock`, `WriteWord`, `BurnBlock`, `Return`; `Rerun` is the next attempt |
| `NonBulkErase` | `non_bulk_erase` | `SelectPage` (mode, FREE, TBLPTR, the arming word), `ErasePage` (the pulse), `Return` |
| `BulkErase` | `bulk_erase` | `WriteCommand`, `EraseAll` |
| `Reprogram` | an erase of either kind, then writes, on one chip | `INSTANCE`s of the three modules share the chip's variables; an erase by pages that failed is followed by a write too, because it returns 1 |
| `DataEeprom` | the chip's data EEPROM as the code drives it (external) | `AddressSet` is the chain that loads EEADR and EEADRH, `WriteEnds` the end of a write |
| `EepromWrite` | `image_to_device_eeprom` | `SetAddress`, `StartWrite`, `Poll`, `EndPoll`, `DisableWrites`; `Complete` is the chip |
| `EepromRead` | `device_eeprom_to_image` | `SetAddress`, `ReadByte`, `Return`; unlike the write, the first failure ends it |
| `EepromVerify` | the EEPROM's part of `image_write` in `main.c`: write, read back, compare | extends `EepromWrite` and instantiates `EepromRead` on the same chip |
| `ConfigWrite` | `image_to_device_config` | `LoadByte`, `ProgramByte`, `SkipByte`, `NextByte` |
| `ProgramRead` | `lpp_read_device_program_to_image` | `Start`, `ReadWord`, `Finish` |
| `ConfigRead` | `lpp_read_device_config_to_image` | `SetAddress`, `ReadByte`, which marks the byte valid in any case |
| `ImageRead` | `image_read` of `main.c` and `lpp_image_print` | `ProgramRead`, then instances of `ConfigRead` and `EepromRead`, on one chip, one TBLPTR; `Listing` is what is printed |
| `IHexRecord` | `Read_IHexRecord` and `Checksum_IHexRecord` on one line | operators only. A line is its pairs of characters, the count and the four characters of the address as the calls of `strtol` convert them; `Accepted`, `RecordIn`; `LineFor` is the line any writer of the format makes, `ByteChanged` and `CutShort` what may become of it |
| `HexImage` | `lpp_image_init` and `lpp_image_read_from_file` | extends `IHexRecord`; one action per kind of line; `RejectedRecord` has no room, `OverrunRecord` a negative length, of which the process dies; a shared record buffer that keeps old bytes |
| `Devices` | `lpp_read_16`'s byte order, the choice of group and `open()` | operators only: `IdOf`, `GroupOf`, `SizesOf`; `SizesFit` is what the other modules assume of sizes |
| `CommandLog` | `lpicp_log.c` and what each kind of transfer in `lpicp_icsp.c` logs | `Transfer`, `LogInit`, `LogInitFails`, `LogDestroy` |
| `ProgramWriteProofs`, `NonBulkEraseProofs`, `ReprogramProofs`, `EepromProofs`, `ConfigWriteProofs`, `ImageReadProofs`, `HexImageProofs`, `SessionProofs` | theorems | section 5; each extends the module it is about, `ReprogramProofs` also instantiates the proofs of its two parts |
| `Session` | `main.c`, the context and its device | extends `CommandLog` and `Devices`; one action per call of an operation into the library, with the outcomes the other modules establish; `SendTransfer` is any transfer such a call makes. `chip.fd` is what `open()` returns, 0 included; `busy` is an EEPROM write still in progress, of which the read-back may see anything |

Each `MC` module gives the constants of one of these, the outermost of a
composition; the `.cfg` with its name is the passing run. A variable `pc` holds the place in the function. A step is a chain of
transfers that the code joins by `&&`: it takes full effect, or some prefix of it
followed by a failure. Values are abstract where the properties allow: a
program word is a set of bits (erasing sets them, programming clears them), a
byte a member of a small set. Comments name *slips*: operators next to the faithful
one that hold a plausible mistake (a dropped guard, an off-by-one). No module uses
them; they document which mistake each property would reveal.

The history variables (`before`, `failed`, `file...`, `given...`, `damages`, `refused`,
`idleAtRead`, `opResult`) only record; no guard reads them. `sent` records too, and
its length is a bound (`MaxSent`).

## 3. Runs

| run | instance | what it shows |
|---|---|---|
| `program_write` | 4 words in 2 rows, 1 bit, every image, every size (odd ones too), every old content; 16-bit address wraps at the end of the memory | an interrupted and repeated write never puts a word where it does not belong (`OldOrTarget`); returning 1 means the image is there (`DoneMeansWritten`); pulses are for one aligned row (`BlockIsOneRow`); `IInv` is the invariant the proofs use; `ImplementsPrefixWrite` is the refinement; `RunEnds` is liveness (`IInv` includes the types) |
| `non_bulk_erase` | 3 pages, the last half full | words are old or erased wherever the call is cut short (`OnlyErases`), the pages go in order and all of them (`PagesInOrder`), the chip is left ready for a write (`LeavesReady`), the call returns (`Returns`); `IInv` is the invariant the proofs use |
| `reprogram` | 3 words in 2 rows and 2 pages; erase by pages or in bulk | after an erase without failures, a write that returns 1 at any attempt leaves exactly the image (`ExactlyTheImage`, `ErasedOrImage`); after an erase that failed, which is reported as done and may leave FREE set, the first pulse of the write may erase a page: no word gets another's value, and what the image loses lies in the first page (`FailedEraseCostsOnePage`); together they implement `Replacement` (`ImplementsReplacement`) |
| `eeprom_write` | 4 bytes across both address registers, 2 polls, every old content; of the images those whose first two bytes differ | without failed transfers the bytes go in one by one (`CleanPrefix`), registers are not touched during a write (`NoOverlap`), success leaves the chip idle and WREN cleared (`CleanSuccess`), and the call returns though the chip may be stuck (`Returns`). With the read-back: "success" means the EEPROM is the image's although the write forgives failures (`VerifiedMeansEeprom`), and "failed" is said only if a transfer of the write failed (`NoFalseAlarm`) |
| `config_write` | 3 bytes of configuration, 4 in the image, every valid set | TBLPTR, write buffer and image keep step (`IInv`), bytes the file does not give are kept (`OldOrGiven`), success means written (`DoneMeansGiven`) |
| `program_read` | 4 bytes of memory, buffers and sizes 0 to 5; 3 bytes of configuration and 4 of EEPROM, told apart from their neighbours | `DoneMeansRead`, `ProgressIsHonest`; `StaysInBuffer` with its exception; whatever is printed is the device's, in all three parts (`PrintedIsDevice`) |
| `hex_image` | 6 bytes of program, 3 of configuration, 4 of EEPROM; files of up to 4 lines out of 12 data records (some with bytes of 0xFF, some at the end of a space, across it or behind it), 4 extended addresses, an end record and one that is skipped, and of each of these lines with one byte changed, its end cut off, its address cut at a character that is no hex digit, or a negative count | the image has the file's words (`WordsAreTheFiles`) and bytes, and exactly the bytes the file gave are valid (`BytesAreTheFiles`); the size covers every byte given and is no more than the device's (`SizeCoversProgram`); damage is refused, and nothing else (`DamageIsTold`, with its exceptions); only a bad count makes the loader run off its buffer (`OnlyOtherDamageCrashes`) |
| `session` | every command line and file; devices that are known, of the wrong sub type, of the wrong group, and one whose id is a known one with its bytes swapped; a log of two records, three transfers | `NothingHeld`, `UnknownUntouched`, `CrashesAreKnown`; the log stays in its memory (`LogHasRoom`) and shows how the session began (`LogIsPrefix`); the sizes selected fit what the other modules assume (`TypeOK`) |
| `eeprom_no_error`, `erase_result`, `hex_odd`, `exit_status` | as above | counterexamples, section 4 |

Why the bounds are enough. The block loop and the row arithmetic depend on the
size of the image only through full block, partial block and end: two rows of two
words with every size have all three, and the theorems of section 5 remove the bound. One
bit per word tells old, erased and new apart because words are only combined bit
by bit. Three pages have a first, a middle and a short last one. Two polls have
a first and a last; what the loop does depends on the counter only through zero.
What happens to a byte of EEPROM depends only on whether it is equal to its neighbour's
and to the old one, and two of the bytes are always different; the old content is free. The
reads do not look at the bytes they move, so that one content per memory is enough in which
a wrong address shows. A log of two records has an order,
and a third transfer finds it full. The configuration walk depends on parity and validity only. Four lines
are enough for two records of one space with a change of space and back between them.
A changed byte is one of six values; the checksum is a sum, so that what it tells depends
only on the difference. An address is cut at each of its four characters, a negative count is each of
the five that pass the size checks and one that does not. `MaxLines` and `MaxSent` are the only bounds that are guards; the
other modules are finite by themselves.

Fairness. `ProgramWrite`, `NonBulkErase` and `EepromWrite` (with the read-back) assume weak fairness of
the program's own steps: it is a single thread that nothing blocks for ever
(a transfer returns; its failure is a step). No step of the program is a stutter, so
the fairness is never met only by a failure. Nothing is assumed of the chip, which
may never complete a write, nor of the user, who need not run the program again.
Deadlock is not an error in these runs: a call that has returned stops.

## 4. Where the code and its comments disagree

Confirmed by a run that is violated:

- `eeprom_no_error`. In `image_to_device_eeprom` a failed transfer is forgotten:
  line 342 turns `ret` 0 into 1, and the address chain at 302 has no `else`.
  The function goes on with the next byte and returns 1. (In `main.c`
  the comparison that follows catches the missing bytes; see `VerifiedMeansEeprom`.)
- `erase_result`. `non_bulk_erase` returns 1 whatever happened.
- `hex_odd`. A record with an odd number of bytes is accepted and its last byte is
  replaced by a stale byte of the record buffer. The comment says such records are not
  supported; the assertion is commented out.
- `exit_status`. `main` returns 1 for success and 0 for failure.

Stated as properties that hold, with their exception:

- `CrashesAreKnown`: the process dies of `--exec` with its argument (declared without
  one, so `optarg` is null), and may die of a file without program bytes, of one with a negative count, or of an unknown
  sub type (`lpicp_progress_show` divides by a total of 0: a trap on x86, no defined
  result on ppc). It does not show another option declared like `--exec`.
- `OnlyOtherDamageCrashes`: excepts a negative count. The line `:-1000100` passes both size checks
  (`ihex.c` converts the count as an `int`) and the check for room; the swap loop of
  `lpicp_image.c` (84) then compares an unsigned index with -1 and runs off the record buffer.
  Nothing says what a file like that should do.
- `UnknownUntouched`: `open()` calls a sub type unsupported, its result is dropped and
  the operation is run; as all sizes are 0, the memory is not changed.
- `StaysInBuffer`: a read of an odd size that fills its buffer stores one byte behind it.
- `VerifiedMeansEeprom`: excepts a write that is still in progress when the read-back
  begins. Only a failed transfer leaves one behind, and the chip promises nothing about
  its registers then.
- `DamageIsTold`: excepts a changed count, with which the parser looks for the checksum
  elsewhere. The record `0, <<1, 254>>` of the instance shows it: with its count changed
  to 1 the line is accepted. It excepts a character of the address that is no hex digit, too: all
  four are converted at once and none counts behind that one, so that `:021BE6000102FA` with a `G`
  for the `B` is taken for a record at 0001 with the same sum. (The first character of a pair
  elsewhere, or the second, changes that pair's byte only, which the checksum shows.)
- `NothingHeld`: excepts the driver of a run that found no device. `lpp_context_init` has
  then opened it, and nobody calls `lpp_context_destroy`. It also excepts a
  descriptor of 0, which `lpp_icsp_init` takes for success and `lpp_icsp_destroy` (55) for no driver;
  `open` returns it to a process that was started with its standard input closed.
- The EEPROM write reports a time-out when the last of its 100 polls is the one that sees
  the write complete; `CleanPrefix` still holds.

Read, not checked: `-o/--offset` is accepted and ignored; the README of the repository
claims PIC18F2xxx/4xxx, but `lpicp_device.c` only ever selects the 2xx/4xx group;
`LPP_SET_WREN` (0x86A6) and `LPP_SET_EECON1_WREN` (0x84A6) set different bits;
the configuration is not compared after a write; EEPROM and configuration bytes of a
file that the device does not have, but the image has room for, are accepted and neither
written nor compared; the loader swaps bytes for a big endian host whatever the host is, and
on a little endian one the read-back would not show it; `-x write` without `-f` passes a null file
name to `fopen`.

## 5. Proofs

Every safety invariant, action property and refinement of section 3 is a theorem of its
specification, for every value of the constants:

| module | theorems, and the property each states |
|---|---|
| `ProgramWriteProofs` | `Inductive` (`IInv`), `TypeCorrect` (`TypeOK`, a part of it), `NeverStrays` (`OldOrTarget`), `SuccessMeansWritten` (`DoneMeansWritten`), `BlocksAreRows` (`BlockIsOneRow`), `Refinement` (`ImplementsPrefixWrite`) |
| `NonBulkEraseProofs` | `EraseInductive` (`IInv`), `EraseNeverPrograms` (`OnlyErases`), `ErasesInOrder` (`PagesInOrder`), `EraseLeavesReady` (`LeavesReady`) |
| `ReprogramProofs` | `ReprogramIsExact` (`ExactlyTheImage`), `ReprogramNeverMixes` (`ErasedOrImage`), `FailedEraseIsBounded` (`FailedEraseCostsOnePage`), `ReprogramRefines` (`ImplementsReplacement`); `PromiseSuffices` |
| `EepromProofs` | `WritesInOrder` (`CleanPrefix`), `CleanWriteIsComplete` (`CleanSuccess`), `NeverOverlaps` (`NoOverlap`), `VerificationIsRight` (`VerifiedMeansEeprom`), `NoVerificationWithoutCause` (`NoFalseAlarm`) |
| `ConfigWriteProofs` | `WalkInStep` (`IInv`), `ConfigNeverStrays` (`OldOrGiven`), `ConfigDone` (`DoneMeansGiven`) |
| `ImageReadProofs` | `ReadIsComplete` (`DoneMeansRead`), `ReadStaysInBuffer` (`StaysInBuffer`), `ReadProgress` (`ProgressIsHonest`), `ListingsAreTrue` (`PrintedIsDevice`) |
| `HexImageProofs` | `LoadTypes` (`TypeOK`), `WordsAreLoaded` (`WordsAreTheFiles`), `BytesAreLoaded` (`BytesAreTheFiles`), `SizeIsEnough` (`SizeCoversProgram`), `DamageIsDetected` (`DamageIsTold`), `OnlyBadCountsCrash` (`OnlyOtherDamageCrashes`) |
| `SessionProofs` | `SessionTypes` (`TypeOK`), `RunsHoldNothing` (`NothingHeld`), `OnlyKnownCrashes` (`CrashesAreKnown`), `LogStaysInMemory` (`LogHasRoom`), `LogShowsTheBeginning` (`LogIsPrefix`), `UnknownDevicesAreSafe` (`UnknownUntouched`) |

`WritePromisesHold` and `ReadPromisesHold` carry the promises of the write of the EEPROM and
of the read of the program over to the compositions that the runs check. Every inductive
invariant has been checked by TLC on the instance of its module's run before it was proved.

Assumptions on the constants, all of them checked by TLC on every instance:

- `DeviceAssumption`: sizes are naturals, the memory a whole number of words.
  `AddressAssumption`: the code memory fits the range of the 16-bit address (the PIC18F452
  has 32K). `PagesAreRows`: a page holds whole write buffers (64 bytes and 4 words).
- `EepromAssumption`, `TicksAssumption`: the EEPROM fills whole ranges of EEADR, a byte is
  polled at least once. `ConfigAssumption`: the image has room for the configuration.
- `ReadAssumption`, `PartsAssumption`: sizes are naturals.
- `ImageAssumption`: the record buffer is not empty and of an even size (`ihex.h`), and
  holds bytes. `LinesAssumption`: an accepted record fits the record buffer (a count is at most
  255, the buffer has 256), an undamaged line is what `LineFor` makes of some record, and a damaged
  one is that with one byte behind its count changed, with its end cut off, or anything else
  (`damage = "other"`, of which no more is assumed than that it converts to pairs, a count
  and an address, and nothing promised). Of the first three kinds it says that count and address
  are the pairs' (`InDigits`).
- `LogAssumption`, `DevidAssumption`: the log has room for a record; an id is two bytes.

The arguments, component by component.

*Program write.* `OldOrTarget` is not inductive: nothing in it says what the write
buffer holds when the pulse comes. `LoopInv` ties address, TBLPTR and index in the image
together at each place of the loop; its heart is that a block starts at a multiple of the
write buffer's size (`Base % WordsPerWrite = 0`) unless nothing is left. `LatchInv`
says that a lane loaded in this block holds its image word and any other is empty, *or*
is a leftover of an interrupted run (such a lane lies below the image's size) or the first
lane, where an erase leaves its word: the first block of the run loads both again before
its pulse. `RegisterInv` carries the modes from the steps that set them to the pulse. These
make up `RunInv`, which holds on any chip, one left with FREE set included. With FREE
clear too (`IInv`), `PulseBurnsBlock` shows that a pulse changes exactly the block's words, to
their targets (`FlashInv`). The refinement maps words left to progress: `BurnBlock` is
`Advance` by one block, or `Abort` when the transfer fails after the pulse; other steps
stutter, finish, abort or retry.

*Non-bulk erase.* What `PagesInOrder` lacks is that the pulse erases, and where: that it is
only sent with FREE set, in code memory, and with TBLPTR at the page in hand, a multiple of
the page size (`RegisterInv`). `PulseErasesPage` then gives the words the pulse reaches.

*Erase and write.* The proofs use those of the two parts (`Writes`, `Erases`) as they are. While
the erase runs its own invariant is kept, and the later lanes of the write buffer stay empty,
because the word that arms an erase goes to the start of a page, hence into the first lane
(`PageStartsRow`). When the write begins, that is all `RunInv` needs. After an erase without
failures `IInv` of the write holds with erased memory as the old content, and `ExactlyTheImage`
is the write's own `DoneMeansWritten`. After one that failed, FREE may be set: the pulse it
turns into an erase is the first of the loop (`MixedInv`), and all its block's words lie in the
first page (`FirstPage`), so that only these are lost. The refinement of `Replacement` maps the
time before the write to "erasing", a write behind a complete erase to `PrefixWrite`'s status and
progress, and everything behind a failed one to "unsure". A pulse of the erase is `Erase` with the
words of its page, `BeginWrite` is `Begin` because a complete erase has erased every word, the
steps of the write are those of `StepRefines` of the write, and behind a failed erase
`PulseBurnsBlock` and `QuietSteps`, which need no clear FREE for the rest, bound what a word may
become. `PromiseSuffices` is about the promise alone: "done" means exactly the image.

*EEPROM.* The invariant of a call without failures says what the chip may still be doing at
each step, and which byte it does it to; that of the read-back needs no more of the write
than that the chip is idle, and follows the bytes read so far.

*Configuration write.* `IInv` says where TBLPTR, the write buffer and the image's index are in
relation to each other, for even and odd bytes and for those skipped.

*Reads and listing.* For each of the three reads: the bytes before the index are the device's,
and TBLPTR (or EEADR) is at the next one. TBLPTR is shared, so that the configuration's part only
starts once its own address is set.

*HEX image.* `WrittenIsRead` shows that the parser finds in an undamaged line the record it was
made from. `LoadInv` then follows program, configuration and EEPROM byte by byte:
the image's byte is the file's last one, with program words exchanged while the addresses and
lengths were even. It also says which addresses the file has given a byte for: these are the valid ones, and
lie below the size. `OnlyBadCountsCrash` needs of a line with a negative count that it is not one of the
lines whose count is its first pair.

*Checksum.* `DamageIsDetected` is about lines of every length, hence an induction over the bytes of
a line. The library's induction theorems take a predicate as a parameter, which no prover here can
instantiate; `Induction` states it for a *set* of numbers instead, from the least element of a
set (`WFMin`). With it the recursive function `Running` exists and computes running sums of
bytes (`RunningExists`, `RunningSum`). An accepted line adds up to 0 up to its checksum
(`AcceptedAddsUpToZero`), and two lines that differ in one byte have different sums from there on
(`SumsOfBytesDiffer`), so that a changed byte is told (`ChangedIsRefused`); a line that is cut short
is told by its length (`CutIsRefused`); the line a writer makes is accepted (`WrittenIsAccepted`).

*Session and log.* The invariant holds, for each place of an operation, what has been allocated,
opened and found so far. The log's counts the transfers it shows by a cardinality, and says
that the records are the first of them.

Only model-checked: liveness (`RunEnds`, `Returns` of both modules), which is out of the
prover's reach. The four counterexamples of section 4 are TLC's, too.

## 6. Not modelled

The text format of HEX lines beyond what `strtol` makes of it (a character that is no hex digit ends
the number it is in: in a pair that makes another byte, in the address another address, in the count a
sign may come first), the functions of `ihex.c` that lpicp does not call,
`lpp_image_write_to_file` (a TODO in the code), the group 18F2xxx/4xxx as a group (no
device id selects it; its block loop is in `ProgramWrite`, its bulk erase differs in one
register), printing and timing, the ioctl encoding (the kernel driver is not in the
repository). `CodeMemory` and `DataEeprom` say what the code relies on, not what a data
sheet says. `BeginWrite` and `Rerun` allow a chip as it was left and a chip whose registers
were reset, because what opening the driver does is not in the repository. The host is a
big endian one, as in the only build there is. The configuration is not verified by the code; `Session` has
no property of what a successful write has written, which the modules of the writes and the
EEPROM's verification say. `Session` takes the outcomes of the
operations from the other modules by hand; the transfers it logs are not tied to the
result of the call they belong to.

## 7. Plan

1. Done: the program write with its promise and proofs, both erases, their composition with
   the write, EEPROM and configuration write, all three reads and the listing, the EEPROM's
   verification, HEX lines and loading, device selection, the command log, the session.
2. Done: the theorems of section 5, one module for each component.
3. Done: what a checksum shows, for every line; an abstract promise of erase and write together,
   with the proof that `Reprogram` implements it and that the promise is enough.
4. Not done: an abstract promise of the EEPROM write. What it would say without failures is
   `CleanPrefix`; with failures, which the code forgets, there is no order left to promise, and
   `VerifiedMeansEeprom` says what counts. An invariant of `Session` that ties a call's result to the
   transfers it logs, in place of the outcomes taken by hand, would need one module of all
   operations, whose product is beyond TLC; the outcomes are theorems of the modules they are
   taken from.
