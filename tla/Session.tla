-------------------------------- MODULE Session --------------------------------
(***************************************************************************)
(* One run of the lpicp command (main.c): arguments, driver and device,    *)
(* one operation, clean-up, exit status. An operation's calls into the     *)
(* library are one step each, with the outcomes the modules of the         *)
(* components establish: each may fail at a transfer, a memory region is   *)
(* then left "old", "mixed" or as the file's "image" wants it, and the     *)
(* EEPROM write may return 1 without having written (EepromWrite).         *)
(***************************************************************************)
EXTENDS CommandLog, Devices

CONSTANTS Devid1s, Devid2s  \* the values of the two bytes of a device's id

ASSUME DevidAssumption == Devid1s \cup Devid2s \subseteq 0 .. 255

VARIABLES
  args,     \* the command line: mode, how it is given, size, ...
  file,     \* the HEX file: does it load, does it have program bytes, or a line
            \* whose count is negative
  chip,     \* what open() returns for the driver, and the bytes of the device's id
  pc,       \* the next step
  config,   \* running_config: opmode, size
  driver,   \* the ICSP driver is open
  device,   \* context.device: group and sizes
  images,   \* the images allocated: "image", "verify_image"
  program, configuration, eeprom,  \* the device's memory
  busy,     \* the chip may still be writing its EEPROM
  verified, \* "none", "success" or "failed": the verification's message
  ret,      \* the result in hand
  opResult  \* history: the operation returned "ok" (1), "failed" (0), or "none" was run

inputs   == <<args, file, chip>>
memory   == <<program, configuration, eeprom>>
chipVars == <<memory, busy>>
held     == <<driver, device, logVars, images>>
outcomes == <<verified, ret, opResult>>
vars == <<inputs, pc, config, held, chipVars, outcomes>>

Modes   == {"undefined", "read", "write", "erase", "devid"}
Regions == {"old", "mixed", "image"}

\* What an error in writing frees on its way out (err_writing_file), and a slip:
\* the jump goes past the clean-up of the image.
LeftByWriteErrorAll == images
LeftByWriteError == images \ {"image"}

\* What a call may leave of a region, which is nothing new if it has no bytes.
Left(region, bytes, after) == IF bytes = 0 THEN {region} ELSE after
ProgramLeft(after) == IF file.program THEN Left(program, device.sizes.codeMemorySize, after) ELSE {program}

\* What the EEPROM read shows: while the chip writes, anything (EepromVerify).
EepromSeen == IF busy THEN Regions ELSE {eeprom}

\* The comparison of image and verify_image, over the bytes there are: the program
\* as it has been read, which is as it is, and what has been seen of the EEPROM.
Matches(seen) ==
  /\ file.program => program = "image"
  /\ device.sizes.eepromBytes # 0 => seen = "image"

\* The bytes an operation shows its progress in.
ReadBytes == IF config.size = 0 THEN device.sizes.codeMemorySize ELSE config.size
FileBytes == IF file.program THEN 1 ELSE 0

\* lpicp_progress_show divides by the total. Division by zero traps on x86 and
\* has no defined result on ppc. And a slip that divides by the last position.
ShownOfLast(total, next) == IF total < 2 THEN {"crashed", next} ELSE {next}
Shown(total, next) == IF total = 0 THEN {"crashed", next} ELSE {next}

Init ==
  /\ args \in [mode : Modes, longExec : BOOLEAN, help : BOOLEAN, dev : BOOLEAN,
               size : {0, 1}, verbose : BOOLEAN]
  /\ file \in [loads : BOOLEAN, program : BOOLEAN, negativeCount : BOOLEAN]
  /\ chip \in [fd : {-1, 0, 3}, devid1 : Devid1s, devid2 : Devid2s]
  /\ pc = "parse"
  /\ config = [opmode |-> "undefined", size |-> 0]
  /\ driver = FALSE /\ images = {}
  /\ device = [group |-> "none", sizes |-> NoSizes]
  /\ LogZeroed
  /\ program = "old" /\ configuration = "old" /\ eeprom = "old" /\ busy = FALSE
  /\ verified = "none" /\ ret = 1 /\ opResult = "none"

\* The options. -o and --offset are accepted and have no effect; --exec takes no
\* argument, so that its value, in optarg, is a null pointer.
ParseArgs ==
  /\ pc = "parse"
  /\ config' = [config EXCEPT !.opmode = args.mode, !.size = args.size]
  /\ pc' = IF args.mode # "undefined" /\ args.longExec THEN "crashed"
           ELSE IF args.help \/ args.mode = "undefined" \/ ~args.dev THEN "exit"
           ELSE "init"
  /\ UNCHANGED <<inputs, held, chipVars, outcomes>>

\* lpp_context_init begins by opening the driver. open() returns 0 for it if the
\* process has been started with its standard input closed.
OpenDriver ==
  /\ pc = "init"
  /\ driver' = (chip.fd >= 0)
  /\ pc' = IF chip.fd >= 0 THEN "identify" ELSE "exit"
  /\ UNCHANGED <<inputs, config, device, logVars, images, chipVars, outcomes>>

\* lpp_device_init_by_family: the id is read, the group found by it, and the
\* group's open() called and its result dropped. When that fails nobody closes
\* the driver: lpp_context_destroy is for a context that has been initialized.
SelectDevice ==
  /\ pc = "identify"
  /\ LET id == IdOf(chip.devid1, chip.devid2) IN
     \/ /\ device' = [group |-> GroupOf(id), sizes |-> SizesOf(id)]
        /\ pc' = IF GroupOf(id) = "none" THEN "exit" ELSE "log"
     \/ UNCHANGED device /\ pc' = "exit"  \* the id could not be read
  /\ UNCHANGED <<inputs, config, driver, logVars, images, chipVars, outcomes>>

InitLog ==
  /\ pc = "log"
  /\ \/ ~args.verbose /\ pc' = config.opmode /\ UNCHANGED <<ret, logVars>>
     \/ args.verbose /\ LogInit /\ pc' = config.opmode /\ UNCHANGED ret
     \/ args.verbose /\ LogInitFails /\ pc' = "close" /\ ret' = 0
  /\ UNCHANGED <<inputs, config, driver, device, images, chipVars, verified, opResult>>

\* One of the transfers that the calls at hand are made of.
Transferring == {"identify", "devid", "erase", "read", "program", "configuration",
                 "eeprom", "verify", "compare"}
SendTransfer ==
  /\ pc \in Transferring
  /\ Transfer
  /\ UNCHANGED <<inputs, pc, config, driver, device, images, chipVars, outcomes>>

\* An operation ends with a result.
Ends(result) ==
  /\ pc' = "release"
  /\ ret' = result
  /\ opResult' = IF result = 1 THEN "ok" ELSE "failed"

ReadDevid ==
  /\ pc = "devid"
  /\ \E r \in {0, 1} : Ends(r)
  /\ UNCHANGED <<inputs, config, held, chipVars, verified>>

\* The erase returns 1 whether or not it erased.
EraseDevice ==
  /\ pc = "erase"
  /\ \/ /\ program' \in Left(program, device.sizes.codeMemorySize, {program, "mixed"})
        /\ Ends(1)
     \/ /\ device.sizes.codeMemorySize = 0 /\ pc' = "crashed"
        /\ UNCHANGED <<program, ret, opResult>>
  /\ UNCHANGED <<inputs, config, held, configuration, eeprom, busy, verified>>

\* image_read: program from offset 0, configuration and EEPROM, then print.
ReadImage ==
  /\ pc = "read"
  /\ \/ \E r \in {0, 1} : Ends(r)
     \/ ReadBytes = 0 /\ pc' = "crashed" /\ UNCHANGED <<ret, opResult>>
  /\ UNCHANGED <<inputs, config, held, chipVars, verified>>

\* image_write begins: the image, and the file read into it.
LoadFile ==
  /\ pc = "write"
  /\ \/ /\ images' = images \cup {"image"}
        /\ pc' = IF file.loads /\ (file.program => device.sizes.codeMemorySize # 0) THEN "program" ELSE "writeError"
        /\ UNCHANGED <<ret, opResult>>
     \/ Ends(0) /\ UNCHANGED images  \* no memory
     \/ file.negativeCount /\ pc' = "crashed" /\ UNCHANGED <<images, ret, opResult>>
  /\ UNCHANGED <<inputs, config, driver, device, logVars, chipVars, verified>>

\* lpp_write_image_to_device_program: success leaves the image only on words
\* that could take it (programming clears bits, it does not erase).
WriteProgram ==
  /\ pc = "program"
  /\ \/ program' \in ProgramLeft({"image", "mixed"}) /\ pc' = "configuration"
     \/ program' \in ProgramLeft({program, "mixed", "image"}) /\ pc' = "writeError"
  /\ UNCHANGED <<inputs, config, held, configuration, eeprom, busy, outcomes>>

WriteConfig ==
  /\ pc = "configuration"
  /\ \/ configuration' \in Left(configuration, device.sizes.configBytes, {"image"}) /\ pc' = "eeprom"
     \/ configuration' \in Left(configuration, device.sizes.configBytes, Regions) /\ pc' = "writeError"
  /\ UNCHANGED <<inputs, config, held, program, eeprom, busy, outcomes>>

\* A write that has returned 1 need not have waited for the chip either.
WriteEeprom ==
  /\ pc = "eeprom"
  /\ eeprom' \in Left(eeprom, device.sizes.eepromBytes, Regions)
  /\ busy' \in Left(FALSE, device.sizes.eepromBytes, BOOLEAN)
  /\ pc' \in {"verify", "writeError"}
  /\ UNCHANGED <<inputs, config, held, program, configuration, outcomes>>

\* "Error writing file"
WriteError ==
  /\ pc = "writeError"
  /\ images' = LeftByWriteError
  /\ Ends(0)
  /\ UNCHANGED <<inputs, config, driver, device, logVars, chipVars, verified>>

\* verify_image, the program read into it, and the progress of that read.
ReadBack ==
  /\ pc = "verify"
  /\ \/ /\ images' = images \cup {"verify_image"}
        /\ pc' \in Shown(FileBytes, "compare") \cup {"writeDone"}
        /\ UNCHANGED <<ret, opResult>>
     \/ /\ images' = images \ {"image"}  \* no memory
        /\ Ends(0)
  /\ UNCHANGED <<inputs, config, driver, device, logVars, chipVars, verified>>

\* The EEPROM read, and the comparison.
Compare ==
  /\ pc = "compare"
  /\ \/ \E seen \in EepromSeen :
          /\ verified' = IF Matches(seen) THEN "success" ELSE "failed"
          /\ ret' = IF Matches(seen) THEN 1 ELSE 0
     \/ ret' = 0 /\ UNCHANGED verified
  /\ pc' = "writeDone"
  /\ UNCHANGED <<inputs, config, held, chipVars, opResult>>

WriteDone ==
  /\ pc = "writeDone"
  /\ images' = images \ {"image", "verify_image"}
  /\ Ends(IF verified = "success" THEN 1 ELSE 0)
  /\ UNCHANGED <<inputs, config, driver, device, logVars, chipVars, verified>>

\* The log is printed and freed, the driver closed.
Release ==
  /\ pc = "release"
  /\ IF args.verbose THEN LogDestroy ELSE UNCHANGED logVars
  /\ pc' = "close"
  /\ UNCHANGED <<inputs, config, driver, device, images, chipVars, outcomes>>

\* lpp_icsp_destroy closes the driver if its descriptor is not 0.
DestroyContext ==
  /\ pc = "close"
  /\ driver' = (driver /\ chip.fd = 0)
  /\ pc' = "exit"
  /\ UNCHANGED <<inputs, config, device, logVars, images, chipVars, outcomes>>

Next ==
  \/ ParseArgs \/ OpenDriver \/ SelectDevice \/ InitLog \/ SendTransfer
  \/ ReadDevid \/ EraseDevice \/ ReadImage
  \/ LoadFile \/ WriteProgram \/ WriteConfig \/ WriteEeprom \/ WriteError
  \/ ReadBack \/ Compare \/ WriteDone
  \/ Release \/ DestroyContext

Spec == Init /\ [][Next]_vars

-------------------------------------------------------------------------------

\* A device lpicp knows, by what the chip says of itself: a 2xx/4xx in DEVID2 and
\* the PIC18F452's sub type in DEVID1.
Known == chip.devid2 \in {4, 8} /\ chip.devid1 \div 32 = 1

\* The types, and that the sizes an operation finds are those of no device or
\* fit what the modules of the operations assume of theirs.
TypeOK ==
  /\ config.opmode \in Modes /\ config.size \in Nat
  /\ driver \in BOOLEAN
  /\ device.group \in {"none", "18f2xx_4xx"}
  /\ device.sizes = NoSizes \/ SizesFit(device.sizes)
  /\ images \subseteq {"image", "verify_image"}
  /\ {program, configuration, eeprom} \subseteq Regions /\ busy \in BOOLEAN
  /\ verified \in {"none", "success", "failed"}
  /\ ret \in {0, 1} /\ opResult \in {"none", "ok", "failed"}

\* Whatever fails, a run exits with both images and the log freed, and with the
\* driver closed, unless it found no device to work on or open() had returned 0:
\* lpp_icsp_init takes 0 for success, lpp_icsp_destroy for no descriptor.
NothingHeld ==
  pc = "exit" =>
    /\ driver => (device.group = "none" /\ opResult = "none") \/ chip.fd = 0
    /\ allocated = 0 /\ images = {}

\* "by default, return with error", ret = 1 (main): the exit status of a run is 0
\* when its operation succeeded and 1 when it did not.
StatusTellsResult == pc = "exit" /\ opResult # "none" => (ret = 0 <=> opResult = "ok")

\* No operation changes any memory of a device lpicp does not know, though one of
\* a known group and a sub type that open() calls unsupported is taken as found.
UnknownUntouched == [][~Known => UNCHANGED memory]_vars

\* The process only dies of --exec with its argument, of writing a file without
\* program bytes or with a negative count, or of a device of an unknown sub type:
\* no failure of a transfer or an allocation, at any step, makes it die.
CrashesAreKnown ==
  pc = "crashed" =>
    \/ args.longExec \/ ~Known
    \/ config.opmode = "write" /\ (~file.program \/ file.negativeCount)
===============================================================================
