----------------------------- MODULE SessionProofs -----------------------------
(***************************************************************************)
(* Session and its CommandLog are correct for every size of the log, every *)
(* number of transfers, every device id, command line and file.            *)
(***************************************************************************)
EXTENDS Session, FiniteSetTheorems, TLAPS

Records == {"write_16", "read_8", "nop"}

\* The types of the log; the count of records the code goes by is that of the
\* memory there is.
LogTypeOK ==
  /\ sent \in Seq(Transfers) /\ records \in Seq(Records)
  /\ allocated \in {0, LogSize} /\ recordCount = allocated

\* The inductive invariant of lpicp_log.c.
LogInv == LogTypeOK /\ LogHasRoom /\ LogIsPrefix

\* What is shown of a session is finite, and each of its transfers has a line.
LEMMA LinesAreNumbered ==
  ASSUME NEW s \in Seq(Transfers)
  PROVE  /\ IsFiniteSet(ShownIn(s)) /\ Cardinality(ShownIn(s)) \in Nat
         /\ \A i \in ShownIn(s) : LineOf(s, i) \in 1 .. Cardinality(ShownIn(s))
<1>1. IsFiniteSet(1 .. Len(s)) /\ ShownIn(s) \subseteq 1 .. Len(s)
  <2>1. Len(s) \in Int /\ DOMAIN s = 1 .. Len(s)
    OBVIOUS
  <2>2. IsFiniteSet(1 .. Len(s))
    BY <2>1, FS_Interval
  <2> QED
    BY <2>1, <2>2 DEF ShownIn
<1>2. IsFiniteSet(ShownIn(s)) /\ Cardinality(ShownIn(s)) \in Nat
  BY <1>1, FS_Subset, FS_CardinalityType
<1>3. ASSUME NEW i \in ShownIn(s)
      PROVE  LineOf(s, i) \in 1 .. Cardinality(ShownIn(s))
  <2> DEFINE before == {j \in ShownIn(s) : j <= i}
  <2>1. before \in SUBSET ShownIn(s) /\ i \in before
    BY <1>1
  <2>2. IsFiniteSet(before) /\ Cardinality(before) <= Cardinality(ShownIn(s))
    BY <1>2, <2>1, FS_Subset
  <2>3. Cardinality(before) \in Nat /\ Cardinality(before) # 0
    BY <2>1, <2>2, FS_CardinalityType, FS_EmptySet
  <2>4. LineOf(s, i) = Cardinality(before)
    BY DEF LineOf
  <2> HIDE DEF before
  <2> QED
    BY <1>2, <2>2, <2>3, <2>4
<1> QED
  BY <1>2, <1>3

\* Another transfer moves no line, and has the next one if it is shown.
LEMMA LinesAreKept ==
  ASSUME NEW s \in Seq(Transfers), NEW t \in Transfers
  PROVE  LET next == Len(s) + 1
             t1   == Append(s, t)
         IN  /\ \A i \in ShownIn(s) : LineOf(t1, i) = LineOf(s, i) /\ t1[i] = s[i]
             /\ Logged(t) =>
                  /\ ShownIn(t1) = ShownIn(s) \cup {next} /\ t1[next] = t
                  /\ Cardinality(ShownIn(t1)) = Cardinality(ShownIn(s)) + 1
                  /\ LineOf(t1, next) = Cardinality(ShownIn(s)) + 1
             /\ ~Logged(t) => ShownIn(t1) = ShownIn(s)
<1> DEFINE next == Len(s) + 1
           t1   == Append(s, t)
<1>1. /\ t1 \in Seq(Transfers) /\ DOMAIN t1 = DOMAIN s \cup {next} /\ t1[next] = t
      /\ \A i \in DOMAIN s : t1[i] = s[i] /\ i \in Nat /\ i < next
      /\ next \notin DOMAIN s /\ next \in Nat
  OBVIOUS
<1>2. Logged(t) <=> t.kind # "data_only" /\ (t.kind = "command_only" => t.ok)
  BY DEF Transfers, Logged
<1>3. \A i \in DOMAIN s : i \in ShownIn(t1) <=> i \in ShownIn(s)
  BY <1>1 DEF ShownIn
<1>4. next \in ShownIn(t1) <=> Logged(t)
  BY <1>1, <1>2 DEF ShownIn
<1>5. ShownIn(s) \subseteq DOMAIN s /\ ShownIn(t1) \subseteq DOMAIN s \cup {next}
  BY <1>1 DEF ShownIn
<1> HIDE DEF t1, next
<1>6. ASSUME NEW i \in ShownIn(s)
      PROVE  LineOf(t1, i) = LineOf(s, i) /\ t1[i] = s[i]
  <2>1. i \in DOMAIN s /\ ~(next <= i)
    BY <1>1, <1>5
  <2>2. {j \in ShownIn(t1) : j <= i} = {j \in ShownIn(s) : j <= i}
    BY <1>3, <1>5, <2>1
  <2> QED
    BY <1>1, <2>1, <2>2 DEF LineOf
<1>7. CASE Logged(t)
  <2>1. ShownIn(t1) = ShownIn(s) \cup {next} /\ next \notin ShownIn(s)
    BY <1>1, <1>3, <1>4, <1>5, <1>7
  <2>2. Cardinality(ShownIn(t1)) = Cardinality(ShownIn(s)) + 1
    BY <2>1, LinesAreNumbered, FS_AddElement
  <2>3. {j \in ShownIn(t1) : j <= next} = ShownIn(t1)
    BY <1>1, <1>5
  <2> QED
    BY <1>1, <1>6, <1>7, <2>1, <2>2, <2>3 DEF LineOf, t1, next
<1>8. CASE ~Logged(t)
  <2>1. ShownIn(t1) = ShownIn(s)
    BY <1>3, <1>4, <1>5, <1>8
  <2> QED
    BY <1>6, <1>8, <2>1 DEF t1, next
<1> QED
  BY <1>7, <1>8

LEMMA EmptyLogInv ==
  ASSUME allocated' \in {0, LogSize}, recordCount' = allocated', records' = <<>>, sent' = <<>>
  PROVE  LogInv'
<1>1. LogTypeOK' /\ Len(records') = 0 /\ LogSize \in Nat
  BY LogAssumption DEF LogTypeOK
<1>2. ShownIn(sent') = {}
  BY DEF ShownIn
<1>3. LogIsPrefix'
  BY <1>1, <1>2, FS_EmptySet, LogAssumption DEF LogIsPrefix
<1> QED
  BY <1>1, <1>3 DEF LogInv, LogHasRoom, LogTypeOK

\* A transfer takes the next line of a log that has one left, and none otherwise.
LEMMA TransferInv == LogInv /\ Transfer => LogInv'
<1> SUFFICES ASSUME LogInv, Transfer PROVE LogInv'
  OBVIOUS
<1> DEFINE shown == Cardinality(ShownIn(sent))
<1>1. PICK t \in Transfers :
        /\ sent' = Append(sent, t)
        /\ records' = IF Logged(t) THEN LogCommand(Record(t)) ELSE records
  BY DEF Transfer
<1>2. UNCHANGED <<allocated, recordCount>>
  BY DEF Transfer
<1>3. /\ sent \in Seq(Transfers) /\ records \in Seq(Records) /\ recordCount = allocated
      /\ allocated \in {0, LogSize} /\ LogSize \in Nat \ {0}
      /\ Len(records) \in Nat /\ Len(records) <= allocated
  BY LogAssumption DEF LogInv, LogTypeOK, LogHasRoom
<1>4. Logged(t) => Record(t) \in Records
  BY DEF Transfers, Record, Logged, Records
<1>5. records' = IF Logged(t) /\ Len(records) < allocated THEN Append(records, Record(t)) ELSE records
  BY <1>1, <1>3 DEF LogCommand
<1>6. LogTypeOK' /\ LogHasRoom'
  <2>1. sent' \in Seq(Transfers)
    BY <1>1, <1>3
  <2>2. records' \in Seq(Records) /\ Len(records') <= allocated
    BY <1>3, <1>4, <1>5
  <2> QED
    BY <1>2, <1>3, <2>1, <2>2 DEF LogTypeOK, LogHasRoom
<1>7. ASSUME allocated > 0
      PROVE  LogIsPrefix'
  <2>1. /\ allocated = LogSize
        /\ Len(records) = IF shown < LogSize THEN shown ELSE LogSize
        /\ \A i \in ShownIn(sent) :
             LineOf(sent, i) <= LogSize => records[LineOf(sent, i)] = Record(sent[i])
    BY <1>3, <1>7 DEF LogInv, LogIsPrefix
  <2>2. shown \in Nat /\ \A i \in ShownIn(sent) : LineOf(sent, i) \in 1 .. shown
    BY <1>3, LinesAreNumbered
  <2>3. \A i \in ShownIn(sent) : LineOf(sent', i) = LineOf(sent, i) /\ sent'[i] = sent[i]
    BY <1>1, <1>3, LinesAreKept
  <2> HIDE DEF shown
  <2>4. ASSUME NEW i \in ShownIn(sent), LineOf(sent', i) <= LogSize
        PROVE  records'[LineOf(sent', i)] = Record(sent'[i])
    <3>1. LineOf(sent, i) \in 1 .. Len(records)
      BY <1>3, <2>1, <2>2, <2>3, <2>4
    <3>2. records'[LineOf(sent, i)] = records[LineOf(sent, i)]
      BY <1>3, <1>5, <3>1
    <3> QED
      BY <2>1, <2>3, <2>4, <3>2
  <2>5. CASE ~Logged(t)
    <3>1. ShownIn(sent') = ShownIn(sent) /\ records' = records
      BY <1>1, <1>3, <1>5, <2>5, LinesAreKept
    <3> QED
      BY <1>2, <2>1, <2>4, <3>1 DEF LogIsPrefix, shown
  <2>6. CASE Logged(t)
    <3> DEFINE next == Len(sent) + 1
    <3>1. /\ ShownIn(sent') = ShownIn(sent) \cup {next} /\ sent'[next] = t
          /\ Cardinality(ShownIn(sent')) = shown + 1 /\ LineOf(sent', next) = shown + 1
      BY <1>1, <1>3, <2>6, LinesAreKept DEF shown
    <3> HIDE DEF next
    <3>2. CASE Len(records) < allocated
      <4>1. records' = Append(records, Record(t)) /\ Len(records) = shown /\ shown < LogSize
        BY <1>3, <1>5, <2>1, <2>2, <2>6, <3>2
      <4>2. Len(records') = shown + 1 /\ records'[shown + 1] = Record(t)
        BY <1>3, <4>1
      <4>3. \A i \in ShownIn(sent') :
              LineOf(sent', i) <= LogSize => records'[LineOf(sent', i)] = Record(sent'[i])
        BY <2>4, <3>1, <4>2
      <4>4. Len(records') = IF shown + 1 < LogSize THEN shown + 1 ELSE LogSize
        BY <1>3, <2>2, <4>1, <4>2
      <4> QED
        BY <3>1, <4>3, <4>4 DEF LogIsPrefix
    <3>3. CASE ~(Len(records) < allocated)
      <4>1. records' = records /\ Len(records) = LogSize /\ LogSize <= shown
        BY <1>3, <1>5, <2>1, <2>2, <3>3
      <4> QED
        BY <1>2, <1>3, <2>1, <2>2, <2>4, <3>1, <4>1 DEF LogIsPrefix
    <3> QED
      BY <3>2, <3>3
  <2> QED
    BY <2>5, <2>6
<1>8. ASSUME ~(allocated > 0)
      PROVE  LogIsPrefix'
  BY <1>2, <1>8 DEF LogIsPrefix
<1> QED
  BY <1>6, <1>7, <1>8 DEF LogInv

\* What the session does to the log.
LEMMA LogStepInv ==
  ASSUME LogInv,
         \/ UNCHANGED logVars
         \/ Transfer
         \/ LogInit
         \/ LogInitFails /\ allocated = 0
         \/ LogDestroy
  PROVE  LogInv'
<1>1. CASE UNCHANGED logVars
  BY <1>1 DEF logVars, LogInv, LogTypeOK, LogHasRoom, LogIsPrefix
<1>2. CASE LogInit
  BY <1>2, EmptyLogInv DEF LogInit
<1>3. CASE LogDestroy
  BY <1>3, EmptyLogInv DEF LogDestroy
<1>4. CASE LogInitFails /\ allocated = 0
  BY <1>4, EmptyLogInv DEF LogInitFails, LogInv, LogTypeOK
<1> QED
  BY <1>1, <1>2, <1>3, <1>4, TransferInv

-------------------------------------------------------------------------------

\* The steps before the operation, those of an operation, and those of a write.
Early     == {"parse", "init", "identify", "log"}
Operating == {"devid", "erase", "read"}
Writing   == {"write", "program", "configuration", "eeprom", "verify", "compare",
              "writeDone", "writeError"}

\* The inputs, which never change, and the running configuration taken from them.
InputsOK ==
  /\ args \in [mode : Modes, longExec : BOOLEAN, help : BOOLEAN, dev : BOOLEAN,
               size : {0, 1}, verbose : BOOLEAN]
  /\ file \in [loads : BOOLEAN, program : BOOLEAN, negativeCount : BOOLEAN]
  /\ chip \in [fd : {-1, 0, 3}, devid1 : Devid1s, devid2 : Devid2s]
  /\ config \in [opmode : Modes, size : {0, 1}]

\* An operation is run by its own steps, after the early ones, and once.
ControlInv ==
  /\ pc \in Early \cup Operating \cup Writing \cup {"release", "close", "exit", "crashed"}
  /\ pc \in {"init", "identify", "log"} => config.opmode # "undefined"
  /\ pc \in Operating => config.opmode = pc
  /\ pc \in Writing => config.opmode = "write"
  /\ pc \in Early \cup Operating \cup Writing => opResult = "none"

\* What there is to know of a device from its id.
NoDevice  == [group |-> "none", sizes |-> NoSizes]
TheDevice == LET id == IdOf(chip.devid1, chip.devid2)
             IN  [group |-> GroupOf(id), sizes |-> SizesOf(id)]

\* An operation works on a device whose group has been found.
DeviceInv ==
  /\ device \in {NoDevice, TheDevice}
  /\ pc \in {"parse", "init", "identify"} => device = NoDevice
  /\ pc \in {"log", "release", "close"} \cup Operating \cup Writing \/ opResult # "none" =>
       device = TheDevice /\ device.group # "none"

\* What is held at each step, up to the end.
HeldInv ==
  /\ driver \in BOOLEAN /\ images \subseteq {"image", "verify_image"}
  /\ pc \in {"parse", "init"} => ~driver
  /\ pc \in Early \cup Operating \cup {"write", "release", "close", "exit"} => images = {}
  /\ pc \in {"program", "configuration", "eeprom", "verify", "writeError"} => images \subseteq {"image"}
  /\ allocated # 0 => args.verbose /\ pc \notin Early \cup {"close", "exit"}
  /\ pc = "exit" /\ driver => device.group = "none" \/ chip.fd = 0

\* The memories, and what has become of the operation.
MemoryTypeOK ==
  /\ {program, configuration, eeprom} \subseteq Regions /\ busy \in BOOLEAN
  /\ verified \in {"none", "success", "failed"}
  /\ ret \in {0, 1} /\ opResult \in {"none", "ok", "failed"}

\* The inductive invariant of a run of lpicp.
SessionInv ==
  /\ LogInv /\ InputsOK /\ ControlInv /\ DeviceInv /\ HeldInv
  /\ MemoryTypeOK /\ CrashesAreKnown

\* The group is in one byte of the id and the sub type in the other: of the
\* devices of a known group, those lpicp knows are those it has sizes for.
LEMMA KnownDevice ==
  ASSUME InputsOK, TheDevice.group # "none"
  PROVE  /\ Known => TheDevice.sizes = PIC18F452
         /\ ~Known => TheDevice.sizes = NoSizes
         /\ TheDevice.group = "18f2xx_4xx"
<1> DEFINE a == chip.devid1
           b == chip.devid2
<1>1. a \in 0 .. 255 /\ b \in 0 .. 255
  BY DevidAssumption DEF InputsOK
<1>2. Known <=> b \in {4, 8} /\ a \div 32 = 1
  BY DEF Known
<1>3. TheDevice.group = GroupOf(IdOf(a, b)) /\ TheDevice.sizes = SizesOf(IdOf(a, b))
  BY DEF TheDevice
<1> HIDE DEF a, b
<1>4. IdOf(a, b) % 256 = b
  BY <1>1 DEF IdOf
<1>5. SubType(IdOf(a, b)) = a \div 32
  <2>1. PICK q \in 0 .. 7, r \in 0 .. 31 : a = 32 * q + r
    <3>1. a = 32 * (a \div 32) + (a % 32) /\ a \div 32 \in 0 .. 7 /\ a % 32 \in 0 .. 31
      BY <1>1
    <3> QED
      BY <3>1
  <2>2. a \div 32 = q
    BY <2>1
  <2>3. b + 256 * a = 8192 * q + (256 * r + b) /\ 256 * r + b \in 0 .. 8191
    BY <1>1, <2>1
  <2>4. (b + 256 * a) \div 8192 = q
    BY <1>1, <2>1, <2>3
  <2> QED
    BY <2>2, <2>4 DEF SubType, IdOf
<1>6. GroupOf(IdOf(a, b)) # "none" => b \in {4, 8}
  BY <1>4 DEF GroupOf
<1> QED
  BY <1>2, <1>3, <1>5, <1>6 DEF SizesOf, GroupOf

LEMMA InitSessionInv == Init => SessionInv
<1> SUFFICES ASSUME Init PROVE SessionInv
  OBVIOUS
<1>1. LogInv
  <2>1. ShownIn(sent) = {}
    BY DEF Init, LogZeroed, ShownIn
  <2> QED
    BY <2>1, FS_EmptySet DEF Init, LogZeroed, LogInv, LogTypeOK, LogHasRoom, LogIsPrefix
<1>2. InputsOK
  BY DEF Init, InputsOK, Modes
<1>3. ControlInv /\ DeviceInv /\ HeldInv
  BY DEF Init, LogZeroed, ControlInv, DeviceInv, HeldInv, NoDevice, Early, Operating, Writing
<1>4. MemoryTypeOK /\ CrashesAreKnown
  BY DEF Init, MemoryTypeOK, CrashesAreKnown, Regions
<1> QED
  BY <1>1, <1>2, <1>3, <1>4 DEF SessionInv

LEMMA NextLogInv == SessionInv /\ Next => LogInv'
<1> SUFFICES ASSUME SessionInv, Next PROVE LogInv'
  OBVIOUS
<1>1. LogInv
  BY DEF SessionInv
<1>2. CASE InitLog
  <2>1. allocated = 0
    BY <1>2 DEF InitLog, SessionInv, HeldInv, Early
  <2> QED
    BY <1>1, <1>2, <2>1, LogStepInv DEF InitLog, logVars
<1>3. CASE SendTransfer
  BY <1>1, <1>3, LogStepInv DEF SendTransfer
<1>4. CASE Release
  BY <1>1, <1>4, LogStepInv DEF Release
<1>5. CASE ~(InitLog \/ SendTransfer \/ Release)
  <2>1. UNCHANGED logVars
    BY <1>5 DEF Next, ParseArgs, OpenDriver, SelectDevice, ReadDevid, EraseDevice, ReadImage, LoadFile,
           WriteProgram, WriteConfig, WriteEeprom, WriteError, ReadBack, Compare, WriteDone,
           DestroyContext, held
  <2> QED
    BY <1>1, <2>1, LogStepInv
<1> QED
  BY <1>2, <1>3, <1>4, <1>5

LEMMA NextInputsOK == SessionInv /\ Next => InputsOK' /\ UNCHANGED inputs
<1> SUFFICES ASSUME SessionInv, Next PROVE InputsOK' /\ UNCHANGED inputs
  OBVIOUS
<1>1. UNCHANGED inputs
  BY DEF Next, ParseArgs, OpenDriver, SelectDevice, InitLog, SendTransfer, ReadDevid, EraseDevice,
         ReadImage, LoadFile, WriteProgram, WriteConfig, WriteEeprom, WriteError, ReadBack, Compare,
         WriteDone, Release, DestroyContext
<1>2. CASE ParseArgs
  BY <1>1, <1>2 DEF ParseArgs, SessionInv, InputsOK, inputs
<1>3. CASE ~ParseArgs
  <2>1. config' = config
    BY <1>3 DEF Next, OpenDriver, SelectDevice, InitLog, SendTransfer, ReadDevid, EraseDevice,
           ReadImage, LoadFile, WriteProgram, WriteConfig, WriteEeprom, WriteError, ReadBack, Compare,
           WriteDone, Release, DestroyContext
  <2> QED
    BY <1>1, <2>1 DEF SessionInv, InputsOK, inputs
<1> QED
  BY <1>1, <1>2, <1>3

LEMMA NextControlInv == SessionInv /\ Next => ControlInv'
<1> SUFFICES ASSUME SessionInv, Next PROVE ControlInv'
  OBVIOUS
<1> USE DEF Early, Operating, Writing
<1>1. ControlInv /\ InputsOK
  BY DEF SessionInv
<1>2. CASE ParseArgs
  BY <1>1, <1>2 DEF ParseArgs, ControlInv, InputsOK, Modes, outcomes
<1>3. CASE OpenDriver
  BY <1>1, <1>3 DEF OpenDriver, ControlInv, outcomes
<1>4. CASE SelectDevice
  BY <1>1, <1>4 DEF SelectDevice, ControlInv, outcomes
<1>5. CASE InitLog
  BY <1>1, <1>5 DEF InitLog, ControlInv, InputsOK, Modes
<1>6. CASE SendTransfer
  BY <1>1, <1>6 DEF SendTransfer, ControlInv, outcomes
<1>7. CASE ReadDevid \/ EraseDevice \/ ReadImage
  BY <1>1, <1>7 DEF ReadDevid, EraseDevice, ReadImage, Ends, ControlInv
<1>8. CASE LoadFile
  BY <1>1, <1>8 DEF LoadFile, Ends, ControlInv
<1>9. CASE WriteProgram \/ WriteConfig \/ WriteEeprom
  BY <1>1, <1>9 DEF WriteProgram, WriteConfig, WriteEeprom, ControlInv, outcomes
<1>10. CASE WriteError \/ WriteDone
  BY <1>1, <1>10 DEF WriteError, WriteDone, Ends, ControlInv
<1>11. CASE ReadBack
  BY <1>1, <1>11 DEF ReadBack, Shown, Ends, ControlInv
<1>12. CASE Compare
  BY <1>1, <1>12 DEF Compare, ControlInv
<1>13. CASE Release \/ DestroyContext
  BY <1>1, <1>13 DEF Release, DestroyContext, ControlInv
<1> QED
  BY <1>2, <1>3, <1>4, <1>5, <1>6, <1>7, <1>8, <1>9, <1>10, <1>11, <1>12, <1>13 DEF Next

LEMMA NextDeviceInv == SessionInv /\ Next => DeviceInv'
<1> SUFFICES ASSUME SessionInv, Next PROVE DeviceInv'
  OBVIOUS
<1> USE DEF Early, Operating, Writing
<1>1. DeviceInv /\ ControlInv /\ InputsOK
  BY DEF SessionInv
<1>2. TheDevice' = TheDevice
  BY NextInputsOK DEF inputs, TheDevice
<1>3. CASE SelectDevice
  <2>1. opResult' = "none" /\ pc' \in {"log", "exit"}
    BY <1>1, <1>3 DEF SelectDevice, ControlInv, outcomes
  <2>2. CASE device' = device /\ pc' = "exit"
    BY <1>1, <1>2, <2>1, <2>2 DEF DeviceInv, NoDevice
  <2>3. CASE ~(device' = device /\ pc' = "exit")
    <3>1. device' = TheDevice /\ (pc' = "log" => TheDevice.group # "none")
      BY <1>3, <2>3 DEF SelectDevice, TheDevice
    <3> QED
      BY <1>2, <2>1, <3>1 DEF DeviceInv
  <2> QED
    BY <2>2, <2>3
<1>4. CASE ~SelectDevice
  <2>1. device' = device
    BY <1>4 DEF Next, ParseArgs, OpenDriver, InitLog, SendTransfer, ReadDevid, EraseDevice,
           ReadImage, LoadFile, WriteProgram, WriteConfig, WriteEeprom, WriteError, ReadBack, Compare,
           WriteDone, Release, DestroyContext, held
  <2>2. CASE pc \in {"parse", "init"}
    <3>1. pc' \in {"init", "identify", "exit", "crashed"} /\ opResult' = "none"
      BY <1>1, <1>4, <2>2 DEF Next, ParseArgs, OpenDriver, InitLog, SendTransfer, ReadDevid, EraseDevice,
           ReadImage, LoadFile, WriteProgram, WriteConfig, WriteEeprom, WriteError, ReadBack, Compare,
           WriteDone, Release, DestroyContext, outcomes, ControlInv, Transferring
    <3>2. device = NoDevice
      BY <1>1, <2>2 DEF DeviceInv
    <3> QED
      BY <2>1, <3>1, <3>2 DEF DeviceInv, NoDevice, NoSizes
  <2>3. CASE pc = "identify"
    <3>1. SendTransfer
      BY <1>1, <1>4, <2>3 DEF Next, ParseArgs, OpenDriver, InitLog, ReadDevid, EraseDevice,
           ReadImage, LoadFile, WriteProgram, WriteConfig, WriteEeprom, WriteError, ReadBack, Compare,
           WriteDone, Release, DestroyContext
    <3>2. pc' = pc /\ opResult' = opResult
      BY <3>1 DEF SendTransfer, outcomes
    <3> QED
      BY <1>1, <1>2, <2>1, <2>3, <3>2 DEF DeviceInv, NoDevice
  <2>4. CASE pc \notin {"parse", "init", "identify"}
    <3>1. pc \notin {"exit", "crashed"}
      BY DEF Next, ParseArgs, OpenDriver, SelectDevice, InitLog, SendTransfer, ReadDevid, EraseDevice,
         ReadImage, LoadFile, WriteProgram, WriteConfig, WriteEeprom, WriteError, ReadBack, Compare,
         WriteDone, Release, DestroyContext, Transferring
    <3>2. device = TheDevice /\ device.group # "none"
      BY <1>1, <2>4, <3>1 DEF DeviceInv, ControlInv
    <3>3. pc' \notin {"parse", "init", "identify"}
      BY <1>1, <1>4, <2>4 DEF Next, ParseArgs, OpenDriver, InitLog, SendTransfer, ReadDevid, EraseDevice,
           ReadImage, LoadFile, WriteProgram, WriteConfig, WriteEeprom, WriteError, ReadBack, Compare,
           WriteDone, Release, DestroyContext, Ends, Shown, ControlInv, InputsOK, Modes
    <3> QED
      BY <1>2, <2>1, <3>2, <3>3 DEF DeviceInv
  <2> QED
    BY <2>2, <2>3, <2>4
<1> QED
  BY <1>3, <1>4

LEMMA NextHeldInv == SessionInv /\ Next => HeldInv'
<1> SUFFICES ASSUME SessionInv, Next PROVE HeldInv'
  OBVIOUS
<1> USE DEF Early, Operating, Writing
<1>1. HeldInv /\ ControlInv /\ InputsOK
  BY DEF SessionInv
<1>2. args' = args /\ chip' = chip
  BY NextInputsOK DEF inputs
<1>3. CASE ParseArgs
  BY <1>1, <1>2, <1>3 DEF ParseArgs, HeldInv, held, logVars
<1>4. CASE OpenDriver
  <2>1. driver' \in BOOLEAN /\ (driver' => pc' = "identify")
    <3> DEFINE opened == chip.fd >= 0
    <3>1. driver' = opened /\ pc' = IF opened THEN "identify" ELSE "exit"
      BY <1>4 DEF OpenDriver
    <3>2. opened \in BOOLEAN
      OBVIOUS
    <3> HIDE DEF opened
    <3>3. driver' \in BOOLEAN
      BY <3>1, <3>2, Zenon
    <3>4. driver' => pc' = "identify"
      BY <3>1, Zenon
    <3> QED
      BY <3>3, <3>4
  <2> QED
    BY <1>1, <1>2, <1>4, <2>1 DEF OpenDriver, HeldInv, logVars
<1>5. CASE SelectDevice
  <2>1. UNCHANGED <<driver, images, allocated>> /\ pc = "identify" /\ pc' \in {"log", "exit"}
    BY <1>5 DEF SelectDevice, logVars
  <2>2. pc' = "exit" => device'.group = "none"
    <3>1. device.group = "none"
      BY <2>1 DEF SessionInv, DeviceInv, NoDevice
    <3> QED
      BY <1>5, <3>1 DEF SelectDevice
  <2> QED
    BY <1>1, <1>2, <2>1, <2>2 DEF HeldInv
<1>6. CASE InitLog
  BY <1>1, <1>2, <1>6 DEF InitLog, LogInit, LogInitFails, HeldInv, ControlInv, InputsOK, Modes, logVars
<1>7. CASE SendTransfer
  BY <1>1, <1>2, <1>7 DEF SendTransfer, Transfer, HeldInv
<1>8. CASE ReadDevid \/ EraseDevice \/ ReadImage
  BY <1>1, <1>2, <1>8 DEF ReadDevid, EraseDevice, ReadImage, Ends, HeldInv, held, logVars
<1>9. CASE LoadFile
  BY <1>1, <1>2, <1>9 DEF LoadFile, Ends, HeldInv, logVars
<1>10. CASE WriteProgram \/ WriteConfig \/ WriteEeprom
  BY <1>1, <1>2, <1>10 DEF WriteProgram, WriteConfig, WriteEeprom, HeldInv, held, logVars
<1>11. CASE WriteError \/ WriteDone
  BY <1>1, <1>2, <1>11 DEF WriteError, WriteDone, LeftByWriteError, Ends, HeldInv, logVars
<1>12. CASE ReadBack
  BY <1>1, <1>2, <1>12 DEF ReadBack, Shown, Ends, HeldInv, logVars
<1>13. CASE Compare
  BY <1>1, <1>2, <1>13 DEF Compare, HeldInv, held, logVars
<1>14. CASE Release
  BY <1>1, <1>2, <1>14 DEF Release, LogDestroy, HeldInv, logVars
<1>15. CASE DestroyContext
  <2>1. driver' \in BOOLEAN /\ (driver' => chip.fd = 0)
    BY <1>15 DEF DestroyContext
  <2> QED
    BY <1>1, <1>2, <1>15, <2>1 DEF DestroyContext, HeldInv, logVars
<1> QED
  BY <1>3, <1>4, <1>5, <1>6, <1>7, <1>8, <1>9, <1>10, <1>11, <1>12, <1>13, <1>14, <1>15 DEF Next

\* What a call leaves of a region is one of the three things a region can be.
LEMMA LeftIsARegion ==
  ASSUME NEW region \in Regions, NEW bytes, NEW after \in SUBSET Regions
  PROVE  Left(region, bytes, after) \subseteq Regions
BY DEF Left

LEMMA NextMemoryTypeOK == SessionInv /\ Next => MemoryTypeOK'
<1> SUFFICES ASSUME SessionInv, Next PROVE MemoryTypeOK'
  OBVIOUS
<1>1. MemoryTypeOK
  BY DEF SessionInv
<1>2. {program, configuration, eeprom}' \subseteq Regions
  <2>1. CASE EraseDevice
    <3>1. Left(program, device.sizes.codeMemorySize, {program, "mixed"}) \subseteq Regions
      BY <1>1, LeftIsARegion DEF MemoryTypeOK, Regions
    <3> QED
      BY <1>1, <2>1, <3>1 DEF EraseDevice, MemoryTypeOK
  <2>2. CASE WriteProgram
    <3>1. /\ Left(program, device.sizes.codeMemorySize, {"image", "mixed"}) \subseteq Regions
          /\ Left(program, device.sizes.codeMemorySize, {program, "mixed", "image"}) \subseteq Regions
      BY <1>1, LeftIsARegion DEF MemoryTypeOK, Regions
    <3> QED
      BY <1>1, <2>2, <3>1 DEF WriteProgram, ProgramLeft, MemoryTypeOK
  <2>3. CASE WriteConfig
    <3>1. /\ Left(configuration, device.sizes.configBytes, {"image"}) \subseteq Regions
          /\ Left(configuration, device.sizes.configBytes, Regions) \subseteq Regions
      BY <1>1, LeftIsARegion DEF MemoryTypeOK, Regions
    <3> QED
      BY <1>1, <2>3, <3>1 DEF WriteConfig, MemoryTypeOK
  <2>4. CASE WriteEeprom
    <3>1. Left(eeprom, device.sizes.eepromBytes, Regions) \subseteq Regions
      BY <1>1, LeftIsARegion DEF MemoryTypeOK
    <3> QED
      BY <1>1, <2>4, <3>1 DEF WriteEeprom, MemoryTypeOK
  <2>5. CASE UNCHANGED memory
    BY <1>1, <2>5 DEF memory, MemoryTypeOK, Regions
  <2> QED
    BY <2>1, <2>2, <2>3, <2>4, <2>5 DEF Next, ParseArgs, OpenDriver, SelectDevice, InitLog, SendTransfer,
       ReadDevid, ReadImage, LoadFile, WriteError, ReadBack, Compare, WriteDone, Release, DestroyContext,
       chipVars
<1>3. verified' \in {"none", "success", "failed"} /\ ret' \in {0, 1} /\ opResult' \in {"none", "ok", "failed"}
  BY <1>1 DEF MemoryTypeOK, Next, ParseArgs, OpenDriver, SelectDevice, InitLog, SendTransfer, ReadDevid,
     EraseDevice, ReadImage, LoadFile, WriteProgram, WriteConfig, WriteEeprom, WriteError, ReadBack,
     Compare, WriteDone, Release, DestroyContext, Ends, outcomes
<1>4. busy' \in BOOLEAN
  <2>1. CASE WriteEeprom
    BY <2>1 DEF WriteEeprom, Left
  <2>2. CASE UNCHANGED busy
    BY <1>1, <2>2 DEF MemoryTypeOK
  <2> QED
    BY <2>1, <2>2 DEF Next, ParseArgs, OpenDriver, SelectDevice, InitLog, SendTransfer, ReadDevid,
       EraseDevice, ReadImage, LoadFile, WriteProgram, WriteConfig, WriteError, ReadBack, Compare,
       WriteDone, Release, DestroyContext, chipVars
<1> QED
  BY <1>2, <1>3, <1>4 DEF MemoryTypeOK

\* A division by zero needs an empty file, or a device without sizes, and a loop
\* that runs off its buffer a negative count.
LEMMA NextCrashesAreKnown == SessionInv /\ Next => CrashesAreKnown'
<1> SUFFICES ASSUME SessionInv, Next, pc' = "crashed"
             PROVE  \/ args.longExec \/ ~Known
                    \/ config'.opmode = "write" /\ (~file.program \/ file.negativeCount)
  BY NextInputsOK DEF CrashesAreKnown, Known, inputs
<1> USE DEF Early, Operating, Writing
<1>1. ControlInv /\ InputsOK /\ DeviceInv
  BY DEF SessionInv
<1>2. CASE ParseArgs
  BY <1>2 DEF ParseArgs
<1>3. CASE EraseDevice \/ ReadImage
  <2>1. device.sizes.codeMemorySize = 0 /\ pc \in {"erase", "read"}
    BY <1>3 DEF EraseDevice, ReadImage, ReadBytes, Ends
  <2>2. device = TheDevice /\ TheDevice.group # "none"
    BY <1>1, <2>1 DEF DeviceInv
  <2>3. device.sizes # PIC18F452
    BY <2>1 DEF PIC18F452
  <2> QED
    BY <1>1, <2>2, <2>3, KnownDevice
<1>4. CASE ReadBack
  <2>1. FileBytes = 0 /\ config' = config /\ config.opmode = "write"
    BY <1>1, <1>4 DEF ReadBack, Shown, Ends, ControlInv
  <2> QED
    BY <2>1 DEF FileBytes
<1>5. CASE LoadFile
  <2>1. file.negativeCount /\ config' = config /\ config.opmode = "write"
    BY <1>1, <1>5 DEF LoadFile, Ends, ControlInv
  <2> QED
    BY <2>1
<1> QED
  <2>1. pc # "crashed"
    BY DEF Next, ParseArgs, OpenDriver, SelectDevice, InitLog, SendTransfer, ReadDevid, EraseDevice,
       ReadImage, LoadFile, WriteProgram, WriteConfig, WriteEeprom, WriteError, ReadBack, Compare,
       WriteDone, Release, DestroyContext, Transferring
  <2> QED
    BY <1>1, <1>2, <1>3, <1>4, <1>5, <2>1 DEF Next, OpenDriver, SelectDevice, InitLog, SendTransfer,
       ReadDevid, WriteProgram, WriteConfig, WriteEeprom, WriteError, Compare,
       WriteDone, Release, DestroyContext, Ends, InputsOK, Modes

LEMMA NextSessionInv == SessionInv /\ [Next]_vars => SessionInv'
<1> SUFFICES ASSUME SessionInv, [Next]_vars PROVE SessionInv'
  OBVIOUS
<1>1. CASE Next
  BY <1>1, NextLogInv, NextInputsOK, NextControlInv, NextDeviceInv, NextHeldInv, NextMemoryTypeOK,
     NextCrashesAreKnown DEF SessionInv
<1>2. CASE UNCHANGED vars
  <2>1. /\ UNCHANGED <<args, file, chip, pc, config, driver, device, images, allocated>>
        /\ UNCHANGED <<program, configuration, eeprom, busy, verified, ret, opResult, logVars>>
    BY <1>2 DEF vars, inputs, held, chipVars, memory, outcomes, logVars
  <2>2. LogInv'
    BY <2>1, LogStepInv DEF SessionInv
  <2>3. InputsOK' /\ ControlInv' /\ DeviceInv' /\ HeldInv'
    BY <2>1 DEF SessionInv, InputsOK, ControlInv, DeviceInv, HeldInv, TheDevice
  <2>4. MemoryTypeOK' /\ CrashesAreKnown'
    BY <2>1 DEF SessionInv, MemoryTypeOK, CrashesAreKnown, Known
  <2> QED
    BY <2>2, <2>3, <2>4 DEF SessionInv
<1> QED
  BY <1>1, <1>2

-------------------------------------------------------------------------------

\* In every run of lpicp the sizes an operation works with are those of no device
\* or fit what the operations take for granted.
THEOREM SessionTypes == Spec => []TypeOK
<1>1. SessionInv => TypeOK
  <2> SUFFICES ASSUME SessionInv PROVE TypeOK
    OBVIOUS
  <2>1. config.opmode \in Modes /\ config.size \in Nat
    BY DEF SessionInv, InputsOK
  <2>2. device.group \in {"none", "18f2xx_4xx"} /\ device.sizes \in {NoSizes, PIC18F452}
    BY DEF SessionInv, DeviceInv, NoDevice, TheDevice, GroupOf, SizesOf
  <2>3. SizesFit(PIC18F452)
    BY DEF SizesFit, PIC18F452
  <2> QED
    BY <2>1, <2>2, <2>3 DEF SessionInv, HeldInv, MemoryTypeOK, TypeOK
<1> QED
  BY <1>1, InitSessionInv, NextSessionInv, PTL DEF Spec

\* Whatever fails, a run that exits has freed the log and both images, and closed
\* the driver, but for the two cases in which the code does not: no device is found,
\* and the driver's descriptor is 0 (lpp_icsp_destroy).
THEOREM RunsHoldNothing == Spec => []NothingHeld
<1>1. SessionInv => NothingHeld
  BY DEF SessionInv, HeldInv, DeviceInv, NothingHeld
<1> QED
  BY <1>1, InitSessionInv, NextSessionInv, PTL DEF Spec

\* The process dies for the known reasons only, a negative count in the file among
\* them, for every pair of bytes of a device id and wherever a call fails.
THEOREM OnlyKnownCrashes == Spec => []CrashesAreKnown
<1>1. SessionInv => CrashesAreKnown
  BY DEF SessionInv
<1> QED
  BY <1>1, InitSessionInv, NextSessionInv, PTL DEF Spec

\* The log never reaches behind its memory, for every size of it and every number
\* of transfers, in any order with its allocation.
THEOREM LogStaysInMemory == Spec => []LogHasRoom
<1>1. SessionInv => LogHasRoom
  BY DEF SessionInv, LogInv
<1> QED
  BY <1>1, InitSessionInv, NextSessionInv, PTL DEF Spec

\* The log that is printed is the beginning of the session, for every size of it
\* and every number of transfers.
THEOREM LogShowsTheBeginning == Spec => []LogIsPrefix
<1>1. SessionInv => LogIsPrefix
  BY DEF SessionInv, LogInv
<1> QED
  BY <1>1, InitSessionInv, NextSessionInv, PTL DEF Spec

\* No step of a run changes the memory of a device lpicp does not know, for every
\* pair of bytes of its id.
THEOREM UnknownDevicesAreSafe == Spec => UnknownUntouched
<1>1. SessionInv /\ [Next]_vars => [~Known => UNCHANGED memory]_vars
  <2> SUFFICES ASSUME SessionInv, Next, ~Known PROVE UNCHANGED memory
    OBVIOUS
  <2>1. CASE EraseDevice \/ WriteProgram \/ WriteConfig \/ WriteEeprom
    <3>1. pc \in {"erase", "program", "configuration", "eeprom"}
      BY <2>1 DEF EraseDevice, WriteProgram, WriteConfig, WriteEeprom
    <3>2. device = TheDevice /\ TheDevice.group # "none"
      BY <3>1 DEF SessionInv, DeviceInv, Operating, Writing
    <3>3. device.sizes = NoSizes
      BY <3>2, KnownDevice DEF SessionInv
    <3>4. /\ device.sizes.codeMemorySize = 0 /\ device.sizes.configBytes = 0
          /\ device.sizes.eepromBytes = 0
      BY <3>3 DEF NoSizes
    <3>5. CASE EraseDevice
      BY <3>4, <3>5 DEF EraseDevice, Left, memory
    <3>6. CASE WriteProgram
      BY <3>4, <3>6 DEF WriteProgram, ProgramLeft, Left, memory
    <3>7. CASE WriteConfig
      BY <3>4, <3>7 DEF WriteConfig, Left, memory
    <3>8. CASE WriteEeprom
      BY <3>4, <3>8 DEF WriteEeprom, Left, memory
    <3> QED
      BY <2>1, <3>5, <3>6, <3>7, <3>8
  <2> QED
    BY <2>1 DEF Next, ParseArgs, OpenDriver, SelectDevice, InitLog, SendTransfer, ReadDevid, ReadImage,
       LoadFile, WriteError, ReadBack, Compare, WriteDone, Release, DestroyContext, chipVars
<1> QED
  BY <1>1, InitSessionInv, NextSessionInv, PTL DEF Spec, UnknownUntouched
===============================================================================
