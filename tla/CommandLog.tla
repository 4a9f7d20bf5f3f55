------------------------------ MODULE CommandLog ------------------------------
(***************************************************************************)
(* The log of ICSP transfers (lpicp_log.c) and who writes to it            *)
(* (lpicp_icsp.c). The log has a fixed number of records; when it is full, *)
(* further transfers are dropped. Transfers are sent without a log, too:   *)
(* before lpp_log_init and when the run is not verbose.                    *)
(***************************************************************************)
EXTENDS Integers, Sequences, FiniteSets

CONSTANTS
  LogSize,  \* 4096, the records main asks for
  MaxSent   \* bound on the transfers followed

ASSUME LogAssumption == LogSize \in Nat \ {0} /\ MaxSent \in Nat

VARIABLES
  allocated,    \* the records log_records has room for, 0 if it is NULL
  recordCount,  \* log_record_count
  records,      \* the records up to log_current_idx
  sent          \* history: the transfers since the log was last emptied

logVars == <<allocated, recordCount, records, sent>>

Transfers == [kind : {"write_16", "read_8", "command_only", "data_only"}, ok : BOOLEAN]

\* A write is logged before it is sent and a read after it, whatever comes of
\* them; a command-only transfer once it has succeeded; data alone never.
Logged(t) == t.kind \in {"write_16", "read_8"} \/ (t.kind = "command_only" /\ t.ok)

\* command and data: a command-only transfer is logged as a NOP.
Record(t) == IF t.kind = "command_only" THEN "nop" ELSE t.kind

\* lpp_log_command. And slips: room for one record more; the newest are kept.
LogCommandInclusive(r) == IF Len(records) <= recordCount THEN Append(records, r) ELSE records
LogCommandNewest(r) ==
  IF Len(records) < recordCount THEN Append(records, r)
  ELSE IF recordCount = 0 THEN records ELSE Append(Tail(records), r)
LogCommand(r) == IF Len(records) < recordCount THEN Append(records, r) ELSE records

LogZeroed == allocated = 0 /\ recordCount = 0 /\ records = <<>> /\ sent = <<>>

\* A transfer of any kind.
Transfer ==
  /\ Len(sent) < MaxSent
  /\ \E t \in Transfers :
       /\ sent' = Append(sent, t)
       /\ records' = IF Logged(t) THEN LogCommand(Record(t)) ELSE records
  /\ UNCHANGED <<allocated, recordCount>>

\* lpp_log_init that gets its memory, and one that does not.
LogInit ==
  /\ allocated' = LogSize /\ recordCount' = LogSize
  /\ records' = <<>> /\ sent' = <<>>
LogInitFails ==
  /\ allocated' = 0 /\ records' = <<>> /\ sent' = <<>>
  /\ UNCHANGED recordCount

\* lpp_log_destroy.
LogDestroy ==
  /\ allocated' = 0 /\ recordCount' = 0 /\ records' = <<>> /\ sent' = <<>>

-------------------------------------------------------------------------------

\* Every record that has been written, and every one that still may be, lies in
\* the log's memory: transfers before the log exists, after its allocation has
\* failed and after it is full write nothing.
LogHasRoom == Len(records) <= allocated /\ recordCount <= allocated

\* The transfers that are in a printed log of any size, by their numbers, and the
\* line a transfer is in.
ShownIn(s) ==
  {i \in DOMAIN s : s[i].kind # "data_only" /\ (s[i].kind = "command_only" => s[i].ok)}
LineOf(s, i) == Cardinality({j \in ShownIn(s) : j <= i})

\* What the log shows when it is printed is how the session began: the first
\* LogSize of the reads, writes and successful commands, in order, none missing.
LogIsPrefix ==
  LET shown == Cardinality(ShownIn(sent))
  IN  allocated > 0 =>
        /\ Len(records) = IF shown < LogSize THEN shown ELSE LogSize
        /\ \A i \in ShownIn(sent) :
             LineOf(sent, i) <= LogSize => records[LineOf(sent, i)] = Record(sent[i])
===============================================================================
