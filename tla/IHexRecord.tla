------------------------------ MODULE IHexRecord ------------------------------
(***************************************************************************)
(* The Intel HEX parser lpicp is built with (pkg/src/ihex.c), on one line. *)
(* A line is what strtol makes of its characters:                          *)
(*   pairs    each pair of them behind the colon as a byte: the count, two *)
(*            of the address, the type, the data, the checksum;            *)
(*   count    the first pair once more, as an int: "-1" is one;            *)
(*   address  the four characters of the address, converted at once, so    *)
(*            that none counts behind one that is no hex digit;            *)
(*   stray    the pair in memory before the first one.                     *)
(* A line that does not begin with a colon has no pairs.                   *)
(***************************************************************************)
EXTENDS Integers, Sequences

Byte    == 0 .. 255    \* uint8_t
Address == 0 .. 65535  \* uint16_t

\* Addition of uint8_t: what the first n bytes add up to, for each n.
Running(bytes) ==
  LET sum[n \in 0 .. Len(bytes)] == IF n = 0 THEN 0 ELSE (sum[n - 1] + bytes[n]) % 256
  IN  sum
Sum8(bytes) == Running(bytes)[Len(bytes)]

\* The checksum of a record: the two's complement of the sum of its bytes. And a
\* slip: the type is left out.
ChecksumTypeless(r) ==
  (256 - Sum8(<<r.dataLen % 256, r.address % 256, r.address \div 256>> \o r.data)) % 256
Checksum_IHexRecord(r) ==
  (256 - Sum8(<<r.dataLen % 256, r.type, r.address % 256, r.address \div 256>> \o r.data)) % 256

\* The fields as the parser stores them; with a negative length, no data. A type
\* is an int, but as good as its byte: no negative one is 0, 1 or 4.
RecordIn(line) ==
  [dataLen |-> line.count, address |-> line.address, type |-> line.pairs[4],
   data |-> SubSeq(line.pairs, 5, 4 + line.count)]

\* The pair that is taken for the checksum: behind the data, or, if the count is
\* negative, so many pairs before the end of the header.
CheckIn(line) == IF line.count = -5 THEN line.stray ELSE line.pairs[5 + line.count]

\* IHEX_OK: both size checks and the checksum. Sizes are compared unsigned: one
\* below 0 is larger than any line. A line may go on behind its checksum.
Accepted(line) ==
  /\ Len(line.pairs) >= 4
  /\ 5 + line.count \in 0 .. Len(line.pairs)
  /\ CheckIn(line) = Checksum_IHexRecord(RecordIn(line))

\* The records the format has lines for.
WellFormed(r) ==
  /\ r = [dataLen |-> r.dataLen, address |-> r.address, type |-> r.type, data |-> r.data]
  /\ r.address \in Address /\ r.type \in Byte
  /\ r.data \in Seq(Byte) /\ r.dataLen = Len(r.data) /\ r.dataLen \in Byte

\* The pairs any program writes for a record: they add up to 0.
Fields(r) == <<r.dataLen, r.address \div 256, r.address % 256, r.type>> \o r.data
LineFor(r) ==
  Append(Fields(r), CHOOSE check \in Byte : Sum8(Append(Fields(r), check)) = 0)

\* Count and address are hex digits: the conversions find what the pairs say.
InDigits(line) ==
  /\ line.count = line.pairs[1]
  /\ line.address = 256 * line.pairs[2] + line.pairs[3]

\* Damage that a checksum shows: another byte in one place behind the count, and
\* an end that is missing.
ByteChanged(pairs, damaged) ==
  \E i \in 2 .. Len(pairs) : \E v \in Byte \ {pairs[i]} : damaged = [pairs EXCEPT ![i] = v]
CutShort(pairs, damaged) == \E n \in 0 .. Len(pairs) - 1 : damaged = SubSeq(pairs, 1, n)
===============================================================================
