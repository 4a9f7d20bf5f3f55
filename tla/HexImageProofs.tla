----------------------------- MODULE HexImageProofs -----------------------------
(***************************************************************************)
(* Loading a HEX file is correct for every file, every size of the three   *)
(* memories and every content of the uninitialized record buffer. What the *)
(* checksum shows is an induction over the bytes of a line. The library's  *)
(* induction theorems take a predicate, which these provers cannot         *)
(* instantiate; the least element of a set of numbers is induction enough. *)
(***************************************************************************)
EXTENDS HexImage, SequenceTheorems, WellFoundedInduction, TLAPS

-------------------------------------------------------------------------------
(* The checksum: what a sum over the bytes of a line shows, for lines of    *)
(* any length.                                                             *)

\* A set of naturals has a least element.
LEMMA LeastNumber ==
  ASSUME NEW S, S \subseteq Nat, S # {}
  PROVE  \E x \in S : \A y \in S : ~ (y < x)
<1>1. \E x \in S : \A y \in S : <<y, x>> \notin OpToRel(<, Nat)
  BY WFMin, NatLessThanWellFounded, Zenon
<1> QED
  BY <1>1, Zenon DEF OpToRel

\* A set with 0 in it and the successor of each of its numbers has them all.
LEMMA Induction ==
  ASSUME NEW T, 0 \in T, \A n \in Nat : n \in T => n + 1 \in T
  PROVE  Nat \subseteq T
<1> SUFFICES ASSUME Nat \ T # {} PROVE FALSE
  OBVIOUS
<1>1. PICK x \in Nat \ T : \A y \in Nat \ T : ~ (y < x)
  BY LeastNumber
<1>2. x - 1 \in Nat /\ x - 1 < x /\ (x - 1) + 1 = x
  BY <1>1
<1> QED
  BY <1>1, <1>2

LEMMA BytesAreNumbers == Byte \subseteq Nat /\ Address \subseteq Nat
BY SMT DEF Byte, Address

LEMMA ByteModulo ==
  ASSUME NEW b \in Byte
  PROVE  b % 256 = b
BY SMT DEF Byte

LEMMA SumOfBytes ==
  ASSUME NEW a \in Byte, NEW b \in Byte
  PROVE  (a + b) % 256 \in Byte
BY SMT DEF Byte

\* The recursive function of Running exists, for every length.
LEMMA RunningExists ==
  ASSUME NEW s
  PROVE  \A n \in Nat : \E f : f = [i \in 0 .. n |-> IF i = 0 THEN 0 ELSE (f[i - 1] + s[i]) % 256]
<1> DEFINE Sums(f, n) == f = [i \in 0 .. n |-> IF i = 0 THEN 0 ELSE (f[i - 1] + s[i]) % 256]
           T == {n \in Nat : \E f : Sums(f, n)}
<1>1. 0 \in T
  <2>1. Sums([i \in 0 .. 0 |-> 0], 0)
    OBVIOUS
  <2> QED
    BY <2>1
<1>2. ASSUME NEW n \in Nat, n \in T PROVE n + 1 \in T
  <2>1. PICK f : Sums(f, n)
    BY <1>2
  <2> DEFINE g == [i \in 0 .. n + 1 |-> IF i = 0 THEN 0 ELSE (f[i - 1] + s[i]) % 256]
  <2>2. ASSUME NEW i \in 0 .. n + 1, i # 0
        PROVE  g[i - 1] = f[i - 1]
    <3>1. i - 1 \in 0 .. n /\ i - 1 \in 0 .. n + 1
      BY <2>2
    <3> DEFINE j == i - 1
    <3> HIDE DEF j
    <3>2. f[j] = IF j = 0 THEN 0 ELSE (f[j - 1] + s[j]) % 256
      BY <2>1, <3>1 DEF j
    <3>3. g[j] = IF j = 0 THEN 0 ELSE (f[j - 1] + s[j]) % 256
      BY <3>1 DEF j
    <3> QED
      BY <3>2, <3>3 DEF j
  <2>3. Sums(g, n + 1)
    BY <2>2
  <2> HIDE DEF g, Sums
  <2> QED
    BY <2>3
<1> HIDE DEF T
<1>3. Nat \subseteq T
  BY <1>1, <1>2, Induction
<1> QED
  BY <1>3 DEF T

\* The running sum starts at 0 and adds one byte at a time.
LEMMA RunningSum ==
  ASSUME NEW s \in Seq(Byte)
  PROVE  /\ Running(s)[0] = 0
         /\ \A n \in 1 .. Len(s) : Running(s)[n] = (Running(s)[n - 1] + s[n]) % 256
<1> DEFINE Def(f) == [i \in 0 .. Len(s) |-> IF i = 0 THEN 0 ELSE (f[i - 1] + s[i]) % 256]
           R == CHOOSE f : f = Def(f)
<1>1. Running(s) = R
  BY DEF Running
<1>2. \E f : f = Def(f)
  BY RunningExists
<1>3. R = Def(R)
  BY <1>2, Zenon
<1> QED
  <2> HIDE DEF R
  <2>1. R = [i \in 0 .. Len(s) |-> IF i = 0 THEN 0 ELSE (R[i - 1] + s[i]) % 256]
    BY <1>3
  <2>2. R[0] = 0
    BY <2>1
  <2>3. ASSUME NEW n \in 1 .. Len(s)
        PROVE  R[n] = (R[n - 1] + s[n]) % 256
    <3>1. n \in 0 .. Len(s) /\ n # 0
      OBVIOUS
    <3>2. R[n] = IF n = 0 THEN 0 ELSE (R[n - 1] + s[n]) % 256
      BY <2>1, <3>1, Zenon
    <3> QED
      BY <3>1, <3>2, Zenon
  <2> QED
    BY <1>1, <2>2, <2>3

\* A running sum of bytes is a byte.
LEMMA RunningIsByte ==
  ASSUME NEW s \in Seq(Byte)
  PROVE  \A n \in 0 .. Len(s) : Running(s)[n] \in Byte
<1> DEFINE T == {n \in Nat : n <= Len(s) => Running(s)[n] \in Byte}
<1>1. 0 \in T
  <2>1. 0 \in Byte
    BY SMT DEF Byte
  <2> QED
    BY <2>1, RunningSum
<1>2. ASSUME NEW n \in Nat, n \in T PROVE n + 1 \in T
  <2> SUFFICES ASSUME n + 1 <= Len(s) PROVE Running(s)[n + 1] \in Byte
    OBVIOUS
  <2>1. n + 1 \in 1 .. Len(s) /\ (n + 1) - 1 = n /\ n <= Len(s)
    OBVIOUS
  <2>2. Running(s)[n + 1] = (Running(s)[(n + 1) - 1] + s[n + 1]) % 256
    BY <2>1, RunningSum
  <2>3. Running(s)[n] \in Byte /\ s[n + 1] \in Byte
    BY <1>2, <2>1, ElementOfSeq
  <2> QED
    BY <2>1, <2>2, <2>3, SumOfBytes
<1> HIDE DEF T
<1>3. Nat \subseteq T
  BY <1>1, <1>2, Induction
<1> QED
  BY <1>3 DEF T

\* Adding the same byte keeps sums the same, or different.
LEMMA SumsOfBytesDiffer ==
  ASSUME NEW a \in Byte, NEW b \in Byte, NEW c \in Byte
  PROVE  (a + c) % 256 = (b + c) % 256 <=> a = b
<1>1. \A x, y \in Byte : (x + y) % 256 = IF x + y < 256 THEN x + y ELSE x + y - 256
  BY SMT DEF Byte
<1> DEFINE sum == (a + c) % 256
           other == (b + c) % 256
<1>2. /\ sum = IF a + c < 256 THEN a + c ELSE a + c - 256
      /\ other = IF b + c < 256 THEN b + c ELSE b + c - 256
  BY <1>1
<1> HIDE DEF sum, other
<1>3. sum = other <=> a = b
  BY <1>2, SMT DEF Byte
<1> QED
  BY <1>3 DEF sum, other

\* The sum of four bytes does not depend on their order.
LEMMA SumInOrder ==
  ASSUME NEW a \in Byte, NEW b \in Byte, NEW c \in Byte, NEW d \in Byte
  PROVE  (((((a + b) % 256) + c) % 256) + d) % 256 = (((((a + d) % 256) + c) % 256) + b) % 256
<1>1. \A x \in Nat, y \in Nat : ((x % 256) + y) % 256 = (x + y) % 256
  BY SMT
<1>2. a \in Nat /\ b \in Nat /\ c \in Nat /\ d \in Nat
  BY BytesAreNumbers
<1>3. (((((a + b) % 256) + c) % 256) + d) % 256 = (a + b + c + d) % 256
  <2>1. (((a + b) % 256) + c) % 256 = (a + b + c) % 256
    BY <1>1, <1>2
  <2> QED
    BY <1>1, <1>2, <2>1
<1>4. (((((a + d) % 256) + c) % 256) + b) % 256 = (a + d + c + b) % 256
  <2>1. (((a + d) % 256) + c) % 256 = (a + d + c) % 256
    BY <1>1, <1>2
  <2> QED
    BY <1>1, <1>2, <2>1
<1>5. a + b + c + d = a + d + c + b
  BY <1>2
<1> QED
  BY <1>3, <1>4, <1>5

\* The two's complement of a sum is what makes it 0.
LEMMA ChecksumCancels ==
  ASSUME NEW sum \in Byte, NEW check \in Byte
  PROVE  check = (256 - sum) % 256 <=> (sum + check) % 256 = 0
<1>1. (256 - sum) % 256 = IF sum = 0 THEN 0 ELSE 256 - sum
  BY SMT DEF Byte
<1>2. (sum + check) % 256 = IF sum + check < 256 THEN sum + check ELSE sum + check - 256
  BY SMT DEF Byte
<1> QED
  BY <1>1, <1>2, SMT DEF Byte

\* The sum of the four bytes before the data, written out.
LEMMA RunningOfFour ==
  ASSUME NEW s \in Seq(Byte), Len(s) >= 4
  PROVE  Running(s)[4] = (((((s[1] + s[2]) % 256) + s[3]) % 256) + s[4]) % 256
<1>1. /\ Running(s)[0] = 0
      /\ Running(s)[1] = (Running(s)[0] + s[1]) % 256
      /\ Running(s)[2] = (Running(s)[1] + s[2]) % 256
      /\ Running(s)[3] = (Running(s)[2] + s[3]) % 256
      /\ Running(s)[4] = (Running(s)[3] + s[4]) % 256
  BY RunningSum
<1>2. Running(s)[1] = s[1]
  <2>1. s[1] \in Byte
    BY ElementOfSeq
  <2>2. \A b \in Byte : (0 + b) % 256 = b
    BY SMT DEF Byte
  <2> QED
    BY <1>1, <2>1, <2>2
<1> QED
  BY <1>1, <1>2

\* Two lines that have the same bytes from one place to another: their running
\* sums are the same at the end of it just if they were at its beginning.
LEMMA SameBytesSameSum ==
  ASSUME NEW s \in Seq(Byte), NEW t \in Seq(Byte), NEW k \in Nat, NEW m \in Nat, k <= m,
         m <= Len(s), m <= Len(t), \A i \in k + 1 .. m : s[i] = t[i]
  PROVE  Running(s)[m] = Running(t)[m] <=> Running(s)[k] = Running(t)[k]
<1> DEFINE Same(n) == Running(s)[n] = Running(t)[n]
           T == {d \in Nat : k + d <= m => (Same(k + d) <=> Same(k))}
<1>1. 0 \in T
  OBVIOUS
<1>2. ASSUME NEW d \in Nat, d \in T PROVE d + 1 \in T
  <2> DEFINE n == k + d
  <2> SUFFICES ASSUME n + 1 <= m PROVE Same(n + 1) <=> Same(k)
    OBVIOUS
  <2>1. /\ n + 1 \in 1 .. Len(s) /\ n + 1 \in 1 .. Len(t) /\ n + 1 \in k + 1 .. m
        /\ n \in 0 .. Len(s) /\ n \in 0 .. Len(t) /\ (n + 1) - 1 = n
    OBVIOUS
  <2>2. Same(n) <=> Same(k)
    BY <1>2
  <2> HIDE DEF n
  <2>3. Running(s)[n + 1] = (Running(s)[n] + s[n + 1]) % 256
    BY <2>1, RunningSum
  <2>4. Running(t)[n + 1] = (Running(t)[n] + s[n + 1]) % 256
    BY <2>1, RunningSum
  <2>5. Running(s)[n] \in Byte /\ Running(t)[n] \in Byte /\ s[n + 1] \in Byte
    BY <2>1, RunningIsByte, ElementOfSeq
  <2>6. Same(n + 1) <=> Same(n)
    BY <2>3, <2>4, <2>5, SumsOfBytesDiffer
  <2> QED
    BY <2>2, <2>6
<1> HIDE DEF T
<1>3. m - k \in T /\ k + (m - k) = m
  BY <1>1, <1>2, Induction
<1> QED
  BY <1>3 DEF T

\* A line whose last byte makes its sum 0 exists, whatever its other bytes are.
LEMMA ChecksumExists ==
  ASSUME NEW s \in Seq(Byte)
  PROVE  \E check \in Byte : Sum8(Append(s, check)) = 0
<1> DEFINE sum == Sum8(s)
           check == (256 - sum) % 256
           line == Append(s, check)
<1>1. sum \in Byte
  BY RunningIsByte DEF Sum8
<1> HIDE DEF sum
<1>2. check \in Byte /\ (sum + check) % 256 = 0
  BY <1>1, SMT DEF Byte
<1> HIDE DEF check
<1>3. /\ line \in Seq(Byte) /\ Len(line) = Len(s) + 1
      /\ \A i \in 1 .. Len(s) : line[i] = s[i]
      /\ line[Len(s) + 1] = check
  BY <1>2, AppendProperties
<1> HIDE DEF line
<1>4. Running(line)[Len(s)] = sum
  <2>1. Running(line)[0] = Running(s)[0]
    BY <1>3, RunningSum
  <2>2. Running(line)[Len(s)] = Running(s)[Len(s)] <=> Running(line)[0] = Running(s)[0]
    BY <1>3, SameBytesSameSum
  <2> QED
    BY <2>1, <2>2 DEF sum, Sum8
<1>5. Running(line)[Len(s) + 1] = (Running(line)[Len(s)] + line[Len(s) + 1]) % 256
  <2>1. Len(s) + 1 \in 1 .. Len(line) /\ (Len(s) + 1) - 1 = Len(s)
    BY <1>3
  <2> QED
    BY <1>3, <2>1, RunningSum
<1>6. Sum8(line) = 0
  BY <1>2, <1>3, <1>4, <1>5 DEF Sum8
<1> QED
  BY <1>2, <1>6 DEF line

-------------------------------------------------------------------------------
(* The parser.                                                             *)

LEMMA BytesAreAddresses ==
  ASSUME NEW high \in Byte, NEW low \in Byte
  PROVE  256 * high + low \in Address
<1> DEFINE a == 256 * high + low
<1>1. high \in Int /\ low \in Int /\ 0 <= high /\ high <= 255 /\ 0 <= low /\ low <= 255
  BY DEF Byte
<1> DEFINE top == 65535
<1>2. a \in Int /\ 0 <= a /\ a <= top /\ top \in Int
  BY <1>1
<1>3. Address = 0 .. top
  BY SMT DEF Address
<1> HIDE DEF a, top
<1>4. a \in 0 .. top
  BY <1>2
<1> QED
  BY <1>3, <1>4 DEF a

LEMMA AddressesAreBytes ==
  ASSUME NEW a \in Address
  PROVE  /\ a \div 256 \in Byte /\ a % 256 \in Byte
         /\ 256 * (a \div 256) + (a % 256) = a
BY SMT DEF Byte, Address

\* An address is its two bytes.
LEMMA BytesOfAddress ==
  ASSUME NEW high \in Byte, NEW low \in Byte
  PROVE  (256 * high + low) % 256 = low /\ (256 * high + low) \div 256 = high
BY SMT DEF Byte

\* The data of a line starts at its fifth byte.
LEMMA DataOfLine ==
  ASSUME NEW S, NEW line, NEW n \in Nat, \A i \in 5 .. 4 + n : line[i] \in S
  PROVE  /\ SubSeq(line, 5, 4 + n) \in Seq(S)
         /\ Len(SubSeq(line, 5, 4 + n)) = n
         /\ \A i \in 1 .. n : SubSeq(line, 5, 4 + n)[i] = line[4 + i]
<1> DEFINE first == 5
           last  == 4 + n
<1>1. first \in Int /\ last \in Int /\ first <= last + 1 /\ last - first + 1 = n
  OBVIOUS
<1>2. \A i \in first .. last : line[i] \in S
  OBVIOUS
<1> HIDE DEF first, last
<1>3. /\ SubSeq(line, first, last) \in Seq(S)
      /\ Len(SubSeq(line, first, last)) = IF first <= last THEN last - first + 1 ELSE 0
      /\ \A i \in 1 .. last - first + 1 : SubSeq(line, first, last)[i] = line[first + i - 1]
  BY <1>1, <1>2, SubSeqProperties
<1>4. Len(SubSeq(line, first, last)) = n
  <2>1. first <= last => n = last - first + 1
    BY <1>1
  <2>2. ~(first <= last) => n = 0
    BY <1>1
  <2> QED
    BY <1>3, <2>1, <2>2, Zenon
<1>5. \A i \in 1 .. n : SubSeq(line, first, last)[i] = line[4 + i]
  BY <1>1, <1>3 DEF first
<1> QED
  BY <1>3, <1>4, <1>5 DEF first, last

\* A negative count leaves no data.
LEMMA NoData ==
  ASSUME NEW S, NEW pairs \in Seq(S), NEW n \in Int, n < 0
  PROVE  SubSeq(pairs, 5, 4 + n) \in Seq(S) /\ Len(SubSeq(pairs, 5, 4 + n)) = 0
<1> DEFINE last == 4 + n
<1>1. last \in Int /\ last < 5
  OBVIOUS
<1> HIDE DEF last
<1>2. SubSeq(pairs, 5, last) = << >>
  BY <1>1
<1> QED
  BY <1>2 DEF last

\* A line that is accepted has all the data its count announces, and the fields
\* the parser stores have their types.
LEMMA AcceptedRecord ==
  ASSUME NEW line, line.pairs \in Seq(Byte), line.count \in Int, line.address \in Address, Accepted(line)
  PROVE  LET r == RecordIn(line)
         IN  /\ r.dataLen \in Int /\ r.address \in Address /\ r.type \in Byte /\ r.data \in Seq(Byte)
             /\ Len(r.data) = IF r.dataLen < 0 THEN 0 ELSE r.dataLen
<1> DEFINE pairs == line.pairs
           n     == line.count
           r     == RecordIn(line)
<1>1. pairs \in Seq(Byte) /\ Len(pairs) \in Nat /\ Len(pairs) >= 4 /\ n \in Int /\ 5 + n <= Len(pairs)
  BY DEF Accepted
<1>2. r.dataLen = n /\ r.address = line.address /\ r.type = pairs[4] /\ r.data = SubSeq(pairs, 5, 4 + n)
  BY DEF RecordIn
<1> HIDE DEF pairs, n, r
<1>3. r.type \in Byte
  <2>1. 4 \in 1 .. Len(pairs)
    BY <1>1
  <2> QED
    BY <1>1, <1>2, <2>1, ElementOfSeq
<1>4. SubSeq(pairs, 5, 4 + n) \in Seq(Byte) /\ Len(SubSeq(pairs, 5, 4 + n)) = IF n < 0 THEN 0 ELSE n
  <2>1. CASE n < 0
    <3>1. SubSeq(pairs, 5, 4 + n) \in Seq(Byte) /\ Len(SubSeq(pairs, 5, 4 + n)) = 0
      BY <1>1, <2>1, NoData
    <3> QED
      BY <2>1, <3>1, Zenon
  <2>2. CASE ~(n < 0)
    <3>1. n \in Nat /\ \A i \in 5 .. 4 + n : i \in 1 .. Len(pairs)
      BY <1>1, <2>2
    <3>2. \A i \in 5 .. 4 + n : pairs[i] \in Byte
      BY <1>1, <3>1, ElementOfSeq
    <3>3. SubSeq(pairs, 5, 4 + n) \in Seq(Byte) /\ Len(SubSeq(pairs, 5, 4 + n)) = n
      BY <3>1, <3>2, DataOfLine
    <3> QED
      BY <2>2, <3>3, Zenon
  <2> QED
    BY <2>1, <2>2
<1> QED
  BY <1>1, <1>2, <1>3, <1>4, Zenon DEF r

\* Four bytes and others behind them.
LEMMA HeadAndData ==
  ASSUME NEW head \in Seq(Byte), Len(head) = 4, NEW data \in Seq(Byte)
  PROVE  /\ head \o data \in Seq(Byte) /\ Len(head \o data) = 4 + Len(data)
         /\ \A i \in 1 .. 4 + Len(data) :
              (head \o data)[i] = IF i <= 4 THEN head[i] ELSE data[i - 4]
<1>1. /\ head \o data \in Seq(Byte) /\ Len(head \o data) = Len(head) + Len(data)
      /\ \A i \in 1 .. Len(head) + Len(data) :
           (head \o data)[i] = IF i <= Len(head) THEN head[i] ELSE data[i - Len(head)]
  BY ConcatProperties
<1> QED
  BY <1>1, Zenon

\* The pairs for a record: its bytes, which add up to 0.
LEMMA LineOfRecord ==
  ASSUME NEW r, WellFormed(r)
  PROVE  /\ LineFor(r) \in Seq(Byte) /\ Len(LineFor(r)) = 5 + Len(r.data)
         /\ LineFor(r)[1] = Len(r.data) /\ LineFor(r)[2] = r.address \div 256
         /\ LineFor(r)[3] = r.address % 256 /\ LineFor(r)[4] = r.type
         /\ \A i \in 1 .. Len(r.data) : LineFor(r)[4 + i] = r.data[i]
         /\ Sum8(LineFor(r)) = 0
<1> DEFINE line == LineFor(r)
           head == <<r.dataLen, r.address \div 256, r.address % 256, r.type>>
           n    == Len(r.data)
<1>1. r.data \in Seq(Byte) /\ n \in Byte /\ r.dataLen = n /\ r.address \in Address /\ r.type \in Byte
  BY DEF WellFormed
<1>2. r.address \div 256 \in Byte /\ r.address % 256 \in Byte
  BY <1>1, AddressesAreBytes
<1> HIDE DEF n
<1>3. n \in Nat /\ head \in Seq(Byte) /\ Len(head) = 4
  <2>1. n \in Nat
    BY <1>1, BytesAreNumbers
  <2>2. \A a, b, c, d \in Byte : <<a, b, c, d>> \in Seq(Byte) /\ Len(<<a, b, c, d>>) = 4
    OBVIOUS
  <2> QED
    BY <1>1, <1>2, <2>1, <2>2 DEF n
<1>4. /\ Fields(r) \in Seq(Byte) /\ Len(Fields(r)) = 4 + n
      /\ \A i \in 1 .. 4 : Fields(r)[i] = head[i]
      /\ \A i \in 1 .. n : Fields(r)[4 + i] = r.data[i]
  <2> HIDE DEF head
  <2>1. Fields(r) = head \o r.data
    BY DEF Fields, head
  <2>2. Len(r.data) = n
    BY DEF n
  <2> HIDE DEF n
  <2>3. /\ Fields(r) \in Seq(Byte) /\ Len(Fields(r)) = 4 + n
        /\ \A i \in 1 .. 4 + n : Fields(r)[i] = IF i <= 4 THEN head[i] ELSE r.data[i - 4]
    BY <1>1, <1>3, <2>1, <2>2, HeadAndData
  <2> QED
    BY <1>3, <2>3
<1>5. PICK check \in Byte : line = Append(Fields(r), check) /\ Sum8(line) = 0
  <2>1. \E check \in Byte : Sum8(Append(Fields(r), check)) = 0
    BY <1>4, ChecksumExists
  <2> QED
    BY <2>1, Zenon DEF LineFor
<1>6. /\ line \in Seq(Byte) /\ Len(line) = 5 + n
      /\ \A i \in 1 .. 4 + n : line[i] = Fields(r)[i]
  BY <1>3, <1>4, <1>5, AppendProperties
<1>7. line[1] = n /\ line[2] = r.address \div 256 /\ line[3] = r.address % 256 /\ line[4] = r.type
  BY <1>1, <1>3, <1>4, <1>6
<1>8. \A i \in 1 .. n : line[4 + i] = r.data[i]
  BY <1>3, <1>4, <1>6
<1> HIDE DEF line
<1> QED
  BY <1>5, <1>6, <1>7, <1>8 DEF n, line

\* What a writer of the format wrote, the parser reads: the record itself.
LEMMA WrittenIsRead ==
  ASSUME NEW r, WellFormed(r), NEW text, text.pairs = LineFor(r), InDigits(text)
  PROVE  RecordIn(text) = r
<1> DEFINE line == LineFor(r)
           n    == Len(r.data)
<1>1. r.data \in Seq(Byte) /\ n \in Nat /\ r.dataLen = n /\ r.address \in Address
  BY BytesAreNumbers DEF WellFormed
<1>2. /\ line \in Seq(Byte) /\ Len(line) = 5 + n
      /\ line[1] = n /\ line[2] = r.address \div 256 /\ line[3] = r.address % 256 /\ line[4] = r.type
      /\ \A i \in 1 .. n : line[4 + i] = r.data[i]
  BY LineOfRecord
<1>3. text.pairs = line /\ text.count = line[1] /\ text.address = 256 * line[2] + line[3]
  BY DEF InDigits
<1> HIDE DEF line
<1>4. SubSeq(line, 5, 4 + n) = r.data
  <2> HIDE DEF n
  <2>1. \A i \in 5 .. 4 + n : line[i] \in Byte
    BY <1>1, <1>2
  <2>2. /\ SubSeq(line, 5, 4 + n) \in Seq(Byte) /\ Len(SubSeq(line, 5, 4 + n)) = n
        /\ \A i \in 1 .. n : SubSeq(line, 5, 4 + n)[i] = line[4 + i]
    BY <2>1, <1>1, DataOfLine
  <2>3. Len(r.data) = n
    BY DEF n
  <2> QED
    BY <2>2, <2>3, <1>1, <1>2, SeqEqual
<1>5. 256 * (r.address \div 256) + (r.address % 256) = r.address
  BY <1>1, AddressesAreBytes
<1> HIDE DEF n
<1>6. RecordIn(text) = [dataLen |-> r.dataLen, address |-> r.address, type |-> r.type, data |-> r.data]
  BY <1>1, <1>2, <1>3, <1>4, <1>5 DEF RecordIn
<1> QED
  BY <1>6 DEF WellFormed

\* The checksum the parser computes, over the fields in its own order, is the
\* byte it is compared with just if the bytes of the line, in theirs, add up to 0.
LEMMA AcceptedAddsUpToZero ==
  ASSUME NEW line \in Seq(Byte), Len(line) >= 4, Len(line) >= 5 + line[1],
         NEW text, text.pairs = line, InDigits(text)
  PROVE  Accepted(text) <=> Running(line)[5 + line[1]] = 0
<1> DEFINE n     == line[1]
           r     == RecordIn(text)
           head  == <<n, line[4], line[3], line[2]>>
           bytes == head \o r.data
<1>1. n \in Byte /\ line[2] \in Byte /\ line[3] \in Byte /\ line[4] \in Byte
  BY ElementOfSeq
<1>2. n \in Nat /\ n = line[1]
  BY <1>1, BytesAreNumbers
<1>3. /\ r.data \in Seq(Byte) /\ Len(r.data) = n
      /\ \A i \in 1 .. n : r.data[i] = line[4 + i]
  <2> HIDE DEF n
  <2>1. \A i \in 5 .. 4 + n : line[i] \in Byte
    BY <1>2, ElementOfSeq
  <2>2. r.data = SubSeq(line, 5, 4 + n)
    BY <1>2 DEF RecordIn, InDigits
  <2>3. /\ SubSeq(line, 5, 4 + n) \in Seq(Byte) /\ Len(SubSeq(line, 5, 4 + n)) = n
        /\ \A i \in 1 .. n : SubSeq(line, 5, 4 + n)[i] = line[4 + i]
    BY <1>2, <2>1, DataOfLine
  <2> HIDE DEF r
  <2> QED
    BY <2>2, <2>3, Zenon
<1>4. r.dataLen % 256 = n /\ r.type = line[4] /\ r.address % 256 = line[3] /\ r.address \div 256 = line[2]
  <2>1. r.type = line[4] /\ r.address = 256 * line[2] + line[3] /\ r.dataLen = n
    BY DEF RecordIn, InDigits
  <2> QED
    BY <1>1, <2>1, ByteModulo, BytesOfAddress
<1>5. Accepted(text) <=> line[5 + n] = (256 - Sum8(bytes)) % 256
  <2>1. Checksum_IHexRecord(r) = (256 - Sum8(bytes)) % 256
    <3> HIDE DEF n, r
    <3>1. <<r.dataLen % 256, r.type, r.address % 256, r.address \div 256>> = head
      BY <1>4
    <3> HIDE DEF head
    <3> QED
      BY <3>1, Zenon DEF Checksum_IHexRecord
  <2>2. text.count = n /\ n # -5 /\ 5 + n \in 0 .. Len(line)
    <3>1. text.count = n
      BY DEF InDigits
    <3> HIDE DEF n
    <3> QED
      BY <1>2, <3>1
  <2>3. CheckIn(text) = line[5 + n]
    BY <2>2, Zenon DEF CheckIn
  <2>4. Accepted(text) <=> CheckIn(text) = Checksum_IHexRecord(r)
    BY <2>2, Zenon DEF Accepted
  <2> QED
    BY <2>1, <2>3, <2>4, Zenon
<1> HIDE DEF n, r
<1>6. head \in Seq(Byte) /\ Len(head) = 4
  <2>1. \A a, b, c, d \in Byte : <<a, b, c, d>> \in Seq(Byte) /\ Len(<<a, b, c, d>>) = 4
    OBVIOUS
  <2> QED
    BY <1>1, <2>1
<1>7. /\ bytes \in Seq(Byte) /\ Len(bytes) = 4 + n
      /\ bytes[1] = n /\ bytes[2] = line[4] /\ bytes[3] = line[3] /\ bytes[4] = line[2]
      /\ \A i \in 5 .. 4 + n : bytes[i] = line[i]
  <2>1. head[1] = n /\ head[2] = line[4] /\ head[3] = line[3] /\ head[4] = line[2]
    OBVIOUS
  <2> HIDE DEF head
  <2>2. /\ bytes \in Seq(Byte) /\ Len(bytes) = 4 + n
        /\ \A i \in 1 .. 4 + n : bytes[i] = IF i <= 4 THEN head[i] ELSE r.data[i - 4]
    <3> HIDE DEF bytes
    <3>1. bytes = head \o r.data /\ r.data \in Seq(Byte)
      BY <1>3 DEF bytes
    <3> QED
      BY <1>3, <1>6, <3>1, HeadAndData
  <2> HIDE DEF bytes
  <2>3. ASSUME NEW i \in 5 .. 4 + n PROVE bytes[i] = line[i]
    <3>1. i \in 1 .. 4 + n /\ ~(i <= 4) /\ i - 4 \in 1 .. n /\ 4 + (i - 4) = i
      BY <1>2
    <3> QED
      BY <3>1, <2>2, <1>3
  <2> QED
    BY <1>2, <2>1, <2>2, <2>3
<1> HIDE DEF head, bytes
<1>8. Running(bytes)[4] = Running(line)[4]
  <2>1. \A s \in Seq(Byte) : Len(s) >= 4 =>
          Running(s)[4] = (((((s[1] + s[2]) % 256) + s[3]) % 256) + s[4]) % 256
    BY RunningOfFour
  <2>2. \A a, b, c, d \in Byte : (((((a + b) % 256) + c) % 256) + d) % 256 = (((((a + d) % 256) + c) % 256) + b) % 256
    BY SumInOrder
  <2>3. Len(bytes) >= 4 /\ Len(line) >= 4
    BY <1>2, <1>7
  <2>4. Running(bytes)[4] = (((((n + line[4]) % 256) + line[3]) % 256) + line[2]) % 256
    BY <1>7, <2>1, <2>3
  <2>5. Running(line)[4] = (((((n + line[2]) % 256) + line[3]) % 256) + line[4]) % 256
    BY <1>2, <2>1, <2>3
  <2> QED
    BY <1>1, <2>2, <2>4, <2>5
<1>9. Sum8(bytes) = Running(line)[4 + n]
  <2> DEFINE m == 4 + n
  <2>1. m <= Len(line) /\ 4 <= m /\ m \in Nat /\ m = Len(bytes) /\ m <= Len(bytes)
    BY <1>2, <1>7
  <2>2. \A i \in 4 + 1 .. m : bytes[i] = line[i]
    BY <1>7
  <2> HIDE DEF m
  <2>3. Running(bytes)[m] = Running(line)[m] <=> Running(bytes)[4] = Running(line)[4]
    BY <1>7, <2>1, <2>2, SameBytesSameSum
  <2> QED
    BY <1>8, <2>1, <2>3 DEF Sum8, m
<1>10. Running(line)[5 + n] = (Running(line)[4 + n] + line[5 + n]) % 256
  <2>1. 5 + n \in 1 .. Len(line) /\ (5 + n) - 1 = 4 + n
    BY <1>2
  <2> QED
    BY <2>1, RunningSum
<1>11. Running(line)[4 + n] \in Byte /\ line[5 + n] \in Byte
  <2>1. 5 + n \in 1 .. Len(line) /\ 4 + n \in 0 .. Len(line)
    BY <1>2
  <2> QED
    BY <2>1, RunningIsByte, ElementOfSeq
<1>12. \A sum, check \in Byte : check = (256 - sum) % 256 <=> (sum + check) % 256 = 0
  BY ChecksumCancels
<1>13. line[5 + n] = (256 - Sum8(bytes)) % 256 <=> Running(line)[5 + n] = 0
  BY <1>9, <1>10, <1>11, <1>12
<1> QED
  BY <1>2, <1>5, <1>13

\* An undamaged line is accepted.
LEMMA WrittenIsAccepted ==
  ASSUME NEW r, WellFormed(r), NEW text, text.pairs = LineFor(r), InDigits(text)
  PROVE  Accepted(text)
<1> DEFINE line == LineFor(r)
           n    == Len(r.data)
<1>1. n \in Nat
  BY DEF WellFormed
<1>2. line \in Seq(Byte) /\ Len(line) = 5 + n /\ line[1] = n /\ Sum8(line) = 0
  BY LineOfRecord
<1>3. text.pairs = line
  OBVIOUS
<1> HIDE DEF line, n
<1>4. Running(line)[5 + line[1]] = 0 /\ Len(line) >= 4 /\ Len(line) >= 5 + line[1]
  BY <1>1, <1>2 DEF Sum8
<1> QED
  BY <1>2, <1>3, <1>4, AcceptedAddsUpToZero

\* A line with one byte changed, but not its count, is refused: its sum is not 0.
LEMMA ChangedIsRefused ==
  ASSUME NEW r, WellFormed(r), NEW text, NEW bytes \in Seq(Byte), text.pairs = bytes,
         ByteChanged(LineFor(r), bytes), Len(bytes) >= 4 => InDigits(text)
  PROVE  ~Accepted(text)
<1> DEFINE line == LineFor(r)
           n    == Len(r.data)
<1>1. n \in Nat
  BY DEF WellFormed
<1>2. line \in Seq(Byte) /\ Len(line) = 5 + n /\ line[1] = n /\ Sum8(line) = 0
  BY LineOfRecord
<1> HIDE DEF n
<1>3. PICK i \in 2 .. Len(line) : \E v \in Byte \ {line[i]} : bytes = [line EXCEPT ![i] = v]
  BY DEF ByteChanged
<1> HIDE DEF line
<1>4. PICK v \in Byte \ {line[i]} : bytes = [line EXCEPT ![i] = v]
  BY <1>3
<1>5. /\ Len(bytes) = 5 + n /\ bytes[1] = n /\ bytes[i] = v /\ line[i] # v
      /\ \A j \in 1 .. Len(line) : j # i => bytes[j] = line[j]
  BY <1>1, <1>2, <1>4
<1>6. i - 1 \in Nat /\ i \in Nat /\ i \in 1 .. 5 + n /\ (i - 1) + 1 = i /\ 5 + n \in Nat /\ i - 1 \in 0 .. 5 + n
  BY <1>1, <1>2
<1>7. Running(bytes)[i - 1] = Running(line)[i - 1]
  <2>1. Running(bytes)[0] = Running(line)[0]
    BY <1>2, RunningSum
  <2>2. \A j \in 0 + 1 .. i - 1 : bytes[j] = line[j]
    BY <1>1, <1>2, <1>5
  <2>3. 0 <= i - 1 /\ i - 1 <= Len(bytes) /\ i - 1 <= Len(line)
    BY <1>2, <1>5, <1>6
  <2> QED
    BY <1>2, <1>6, <2>1, <2>2, <2>3, SameBytesSameSum
<1>8. Running(bytes)[i] # Running(line)[i]
  <2>1. Running(bytes)[i] = (Running(line)[i - 1] + bytes[i]) % 256
    BY <1>5, <1>6, <1>7, RunningSum
  <2>2. Running(line)[i] = (Running(line)[i - 1] + line[i]) % 256
    BY <1>2, <1>6, RunningSum
  <2>3. Running(line)[i - 1] \in Byte /\ bytes[i] \in Byte /\ line[i] \in Byte
    BY <1>2, <1>5, <1>6, RunningIsByte, ElementOfSeq
  <2>4. \A a, b, c \in Byte : (c + a) % 256 = (c + b) % 256 => a = b
    BY SumsOfBytesDiffer, BytesAreNumbers
  <2> QED
    BY <1>5, <2>1, <2>2, <2>3, <2>4
<1>9. Running(bytes)[5 + n] # Running(line)[5 + n]
  <2> DEFINE m == 5 + n
  <2>1. \A j \in i + 1 .. m : bytes[j] = line[j]
    BY <1>1, <1>2, <1>5, <1>6
  <2>2. i <= m /\ m <= Len(bytes) /\ m <= Len(line) /\ m \in Nat
    BY <1>2, <1>5, <1>6
  <2> HIDE DEF m
  <2>3. Running(bytes)[m] = Running(line)[m] <=> Running(bytes)[i] = Running(line)[i]
    BY <1>2, <1>6, <2>1, <2>2, SameBytesSameSum
  <2> QED
    BY <1>8, <2>3 DEF m
<1>10. Running(bytes)[5 + bytes[1]] # 0
  BY <1>2, <1>5, <1>9 DEF Sum8
<1>11. Len(bytes) >= 4 /\ Len(bytes) >= 5 + bytes[1]
  BY <1>1, <1>5
<1> QED
  BY <1>10, <1>11, AcceptedAddsUpToZero

\* A line that is cut short is refused: it has less bytes than its count announces,
\* or no count.
LEMMA CutIsRefused ==
  ASSUME NEW r, WellFormed(r), NEW text, CutShort(LineFor(r), text.pairs),
         Len(text.pairs) >= 4 => InDigits(text)
  PROVE  ~Accepted(text)
<1> DEFINE line  == LineFor(r)
           n     == Len(r.data)
           bytes == text.pairs
<1>1. n \in Nat
  BY DEF WellFormed
<1>2. line \in Seq(Byte) /\ Len(line) = 5 + n /\ line[1] = n
  BY LineOfRecord
<1>3. PICK m \in 0 .. Len(line) - 1 : bytes = SubSeq(line, 1, m)
  BY DEF CutShort
<1> HIDE DEF line, n
<1>4. Len(bytes) = m /\ (m >= 1 => bytes[1] = n)
  <2>1. m \in Nat /\ m <= Len(line)
    BY <1>1, <1>2
  <2> QED
    BY <1>2, <1>3, <2>1
<1>5. SUFFICES ASSUME Accepted(text) PROVE FALSE
  OBVIOUS
<1>6. Len(bytes) >= 4 /\ 5 + text.count \in 0 .. Len(bytes)
  BY <1>5 DEF Accepted
<1>7. text.count = bytes[1]
  BY <1>6 DEF InDigits
<1> HIDE DEF bytes
<1> QED
  BY <1>1, <1>2, <1>4, <1>6, <1>7

\* What the loader makes of each line: undamaged, it is the record that was meant.
LEMMA ParsedLine ==
  ASSUME NEW l \in Parses
  PROVE  LET r == l.record
         IN  /\ r.address \in Nat /\ r.dataLen \in Int /\ r.dataLen <= BufferSize
             /\ r.data \in Seq(Byte) /\ Len(r.data) = IF r.dataLen < 0 THEN 0 ELSE r.dataLen
             /\ l.damage = "none" => l.meant = r /\ r.dataLen \in Nat
<1>1. PICK m \in Lines : /\ Accepted(m.text)
                         /\ l = [meant |-> m.meant, record |-> RecordIn(m.text), damage |-> m.damage]
  BY DEF Parses, RefusedLines
<1>2. l.meant = m.meant /\ l.record = RecordIn(m.text) /\ l.damage = m.damage
  BY <1>1
<1>3. m.text.pairs \in Seq(Byte) /\ m.text.count \in Int /\ m.text.address \in Address
  BY LinesAssumption
<1> DEFINE r == RecordIn(m.text)
<1>4. /\ r.dataLen \in Int /\ r.address \in Address /\ r.data \in Seq(Byte)
      /\ Len(r.data) = IF r.dataLen < 0 THEN 0 ELSE r.dataLen
  BY <1>1, <1>3, AcceptedRecord
<1>5. r.address \in Nat
  BY <1>4, BytesAreNumbers
<1>6. r.dataLen <= BufferSize
  BY <1>1, LinesAssumption DEF RecordIn
<1>7. m.damage = "none" => r = m.meant /\ r.dataLen \in Nat
  <2> SUFFICES ASSUME m.damage = "none" PROVE r = m.meant /\ r.dataLen \in Nat
    OBVIOUS
  <2>1. WellFormed(m.meant) /\ InDigits(m.text) /\ m.text.pairs = LineFor(m.meant)
    BY <1>1, LinesAssumption DEF Accepted
  <2>2. r = m.meant
    BY <2>1, WrittenIsRead
  <2>3. m.meant.dataLen \in Nat
    BY <2>1, BytesAreNumbers DEF WellFormed
  <2> QED
    BY <2>2, <2>3
<1> HIDE DEF r
<1> QED
  BY <1>2, <1>4, <1>5, <1>6, <1>7 DEF r

-------------------------------------------------------------------------------
(* The inductive invariant.                                                *)

\* The record buffer and the memories hold bytes.
BufferInv == buffer \in [Space(BufferSize) -> Byte]

MemoryInv ==
  /\ contents \in [Space(MaxContents) -> Byte]
  /\ contentsSize \in 0 .. MaxContents
  /\ DOMAIN config = Space(ConfigSize) /\ DOMAIN eeprom = Space(EepromSize)
  /\ configValid \subseteq Space(ConfigSize)

ControlInv ==
  /\ addressExt \in Address
  /\ result \in {"reading", "ok", "error", "crashed"}
  /\ lines \in 0 .. MaxLines

\* The bytes of each word of the file, the other way round.
WordsSwapped ==
  \A w \in Space(MaxContents \div 2) :
    contents[2 * w] = fileProgram[2 * w + 1] /\ contents[2 * w + 1] = fileProgram[2 * w]

ProgramInv ==
  Intact =>
    /\ fileProgram \in [Space(MaxContents) -> Byte]
    /\ givenProgram \subseteq Space(contentsSize)
    /\ evenAddresses = TRUE /\ evenLengths = TRUE => WordsSwapped

ConfigInv == Intact => config = fileConfig /\ configValid = givenConfig

EepromInv == Intact => eeprom = fileEeprom

LoadInv ==
  BufferInv /\ MemoryInv /\ ControlInv /\ ProgramInv /\ ConfigInv /\ EepromInv

LEMMA InitLoadInv == Init => LoadInv
<1> SUFFICES ASSUME Init PROVE LoadInv
  OBVIOUS
<1> USE ImageAssumption
<1>1. Blank \in Byte /\ MaxContents \in Nat /\ MaxLines \in Nat /\ ConfigSize \in Nat /\ EepromSize \in Nat
  OBVIOUS
<1>2. BufferInv
  BY DEF Init, BufferInv
<1>3. MemoryInv
  BY <1>1 DEF Init, MemoryInv
<1>4. ControlInv
  <2>1. 0 \in Address
    BY SMT DEF Address
  <2> QED
    BY <1>1, <2>1 DEF Init, ControlInv
<1>5. ProgramInv
  <2>1. fileProgram \in [Space(MaxContents) -> Byte] /\ \A a \in Space(MaxContents) : fileProgram[a] = Blank /\ contents[a] = Blank
    BY <1>1 DEF Init
  <2>2. \A w \in Space(MaxContents \div 2) : 2 * w \in Space(MaxContents) /\ 2 * w + 1 \in Space(MaxContents)
    BY <1>1 DEF Space
  <2>3. WordsSwapped
    BY <2>1, <2>2 DEF WordsSwapped
  <2>4. givenProgram \subseteq Space(contentsSize)
    BY DEF Init
  <2> QED
    BY <2>1, <2>3, <2>4 DEF ProgramInv
<1>6. ConfigInv /\ EepromInv
  BY DEF Init, ConfigInv, EepromInv
<1> QED
  BY <1>2, <1>3, <1>4, <1>5, <1>6 DEF LoadInv

-------------------------------------------------------------------------------
(* What the loader's copies do to bytes.                                   *)

\* A record as the parser leaves it, if its length is not negative.
Sane(r) ==
  /\ r.address \in Nat /\ r.data \in Seq(Byte)
  /\ Len(r.data) \in 0 .. BufferSize /\ r.dataLen = Len(r.data)

LEMMA ParsedBytes ==
  ASSUME BufferInv, NEW data \in Seq(Byte), Len(data) <= BufferSize
  PROVE  /\ Parsed(data) \in [Space(BufferSize) -> Byte]
         /\ \A i \in Space(Len(data)) : Parsed(data)[i] = data[i + 1]
<1>1. BufferSize \in Nat /\ Len(data) \in Nat
  BY ImageAssumption
<1>2. ASSUME NEW i \in Space(BufferSize)
      PROVE  (IF i < Len(data) THEN data[i + 1] ELSE buffer[i]) \in Byte
  <2>1. CASE i < Len(data)
    <3>1. i + 1 \in 1 .. Len(data)
      BY <1>1, <2>1 DEF Space
    <3> QED
      BY <2>1, <3>1, ElementOfSeq
  <2>2. CASE ~(i < Len(data))
    BY <2>2 DEF BufferInv
  <2> QED
    BY <2>1, <2>2
<1>3. \A i \in Space(Len(data)) : i \in Space(BufferSize) /\ i < Len(data)
  BY <1>1 DEF Space
<1> QED
  BY <1>2, <1>3 DEF Parsed

LEMMA SwappedBytes ==
  ASSUME NEW buf \in [Space(BufferSize) -> Byte], NEW len \in 0 .. BufferSize
  PROVE  /\ Swapped(buf, len) \in [Space(BufferSize) -> Byte]
         /\ len % 2 = 0 => \A i \in Space(len) : i % 2 = 0 =>
              Swapped(buf, len)[i] = buf[i + 1] /\ Swapped(buf, len)[i + 1] = buf[i]
<1>1. BufferSize \in Nat /\ BufferSize % 2 = 0
  BY ImageAssumption
<1>2. ASSUME NEW i \in Space(BufferSize)
      PROVE  /\ i \in Int
             /\ i % 2 = 0 => i + 1 \in Space(BufferSize)
             /\ i % 2 # 0 => i - 1 \in Space(BufferSize)
  BY <1>1 DEF Space
<1>3. \A i \in Space(BufferSize) :
        (IF i >= len + (len % 2) THEN buf[i]
         ELSE IF i % 2 = 0 THEN buf[i + 1] ELSE buf[i - 1]) \in Byte
  BY <1>2
<1>4. ASSUME len % 2 = 0, NEW i \in Space(len), i % 2 = 0
      PROVE  Swapped(buf, len)[i] = buf[i + 1] /\ Swapped(buf, len)[i + 1] = buf[i]
  <2>1. /\ i \in Space(BufferSize) /\ i + 1 \in Space(BufferSize)
        /\ ~(i >= len + (len % 2)) /\ ~(i + 1 >= len + (len % 2))
        /\ (i + 1) % 2 # 0 /\ (i + 1) - 1 = i
    BY <1>1, <1>4 DEF Space
  <2> QED
    BY <2>1, <1>4 DEF Swapped
<1> QED
  BY <1>3, <1>4 DEF Swapped

LEMMA CopiedBytes ==
  ASSUME NEW n \in Nat, NEW to \in [Space(n) -> Byte], NEW buf \in [Space(BufferSize) -> Byte],
         NEW r, Sane(r)
  PROVE  Copied(to, buf, r) \in [Space(n) -> Byte]
<1>1. ASSUME NEW a \in Space(n), r.address <= a, a < End(r)
      PROVE  buf[a - r.address] \in Byte
  <2>1. a \in Nat /\ a < r.address + r.dataLen
    BY <1>1 DEF Space, End
  <2>2. a - r.address \in Nat /\ a - r.address < BufferSize
    BY <1>1, <2>1, ImageAssumption DEF Sane
  <2>3. a - r.address \in Space(BufferSize)
    BY <2>2, ImageAssumption DEF Space
  <2> QED
    BY <2>3
<1> QED
  BY <1>1 DEF Copied

LEMMA CopiedIsStated ==
  ASSUME NEW to, NEW buf, NEW r, NEW n \in Nat, DOMAIN to = Space(n), Sane(r),
         \A i \in Space(Len(r.data)) : buf[i] = r.data[i + 1]
  PROVE  Copied(to, buf, r) = Stated(to, r)
<1>1. ASSUME NEW a \in DOMAIN to, r.address <= a, a < End(r)
      PROVE  buf[a - r.address] = r.data[a - r.address + 1]
  <2>1. a - r.address \in Space(Len(r.data))
    BY <1>1 DEF Space, End, Sane
  <2> QED
    BY <2>1
<1> QED
  BY <1>1 DEF Copied, Stated

LEMMA StatedBytes ==
  ASSUME NEW n \in Nat, NEW to \in [Space(n) -> Byte], NEW r, Sane(r)
  PROVE  Stated(to, r) \in [Space(n) -> Byte]
<1>1. ASSUME NEW a \in Space(n), r.address <= a, a < End(r)
      PROVE  r.data[a - r.address + 1] \in Byte
  <2>1. a - r.address + 1 \in 1 .. Len(r.data)
    BY <1>1 DEF Space, End, Sane
  <2> QED
    BY <2>1, ElementOfSeq DEF Sane
<1> QED
  BY <1>1 DEF Stated

LEMMA EvenNumbers ==
  ASSUME NEW a \in Nat, NEW b \in Nat, a % 2 = 0, b % 2 = 0
  PROVE  (a + b) % 2 = 0 /\ (a < b => a + 1 < b)
OBVIOUS

LEMMA EvenFlag ==
  ASSUME NEW flag, NEW old, NEW even, flag = (old /\ even), flag = TRUE
  PROVE  old = TRUE /\ even
OBVIOUS

\* A record of whole words, its bytes swapped in the buffer, leaves each word
\* of the image swapped.
LEMMA SwapReachesWords ==
  ASSUME NEW r, Sane(r), r.address % 2 = 0, Len(r.data) % 2 = 0,
         BufferInv, NEW buf, buf = Swapped(Parsed(r.data), Len(r.data)),
         contents \in [Space(MaxContents) -> Byte], fileProgram \in [Space(MaxContents) -> Byte],
         WordsSwapped, NEW w \in Space(MaxContents \div 2)
  PROVE  LET c == Copied(contents, buf, r)
             f == Stated(fileProgram, r)
         IN  c[2 * w] = f[2 * w + 1] /\ c[2 * w + 1] = f[2 * w]
<1> DEFINE c == Copied(contents, buf, r)
           f == Stated(fileProgram, r)
           i == 2 * w - r.address
           len == Len(r.data)
           even == 2 * w
<1>1. MaxContents \in Nat /\ w \in Nat /\ even \in Space(MaxContents) /\ even + 1 \in Space(MaxContents)
  BY ImageAssumption DEF Space
<1>2. r.address \in Nat /\ len \in 0 .. BufferSize /\ len \in Nat /\ even \in Nat /\ even % 2 = 0
  BY <1>1, ImageAssumption DEF Sane
<1>3. (r.address <= even <=> r.address <= even + 1) /\ (even < End(r) <=> even + 1 < End(r))
  <2>1. End(r) = r.address + len
    BY DEF End, Sane
  <2> HIDE DEF even, len
  <2>2. End(r) % 2 = 0 /\ End(r) \in Nat
    <3>1. r.address % 2 = 0 /\ len % 2 = 0
      BY DEF len
    <3> QED
      BY <1>2, <2>1, <3>1, EvenNumbers
  <2> QED
    BY <1>2, <2>2
<1>4. CASE r.address <= even /\ even < End(r)
  <2>1. i \in Space(len) /\ i % 2 = 0 /\ i + 1 \in Space(len) /\ i \in Nat
    <3>1. i = even - r.address /\ i \in Nat /\ i % 2 = 0
      BY <1>2, <1>4
    <3>2. i < len
      <4>1. even < r.address + len
        BY <1>4 DEF End, Sane
      <4> HIDE DEF i, even, len
      <4> QED
        BY <1>2, <3>1, <4>1
    <3> HIDE DEF i, len
    <3>3. i + 1 < len
      <4>1. len % 2 = 0
        BY DEF len
      <4> QED
        BY <1>2, <3>1, <3>2, <4>1, EvenNumbers
    <3> QED
      BY <1>2, <3>1, <3>2, <3>3 DEF Space
  <2>2. /\ c[even] = buf[i] /\ c[even + 1] = buf[i + 1]
        /\ f[even] = r.data[i + 1] /\ f[even + 1] = r.data[i + 2]
    <3>1. (even + 1) - r.address = i + 1 /\ ((even + 1) - r.address) + 1 = i + 2 /\ even - r.address + 1 = i + 1
      BY <1>2
    <3> HIDE DEF i, even
    <3>2. even - r.address = i
      BY DEF i, even
    <3>3. \A a \in Space(MaxContents) : r.address <= a /\ a < End(r) =>
            c[a] = buf[a - r.address] /\ f[a] = r.data[a - r.address + 1]
      <4>1. DOMAIN contents = Space(MaxContents) /\ DOMAIN fileProgram = Space(MaxContents)
        OBVIOUS
      <4> QED
        BY <4>1 DEF Copied, Stated
    <3> HIDE DEF c, f
    <3>4. c[even] = buf[even - r.address] /\ f[even] = r.data[even - r.address + 1]
      BY <1>1, <1>4, <3>3
    <3>5. c[even + 1] = buf[(even + 1) - r.address] /\ f[even + 1] = r.data[((even + 1) - r.address) + 1]
      <4> DEFINE odd == even + 1
      <4>1. odd \in Space(MaxContents) /\ r.address <= odd /\ odd < End(r)
        BY <1>1, <1>3, <1>4
      <4> HIDE DEF odd
      <4>2. c[odd] = buf[odd - r.address] /\ f[odd] = r.data[odd - r.address + 1]
        BY <4>1, <3>3
      <4> QED
        BY <4>2 DEF odd
    <3> QED
      BY <3>1, <3>2, <3>4, <3>5
  <2> HIDE DEF i, c, f, even
  <2>3. Parsed(r.data) \in [Space(BufferSize) -> Byte] /\ \A k \in Space(len) : Parsed(r.data)[k] = r.data[k + 1]
    BY ParsedBytes, <1>2 DEF Sane
  <2>4. buf[i] = Parsed(r.data)[i + 1] /\ buf[i + 1] = Parsed(r.data)[i]
    BY <2>1, <2>3, <1>2, SwappedBytes
  <2>5. Parsed(r.data)[i] = r.data[i + 1] /\ Parsed(r.data)[i + 1] = r.data[(i + 1) + 1]
    BY <2>1, <2>3
  <2>6. (i + 1) + 1 = i + 2
    BY <2>1
  <2> QED
    BY <2>2, <2>4, <2>5, <2>6 DEF even, c, f
<1>5. CASE ~(r.address <= even /\ even < End(r))
  <2>1. /\ c[even] = contents[even] /\ c[even + 1] = contents[even + 1]
        /\ f[even] = fileProgram[even] /\ f[even + 1] = fileProgram[even + 1]
    BY <1>1, <1>3, <1>5 DEF Copied, Stated
  <2> QED
    BY <2>1 DEF WordsSwapped
<1> QED
  BY <1>4, <1>5

-------------------------------------------------------------------------------
(* The steps.                                                              *)

\* A record whose length is not negative is a sane one; an undamaged line is such a
\* record, and the one that was meant.
LEMMA LineIsSane ==
  ASSUME NEW l \in Parses
  PROVE  LET r == l.record
         IN  /\ ~Overruns(r) => Sane(r)
             /\ l.damage = "none" => l.meant = r /\ ~Overruns(r)
<1> DEFINE r == l.record
<1>1. /\ r.address \in Nat /\ r.dataLen \in Int /\ r.dataLen <= BufferSize
      /\ r.data \in Seq(Byte) /\ Len(r.data) = IF r.dataLen < 0 THEN 0 ELSE r.dataLen
      /\ l.damage = "none" => l.meant = r /\ r.dataLen \in Nat
  BY ParsedLine
<1> HIDE DEF r
<1>2. ~Overruns(r) => Sane(r)
  <2> SUFFICES ASSUME ~(r.dataLen < 0) PROVE Sane(r)
    BY DEF Overruns
  <2>1. Len(r.data) = r.dataLen
    BY <1>1, Zenon
  <2> QED
    BY <1>1, <2>1, ImageAssumption DEF Sane
<1>3. r.dataLen \in Nat => ~Overruns(r)
  BY DEF Overruns
<1> QED
  BY <1>1, <1>2, <1>3, Zenon DEF r

LEMMA IntactBefore ==
  ASSUME NEW l, ReadRecord(l), Intact'
  PROVE  Intact /\ l.damage = "none"
BY DEF ReadRecord, Intact

LEMMA LinesCounted == ControlInv /\ ReadLine => lines' \in 0 .. MaxLines
BY ImageAssumption DEF ControlInv, ReadLine

\* The buffer that every parsed line leaves.
LEMMA BufferAfterLine ==
  ASSUME BufferInv, NEW l \in Parses
  PROVE  /\ Parsed(l.record.data) \in [Space(BufferSize) -> Byte]
         /\ \A i \in Space(Len(l.record.data)) : Parsed(l.record.data)[i] = l.record.data[i + 1]
<1> DEFINE r == l.record
<1>1. /\ r.dataLen \in Int /\ r.dataLen <= BufferSize
      /\ r.data \in Seq(Byte) /\ Len(r.data) = IF r.dataLen < 0 THEN 0 ELSE r.dataLen
  BY ParsedLine
<1>2. Len(r.data) <= BufferSize
  BY <1>1, ImageAssumption
<1> HIDE DEF r
<1>3. /\ Parsed(r.data) \in [Space(BufferSize) -> Byte]
      /\ \A i \in Space(Len(r.data)) : Parsed(r.data)[i] = r.data[i + 1]
  BY <1>1, <1>2, ParsedBytes
<1> QED
  BY <1>3 DEF r

\* The image and what the file says are as they were.
LEMMA SameImage ==
  ASSUME MemoryInv, ProgramInv, ConfigInv, EepromInv, UNCHANGED <<image, given>>, Intact' => Intact
  PROVE  MemoryInv' /\ ProgramInv' /\ ConfigInv' /\ EepromInv'
BY DEF MemoryInv, ProgramInv, ConfigInv, EepromInv, WordsSwapped, image, given

LEMMA SpaceGrows ==
  ASSUME NEW m \in Nat, NEW n \in Nat, m <= n
  PROVE  Space(m) \subseteq Space(n)
BY DEF Space

LEMMA ProgramRecordInv ==
  ASSUME LoadInv, NEW l \in DataLines, ProgramRecord(l, l.record)
  PROVE  LoadInv'
<1> DEFINE r == l.record
           buf == Swapped(Parsed(r.data), Len(r.data))
<1> USE DEF LoadInv
<1>1. l \in Parses /\ ReadRecord(l) /\ lines' \in 0 .. MaxLines
  BY LinesCounted DEF DataLines, ProgramRecord, ReadRecord
<1>2. Sane(r) /\ (l.damage = "none" => l.meant = r)
  BY <1>1, LineIsSane DEF ProgramRecord
<1>3. Intact' => Intact /\ l.damage = "none"
  BY <1>1, IntactBefore
<1>4. Parsed(r.data) \in [Space(BufferSize) -> Byte]
  BY <1>1, BufferAfterLine
<1>5. /\ buffer' = buf /\ contents' = Copied(contents, buf, r)
      /\ contentsSize' = Watermark(contentsSize, r)
      /\ fileProgram' = Stated(fileProgram, l.meant)
      /\ givenProgram' = givenProgram \cup Addresses(l.meant)
      /\ evenAddresses' = (evenAddresses /\ r.address % 2 = 0)
      /\ evenLengths' = (evenLengths /\ Len(r.data) % 2 = 0)
      /\ UNCHANGED <<config, configValid, eeprom, addressExt, result, fileConfig, fileEeprom, givenConfig>>
  <2>1. r.dataLen = Len(r.data)
    BY <1>2 DEF Sane
  <2> QED
    BY <2>1 DEF ProgramRecord
<1>6. r.address \in Nat /\ Len(r.data) \in 0 .. BufferSize /\ End(r) \in Nat /\ End(r) <= MaxContents
  <2>1. End(r) \in 0 .. MaxContents
    BY DEF ProgramRecord, Fits
  <2> HIDE DEF r
  <2> QED
    BY <1>2, <2>1, ImageAssumption DEF Sane, End
<1> HIDE DEF r
<1>7. buf \in [Space(BufferSize) -> Byte]
  BY <1>4, <1>6, SwappedBytes
<1>8. contents' \in [Space(MaxContents) -> Byte]
  <2>1. MaxContents \in Nat /\ contents \in [Space(MaxContents) -> Byte]
    BY ImageAssumption DEF MemoryInv
  <2> HIDE DEF buf
  <2> QED
    BY <2>1, <1>2, <1>5, <1>7, CopiedBytes
<1>9. MemoryInv'
  <2>1. contentsSize' \in 0 .. MaxContents
    BY <1>5, <1>6, ImageAssumption DEF MemoryInv, Watermark
  <2> QED
    BY <1>5, <1>8, <2>1 DEF MemoryInv
<1>10. ProgramInv'
  <2> SUFFICES ASSUME Intact'
               PROVE  /\ (fileProgram \in [Space(MaxContents) -> Byte])'
                      /\ (givenProgram \subseteq Space(contentsSize))'
                      /\ (evenAddresses = TRUE /\ evenLengths = TRUE => WordsSwapped)'
    BY DEF ProgramInv
  <2>1. l.meant = r /\ fileProgram' = Stated(fileProgram, r) /\ givenProgram' = givenProgram \cup Addresses(r)
    BY <1>2, <1>3, <1>5
  <2>2. /\ fileProgram \in [Space(MaxContents) -> Byte] /\ MaxContents \in Nat
        /\ givenProgram \subseteq Space(contentsSize)
        /\ evenAddresses = TRUE /\ evenLengths = TRUE => WordsSwapped
    BY <1>3, ImageAssumption DEF ProgramInv
  <2>3. fileProgram' \in [Space(MaxContents) -> Byte]
    BY <1>2, <2>1, <2>2, StatedBytes
  <2>4. givenProgram' \subseteq Space(contentsSize')
    <3>1. contentsSize \in Nat /\ contentsSize <= contentsSize' /\ End(r) <= contentsSize' /\ contentsSize' \in Nat
      BY <1>5, <1>6, ImageAssumption DEF MemoryInv, Watermark
    <3>2. Addresses(r) \subseteq Space(contentsSize')
      BY <1>2, <1>6, <3>1 DEF Addresses, Space, End, Sane
    <3>3. Space(contentsSize) \subseteq Space(contentsSize')
      BY <3>1, SpaceGrows
    <3> QED
      BY <2>1, <2>2, <3>2, <3>3
  <2>5. ASSUME evenAddresses' = TRUE, evenLengths' = TRUE
        PROVE  WordsSwapped'
    <3>1. WordsSwapped /\ r.address % 2 = 0 /\ Len(r.data) % 2 = 0
      <4>1. evenAddresses = TRUE /\ r.address % 2 = 0
        BY <2>5, <1>5, EvenFlag
      <4>2. evenLengths = TRUE /\ Len(r.data) % 2 = 0
        BY <2>5, <1>5, EvenFlag
      <4> QED
        BY <2>2, <4>1, <4>2
    <3>2. contents \in [Space(MaxContents) -> Byte]
      BY DEF MemoryInv
    <3>3. ASSUME NEW w \in Space(MaxContents \div 2)
          PROVE  contents'[2 * w] = fileProgram'[2 * w + 1] /\ contents'[2 * w + 1] = fileProgram'[2 * w]
      <4> DEFINE c == Copied(contents, buf, r)
                 f == Stated(fileProgram, r)
      <4>1. c[2 * w] = f[2 * w + 1] /\ c[2 * w + 1] = f[2 * w]
        BY <3>1, <3>2, <2>2, <1>2, SwapReachesWords
      <4>2. contents' = c /\ fileProgram' = f
        BY <1>5, <2>1
      <4> HIDE DEF c, f
      <4> QED
        BY <4>1, <4>2
    <3> QED
      BY <3>3 DEF WordsSwapped
  <2> QED
    BY <2>3, <2>4, <2>5
<1>11. ConfigInv' /\ EepromInv'
  BY <1>3, <1>5 DEF ConfigInv, EepromInv
<1>12. BufferInv' /\ ControlInv'
  BY <1>1, <1>5, <1>7 DEF BufferInv, ControlInv
<1> QED
  BY <1>9, <1>10, <1>11, <1>12

\* A data record of the configuration or the EEPROM lands as the file says.
LEMMA OtherRecordsLand ==
  ASSUME BufferInv, NEW l \in Parses, ~Overruns(l.record), NEW to, NEW n \in Nat, DOMAIN to = Space(n)
  PROVE  /\ Copied(to, Parsed(l.record.data), l.record) = Stated(to, l.record)
         /\ DOMAIN Copied(to, Parsed(l.record.data), l.record) = Space(n)
<1>1. Copied(to, Parsed(l.record.data), l.record) = Stated(to, l.record)
  <2>1. Sane(l.record)
    BY LineIsSane
  <2>2. \A i \in Space(Len(l.record.data)) : Parsed(l.record.data)[i] = l.record.data[i + 1]
    BY BufferAfterLine
  <2> QED
    BY <2>1, <2>2, CopiedIsStated
<1>2. DOMAIN Copied(to, Parsed(l.record.data), l.record) = Space(n)
  BY DEF Copied
<1> QED
  BY <1>1, <1>2

LEMMA ConfigRecordInv ==
  ASSUME LoadInv, NEW l \in DataLines, ConfigRecord(l, l.record)
  PROVE  LoadInv'
<1> DEFINE r == l.record
<1> USE DEF LoadInv
<1>1. /\ l \in Parses /\ ReadRecord(l) /\ lines' \in 0 .. MaxLines
      /\ buffer' = Parsed(r.data) /\ ~Overruns(r)
  BY LinesCounted DEF DataLines, ConfigRecord, ReadRecord
<1>2. Sane(r) /\ (l.damage = "none" => l.meant = r)
  BY <1>1, LineIsSane
<1>3. Intact' => Intact /\ l.damage = "none"
  BY <1>1, IntactBefore
<1>4. BufferInv'
  BY <1>1, BufferAfterLine DEF BufferInv
<1>5. /\ config' = Copied(config, buffer', r)
      /\ configValid' = configValid \cup MadeValid(r)
      /\ fileConfig' = Stated(fileConfig, l.meant)
      /\ givenConfig' = givenConfig \cup Addresses(l.meant)
      /\ UNCHANGED <<contents, contentsSize, eeprom, addressExt, result,
                     fileProgram, fileEeprom, givenProgram, evenAddresses, evenLengths>>
  BY DEF ConfigRecord
<1>6. ConfigSize \in Nat /\ r.address \in Nat /\ End(r) \in Nat /\ End(r) <= ConfigSize
  <2>1. End(r) \in 0 .. ConfigSize
    BY DEF ConfigRecord, Fits
  <2> HIDE DEF r
  <2> QED
    BY <1>2, <2>1, ImageAssumption DEF Sane, End
<1>7. config' = Stated(config, r) /\ DOMAIN config' = Space(ConfigSize)
  BY <1>1, <1>5, <1>6, OtherRecordsLand DEF MemoryInv
<1> HIDE DEF r
<1>8. MadeValid(r) \subseteq Space(ConfigSize)
  BY <1>6 DEF MadeValid, Space
<1>9. MemoryInv'
  BY <1>5, <1>7, <1>8 DEF MemoryInv
<1>10. ProgramInv' /\ EepromInv'
  BY <1>3, <1>5 DEF ProgramInv, EepromInv, WordsSwapped
<1>11. ConfigInv'
  <2> SUFFICES ASSUME Intact'
               PROVE  config' = fileConfig' /\ configValid' = givenConfig'
    BY DEF ConfigInv
  <2>1. l.meant = r /\ config = fileConfig /\ configValid = givenConfig
    BY <1>2, <1>3 DEF ConfigInv
  <2>2. MadeValid(r) = Addresses(r)
    BY <1>2 DEF MadeValid, Addresses, End, Sane
  <2> QED
    BY <1>5, <1>7, <2>1, <2>2
<1>12. ControlInv'
  BY <1>1, <1>5 DEF ControlInv
<1> QED
  BY <1>4, <1>9, <1>10, <1>11, <1>12

LEMMA EepromRecordInv ==
  ASSUME LoadInv, NEW l \in DataLines, EepromRecord(l, l.record)
  PROVE  LoadInv'
<1> DEFINE r == l.record
<1> USE DEF LoadInv
<1>1. /\ l \in Parses /\ ReadRecord(l) /\ lines' \in 0 .. MaxLines
      /\ buffer' = Parsed(r.data) /\ ~Overruns(r)
  BY LinesCounted DEF DataLines, EepromRecord, ReadRecord
<1>2. l.damage = "none" => l.meant = r
  BY <1>1, LineIsSane
<1>3. Intact' => Intact /\ l.damage = "none"
  BY <1>1, IntactBefore
<1>4. BufferInv'
  BY <1>1, BufferAfterLine DEF BufferInv
<1>5. /\ eeprom' = Copied(eeprom, buffer', r)
      /\ fileEeprom' = Stated(fileEeprom, l.meant)
      /\ UNCHANGED <<contents, contentsSize, config, configValid, addressExt, result,
                     fileProgram, fileConfig, givenProgram, givenConfig, evenAddresses, evenLengths>>
  BY DEF EepromRecord
<1>6. eeprom' = Stated(eeprom, r) /\ DOMAIN eeprom' = Space(EepromSize)
  BY <1>1, <1>5, OtherRecordsLand, ImageAssumption DEF MemoryInv
<1> HIDE DEF r
<1>7. MemoryInv'
  BY <1>5, <1>6 DEF MemoryInv
<1>8. ProgramInv' /\ ConfigInv'
  BY <1>3, <1>5 DEF ProgramInv, ConfigInv, WordsSwapped
<1>9. EepromInv'
  BY <1>2, <1>3, <1>5, <1>6 DEF EepromInv
<1>10. ControlInv'
  BY <1>1, <1>5 DEF ControlInv
<1> QED
  BY <1>4, <1>7, <1>8, <1>9, <1>10

\* A record that does not fit, or whose length is negative, leaves the image alone.
LEMMA RefusedRecordInv ==
  ASSUME LoadInv, NEW l \in DataLines, RejectedRecord(l, l.record) \/ OverrunRecord(l, l.record)
  PROVE  LoadInv'
<1> USE DEF LoadInv
<1>1. /\ l \in Parses /\ ReadRecord(l) /\ lines' \in 0 .. MaxLines
      /\ buffer' = Parsed(l.record.data) /\ result' \in {"error", "crashed"}
      /\ UNCHANGED <<image, addressExt, given>>
  BY LinesCounted DEF DataLines, RejectedRecord, OverrunRecord, ReadRecord, Ends
<1>2. Intact' => Intact
  BY <1>1, IntactBefore
<1>3. MemoryInv' /\ ProgramInv' /\ ConfigInv' /\ EepromInv'
  BY <1>1, <1>2, SameImage
<1>4. BufferInv'
  BY <1>1, BufferAfterLine DEF BufferInv
<1> QED
  BY <1>1, <1>3, <1>4 DEF ControlInv

\* An extended address is two bytes of the buffer, stale ones or not.
LEMMA ExtRecordInv ==
  ASSUME LoadInv, NEW l \in ExtLines, ExtRecord(l, l.record)
  PROVE  LoadInv'
<1> USE DEF LoadInv
<1>1. /\ l \in Parses /\ ReadRecord(l) /\ lines' \in 0 .. MaxLines
      /\ buffer' = Parsed(l.record.data) /\ addressExt' = buffer'[0] + 256 * buffer'[1]
      /\ UNCHANGED <<image, result, given>>
  BY LinesCounted DEF ExtLines, ExtRecord, ReadRecord
<1>2. buffer' \in [Space(BufferSize) -> Byte]
  BY <1>1, BufferAfterLine
<1>3. addressExt' \in Address
  <2>1. 0 \in Space(BufferSize) /\ 1 \in Space(BufferSize)
    BY ImageAssumption DEF Space
  <2>2. buffer'[0] \in Byte /\ buffer'[1] \in Byte
    BY <1>2, <2>1
  <2>3. 256 * buffer'[1] + buffer'[0] \in Address
    BY <2>2, BytesAreAddresses
  <2>4. buffer'[0] \in Nat /\ buffer'[1] \in Nat
    BY <2>2, BytesAreNumbers
  <2>5. buffer'[0] + 256 * buffer'[1] = 256 * buffer'[1] + buffer'[0]
    BY <2>4
  <2> QED
    BY <1>1, <2>3, <2>5
<1>4. Intact' => Intact
  BY <1>1, IntactBefore
<1>5. MemoryInv' /\ ProgramInv' /\ ConfigInv' /\ EepromInv'
  BY <1>1, <1>4, SameImage
<1> QED
  BY <1>1, <1>2, <1>3, <1>5 DEF BufferInv, ControlInv

\* A record of no space, or of no type the loader knows, is dropped.
LEMMA DroppedRecordInv ==
  ASSUME LoadInv, NEW l \in Parses, OtherRecord(l, l.record) \/ SkippedRecord(l, l.record)
  PROVE  LoadInv'
<1> USE DEF LoadInv
<1>1. /\ ReadRecord(l) /\ lines' \in 0 .. MaxLines
      /\ buffer' = Parsed(l.record.data)
      /\ UNCHANGED <<image, addressExt, result, given>>
  BY LinesCounted DEF OtherRecord, SkippedRecord, ReadRecord
<1>2. Intact' => Intact
  BY <1>1, IntactBefore
<1>3. MemoryInv' /\ ProgramInv' /\ ConfigInv' /\ EepromInv'
  BY <1>1, <1>2, SameImage
<1>4. BufferInv'
  BY <1>1, BufferAfterLine DEF BufferInv
<1> QED
  BY <1>1, <1>3, <1>4 DEF ControlInv

\* The end of a file, however it comes.
LEMMA EndInv ==
  ASSUME LoadInv, (\E l \in EndLines : EndRecord(l)) \/ EndOfFile \/ (\E l \in RefusedLines : BadLine(l))
  PROVE  LoadInv'
<1> USE DEF LoadInv
<1>1. UNCHANGED <<image, buffer, addressExt, given>> /\ result' \in {"ok", "error"}
  BY DEF EndRecord, EndOfFile, BadLine, Ends
<1>2. lines' \in 0 .. MaxLines
  BY LinesCounted DEF EndRecord, EndOfFile, BadLine, ReadRecord, ControlInv
<1>3. Intact' => Intact
  BY DEF EndRecord, EndOfFile, BadLine, ReadRecord, Intact
<1>4. MemoryInv' /\ ProgramInv' /\ ConfigInv' /\ EepromInv'
  BY <1>1, <1>3, SameImage
<1> QED
  BY <1>1, <1>2, <1>4 DEF BufferInv, ControlInv

LEMMA NextLoadInv == LoadInv /\ [Next]_vars => LoadInv'
<1> SUFFICES ASSUME LoadInv, [Next]_vars PROVE LoadInv'
  OBVIOUS
<1>1. ASSUME NEW l \in DataLines, ProgramRecord(l, l.record) PROVE LoadInv'
  BY <1>1, ProgramRecordInv
<1>2. ASSUME NEW l \in DataLines, ConfigRecord(l, l.record) PROVE LoadInv'
  BY <1>2, ConfigRecordInv
<1>3. ASSUME NEW l \in DataLines, EepromRecord(l, l.record) PROVE LoadInv'
  BY <1>3, EepromRecordInv
<1>4. ASSUME NEW l \in DataLines, OtherRecord(l, l.record) PROVE LoadInv'
  BY <1>4, DroppedRecordInv DEF DataLines
<1>5. ASSUME NEW l \in ExtLines, ExtRecord(l, l.record) PROVE LoadInv'
  BY <1>5, ExtRecordInv
<1>6. ASSUME NEW l \in SkippedLines, SkippedRecord(l, l.record) PROVE LoadInv'
  BY <1>6, DroppedRecordInv DEF SkippedLines
<1>7. CASE (\E l \in EndLines : EndRecord(l)) \/ EndOfFile \/ (\E l \in RefusedLines : BadLine(l))
  BY <1>7, EndInv
<1>8. ASSUME NEW l \in DataLines, RejectedRecord(l, l.record) \/ OverrunRecord(l, l.record) PROVE LoadInv'
  BY <1>8, RefusedRecordInv
<1>9. CASE UNCHANGED vars
  <2>1. UNCHANGED <<image, buffer, addressExt, result, lines, given, damages>>
    BY <1>9 DEF vars
  <2>2. MemoryInv' /\ ProgramInv' /\ ConfigInv' /\ EepromInv'
    BY <2>1, SameImage DEF LoadInv, Intact
  <2> QED
    BY <2>1, <2>2 DEF LoadInv, BufferInv, ControlInv
<1> QED
  BY <1>1, <1>2, <1>3, <1>4, <1>5, <1>6, <1>7, <1>8, <1>9 DEF Next

-------------------------------------------------------------------------------
(* The promises.                                                           *)

\* Every variable of the loader keeps its type: contents_size never exceeds the
\* device's memory and every byte stays in the array it belongs to, whatever the
\* file says (lpp_image_read_handle_data_record).
THEOREM LoadTypes == Spec => []TypeOK
<1>1. LoadInv => TypeOK
  BY DEF LoadInv, BufferInv, MemoryInv, ControlInv, TypeOK
<1> QED
  BY <1>1, InitLoadInv, NextLoadInv, PTL DEF Spec

\* The words of an undamaged file of whole words reach the image as the device
\* has them, whatever the order, the overlap and the spaces of its records.
THEOREM WordsAreLoaded == Spec => []WordsAreTheFiles
<1>1. LoadInv => WordsAreTheFiles
  <2> SUFFICES ASSUME LoadInv, Intact, evenAddresses, evenLengths
               PROVE  Loaded
    BY DEF WordsAreTheFiles
  <2>1. evenAddresses = TRUE /\ evenLengths = TRUE
    BY Zenon
  <2>2. WordsSwapped /\ fileProgram \in [Space(MaxContents) -> Byte]
    BY <2>1 DEF LoadInv, ProgramInv
  <2>3. ASSUME NEW w \in Space(MaxContents \div 2)
        PROVE  WordOnHost(w) = fileProgram[2 * w] + 256 * fileProgram[2 * w + 1]
    <3>1. 2 * w \in Space(MaxContents) /\ 2 * w + 1 \in Space(MaxContents)
      BY ImageAssumption DEF Space
    <3>2. fileProgram[2 * w] \in Nat /\ fileProgram[2 * w + 1] \in Nat
      BY <2>2, <3>1, BytesAreNumbers
    <3>3. contents[2 * w] = fileProgram[2 * w + 1] /\ contents[2 * w + 1] = fileProgram[2 * w]
      BY <2>2 DEF WordsSwapped
    <3> QED
      BY <3>2, <3>3 DEF WordOnHost
  <2> QED
    BY <2>3 DEF Loaded
<1> QED
  BY <1>1, InitLoadInv, NextLoadInv, PTL DEF Spec

\* The configuration and the EEPROM of an undamaged file are the image's, and the
\* bytes marked valid (config_valid) are those the file gave, and no other.
THEOREM BytesAreLoaded == Spec => []BytesAreTheFiles
<1>1. LoadInv => BytesAreTheFiles
  BY DEF LoadInv, ConfigInv, EepromInv, BytesAreTheFiles
<1> QED
  BY <1>1, InitLoadInv, NextLoadInv, PTL DEF Spec

\* contents_size covers every program byte an undamaged file gave, and never
\* exceeds the memory of the device (lpp_image_read_handle_data_record).
THEOREM SizeIsEnough == Spec => []SizeCoversProgram
<1>1. LoadInv => SizeCoversProgram
  BY ImageAssumption DEF LoadInv, ProgramInv, MemoryInv, SizeCoversProgram
<1> QED
  BY <1>1, InitLoadInv, NextLoadInv, PTL DEF Spec

\* The lines that are accepted are undamaged, or damaged in a way of which a
\* checksum promises nothing; none that is refused is undamaged.
LEMMA DamageOfLines ==
  /\ \A l \in Parses : l.damage \in {"none", "other"}
  /\ \A l \in RefusedLines : l.damage # "none"
<1>1. ASSUME NEW l \in Lines
      PROVE  /\ l.damage \in {"none", "byte", "cut", "other"}
             /\ l.damage = "none" => Accepted(l.text)
             /\ l.damage \in {"byte", "cut"} => ~Accepted(l.text)
  <2>1. l.damage = "none" => Accepted(l.text)
    <3> SUFFICES ASSUME l.damage = "none" PROVE Accepted(l.text)
      OBVIOUS
    <3>1. WellFormed(l.meant) /\ l.text.pairs = LineFor(l.meant)
      BY LinesAssumption
    <3>2. Len(l.text.pairs) = 5 + Len(l.meant.data) /\ Len(l.meant.data) \in Nat
      BY <3>1, LineOfRecord DEF WellFormed
    <3>3. InDigits(l.text)
      BY <3>1, <3>2, LinesAssumption
    <3> QED
      BY <3>1, <3>3, WrittenIsAccepted
  <2>2. l.damage = "byte" => ~Accepted(l.text)
    BY LinesAssumption, ChangedIsRefused
  <2>3. l.damage = "cut" => ~Accepted(l.text)
    BY LinesAssumption, CutIsRefused
  <2> QED
    BY <2>1, <2>2, <2>3, LinesAssumption
<1>2. ASSUME NEW l \in Parses PROVE l.damage \in {"none", "other"}
  <2>1. PICK m \in Lines : Accepted(m.text) /\ l.damage = m.damage
    BY DEF Parses, RefusedLines
  <2> QED
    BY <1>1, <2>1
<1> QED
  BY <1>1, <1>2 DEF RefusedLines

\* What a step of the loader does to the history of its lines.
LEMMA LineSteps ==
  [Next]_vars =>
    \/ \E l \in Parses : ReadRecord(l) /\ (result' = "crashed" => result = "crashed" \/ OverrunRecord(l, l.record))
    \/ UNCHANGED <<damages, refused>> /\ (result' = "crashed" => result = "crashed")
    \/ \E l \in RefusedLines : BadLine(l)
<1>1. ASSUME NEW l \in DataLines,
             \/ ProgramRecord(l, l.record) \/ ConfigRecord(l, l.record) \/ EepromRecord(l, l.record)
             \/ OtherRecord(l, l.record) \/ RejectedRecord(l, l.record) \/ OverrunRecord(l, l.record)
      PROVE  l \in Parses /\ ReadRecord(l) /\ (result' = "crashed" => result = "crashed" \/ OverrunRecord(l, l.record))
  <2>1. l \in Parses
    BY DEF DataLines
  <2>2. CASE ProgramRecord(l, l.record)
    BY <2>1, <2>2 DEF ProgramRecord
  <2>3. CASE ConfigRecord(l, l.record)
    BY <2>1, <2>3 DEF ConfigRecord
  <2>4. CASE EepromRecord(l, l.record)
    BY <2>1, <2>4 DEF EepromRecord
  <2>5. CASE OtherRecord(l, l.record)
    BY <2>1, <2>5 DEF OtherRecord
  <2>6. CASE RejectedRecord(l, l.record)
    BY <2>1, <2>6 DEF RejectedRecord, Ends
  <2>7. CASE OverrunRecord(l, l.record)
    BY <2>1, <2>7 DEF OverrunRecord
  <2> QED
    BY <1>1, <2>2, <2>3, <2>4, <2>5, <2>6, <2>7
<1>2. ASSUME NEW l \in ExtLines, ExtRecord(l, l.record)
      PROVE  l \in Parses /\ ReadRecord(l) /\ result' = result
  BY <1>2 DEF ExtLines, ExtRecord
<1>3. ASSUME NEW l \in EndLines, EndRecord(l)
      PROVE  l \in Parses /\ ReadRecord(l) /\ result' = "ok"
  BY <1>3 DEF EndLines, EndRecord
<1>4. ASSUME NEW l \in SkippedLines, SkippedRecord(l, l.record)
      PROVE  l \in Parses /\ ReadRecord(l) /\ result' = result
  BY <1>4 DEF SkippedLines, SkippedRecord
<1>5. EndOfFile \/ UNCHANGED vars =>
        UNCHANGED <<damages, refused>> /\ (result' = "crashed" => result = "crashed")
  BY DEF EndOfFile, vars
<1> QED
  BY <1>1, <1>2, <1>3, <1>4, <1>5 DEF Next

\* A line of the file with one pair behind the count changed to another byte, or
\* with a missing end, is refused, an undamaged one never (Read_IHexRecord: the
\* size checks and the checksum).
THEOREM DamageIsDetected == Spec => []DamageIsTold
<1>1. Init => DamageIsTold
  BY DEF Init, DamageIsTold
<1>2. DamageIsTold /\ [Next]_vars => DamageIsTold'
  <2> SUFFICES ASSUME DamageIsTold, [Next]_vars PROVE DamageIsTold'
    OBVIOUS
  <2> USE DEF DamageIsTold
  <2>1. ASSUME NEW l \in Parses, ReadRecord(l) PROVE DamageIsTold'
    BY <2>1, DamageOfLines DEF ReadRecord
  <2>2. ASSUME NEW l \in RefusedLines, BadLine(l) PROVE DamageIsTold'
    BY <2>2, DamageOfLines DEF BadLine
  <2>3. CASE UNCHANGED <<damages, refused>>
    BY <2>3
  <2> QED
    BY <2>1, <2>2, <2>3, LineSteps
<1> QED
  BY <1>1, <1>2, PTL DEF Spec

\* The loader runs off its record buffer (the unsigned index of
\* lpp_image_data_record_to_big_endian, or memcpy) for no file whose lines are
\* undamaged, cut or changed in one pair behind the count, whatever its records.
THEOREM OnlyBadCountsCrash == Spec => []OnlyOtherDamageCrashes
<1>1. Init => OnlyOtherDamageCrashes
  BY DEF Init, OnlyOtherDamageCrashes
<1>2. OnlyOtherDamageCrashes /\ [Next]_vars => OnlyOtherDamageCrashes'
  <2> SUFFICES ASSUME OnlyOtherDamageCrashes, [Next]_vars, result' = "crashed"
               PROVE  "other" \in damages'
    BY DEF OnlyOtherDamageCrashes
  <2> USE DEF OnlyOtherDamageCrashes
  <2>1. ASSUME NEW l \in Parses, ReadRecord(l), result = "crashed" PROVE FALSE
    BY <2>1 DEF ReadRecord, ReadLine
  <2>2. ASSUME NEW l \in Parses, OverrunRecord(l, l.record) PROVE "other" \in damages'
    <3>1. Overruns(l.record) /\ damages' = damages \cup {l.damage}
      BY <2>2 DEF OverrunRecord, ReadRecord
    <3>2. l.damage # "none"
      BY <3>1, LineIsSane
    <3> QED
      BY <3>1, <3>2, DamageOfLines
  <2>3. CASE UNCHANGED <<damages, refused>> /\ result = "crashed"
    BY <2>3
  <2>4. ASSUME NEW l \in RefusedLines, BadLine(l) PROVE FALSE
    BY <2>4 DEF BadLine, Ends
  <2> QED
    BY <2>1, <2>2, <2>3, <2>4, LineSteps
<1> QED
  BY <1>1, <1>2, PTL DEF Spec
===============================================================================
