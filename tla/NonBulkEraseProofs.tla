-------------------------- MODULE NonBulkEraseProofs --------------------------
(***************************************************************************)
(* NonBulkErase is correct for every memory size and page size, also when  *)
(* the last page is not full: IInv is inductive, and what the code relies  *)
(* on after non_bulk_erase follows from it.                                *)
(***************************************************************************)
EXTENDS NonBulkErase, TLAPS

\* The bytes of the page that begins at an address are those in reach of it.
LEMMA PageFromStart ==
  ASSUME NEW P \in Nat \ {0}, NEW b \in Nat, b % P = 0, NEW x \in Nat
  PROVE  x \div P = b \div P <=> b <= x /\ x < b + P
<1> DEFINE q == b \div P
           r == x \div P
<1>1. b = P * q /\ q \in Nat
  OBVIOUS
<1>2. x = P * r + (x % P) /\ r \in Nat /\ x % P \in 0 .. P - 1
  OBVIOUS
<1> HIDE DEF q, r
<1>3. CASE r = q
  <2>1. P * r = P * q /\ P * q \in Nat
    BY <1>1, <1>3
  <2> QED
    BY <1>1, <1>2, <1>3, <2>1 DEF q, r
<1>4. CASE r < q
  <2>1. P * r + P <= P * q
    <3>1. r + 1 <= q
      BY <1>1, <1>2, <1>4
    <3>2. P * (r + 1) <= P * q
      BY <1>1, <1>2, <3>1
    <3> QED
      BY <1>1, <1>2, <3>2
  <2>2. P * r \in Nat
    BY <1>2
  <2>3. x < b
    BY <1>1, <1>2, <2>1, <2>2
  <2> QED
    BY <1>4, <1>1, <1>2, <2>3 DEF q, r
<1>5. CASE r > q
  <2>1. P * q + P <= P * r
    <3>1. q + 1 <= r
      BY <1>1, <1>2, <1>5
    <3>2. P * (q + 1) <= P * r
      BY <1>1, <1>2, <3>1
    <3> QED
      BY <1>1, <1>2, <3>2
  <2>2. P * q \in Nat /\ P * r \in Nat
    BY <1>1, <1>2
  <2>3. b + P <= x
    BY <1>1, <1>2, <2>1, <2>2
  <2> QED
    BY <1>5, <1>1, <1>2, <2>3 DEF q, r
<1> QED
  BY <1>1, <1>2, <1>3, <1>4, <1>5

\* A multiple of the page size, as such.
LEMMA MultipleOf ==
  ASSUME NEW P \in Nat \ {0}, NEW q \in Nat
  PROVE  (P * q + 0) % P = 0
OBVIOUS

\* The page after a page begins at a multiple of the page size.
LEMMA NextPageAligned ==
  ASSUME NEW P \in Nat \ {0}, NEW b \in Nat, b % P = 0
  PROVE  (b + P) % P = 0
<1> DEFINE q == b \div P
<1>1. b = P * q /\ q \in Nat
  OBVIOUS
<1> HIDE DEF q
<1>2. b + P = P * (q + 1) + 0 /\ q + 1 \in Nat
  BY <1>1
<1> QED
  BY <1>2, MultipleOf

\* Every value TBLPTR can hold after its three stores is an address.
LEMMA PartlySetNat ==
  ASSUME NEW old \in Nat, NEW new \in Nat
  PROVE  PartlySet(old, new) \subseteq Nat
BY DEF PartlySet, HighPart

\* The address after a page of the memory keeps the bounds of its type.
LEMMA AfterPage ==
  ASSUME TypeOK, currentAddress < CodeMemorySize
  PROVE  /\ NextPage(currentAddress) \in 0 .. CodeMemorySize + PageSize - 1
         /\ NextPage(currentAddress) % PageSize = 0
<1>1. currentAddress \in Nat /\ currentAddress % PageSize = 0
  BY DeviceAssumption DEF TypeOK
<1>2. (currentAddress + PageSize) % PageSize = 0
  BY <1>1, NextPageAligned, DeviceAssumption
<1> QED
  BY <1>1, <1>2, DeviceAssumption DEF NextPage

LEMMA InitIInv == Init => IInv
<1> SUFFICES ASSUME Init PROVE IInv
  OBVIOUS
<1>1. TypeOK
  <2>1. DeviceTypeOK /\ before \in [WordAddr -> Word]
    BY DEF Init, DeviceInit, DeviceTypeOK, EmptyLatch, Erased, Word
  <2>2. currentAddress \in 0 .. CodeMemorySize + PageSize - 1 /\ currentAddress % PageSize = 0
    BY DeviceAssumption DEF Init
  <2> QED
    BY <2>1, <2>2 DEF Init, TypeOK
<1>2. PagesInOrder
  BY DeviceAssumption DEF Init, PagesInOrder, WordAddr
<1> QED
  BY <1>1, <1>2 DEF Init, DeviceInit, IInv, RegisterInv, OnlyErases, LeavesReady

\* A failed transfer ends the call; the memory is as it was, whatever the
\* registers hold.
LEMMA FailsInv ==
  ASSUME IInv, TypeOK', Fails, UNCHANGED <<flash, before>>
  PROVE  IInv'
BY DEF IInv, Fails, Returned, RegisterInv, OnlyErases, PagesInOrder, LeavesReady

LEMMA ConfigWriteStartInv == IInv /\ ConfigWriteStart => IInv'
<1> SUFFICES ASSUME IInv, ConfigWriteStart PROVE IInv'
  OBVIOUS
<1>1. TypeOK'
  BY DEF IInv, TypeOK, DeviceTypeOK, ConfigWriteStart, Succeeds, Fails, CfgsSet, Returned
<1>2. CASE Fails
  BY <1>1, <1>2, FailsInv DEF ConfigWriteStart
<1>3. CASE ~Fails
  <2>1. cfgs' /\ pc' = "panel" /\ failed' = failed /\ pc = "start"
    BY <1>3 DEF ConfigWriteStart, Succeeds, CfgsSet
  <2> QED
    BY <1>1, <2>1 DEF ConfigWriteStart, IInv, RegisterInv, OnlyErases, PagesInOrder, LeavesReady
<1> QED
  BY <1>2, <1>3

LEMMA DisableMultiPanelInv == IInv /\ DisableMultiPanel => IInv'
<1> SUFFICES ASSUME IInv, DisableMultiPanel PROVE IInv'
  OBVIOUS
<1>1. TypeOK'
  <2>1. tblptr' \in Nat
    BY PartlySetNat DEF IInv, TypeOK, DeviceTypeOK, DisableMultiPanel, MultiPanelReg
  <2> QED
    BY <2>1 DEF IInv, TypeOK, DeviceTypeOK, DisableMultiPanel, Succeeds, Fails, Returned, select
<1>2. CASE Fails
  BY <1>1, <1>2, FailsInv DEF DisableMultiPanel
<1>3. CASE ~Fails
  <2>1. ~multiPanel' /\ pc' = "page" /\ failed' = failed /\ pc = "panel"
    BY <1>3 DEF DisableMultiPanel, Succeeds, IInv, RegisterInv
  <2> QED
    BY <1>1, <2>1 DEF DisableMultiPanel, IInv, RegisterInv, OnlyErases, PagesInOrder, LeavesReady
<1> QED
  BY <1>2, <1>3

\* Selecting a page arms the pulse as an erase of that page, or fails.
LEMMA SelectPageInv == IInv /\ SelectPage => IInv'
<1> SUFFICES ASSUME IInv, SelectPage PROVE IInv'
  OBVIOUS
<1>1. currentAddress < CodeMemorySize /\ currentAddress \in Nat /\ pc = "page"
  BY DeviceAssumption DEF SelectPage, MorePages, IInv, TypeOK
<1>2. TypeOK'
  <2>1. tblptr' \in Nat
    BY <1>1, PartlySetNat DEF IInv, TypeOK, DeviceTypeOK, SelectPage
  <2>2. /\ currentAddress' \in 0 .. CodeMemorySize + PageSize - 1
        /\ currentAddress' % PageSize = 0
    BY <1>1, AfterPage DEF SelectPage, IInv, TypeOK
  <2>3. latch' \in [Lane -> Word]
    BY DEF SelectPage, IInv, TypeOK, DeviceTypeOK, Word
  <2>4. eepgd' \in BOOLEAN /\ cfgs' \in BOOLEAN /\ free' \in BOOLEAN /\ armed' \in BOOLEAN
    BY DEF SelectPage, IInv, TypeOK, DeviceTypeOK, FreeSet
  <2>5. pc' \in {"pulse", "done"} /\ failed' \in BOOLEAN
    BY DEF SelectPage, IInv, TypeOK, Succeeds, Fails, Returned
  <2> QED
    BY <2>1, <2>2, <2>3, <2>4, <2>5 DEF SelectPage, IInv, TypeOK, DeviceTypeOK
<1>3. CASE Fails
  BY <1>2, <1>3, FailsInv DEF SelectPage
<1>4. CASE ~Fails
  <2>1. /\ eepgd' = TRUE /\ cfgs' = FALSE /\ free' = TRUE /\ armed' = TRUE
        /\ tblptr' = currentAddress /\ currentAddress' = currentAddress
        /\ pc' = "pulse" /\ failed' = failed
    BY <1>4 DEF SelectPage, Succeeds, FreeSet
  <2> QED
    BY <1>1, <1>2, <2>1
       DEF SelectPage, IInv, RegisterInv, OnlyErases, PagesInOrder, LeavesReady
<1> QED
  BY <1>3, <1>4

\* What the pulse does to the memory: exactly the words from the current address
\* to the next page's are erased.
LEMMA PulseErasesPage ==
  ASSUME IInv, pc = "pulse", Pulse
  PROVE  flash' = [w \in WordAddr |->
                     IF currentAddress <= 2 * w /\ 2 * w < NextPage(currentAddress)
                     THEN Erased ELSE flash[w]]
<1>1. /\ armed /\ free /\ eepgd /\ ~cfgs /\ tblptr = currentAddress
      /\ currentAddress \in Nat /\ currentAddress % PageSize = 0
  BY DeviceAssumption DEF IInv, RegisterInv, TypeOK
<1>2. ASSUME NEW w \in WordAddr
      PROVE  PageOf(2 * w) = PageOf(tblptr) <=>
               currentAddress <= 2 * w /\ 2 * w < NextPage(currentAddress)
  <2>1. 2 * w \in Nat
    BY DEF WordAddr
  <2>2. \A b \in Nat : b % PageSize = 0 =>
          ((2 * w) \div PageSize = b \div PageSize <=> b <= 2 * w /\ 2 * w < b + PageSize)
    BY <2>1, PageFromStart, DeviceAssumption
  <2> QED
    BY <1>1, <2>2 DEF PageOf, NextPage
<1> QED
  BY <1>1, <1>2 DEF Pulse, PageErased

LEMMA ErasePageInv == IInv /\ ErasePage => IInv'
<1> SUFFICES ASSUME IInv, ErasePage PROVE IInv'
  OBVIOUS
<1>1. /\ pc = "pulse" /\ currentAddress < CodeMemorySize /\ currentAddress \in Nat
      /\ currentAddress' = NextPage(currentAddress) /\ before' = before
      /\ NextPage(currentAddress) \in 0 .. CodeMemorySize + PageSize - 1
      /\ NextPage(currentAddress) % PageSize = 0
  BY AfterPage DEF ErasePage, IInv, RegisterInv, TypeOK
<1>2. pc' \in {"page", "done"} /\ failed' \in BOOLEAN
  BY DEF ErasePage, IInv, TypeOK, Succeeds, Fails, Returned
<1>3. CASE UNCHANGED device
  <2>1. Fails /\ TypeOK'
    BY <1>1, <1>2, <1>3 DEF ErasePage, Succeeds, Pulse, device, IInv, TypeOK, DeviceTypeOK,
                            RegisterInv
  <2> QED
    BY <1>1, <1>3, <2>1, FailsInv DEF device
<1>4. CASE Pulse
  <2>1. flash' = [w \in WordAddr |->
                    IF currentAddress <= 2 * w /\ 2 * w < NextPage(currentAddress)
                    THEN Erased ELSE flash[w]]
    BY <1>1, <1>4, PulseErasesPage
  <2>2. flash' \in [WordAddr -> Word]
    BY <2>1 DEF IInv, TypeOK, DeviceTypeOK, Word, Erased
  <2>3. TypeOK'
    BY <1>1, <1>2, <1>4, <2>2
       DEF Pulse, IInv, TypeOK, DeviceTypeOK, EmptyLatch, Erased, Word
  <2>4. OnlyErases'
    BY <1>1, <2>1 DEF IInv, OnlyErases
  <2>5. PagesInOrder'
    <3>1. SUFFICES ASSUME ~failed', NEW w \in WordAddr
                   PROVE  /\ 2 * w < currentAddress' => flash'[w] = Erased
                          /\ 2 * w >= currentAddress' => flash'[w] = before[w]
                          /\ pc' # "done"
      BY <1>1 DEF PagesInOrder
    <3>2. ~failed /\ pc' = "page"
      BY <1>1, <3>1 DEF ErasePage, Succeeds, Fails, IInv, RegisterInv
    <3>3. 2 * w \in Nat /\ PageSize \in Nat
      BY DeviceAssumption DEF WordAddr
    <3>4. /\ 2 * w < currentAddress => flash[w] = Erased
          /\ 2 * w >= currentAddress => flash[w] = before[w]
      BY <3>2 DEF IInv, PagesInOrder
    <3>5. 2 * w >= currentAddress' => 2 * w >= currentAddress
      BY <1>1, <3>3 DEF NextPage
    <3> QED
      BY <1>1, <2>1, <3>2, <3>3, <3>4, <3>5 DEF NextPage
  <2>6. RegisterInv'
    BY <1>1, <1>2, <1>4 DEF ErasePage, Pulse, IInv, RegisterInv, Succeeds, Fails, Returned
  <2>7. LeavesReady'
    BY <1>1, <1>2, <1>4 DEF ErasePage, Pulse, IInv, RegisterInv, LeavesReady
  <2> QED
    BY <2>3, <2>4, <2>5, <2>6, <2>7 DEF IInv
<1> QED
  BY <1>3, <1>4 DEF ErasePage

\* The loop ends with every word before the current address.
LEMMA ReturnInv == IInv /\ Return => IInv'
<1> SUFFICES ASSUME IInv, Return PROVE IInv'
  OBVIOUS
<1>1. pc = "page" /\ pc' = "done" /\ failed' = failed /\ ~(currentAddress < CodeMemorySize)
  BY DEF Return, Succeeds, Returned, MorePages
<1>2. \A w \in WordAddr : 2 * w < currentAddress
  BY <1>1, DeviceAssumption DEF WordAddr, IInv, TypeOK
<1>3. TypeOK'
  BY <1>1 DEF Return, IInv, TypeOK, DeviceTypeOK, device
<1>4. PagesInOrder'
  BY <1>1, <1>2 DEF Return, IInv, PagesInOrder, device
<1> QED
  BY <1>1, <1>3, <1>4 DEF Return, IInv, RegisterInv, OnlyErases, LeavesReady, device

LEMMA NextIInv == IInv /\ [Next]_vars => IInv'
<1> SUFFICES ASSUME IInv, [Next]_vars PROVE IInv'
  OBVIOUS
<1>1. CASE UNCHANGED vars
  BY <1>1 DEF IInv, TypeOK, DeviceTypeOK, RegisterInv, OnlyErases, PagesInOrder,
              LeavesReady, vars, device
<1> QED
  BY <1>1, ConfigWriteStartInv, DisableMultiPanelInv, SelectPageInv, ErasePageInv,
     ReturnInv DEF Next

-------------------------------------------------------------------------------

\* Between any two transfers of non_bulk_erase, a pulse that is about to be sent
\* erases the page in hand, and the first failure ends the call.
THEOREM EraseInductive == Spec => []IInv
BY InitIInv, NextIInv, PTL DEF Spec

\* Wherever non_bulk_erase is cut short, each word of the code memory is as it was
\* or erased.
THEOREM EraseNeverPrograms == Spec => []OnlyErases
BY EraseInductive, PTL DEF IInv

\* Without failures the pages are erased in order, each exactly once, and all of
\* them when the call returns.
THEOREM ErasesInOrder == Spec => []PagesInOrder
BY EraseInductive, PTL DEF IInv

\* A call without failures leaves FREE clear, the write buffer empty and
\* single-panel writes, which a program write depends on.
THEOREM EraseLeavesReady == Spec => []LeavesReady
BY EraseInductive, PTL DEF IInv
===============================================================================
