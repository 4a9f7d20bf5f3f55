------------------------------ MODULE NonBulkErase ------------------------------
(***************************************************************************)
(* Erasing the code memory page by page, without a bulk erase:             *)
(* lpp_device_18f2xx_4xx_non_bulk_erase. Each page is erased by a pulse    *)
(* sent while EECON1.FREE is set; the chip clears FREE afterwards.         *)
(*                                                                         *)
(* A step is a chain of transfers joined by &&, one of which may fail after*)
(* the chip has acted on a prefix of it. The function returns 1 then too.  *)
(***************************************************************************)
EXTENDS CodeMemory

VARIABLES
  pc,              \* the next step; "done" returned 1, it never returns 0
  currentAddress,  \* current_address
  failed,          \* history: a transfer has failed
  before           \* history: the code memory before the call

vars == <<device, pc, currentAddress, failed, before>>

\* for (...; current_address < code_memory_size && ret; ...), and a slip: the
\* last page is left out.
MorePagesButLast(a) == a + PageSize < CodeMemorySize
MorePages(a) == a < CodeMemorySize

\* current_address += code_erase_page_size, and slips that count in words or
\* stay where they are.
NextPageInWords(a) == a + (PageSize \div 2)
NextPageKept(a) == a
NextPage(a) == a + PageSize

\* What a page's chain leaves in FREE, and a slip that forgets LPP_SET_FREE.
FreeForgotten == free
FreeSet == TRUE

\* What config_write_start leaves in CFGS, and a slip that forgets LPP_SET_CFGS.
CfgsForgotten == cfgs
CfgsSet == TRUE

\* The function's result does not depend on ret.
Returned == "done"

Init ==
  /\ DeviceInit
  /\ pc = "start"
  /\ currentAddress = 0
  /\ failed = FALSE
  /\ before = flash

\* A step that ends in success, or in a failed transfer: the rest of the
\* function is then left out.
Succeeds(next) == pc' = next /\ failed' = failed
Fails == pc' = Returned /\ failed' = TRUE

\* config_write_start: EEPGD and CFGS set, for the control registers.
ConfigWriteStart ==
  /\ pc = "start"
  /\ \/ eepgd' = TRUE /\ cfgs' = CfgsSet /\ (Succeeds("panel") \/ Fails)
     \/ eepgd' \in {eepgd, TRUE} /\ cfgs' = cfgs /\ Fails
  /\ UNCHANGED <<flash, latch, tblptr, armed, free, multiPanel, currentAddress, before>>

\* write_16(0x3C0006, 0): single-panel writes.
DisableMultiPanel ==
  /\ pc = "panel"
  /\ \/ /\ tblptr' = MultiPanelReg + 2
        /\ armed' = FALSE
        /\ multiPanel' = (multiPanel /\ ~cfgs)
        /\ Succeeds("page") \/ Fails
     \/ tblptr' \in PartlySet(tblptr, MultiPanelReg) /\ UNCHANGED <<armed, multiPanel>> /\ Fails
  /\ UNCHANGED <<flash, latch, select, free, currentAddress, before>>

\* The head of the loop's body: code memory, FREE, TBLPTR, and a word of zeros
\* written with TBL_WR_PROG, which arms the pulse.
SelectPage ==
  /\ pc = "page" /\ MorePages(currentAddress)
  /\ \/ /\ eepgd' = TRUE /\ cfgs' = FALSE /\ free' = FreeSet
        /\ tblptr' = currentAddress
        /\ latch' = [latch EXCEPT ![LaneOf(currentAddress)] = {}]
        /\ armed' = TRUE
        /\ (Succeeds("pulse") /\ UNCHANGED currentAddress)
           \/ (Fails /\ currentAddress' = NextPage(currentAddress))
     \/ /\ \/ eepgd' \in {eepgd, TRUE} /\ UNCHANGED <<cfgs, free, tblptr>>
           \/ /\ eepgd' = TRUE /\ cfgs' = FALSE
              /\ free' \in {free, FreeSet}
              /\ tblptr' \in IF free' THEN PartlySet(tblptr, currentAddress) ELSE {tblptr}
        /\ currentAddress' = NextPage(currentAddress)
        /\ UNCHANGED <<latch, armed>>
        /\ Fails
  /\ UNCHANGED <<flash, multiPanel, before>>

\* The pulse, and the next page.
ErasePage ==
  /\ pc = "pulse"
  /\ \/ Pulse /\ (Succeeds("page") \/ Fails)
     \/ UNCHANGED device /\ Fails
  /\ currentAddress' = NextPage(currentAddress)
  /\ UNCHANGED before

\* Every page has been erased.
Return ==
  /\ pc = "page" /\ ~MorePages(currentAddress)
  /\ Succeeds(Returned)
  /\ UNCHANGED <<device, currentAddress, before>>

Next == ConfigWriteStart \/ DisableMultiPanel \/ SelectPage \/ ErasePage \/ Return

\* The function takes its next step unless the process is killed.
Spec == Init /\ [][Next]_vars /\ WF_vars(Next)

-------------------------------------------------------------------------------

TypeOK ==
  /\ DeviceTypeOK
  /\ pc \in {"start", "panel", "page", "pulse", "done"}
  /\ currentAddress \in 0 .. CodeMemorySize + PageSize - 1
  /\ currentAddress % PageSize = 0
  /\ failed \in BOOLEAN
  /\ before \in [WordAddr -> Word]

\* Wherever non_bulk_erase is cut short, a word is as it was or erased: the
\* word of zeros that arms the pulse never reaches the memory.
OnlyErases == \A w \in WordAddr : flash[w] \in {before[w], Erased}

\* As long as no transfer fails, the pages before the current one are erased
\* and the later ones untouched; a call without failures erases everything,
\* a last page that is not full included.
PagesInOrder ==
  ~failed => \A w \in WordAddr :
    /\ 2 * w < currentAddress => flash[w] = Erased
    /\ 2 * w >= currentAddress => flash[w] = before[w]
    /\ pc = "done" => flash[w] = Erased

\* After a call without failures the chip is ready to be programmed: the next
\* pulse will not erase, no stale word waits in the write buffer, and pulses
\* reach one panel.
LeavesReady == pc = "done" /\ ~failed => ~free /\ latch = EmptyLatch /\ ~multiPanel

\* What the steps of an erase leave for the ones after it: a pulse is sent only
\* as an erase, at the page in hand, and the first failure ends the call.
RegisterInv ==
  /\ failed => pc = "done"
  /\ pc \in {"start", "panel", "page"} => ~free /\ latch = EmptyLatch
  /\ pc = "panel" => cfgs
  /\ pc \in {"page", "pulse"} => ~multiPanel
  /\ pc = "pulse" => /\ armed /\ free /\ eepgd /\ ~cfgs
                     /\ tblptr = currentAddress /\ currentAddress < CodeMemorySize

\* What non_bulk_erase keeps between any two transfers: the types, the registers
\* and the memory, page by page.
IInv == TypeOK /\ RegisterInv /\ OnlyErases /\ PagesInOrder /\ LeavesReady

\* The loop over the pages ends.
Returns == <>(pc = "done")

\* "Error erasing device" (lpicp_main_execute_erase_device): a failed erase is
\* told from a successful one, so that success means an erased memory.
SuccessMeansErased == pc = "done" => \A w \in WordAddr : flash[w] = Erased
===============================================================================
