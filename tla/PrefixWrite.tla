----------------------------- MODULE PrefixWrite ------------------------------
(***************************************************************************)
(* What writing an image to the program memory promises, whatever the      *)
(* blocks and the transfers it is made of: the words of the image reach    *)
(* the memory in ascending order, no other word is touched, a run that     *)
(* reports success has written them all, and a run that is cut short has   *)
(* written a prefix and may be repeated.                                   *)
(***************************************************************************)
EXTENDS Integers

CONSTANTS Size,  \* words of memory
          Bits   \* bits of a word

VARIABLES mem,       \* the memory
          image,     \* what to write
          total,     \* how many words of it
          progress,  \* words written by this run
          status     \* "running", "done" or "aborted"

vars == <<mem, image, total, progress, status>>

Addr == 0 .. Size - 1

\* The memory once words from..to-1 are written: bits can only be cleared.
Written(from, to) ==
  [w \in Addr |-> IF from <= w /\ w < to THEN mem[w] \cap image[w] ELSE mem[w]]

Init ==
  /\ mem \in [Addr -> SUBSET Bits]
  /\ image \in [Addr -> SUBSET Bits]
  /\ total \in 0 .. Size
  /\ progress = 0
  /\ status = "running"

Advance ==
  /\ status = "running"
  /\ \E n \in progress + 1 .. total :
        /\ mem' = Written(progress, n)
        /\ progress' = n
  /\ UNCHANGED <<image, total, status>>

Finish ==
  /\ status = "running"
  /\ progress = total
  /\ status' = "done"
  /\ UNCHANGED <<mem, image, total, progress>>

Abort ==
  /\ status = "running"
  /\ \E n \in progress .. total : mem' = Written(progress, n)
  /\ progress' = 0
  /\ status' = "aborted"
  /\ UNCHANGED <<image, total>>

Retry ==
  /\ status = "aborted"
  /\ status' = "running"
  /\ UNCHANGED <<mem, image, total, progress>>

Next == Advance \/ Finish \/ Abort \/ Retry

Spec == Init /\ [][Next]_vars
===============================================================================
