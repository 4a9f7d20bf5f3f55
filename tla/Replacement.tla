------------------------------ MODULE Replacement ------------------------------
(***************************************************************************)
(* What giving a device a new program promises, whatever the pages, blocks *)
(* and transfers it is made of: first words are erased, in any order; the  *)
(* image is written only to a memory that is erased altogether, and then as*)
(* PrefixWrite says, so that it gets there in order and whole.             *)
(*                                                                         *)
(* The erase may lose track of what it has erased without the writer being *)
(* told. Then little is left of the promise: a word is kept, erased, or    *)
(* given its own word of the image, and never another's.                   *)
(***************************************************************************)
EXTENDS Integers

CONSTANTS Size,  \* words of memory
          Bits   \* bits of a word, all of them set when it is erased

VARIABLES mem,       \* the memory
          image,     \* what to write
          total,     \* how many words of it
          progress,  \* words written by this run
          status     \* "erasing", "unsure", or the status of the write

vars == <<mem, image, total, progress, status>>

Write == INSTANCE PrefixWrite

Addr == 0 .. Size - 1

\* The memory once the words of S are erased.
Without(S) == [w \in Addr |-> IF w \in S THEN Bits ELSE mem[w]]

Init ==
  /\ mem \in [Addr -> SUBSET Bits]
  /\ image \in [Addr -> SUBSET Bits]
  /\ total \in 0 .. Size
  /\ progress = 0
  /\ status = "erasing"

\* Some words are erased, and the erase may lose track there and then.
Erase ==
  /\ status = "erasing"
  /\ \E S \in SUBSET Addr : mem' = Without(S)
  /\ status' \in {"erasing", "unsure"}
  /\ UNCHANGED <<image, total, progress>>

\* The write begins, and every word is erased.
Begin ==
  /\ status = "erasing"
  /\ \A w \in Addr : mem[w] = Bits
  /\ status' = "running"
  /\ UNCHANGED <<mem, image, total, progress>>

\* Behind an erase that has lost track, the write may even erase.
MayBecome(w) == {mem[w], Bits} \cup (IF w < total THEN {mem[w] \cap image[w]} ELSE {})

WriteUnsure ==
  /\ status = "unsure"
  /\ mem' \in [Addr -> SUBSET Bits]
  /\ \A w \in Addr : mem'[w] \in MayBecome(w)
  /\ UNCHANGED <<image, total, progress, status>>

Next == Erase \/ Begin \/ Write!Next \/ WriteUnsure

Spec == Init /\ [][Next]_vars

-------------------------------------------------------------------------------

\* What a caller may take from the promise: once the write is done, the memory
\* holds exactly the image, and nothing of the old program behind it.
OnlyTheImage ==
  status = "done" => \A w \in Addr : mem[w] = IF w < total THEN image[w] ELSE Bits
===============================================================================
