-------------------------------- MODULE Swap --------------------------------
(***************************************************************************)
(* src/swap.c: an array of slots, a count of the used ones and a file with *)
(* one page at the position of each slot.  Writes and reads of the file    *)
(* may fail at any point.                                                  *)
(***************************************************************************)
EXTENDS ArrayScan, FiniteSets

CONSTANTS Proc, Page, Content,
          Zeros,      \* the content of a page in the new file
          NoKey,      \* the pid -1 and page 0 of a slot that is not used
          Missing,    \* no content: the answer of a call that fails
          SlotCount

Key == Proc \X Page
Slot == 0 .. SlotCount - 1

ASSUME SwapAssumption ==
  /\ SlotCount \in Nat \ {0}
  /\ NoKey \notin Key
  /\ Zeros \in Content
  /\ Missing \notin Content

VARIABLES
  slots,   \* the page of each slot
  used,    \* swap->used_slot_count
  file,
  call     \* the last call: operation, argument, content written or read

vars == <<slots, used, file, call>>

Answer == Content \union {Missing}
Call == {<<>>} \union ({"write", "read"} \X Key \X Answer)
               \union ({"remove page"} \X Key) \union ({"remove process"} \X Proc)

TypeOK ==
  /\ slots \in [Slot -> Key \union {NoKey}]
  /\ used \in Nat
  /\ file \in [Slot -> Content]
  /\ call \in Call

\* swap_create
Init ==
  /\ slots = [i \in Slot |-> NoKey]
  /\ used = 0
  /\ file = [i \in Slot |-> Zeros]
  /\ call = <<>>

UsedSlots == {i \in Slot : slots[i] # NoKey}

\* swap_find_page_slot, swap_find_free_slot
PageSlots(k) == {i \in Slot : slots[i] = k}
FreeSlots == Slot \ UsedSlots

\* Mutant: a page that has a slot gets another one.
TargetsAnySlot(k) == FreeSlots

\* The slots in which a page may be written.
Targets(k) == IF PageSlots(k) # {} THEN PageSlots(k) ELSE FreeSlots

\* swap_write_page
Write(k, c) ==
  /\ Targets(k) # {}
  /\ LET i == First(Targets(k))
     IN  /\ file' = [file EXCEPT ![i] = c]
         /\ slots' = [slots EXCEPT ![i] = k]
         /\ used' = IF PageSlots(k) = {} THEN used + 1 ELSE used
  /\ call' = <<"write", k, c>>

\* Mutant: the slot is taken before the file is written.
WriteFailsLate(k) ==
  /\ Targets(k) # {}
  /\ LET i == First(Targets(k))
     IN  /\ \E c \in Content : file' = [file EXCEPT ![i] = c]
         /\ slots' = [slots EXCEPT ![i] = k]
         /\ used' = IF PageSlots(k) = {} THEN used + 1 ELSE used
  /\ call' = <<"write", k, Missing>>

\* No slot is left; or fseek, fwrite or fflush fails: whatever got to the file
\* is there, and a slot that was to be taken is not.
WriteFails(k) ==
  /\ IF Targets(k) = {}
       THEN file' = file
       ELSE \E c \in Content : file' = [file EXCEPT ![First(Targets(k))] = c]
  /\ call' = <<"write", k, Missing>>
  /\ UNCHANGED <<slots, used>>

\* swap_read_page
Read(k) ==
  /\ PageSlots(k) # {}
  /\ call' = <<"read", k, file[First(PageSlots(k))]>>
  /\ UNCHANGED <<slots, used, file>>

\* The same for a page that is not there, or when fseek or fread fails.
ReadFails(k) ==
  /\ call' = <<"read", k, Missing>>
  /\ UNCHANGED <<slots, used, file>>

\* swap_remove_page
RemovePage(k) ==
  /\ PageSlots(k) # {}
  /\ slots' = [slots EXCEPT ![First(PageSlots(k))] = NoKey]
  /\ used' = used - 1
  /\ call' = <<"remove page", k>>
  /\ UNCHANGED file

SlotsOfProcess(p) == {i \in UsedSlots : slots[i][1] = p}

\* Mutant: the count goes down by one.
RemoveProcessCountsOne(p) ==
  /\ slots' = [i \in Slot |-> IF i \in SlotsOfProcess(p) THEN NoKey ELSE slots[i]]
  /\ used' = used - 1
  /\ call' = <<"remove process", p>>
  /\ UNCHANGED file

\* swap_remove_process
RemoveProcess(p) ==
  /\ slots' = [i \in Slot |-> IF i \in SlotsOfProcess(p) THEN NoKey ELSE slots[i]]
  /\ used' = used - Cardinality(SlotsOfProcess(p))
  /\ call' = <<"remove process", p>>
  /\ UNCHANGED file

Next ==
  \/ \E k \in Key :
       \/ \E c \in Content : Write(k, c)
       \/ WriteFails(k) \/ Read(k) \/ ReadFails(k) \/ RemovePage(k)
  \/ \E p \in Proc : RemoveProcess(p)

Spec == Init /\ [][Next]_vars

-----------------------------------------------------------------------------

\* used_slot_count is the number of used slots, whatever order of writes, failed
\* writes and removals led here.
CountIsUsedSlots == used = Cardinality(UsedSlots)

\* No page has two slots, or one of them would go on with an old content.
OneSlotPerPage ==
  \A i, j \in UsedSlots : slots[i] = slots[j] => i = j

\* The content kept for each page.
Stored ==
  [k \in Key |->
     IF PageSlots(k) = {} THEN Missing ELSE file[First(PageSlots(k))]]

Store == INSTANCE PageStore WITH store <- Stored, Capacity <- SlotCount

\* Slots that are freed and taken again, counts and failures in the middle of a
\* write are not to be seen from outside: the area is the store of PageStore.
ImplementsPageStore == Store!Spec

=============================================================================
