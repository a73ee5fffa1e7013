-------------------------------- MODULE Tlb --------------------------------
(***************************************************************************)
(* src/tlb.c: an array of translations, each stamped by a logical clock    *)
(* when it is inserted or hit.  A key is a pid and a virtual page.         *)
(***************************************************************************)
EXTENDS ArrayScan, VictimQueue

CONSTANTS Proc, Page, Frame, Capacity,
          NoKey,      \* the pid -1 and page 0 of an entry that is not valid
          NoFrame,
          MaxClock    \* bound: stamps

Key == Proc \X Page
Index == 0 .. Capacity - 1

ASSUME TlbAssumption ==
  /\ Capacity \in Nat \ {0}
  /\ NoKey \notin Key
  /\ NoFrame \notin Frame

VARIABLES
  entries,  \* tlb->entries
  size,     \* tlb->size
  clock,    \* tlb->logical_clock
  told,     \* history: the frame that was last inserted for each key and not
            \* invalidated since
  recent    \* history: the keys in the order of their last use

vars == <<entries, size, clock, told, recent>>

Invalid == [key |-> NoKey, frame |-> 0, last |-> 0]

TypeOK ==
  /\ entries \in [Index -> [key : Key \union {NoKey}, frame : Frame \union {0}, last : Nat]]
  /\ size \in 0 .. Capacity
  /\ clock \in Nat
  /\ told \in [Key -> Frame \union {NoFrame}]

Init ==
  /\ entries = [i \in Index |-> Invalid]
  /\ size = 0 /\ clock = 0
  /\ told = [k \in Key |-> NoFrame]
  /\ recent = Nobody

Valid == {i \in Index : entries[i].key # NoKey}
Holding(k) == {i \in Index : entries[i].key = k}

\* Mutant: a hit does not stamp the entry.
HitUnstamped(k) ==
  /\ Holding(k) # {}
  /\ clock' = clock + 1
  /\ recent' = Used(recent, k)
  /\ UNCHANGED <<entries, size, told>>

\* tlb_lookup that finds the key; one that does not changes nothing.
Hit(k) ==
  /\ Holding(k) # {}
  /\ clock' = clock + 1
  /\ entries' = [entries EXCEPT ![First(Holding(k))].last = clock + 1]
  /\ recent' = Used(recent, k)
  /\ UNCHANGED <<size, told>>

\* tlb_find_lru_entry
Oldest ==
  First({i \in Valid : \A j \in Valid : entries[i].last <= entries[j].last})

\* Mutant: the key is not looked for.
PlaceAnywhere(k) == IF Valid # Index THEN First(Index \ Valid) ELSE Oldest

\* Where tlb_insert puts a key: where it is, else in the first entry that is not
\* valid, else over the one used longest ago.
Place(k) ==
  IF Holding(k) # {} THEN First(Holding(k))
  ELSE IF Valid # Index THEN First(Index \ Valid)
  ELSE Oldest

Insert(k, f) ==
  /\ entries' = [entries EXCEPT ![Place(k)] =
                   [key |-> k, frame |-> f, last |-> clock + 1]]
  /\ clock' = clock + 1
  /\ size' = IF entries[Place(k)].key = NoKey THEN size + 1 ELSE size
  /\ told' = [told EXCEPT ![k] = f]
  /\ recent' = Entered(recent, k, Capacity)

\* tlb_invalidate of a key that is there
Invalidate(k) ==
  /\ Holding(k) # {}
  /\ entries' = [entries EXCEPT ![First(Holding(k))] = Invalid]
  /\ size' = size - 1
  /\ told' = [told EXCEPT ![k] = NoFrame]
  /\ recent' = Left(recent, {k})
  /\ UNCHANGED clock

OfProcess(p) == {i \in Valid : entries[i].key[1] = p}

\* tlb_invalidate_process
InvalidateProcess(p) ==
  /\ entries' = [i \in Index |-> IF i \in OfProcess(p) THEN Invalid ELSE entries[i]]
  /\ size' = size - Cardinality(OfProcess(p))
  /\ told' = [k \in Key |-> IF k[1] = p THEN NoFrame ELSE told[k]]
  /\ recent' = Left(recent, {k \in Key : k[1] = p})
  /\ UNCHANGED clock

\* Mutant: the count of entries is not reset.
ClearKeepsSize ==
  /\ entries' = [i \in Index |-> Invalid]
  /\ clock' = 0
  /\ told' = [k \in Key |-> NoFrame]
  /\ recent' = Nobody
  /\ UNCHANGED size

\* tlb_clear
Clear ==
  /\ entries' = [i \in Index |-> Invalid]
  /\ size' = 0 /\ clock' = 0
  /\ told' = [k \in Key |-> NoFrame]
  /\ recent' = Nobody

Next ==
  /\ \/ \E k \in Key : Hit(k) \/ Invalidate(k) \/ \E f \in Frame : Insert(k, f)
     \/ \E p \in Proc : InvalidateProcess(p)
     \/ Clear
  /\ clock' <= MaxClock

Spec == Init /\ [][Next]_vars

-----------------------------------------------------------------------------

\* tlb->size is the number of valid entries: the account is kept in four places
\* and the array is never counted.
SizeIsCount == size = Cardinality(Valid)

\* What a lookup answers is the frame last inserted for the key: a key is in one
\* entry at most, and what was invalidated does not come back.
AnswersAsTold ==
  /\ \A i, j \in Valid : entries[i].key = entries[j].key => i = j
  /\ \A i \in Valid : entries[i].frame = told[entries[i].key]

\* Hits and insertions, with holes left by invalidations and filled again, order
\* the keys by their stamps as in a queue of recent use, no two keys at the same
\* place: a full TLB gives up the translation that was used longest ago.
LeastRecentlyUsed ==
  /\ Waiting(recent) = {entries[i].key : i \in Valid}
  /\ \A i, j \in Valid :
       /\ <<entries[i].key, entries[j].key>> \in recent
            <=> entries[i].last <= entries[j].last
       /\ entries[i].last = entries[j].last => i = j
  /\ Valid # {} => entries[Oldest].key = Foremost(recent)

=============================================================================
