----------------------------- MODULE PageStore -----------------------------
(***************************************************************************)
(* What the swap area promises: it keeps the content of a limited number   *)
(* of pages until they are removed, a reader gets the content that was     *)
(* last put, and a failure touches nothing but the page it was about.      *)
(***************************************************************************)
EXTENDS Integers, FiniteSets

CONSTANTS Proc, Page, Content,
          Missing,    \* there is no content
          Capacity

Key == Proc \X Page

VARIABLES
  store,    \* the content of each page that is kept
  call      \* the last call: operation, argument, content put or got

Kept == {k \in Key : store[k] # Missing}

Init ==
  /\ store = [k \in Key |-> Missing]
  /\ call = <<>>

Put(k, c) ==
  /\ k \in Kept \/ Cardinality(Kept) < Capacity
  /\ store' = [store EXCEPT ![k] = c]
  /\ call' = <<"write", k, c>>

\* A page that is kept may lose its content, it does not lose its place; one
\* that is not kept gets none.
PutFails(k) ==
  /\ \/ k \in Kept /\ \E c \in Content : store' = [store EXCEPT ![k] = c]
     \/ store' = store
  /\ call' = <<"write", k, Missing>>

Get(k) ==
  /\ k \in Kept
  /\ call' = <<"read", k, store[k]>>
  /\ UNCHANGED store

GetFails(k) ==
  /\ call' = <<"read", k, Missing>>
  /\ UNCHANGED store

RemovePage(k) ==
  /\ k \in Kept
  /\ store' = [store EXCEPT ![k] = Missing]
  /\ call' = <<"remove page", k>>

RemoveProcess(p) ==
  /\ store' = [k \in Key |-> IF k[1] = p THEN Missing ELSE store[k]]
  /\ call' = <<"remove process", p>>

Next ==
  \/ \E k \in Key :
       \/ Get(k) \/ GetFails(k) \/ RemovePage(k)
       \/ PutFails(k) \/ \E c \in Content : Put(k, c)
  \/ \E p \in Proc : RemoveProcess(p)

Spec == Init /\ [][Next]_<<store, call>>

=============================================================================
