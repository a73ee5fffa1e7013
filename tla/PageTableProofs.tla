-------------------------- MODULE PageTableProofs --------------------------
(***************************************************************************)
(* The reference counts of the shared page tables and the private tables   *)
(* they implement, for any number of tables, levels, indices and frames.   *)
(***************************************************************************)
EXTENDS PageTable, ArrayScanProofs

-----------------------------------------------------------------------------
(* Counting.                                                               *)

\* Two finite sets that differ at most in e.
LEMMA CountsDiffer ==
  ASSUME NEW A, IsFiniteSet(A), NEW B, NEW e, A \ {e} = B \ {e}
  PROVE  /\ IsFiniteSet(B)
         /\ Cardinality(A) \in Nat /\ Cardinality(B) \in Nat
         /\ Cardinality(B) + (IF e \in A THEN 1 ELSE 0)
              = Cardinality(A) + (IF e \in B THEN 1 ELSE 0)
<1> DEFINE C == A \ {e}
<1>1. IsFiniteSet(C) /\ Cardinality(C) \in Nat
  BY FS_RemoveElement, FS_CardinalityType
<1>2. \A D : D \ {e} = C =>
        IsFiniteSet(D) /\ Cardinality(D) = Cardinality(C) + (IF e \in D THEN 1 ELSE 0)
  <2> TAKE D
  <2> HAVE D \ {e} = C
  <2>1. CASE e \in D
    <3>1. D = C \union {e} /\ e \notin C
      BY <2>1
    <3> QED
      BY <1>1, <2>1, <3>1, FS_AddElement
  <2>2. CASE e \notin D
    <3>1. D = C
      BY <2>2
    <3> QED
      BY <1>1, <2>2, <3>1
  <2> QED
    BY <2>1, <2>2
<1>3. /\ Cardinality(A) = Cardinality(C) + (IF e \in A THEN 1 ELSE 0)
      /\ IsFiniteSet(B) /\ Cardinality(B) = Cardinality(C) + (IF e \in B THEN 1 ELSE 0)
  <2> HIDE DEF C
  <2>1. A \ {e} = C /\ B \ {e} = C
    BY DEF C
  <2> QED
    BY <1>2, <2>1
<1> HIDE DEF C
<1> QED
  BY <1>1, <1>3

\* The places that hold o.
Held(r, o) == {x \in DOMAIN r : r[x] = o}

\* Place x gets a new pointer.
Puts(r, s, x, new) == s = [r EXCEPT ![x] = new]

LEMMA HeldMoved ==
  ASSUME NEW r, IsFiniteSet(DOMAIN r), NEW x \in DOMAIN r, NEW new, NEW s,
         Puts(r, s, x, new), NEW o
  PROVE  /\ Cardinality(Held(r, o)) \in Nat /\ Cardinality(Held(s, o)) \in Nat
         /\ Cardinality(Held(s, o)) + (IF r[x] = o THEN 1 ELSE 0)
              = Cardinality(Held(r, o)) + (IF new = o THEN 1 ELSE 0)
<1>0. s = [r EXCEPT ![x] = new]
  BY DEF Puts
<1>1. Held(r, o) \in SUBSET DOMAIN r /\ IsFiniteSet(Held(r, o))
  <2>1. Held(r, o) \in SUBSET DOMAIN r
    BY DEF Held
  <2> QED
    BY <2>1, FS_Subset
<1>2. Held(r, o) \ {x} = Held(s, o) \ {x}
  BY <1>0 DEF Held
<1>3. (x \in Held(r, o) <=> r[x] = o) /\ (x \in Held(s, o) <=> new = o)
  BY <1>0 DEF Held
<1> DEFINE A == Held(r, o)
           B == Held(s, o)
<1> HIDE DEF A, B
<1>4. /\ Cardinality(A) \in Nat /\ Cardinality(B) \in Nat
      /\ Cardinality(B) + (IF x \in A THEN 1 ELSE 0)
           = Cardinality(A) + (IF x \in B THEN 1 ELSE 0)
  <2>1. IsFiniteSet(A) /\ A \ {x} = B \ {x}
    BY <1>1, <1>2 DEF A, B
  <2> QED
    BY <2>1, CountsDiffer
<1> QED
  BY <1>3, <1>4 DEF A, B

\* The entries of objects in S that point to o.
Pointers(h, S, o) == {e \in S \X Index : h[e[1]].entries[e[2]] = o}

LEMMA PointersCounted ==
  ASSUME NEW h, NEW S, IsFiniteSet(S), NEW o
  PROVE  /\ IsFiniteSet(Pointers(h, S, o))
         /\ PointersFrom(h, S, o) = Cardinality(Pointers(h, S, o))
         /\ PointersFrom(h, S, o) \in Nat
<1>1. IsFiniteSet(S \X Index)
  BY SizesAssumption, FS_Product
<1>2. Pointers(h, S, o) \in SUBSET (S \X Index)
  BY DEF Pointers
<1>3. IsFiniteSet(Pointers(h, S, o))
  BY <1>1, <1>2, FS_Subset
<1> QED
  BY <1>3, FS_CardinalityType DEF Pointers, PointersFrom

LEMMA PointersGrow ==
  ASSUME NEW h, NEW S, IsFiniteSet(S), NEW o, NEW g, NEW T, IsFiniteSet(T),
         \A a \in S, i \in Index :
           h[a].entries[i] = o => a \in T /\ g[a].entries[i] = o
  PROVE  PointersFrom(h, S, o) <= PointersFrom(g, T, o)
<1>1. Pointers(h, S, o) \in SUBSET Pointers(g, T, o)
  BY DEF Pointers
<1> QED
  BY <1>1, PointersCounted, FS_Subset

\* The objects of S have the same entries in g as in h.
SameEntries(h, g, S) == \A a \in S : g[a].entries = h[a].entries

LEMMA PointersSame ==
  ASSUME NEW h, NEW g, NEW S, NEW o, SameEntries(h, g, S)
  PROVE  PointersFrom(h, S, o) = PointersFrom(g, S, o)
<1>1. Pointers(h, S, o) = Pointers(g, S, o)
  BY DEF Pointers, SameEntries
<1> QED
  BY <1>1 DEF Pointers, PointersFrom

LEMMA NoPointers ==
  ASSUME NEW h, NEW S, IsFiniteSet(S), NEW o
  PROVE  PointersFrom(h, S, o) = 0 <=> \A a \in S, i \in Index : h[a].entries[i] # o
<1>1. Pointers(h, S, o) = {} <=> \A a \in S, i \in Index : h[a].entries[i] # o
  <2>1. \A a \in S, i \in Index :
          <<a, i>> \in Pointers(h, S, o) <=> h[a].entries[i] = o
    BY DEF Pointers
  <2>2. \A e \in Pointers(h, S, o) :
          \E a \in S, i \in Index : e = <<a, i>>
    BY DEF Pointers
  <2>3. ASSUME Pointers(h, S, o) = {}, NEW a \in S, NEW i \in Index
        PROVE  h[a].entries[i] # o
    BY <2>1, <2>3
  <2>4. ASSUME \A a \in S, i \in Index : h[a].entries[i] # o
        PROVE  Pointers(h, S, o) = {}
    <3> SUFFICES ASSUME NEW e \in Pointers(h, S, o) PROVE FALSE
      OBVIOUS
    <3>1. PICK a \in S, i \in Index : e = <<a, i>>
      BY <2>2
    <3> QED
      BY <2>1, <2>4, <3>1
  <2> QED
    BY <2>3, <2>4
<1> QED
  BY <1>1, PointersCounted, FS_EmptySet

LEMMA PointersSplit ==
  ASSUME NEW h, NEW S, IsFiniteSet(S), NEW T \in SUBSET S, NEW o
  PROVE  PointersFrom(h, S, o) = PointersFrom(h, T, o) + PointersFrom(h, S \ T, o)
<1>1. IsFiniteSet(T) /\ IsFiniteSet(S \ T)
  BY FS_Subset
<1> DEFINE A == Pointers(h, T, o)
           B == Pointers(h, S \ T, o)
<1>2. Pointers(h, S, o) = A \union B /\ A \cap B = {}
  BY DEF Pointers
<1>3. IsFiniteSet(A) /\ IsFiniteSet(B)
  BY <1>1, PointersCounted
<1>4. Cardinality(A \cap B) = 0
  BY <1>2, FS_EmptySet
<1>5. Cardinality(A \union B) = Cardinality(A) + Cardinality(B) - Cardinality(A \cap B)
  <2> HIDE DEF A, B
  <2> QED
    BY <1>3, FS_Union
<1>6. /\ PointersFrom(h, S, o) = Cardinality(A \union B)
      /\ PointersFrom(h, T, o) = Cardinality(A) /\ PointersFrom(h, T, o) \in Nat
      /\ PointersFrom(h, S \ T, o) = Cardinality(B) /\ PointersFrom(h, S \ T, o) \in Nat
  BY <1>1, <1>2, PointersCounted
<1> HIDE DEF A, B
<1> QED
  BY <1>4, <1>5, <1>6

\* The entries of a single object.
LEMMA PointersOfOne ==
  ASSUME NEW h, NEW a, NEW o
  PROVE  PointersFrom(h, {a}, o) = Times(h, a, o)
<1> DEFINE A == {i \in Index : h[a].entries[i] = o}
           B == Pointers(h, {a}, o)
           f == [i \in A |-> <<a, i>>]
<1>1. IsFiniteSet(A)
  <2>1. A \in SUBSET Index
    OBVIOUS
  <2> HIDE DEF A
  <2> QED
    BY <2>1, SizesAssumption, FS_Subset
<1>2. f \in Bijection(A, B)
  <2>1. \A i \in A : f[i] \in B
    BY DEF Pointers
  <2>2. \A i, j \in A : f[i] = f[j] => i = j
    OBVIOUS
  <2>3. \A e \in B : e[2] \in A /\ f[e[2]] = e
    BY DEF Pointers
  <2>4. f \in [A -> B]
    BY <2>1
  <2> HIDE DEF A, B, f
  <2>5. f \in Injection(A, B)
    BY <2>2, <2>4 DEF Injection, IsInjective
  <2>6. f \in Surjection(A, B)
    BY <2>3, <2>4 DEF Surjection
  <2> QED
    BY <2>5, <2>6 DEF Bijection
<1>3. Cardinality(B) = Cardinality(A)
  <2> HIDE DEF A, B, f
  <2> QED
    BY <1>1, <1>2, FS_Bijection DEF ExistsBijection
<1> QED
  BY <1>3 DEF Pointers, PointersFrom, Times

\* One entry is changed.
LEMMA PointersMoved ==
  ASSUME NEW h, NEW g, NEW S, IsFiniteSet(S), NEW a \in S, NEW i \in Index, NEW o,
         \A b \in S, j \in Index :
           <<b, j>> # <<a, i>> => g[b].entries[j] = h[b].entries[j]
  PROVE  PointersFrom(g, S, o) + (IF h[a].entries[i] = o THEN 1 ELSE 0)
           = PointersFrom(h, S, o) + (IF g[a].entries[i] = o THEN 1 ELSE 0)
<1> DEFINE e == <<a, i>>
<1>1. Pointers(h, S, o) \ {e} = Pointers(g, S, o) \ {e}
  BY DEF Pointers
<1>2. /\ e \in Pointers(h, S, o) <=> h[a].entries[i] = o
      /\ e \in Pointers(g, S, o) <=> g[a].entries[i] = o
  BY DEF Pointers
<1> HIDE DEF e
<1> QED
  BY <1>1, <1>2, PointersCounted, CountsDiffer

\* How many entries of o are in use.
UsedEntries(h, o) == Cardinality({i \in Index : h[o].entries[i] # NULL})

\* All entries of o but the entry i are in g as in h.
EntriesBut(h, g, o, i) == \A j \in Index \ {i} : g[o].entries[j] = h[o].entries[j]

LEMMA UsedMoved ==
  ASSUME NEW h, NEW g, NEW o, NEW i \in Index, EntriesBut(h, g, o, i)
  PROVE  /\ UsedEntries(h, o) \in Nat /\ UsedEntries(g, o) \in Nat
         /\ UsedEntries(g, o) + (IF h[o].entries[i] # NULL THEN 1 ELSE 0)
              = UsedEntries(h, o) + (IF g[o].entries[i] # NULL THEN 1 ELSE 0)
<1> DEFINE A == {j \in Index : h[o].entries[j] # NULL}
           B == {j \in Index : g[o].entries[j] # NULL}
<1>1. A \ {i} = B \ {i}
  BY DEF EntriesBut
<1>2. IsFiniteSet(A)
  <2>1. A \in SUBSET Index
    OBVIOUS
  <2> HIDE DEF A
  <2> QED
    BY <2>1, SizesAssumption, FS_Subset
<1>3. (i \in A <=> h[o].entries[i] # NULL) /\ (i \in B <=> g[o].entries[i] # NULL)
  OBVIOUS
<1>4. UsedEntries(h, o) = Cardinality(A) /\ UsedEntries(g, o) = Cardinality(B)
  BY DEF UsedEntries
<1> HIDE DEF A, B
<1> QED
  BY <1>1, <1>2, <1>3, <1>4, CountsDiffer

-----------------------------------------------------------------------------
(* Heaps in which every pointer is counted.  The pointers into heap h are the *)
(* entries of its objects and what the places of r hold: the roots of the     *)
(* tables, and in the middle of an operation the pointer that it has in hand. *)

ObjectOver(D) ==
  [level : 0 .. Levels, refs : Nat \ {0}, active : Nat,
   entries : [Index -> D \union {NULL}], frame : Frame \union {NoFrame}]

Typed(h, r) ==
  /\ IsFiniteSet(DOMAIN h) /\ DOMAIN h \in SUBSET Object
  /\ h \in [DOMAIN h -> ObjectOver(DOMAIN h)]
  /\ IsFiniteSet(DOMAIN r)
  /\ r \in [DOMAIN r -> DOMAIN h \union {NULL}]

Counted(h, r) ==
  \A o \in DOMAIN h :
    /\ h[o].refs = Cardinality(Held(r, o)) + PointersFrom(h, DOMAIN h, o)
    /\ h[o].active = UsedEntries(h, o)

\* The children of an object are one level down, and only leaves have a frame.
Layered(h) ==
  \A o \in DOMAIN h :
    /\ \A i \in Index : h[o].entries[i] # NULL =>
         h[h[o].entries[i]].level = h[o].level + 1
    /\ h[o].level # Levels => h[o].frame = NoFrame

Sound(h, r) == Typed(h, r) /\ Counted(h, r) /\ Layered(h)

\* What a typed heap is made of.
Formed(h, o) ==
  /\ h[o] = [level |-> h[o].level, refs |-> h[o].refs, active |-> h[o].active,
             entries |-> h[o].entries, frame |-> h[o].frame]
  /\ h[o].level \in 0 .. Levels
  /\ h[o].refs \in Nat /\ h[o].refs > 0
  /\ h[o].active \in Nat
  /\ h[o].entries = [i \in Index |-> h[o].entries[i]]
  /\ \A i \in Index : h[o].entries[i] \in DOMAIN h \union {NULL}
  /\ h[o].frame \in Frame \union {NoFrame}

LEMMA FormedIsTyped ==
  ASSUME NEW h, NEW o
  PROVE  h[o] \in ObjectOver(DOMAIN h) <=> Formed(h, o)
<1>1. ASSUME Formed(h, o) PROVE h[o] \in ObjectOver(DOMAIN h)
  <2>1. h[o].entries \in [Index -> DOMAIN h \union {NULL}]
    BY <1>1 DEF Formed
  <2>2. h[o].refs \in Nat \ {0}
    BY <1>1 DEF Formed
  <2>3. /\ h[o] = [level |-> h[o].level, refs |-> h[o].refs, active |-> h[o].active,
                   entries |-> h[o].entries, frame |-> h[o].frame]
        /\ h[o].level \in 0 .. Levels /\ h[o].active \in Nat
        /\ h[o].frame \in Frame \union {NoFrame}
    BY <1>1 DEF Formed
  <2> QED
    BY <2>1, <2>2, <2>3 DEF ObjectOver
<1>2. ASSUME h[o] \in ObjectOver(DOMAIN h) PROVE Formed(h, o)
  BY <1>2 DEF ObjectOver, Formed
<1> QED
  BY <1>1, <1>2

LEMMA TypedFacts ==
  ASSUME NEW h, NEW r
  PROVE  Typed(h, r) <=>
           /\ IsFiniteSet(DOMAIN h) /\ DOMAIN h \in SUBSET Nat /\ NULL \notin DOMAIN h
           /\ h = [o \in DOMAIN h |-> h[o]]
           /\ IsFiniteSet(DOMAIN r)
           /\ r = [x \in DOMAIN r |-> r[x]]
           /\ \A x \in DOMAIN r : r[x] \in DOMAIN h \union {NULL}
           /\ \A o \in DOMAIN h : Formed(h, o)
<1>1. (h \in [DOMAIN h -> ObjectOver(DOMAIN h)])
        <=> (h = [o \in DOMAIN h |-> h[o]] /\ \A o \in DOMAIN h : Formed(h, o))
  BY FormedIsTyped
<1>2. (r \in [DOMAIN r -> DOMAIN h \union {NULL}])
        <=> (r = [x \in DOMAIN r |-> r[x]]
               /\ \A x \in DOMAIN r : r[x] \in DOMAIN h \union {NULL})
  OBVIOUS
<1>3. (DOMAIN h \in SUBSET Object)
        <=> (DOMAIN h \in SUBSET Nat /\ NULL \notin DOMAIN h)
  BY DEF Object
<1> QED
  BY <1>1, <1>2, <1>3 DEF Typed

\* calloc gives out an object that is not in use.
LEMMA FreshIsNew ==
  ASSUME NEW h, IsFiniteSet(DOMAIN h)
  PROVE  Fresh(h) \in Nat \ {NULL} /\ Fresh(h) \notin DOMAIN h
<1> DEFINE n == Cardinality(DOMAIN h)
           S == 1 .. n + 1
<1>1. n \in Nat
  BY FS_CardinalityType
<1>2. Cardinality(S) = n + 1
  <2> HIDE DEF n
  <2>1. ~(1 > n + 1) /\ n + 1 \in Int
    BY <1>1
  <2> QED
    BY <1>1, <2>1, FS_Interval
<1>3. \E o \in S : o \notin DOMAIN h
  <2> SUFFICES ASSUME S \in SUBSET DOMAIN h PROVE FALSE
    OBVIOUS
  <2>1. Cardinality(S) <= n
    <3> HIDE DEF S
    <3> QED
      BY FS_Subset
  <2> HIDE DEF n, S
  <2> QED
    BY <1>1, <1>2, <2>1
<1>4. Fresh(h) \in S /\ Fresh(h) \notin DOMAIN h
  BY <1>3 DEF Fresh
<1>5. \A o \in S : o \in Nat /\ o # 0
  BY <1>1
<1> QED
  BY <1>4, <1>5 DEF NULL

\* An object to which there is no pointer joins the heap: nothing else changes.
LEMMA PointersWithObject ==
  ASSUME NEW h, NEW r, Typed(h, r), NEW new, new \notin DOMAIN h,
         NEW g, DOMAIN g = DOMAIN h \union {new},
         SameEntries(h, g, DOMAIN h), NEW x
  PROVE  PointersFrom(g, DOMAIN g, x)
           = PointersFrom(h, DOMAIN h, x) + Times(g, new, x)
<1>1. IsFiniteSet(DOMAIN g)
  BY TypedFacts, FS_AddElement
<1>2. DOMAIN h \in SUBSET DOMAIN g /\ DOMAIN g \ DOMAIN h = {new}
  OBVIOUS
<1>3. PointersFrom(g, DOMAIN g, x)
        = PointersFrom(g, DOMAIN h, x) + PointersFrom(g, {new}, x)
  BY <1>1, <1>2, PointersSplit
<1>4. PointersFrom(g, DOMAIN h, x) = PointersFrom(h, DOMAIN h, x)
  BY PointersSame
<1> QED
  BY <1>3, <1>4, PointersOfOne

LEMMA NoPointersToStrangers ==
  ASSUME NEW h, NEW r, Typed(h, r), NEW x, x \notin DOMAIN h \union {NULL}
  PROVE  /\ PointersFrom(h, DOMAIN h, x) = 0
         /\ Held(r, x) = {} /\ Cardinality(Held(r, x)) = 0
         /\ \A o \in DOMAIN h : Times(h, o, x) = 0
<1>1. ASSUME NEW a \in DOMAIN h, NEW i \in Index PROVE h[a].entries[i] # x
  <2>1. Formed(h, a)
    BY TypedFacts
  <2> QED
    BY <2>1 DEF Formed
<1>2. Held(r, x) = {}
  BY TypedFacts DEF Held
<1>3. ASSUME NEW o \in DOMAIN h PROVE Times(h, o, x) = 0
  <2>1. {i \in Index : h[o].entries[i] = x} = {}
    BY <1>1
  <2> QED
    BY <2>1, FS_EmptySet DEF Times
<1>4. PointersFrom(h, DOMAIN h, x) = 0
  BY <1>1, TypedFacts, NoPointers
<1> QED
  BY <1>2, <1>3, <1>4, FS_EmptySet

LEMMA UsedSame ==
  ASSUME NEW h, NEW o, NEW g, NEW p, h[o].entries = g[p].entries
  PROVE  UsedEntries(h, o) = UsedEntries(g, p)
BY DEF UsedEntries

-----------------------------------------------------------------------------
(* What the operations on the heap do to it. *)

\* The heap g is h with a new object.
WithNew(h, g, new, level) ==
  /\ DOMAIN g = DOMAIN h \union {new}
  /\ g = [o \in DOMAIN g |-> g[o]]
  /\ \A o \in DOMAIN h : g[o] = h[o]
  /\ g[new] = NewObject(level)
  /\ \A i \in Index : g[new].entries[i] = NULL
  /\ g[new].frame = NoFrame /\ g[new].level = level

LEMMA NewObjectFacts ==
  ASSUME NEW h, IsFiniteSet(DOMAIN h), NEW level
  PROVE  WithNew(h, Added(h, NewObject(level)), Fresh(h), level)
<1>1. Fresh(h) \notin DOMAIN h
  BY FreshIsNew
<1> QED
  BY <1>1 DEF WithNew, Added, NewObject

\* A new object in place x.
LEMMA AddedSound ==
  ASSUME NEW h, NEW r, Sound(h, r), NEW x \in DOMAIN r, r[x] = NULL,
         NEW level \in 0 .. Levels
  PROVE  Sound(Added(h, NewObject(level)), [r EXCEPT ![x] = Fresh(h)])
<1> DEFINE g == Added(h, NewObject(level))
           new == Fresh(h)
           s == [r EXCEPT ![x] = new]
<1>1. /\ IsFiniteSet(DOMAIN h) /\ DOMAIN h \in SUBSET Nat /\ NULL \notin DOMAIN h
      /\ IsFiniteSet(DOMAIN r) /\ Typed(h, r)
      /\ \A y \in DOMAIN r : r[y] \in DOMAIN h \union {NULL}
      /\ \A o \in DOMAIN h : Formed(h, o)
  BY TypedFacts DEF Sound
<1>2. new \in Nat /\ new # NULL /\ new \notin DOMAIN h
  BY <1>1, FreshIsNew
<1>3. /\ DOMAIN g = DOMAIN h \union {new}
      /\ g = [o \in DOMAIN g |-> g[o]]
      /\ \A o \in DOMAIN h : g[o] = h[o]
      /\ g[new] = NewObject(level)
      /\ \A i \in Index : g[new].entries[i] = NULL
      /\ g[new].frame = NoFrame /\ g[new].level = level
  BY <1>1, NewObjectFacts DEF WithNew
<1>4. /\ DOMAIN s = DOMAIN r /\ s = [y \in DOMAIN s |-> s[y]]
      /\ s[x] = new /\ \A y \in DOMAIN r \ {x} : s[y] = r[y]
  OBVIOUS
<1> HIDE DEF g, new, s
<1>5. Formed(g, new)
  BY <1>3, SizesAssumption DEF Formed, NewObject
<1>6. \A o \in DOMAIN h : Formed(g, o)
  BY <1>1, <1>3 DEF Formed
<1>7. IsFiniteSet(DOMAIN g) /\ DOMAIN g \in SUBSET Nat /\ NULL \notin DOMAIN g
  BY <1>1, <1>2, <1>3, FS_AddElement
<1>8. \A y \in DOMAIN s : s[y] \in DOMAIN g \union {NULL}
  BY <1>1, <1>3, <1>4
<1>9. \A o \in DOMAIN g : Formed(g, o)
  BY <1>3, <1>5, <1>6
<1>10. Typed(g, s)
  BY <1>1, <1>3, <1>4, <1>7, <1>8, <1>9, TypedFacts
<1>11. \A o \in DOMAIN g : Times(g, new, o) = 0
  <2> TAKE o \in DOMAIN g
  <2>1. {i \in Index : g[new].entries[i] = o} = {}
    BY <1>3, <1>7
  <2> QED
    BY <2>1, FS_EmptySet DEF Times
<1>12. \A o \in DOMAIN h : Held(s, o) = Held(r, o)
  BY <1>1, <1>2, <1>4 DEF Held
<1>13. Held(s, new) = {x}
  BY <1>1, <1>2, <1>4 DEF Held
<1>14. \A o \in DOMAIN g :
         PointersFrom(g, DOMAIN g, o) = PointersFrom(h, DOMAIN h, o) + Times(g, new, o)
  <2>1. SameEntries(h, g, DOMAIN h)
    BY <1>3 DEF SameEntries
  <2>2. Typed(h, r) /\ new \notin DOMAIN h /\ DOMAIN g = DOMAIN h \union {new}
    BY <1>1, <1>2, <1>3
  <2> QED
    BY <2>1, <2>2, PointersWithObject
<1>15. \A o : PointersFrom(h, DOMAIN h, o) \in Nat
  BY <1>1, PointersCounted
<1>16. ASSUME NEW o \in DOMAIN g
       PROVE  /\ g[o].refs = Cardinality(Held(s, o)) + PointersFrom(g, DOMAIN g, o)
              /\ g[o].active = UsedEntries(g, o)
  <2>1. PointersFrom(g, DOMAIN g, o) = PointersFrom(h, DOMAIN h, o)
    BY <1>11, <1>14, <1>15
  <2>2. CASE o \in DOMAIN h
    <3>1. UsedEntries(g, o) = UsedEntries(h, o) /\ g[o] = h[o] /\ Held(s, o) = Held(r, o)
      BY <1>3, <1>12, <2>2, UsedSame
    <3> QED
      BY <2>1, <2>2, <3>1 DEF Sound, Counted
  <2>3. CASE o = new
    <3>1. PointersFrom(h, DOMAIN h, o) = 0
      BY <1>1, <1>2, <2>3, NoPointersToStrangers
    <3>2. Cardinality(Held(s, o)) = 1
      BY <1>13, <2>3, FS_Singleton
    <3>3. UsedEntries(g, o) = 0
      <4>1. {i \in Index : g[new].entries[i] # NULL} = {}
        BY <1>3
      <4> QED
        BY <2>3, <4>1, FS_EmptySet DEF UsedEntries
    <3> QED
      BY <1>3, <2>1, <2>3, <3>1, <3>2, <3>3 DEF NewObject
  <2> QED
    BY <1>3, <2>2, <2>3
<1>17. Layered(g)
  <2>1. ASSUME NEW o \in DOMAIN h
        PROVE  /\ \A i \in Index : g[o].entries[i] # NULL =>
                     g[g[o].entries[i]].level = g[o].level + 1
               /\ g[o].level # Levels => g[o].frame = NoFrame
    <3>1. \A i \in Index : h[o].entries[i] # NULL =>
            /\ h[o].entries[i] \in DOMAIN h
            /\ h[h[o].entries[i]].level = h[o].level + 1
      BY <1>1 DEF Sound, Layered, Formed
    <3>2. h[o].level # Levels => h[o].frame = NoFrame
      BY DEF Sound, Layered
    <3> QED
      BY <1>3, <3>1, <3>2
  <2> QED
    BY <1>3, <2>1 DEF Layered
<1>18. Sound(g, s)
  BY <1>10, <1>16, <1>17 DEF Sound, Counted
<1> QED
  BY <1>18 DEF g, s, new

\* A change of the count of an object.
LEMMA RefsChanged ==
  ASSUME NEW p, NEW n,
         p = [level |-> p.level, refs |-> p.refs, active |-> p.active,
              entries |-> p.entries, frame |-> p.frame],
         NEW q, q = [p EXCEPT !.refs = n]
  PROVE  /\ q.level = p.level /\ q.active = p.active /\ q.entries = p.entries
         /\ q.frame = p.frame /\ q.refs = n
         /\ q = [level |-> q.level, refs |-> q.refs, active |-> q.active,
                 entries |-> q.entries, frame |-> q.frame]
OBVIOUS

LEMMA CloneFacts ==
  ASSUME NEW h, NEW r, Typed(h, r), NEW o \in DOMAIN h
  PROVE  LET g == Clone(h, o)
             new == Fresh(h)
         IN  /\ DOMAIN g = DOMAIN h \union {new}
             /\ g = [x \in DOMAIN g |-> g[x]]
             /\ \A x \in DOMAIN h : g[x] = [h[x] EXCEPT !.refs = @ + Times(h, o, x)]
             /\ g[new] = [h[o] EXCEPT !.refs = 1]
<1>1. Fresh(h) \notin DOMAIN h
  BY FreshIsNew, TypedFacts
<1> QED
  BY <1>1 DEF Clone

LEMMA PointersWithClone ==
  ASSUME NEW h, NEW r, Typed(h, r), NEW o \in DOMAIN h,
         SameEntries(h, Clone(h, o), DOMAIN h)
  PROVE  \A y : PointersFrom(Clone(h, o), DOMAIN Clone(h, o), y)
                 = PointersFrom(h, DOMAIN h, y) + Times(Clone(h, o), Fresh(h), y)
<1>1. DOMAIN Clone(h, o) = DOMAIN h \union {Fresh(h)} /\ Fresh(h) \notin DOMAIN h
  BY CloneFacts, FreshIsNew, TypedFacts
<1> QED
  BY <1>1, PointersWithObject

LEMMA TimesType == ASSUME NEW h, NEW o, NEW x PROVE Times(h, o, x) \in Nat
<1>1. {i \in Index : h[o].entries[i] = x} \in SUBSET Index
  OBVIOUS
<1> QED
  BY <1>1, SizesAssumption, FS_Subset, FS_CardinalityType DEF Times

\* A copy of o in place x.
LEMMA ClonedSound ==
  ASSUME NEW h, NEW r, Sound(h, r), NEW x \in DOMAIN r, r[x] = NULL,
         NEW o \in DOMAIN h
  PROVE  Sound(Clone(h, o), [r EXCEPT ![x] = Fresh(h)])
<1> DEFINE g == Clone(h, o)
           new == Fresh(h)
           s == [r EXCEPT ![x] = new]
<1>1. /\ IsFiniteSet(DOMAIN h) /\ DOMAIN h \in SUBSET Nat /\ NULL \notin DOMAIN h
      /\ IsFiniteSet(DOMAIN r) /\ Typed(h, r)
      /\ \A y \in DOMAIN r : r[y] \in DOMAIN h \union {NULL}
      /\ \A y \in DOMAIN h : Formed(h, y)
  BY TypedFacts DEF Sound
<1>2. new \in Nat /\ new # NULL /\ new \notin DOMAIN h
  BY <1>1, FreshIsNew
<1>3. /\ DOMAIN g = DOMAIN h \union {new}
      /\ g = [y \in DOMAIN g |-> g[y]]
      /\ \A y \in DOMAIN h : g[y] = [h[y] EXCEPT !.refs = @ + Times(h, o, y)]
      /\ g[new] = [h[o] EXCEPT !.refs = 1]
  BY <1>1, CloneFacts
<1>4. /\ DOMAIN s = DOMAIN r /\ s = [y \in DOMAIN s |-> s[y]]
      /\ s[x] = new /\ \A y \in DOMAIN r \ {x} : s[y] = r[y]
  OBVIOUS
<1> HIDE DEF g, new, s
<1>5. ASSUME NEW y \in DOMAIN h
      PROVE  /\ g[y].level = h[y].level /\ g[y].active = h[y].active
             /\ g[y].entries = h[y].entries /\ g[y].frame = h[y].frame
             /\ g[y].refs = h[y].refs + Times(h, o, y)
             /\ g[y] = [level |-> g[y].level, refs |-> g[y].refs,
                        active |-> g[y].active, entries |-> g[y].entries,
                        frame |-> g[y].frame]
  <2>1. g[y] = [h[y] EXCEPT !.refs = h[y].refs + Times(h, o, y)]
    BY <1>3
  <2>2. h[y] = [level |-> h[y].level, refs |-> h[y].refs, active |-> h[y].active,
                entries |-> h[y].entries, frame |-> h[y].frame]
    BY <1>1 DEF Formed
  <2> QED
    BY <2>1, <2>2, RefsChanged
<1>6. /\ g[new].level = h[o].level /\ g[new].active = h[o].active
      /\ g[new].entries = h[o].entries /\ g[new].frame = h[o].frame
      /\ g[new].refs = 1
      /\ g[new] = [level |-> g[new].level, refs |-> g[new].refs,
                   active |-> g[new].active, entries |-> g[new].entries,
                   frame |-> g[new].frame]
  BY <1>1, <1>3 DEF Formed
<1>7. ASSUME NEW y \in DOMAIN g PROVE Formed(g, y)
  <2>1. CASE y \in DOMAIN h
    <3>1. g[y].refs \in Nat /\ g[y].refs > 0
      <4>1. g[y].refs = h[y].refs + Times(h, o, y)
        BY <1>5, <2>1
      <4>2. h[y].refs \in Nat /\ h[y].refs > 0
        BY <1>1, <2>1 DEF Formed
      <4>3. Times(h, o, y) \in Nat
        BY TimesType
      <4> QED
        BY <4>1, <4>2, <4>3
    <3>2. /\ h[y].level \in 0 .. Levels /\ h[y].active \in Nat
          /\ h[y].entries = [i \in Index |-> h[y].entries[i]]
          /\ \A i \in Index : h[y].entries[i] \in DOMAIN h \union {NULL}
          /\ h[y].frame \in Frame \union {NoFrame}
      BY <1>1, <2>1 DEF Formed
    <3> QED
      BY <1>3, <1>5, <2>1, <3>1, <3>2 DEF Formed
  <2>2. CASE y = new
    <3>1. /\ h[o].level \in 0 .. Levels /\ h[o].active \in Nat
          /\ h[o].entries = [i \in Index |-> h[o].entries[i]]
          /\ \A i \in Index : h[o].entries[i] \in DOMAIN h \union {NULL}
          /\ h[o].frame \in Frame \union {NoFrame}
      BY <1>1 DEF Formed
    <3> QED
      BY <1>3, <1>6, <2>2, <3>1 DEF Formed
  <2> QED
    BY <1>3, <2>1, <2>2
<1>8. IsFiniteSet(DOMAIN g) /\ DOMAIN g \in SUBSET Nat /\ NULL \notin DOMAIN g
  BY <1>1, <1>2, <1>3, FS_AddElement
<1>9. \A y \in DOMAIN s : s[y] \in DOMAIN g \union {NULL}
  BY <1>1, <1>3, <1>4
<1>10. Typed(g, s)
  BY <1>1, <1>3, <1>4, <1>7, <1>8, <1>9, TypedFacts
<1>11. \A y \in DOMAIN h : Held(s, y) = Held(r, y)
  BY <1>1, <1>2, <1>4 DEF Held
<1>12. Held(s, new) = {x}
  BY <1>1, <1>2, <1>4 DEF Held
<1>13. \A y : PointersFrom(h, DOMAIN h, y) \in Nat
  BY <1>1, PointersCounted
<1>14. ASSUME NEW y \in DOMAIN g
       PROVE  PointersFrom(g, DOMAIN g, y)
                = PointersFrom(h, DOMAIN h, y) + Times(h, o, y)
  <2>1. PointersFrom(g, DOMAIN g, y)
          = PointersFrom(h, DOMAIN h, y) + Times(g, new, y)
    <3>1. SameEntries(h, g, DOMAIN h)
      BY <1>5 DEF SameEntries
    <3>2. Typed(h, r)
      BY <1>1
    <3> QED
      BY <3>1, <3>2, PointersWithClone DEF g, new
  <2>2. Times(g, new, y) = Times(h, o, y)
    BY <1>6 DEF Times
  <2> QED
    BY <2>1, <2>2
<1>15. ASSUME NEW y \in DOMAIN g
       PROVE  /\ g[y].refs = Cardinality(Held(s, y)) + PointersFrom(g, DOMAIN g, y)
              /\ g[y].active = UsedEntries(g, y)
  <2>1. CASE y \in DOMAIN h
    <3>1. UsedEntries(g, y) = UsedEntries(h, y) /\ Held(s, y) = Held(r, y)
      <4>1. g[y].entries = h[y].entries
        BY <1>5, <2>1
      <4> QED
        BY <1>11, <2>1, <4>1, UsedSame
    <3>2. /\ h[y].refs = Cardinality(Held(r, y)) + PointersFrom(h, DOMAIN h, y)
          /\ h[y].active = UsedEntries(h, y)
      BY <2>1 DEF Sound, Counted
    <3>3. Cardinality(Held(r, y)) \in Nat
      <4>1. Held(r, y) \in SUBSET DOMAIN r
        BY DEF Held
      <4> QED
        BY <1>1, <4>1, FS_Subset, FS_CardinalityType
    <3>4. g[y].refs = h[y].refs + Times(h, o, y) /\ g[y].active = h[y].active
      BY <1>5, <2>1
    <3>5. Times(h, o, y) \in Nat /\ PointersFrom(h, DOMAIN h, y) \in Nat
      BY <1>13, TimesType
    <3> QED
      BY <1>14, <3>1, <3>2, <3>3, <3>4, <3>5
  <2>2. CASE y = new
    <3>1. PointersFrom(h, DOMAIN h, y) = 0 /\ Times(h, o, y) = 0
      BY <1>1, <1>2, <2>2, NoPointersToStrangers
    <3>2. Cardinality(Held(s, y)) = 1
      BY <1>12, <2>2, FS_Singleton
    <3>3. UsedEntries(g, y) = UsedEntries(h, o) /\ h[o].active = UsedEntries(h, o)
      BY <1>6, <2>2, UsedSame DEF Sound, Counted
    <3> QED
      BY <1>6, <1>14, <2>2, <3>1, <3>2, <3>3
  <2> QED
    BY <1>3, <2>1, <2>2
<1>16. Layered(g)
  <2>1. ASSUME NEW y \in DOMAIN h
        PROVE  /\ \A i \in Index : h[y].entries[i] # NULL =>
                     g[h[y].entries[i]].level = h[y].level + 1
               /\ h[y].level # Levels => h[y].frame = NoFrame
    <3>1. \A i \in Index : h[y].entries[i] # NULL =>
            /\ h[y].entries[i] \in DOMAIN h
            /\ h[h[y].entries[i]].level = h[y].level + 1
      BY <1>1 DEF Sound, Layered, Formed
    <3>2. h[y].level # Levels => h[y].frame = NoFrame
      BY DEF Sound, Layered
    <3> QED
      BY <1>5, <3>1, <3>2
  <2> QED
    BY <1>3, <1>5, <1>6, <2>1 DEF Layered
<1>17. Sound(g, s)
  BY <1>10, <1>15, <1>16 DEF Sound, Counted
<1> QED
  BY <1>17 DEF g, s, new

\* The entry i of o is changed to new, and o counts its entries in use.
Placed(h, g, o, i, new) ==
  /\ DOMAIN g = DOMAIN h /\ g = [y \in DOMAIN g |-> g[y]]
  /\ \A y \in DOMAIN h \ {o} : g[y] = h[y]
  /\ g[o] = [level |-> h[o].level, refs |-> h[o].refs, active |-> g[o].active,
             entries |-> [h[o].entries EXCEPT ![i] = new], frame |-> h[o].frame]
  /\ g[o].active + (IF h[o].entries[i] # NULL THEN 1 ELSE 0)
       = h[o].active + (IF new # NULL THEN 1 ELSE 0)
  /\ g[o].active \in Int

\* The counts of the heap h in which the places hold r.
LEMMA CountedFacts ==
  ASSUME NEW h, NEW r, Sound(h, r), NEW o \in DOMAIN h
  PROVE  /\ h[o].refs = Cardinality(Held(r, o)) + PointersFrom(h, DOMAIN h, o)
         /\ h[o].active = UsedEntries(h, o)
         /\ Cardinality(Held(r, o)) \in Nat
         /\ PointersFrom(h, DOMAIN h, o) \in Nat
         /\ h[o].refs \in Nat /\ h[o].refs > 0
<1>1. IsFiniteSet(DOMAIN h) /\ IsFiniteSet(DOMAIN r) /\ Formed(h, o)
  BY TypedFacts DEF Sound
<1>2. Held(r, o) \in SUBSET DOMAIN r
  BY DEF Held
<1>3. Cardinality(Held(r, o)) \in Nat
  BY <1>1, <1>2, FS_Subset, FS_CardinalityType
<1>4. PointersFrom(h, DOMAIN h, o) \in Nat
  BY <1>1, PointersCounted
<1>5. h[o].refs \in Nat /\ h[o].refs > 0
  BY <1>1 DEF Formed
<1> QED
  BY <1>3, <1>4, <1>5 DEF Sound, Counted

\* What is in place x and what is in an entry change places.
LEMMA PlacedSound ==
  ASSUME NEW h, NEW r, Sound(h, r), NEW x \in DOMAIN r, NEW o \in DOMAIN h,
         NEW i \in Index, NEW g, Placed(h, g, o, i, r[x]),
         r[x] # NULL => h[r[x]].level = h[o].level + 1
  PROVE  Sound(g, [r EXCEPT ![x] = h[o].entries[i]])
<1> DEFINE old == h[o].entries[i]
           new == r[x]
           s == [r EXCEPT ![x] = old]
<1>1. /\ IsFiniteSet(DOMAIN h) /\ DOMAIN h \in SUBSET Nat /\ NULL \notin DOMAIN h
      /\ IsFiniteSet(DOMAIN r) /\ Typed(h, r)
      /\ \A y \in DOMAIN r : r[y] \in DOMAIN h \union {NULL}
      /\ \A y \in DOMAIN h : Formed(h, y)
  BY TypedFacts DEF Sound
<1>2. /\ h[o].level \in 0 .. Levels
      /\ h[o].refs \in Nat /\ h[o].refs > 0 /\ h[o].active \in Nat
      /\ h[o].entries = [j \in Index |-> h[o].entries[j]]
      /\ \A j \in Index : h[o].entries[j] \in DOMAIN h \union {NULL}
      /\ h[o].frame \in Frame \union {NoFrame}
  BY <1>1 DEF Formed
<1>3. /\ DOMAIN s = DOMAIN r /\ s = [y \in DOMAIN s |-> s[y]]
      /\ s[x] = old /\ \A y \in DOMAIN r \ {x} : s[y] = r[y]
  OBVIOUS
<1>4. /\ DOMAIN g = DOMAIN h /\ g = [y \in DOMAIN g |-> g[y]]
      /\ \A y \in DOMAIN h \ {o} : g[y] = h[y]
      /\ g[o] = [level |-> h[o].level, refs |-> h[o].refs, active |-> g[o].active,
                 entries |-> [h[o].entries EXCEPT ![i] = new], frame |-> h[o].frame]
      /\ g[o].active + (IF old # NULL THEN 1 ELSE 0)
           = h[o].active + (IF new # NULL THEN 1 ELSE 0)
      /\ g[o].active \in Int
  BY DEF Placed
<1>5. /\ g[o].level = h[o].level /\ g[o].refs = h[o].refs /\ g[o].frame = h[o].frame
      /\ g[o].entries = [h[o].entries EXCEPT ![i] = new]
  BY <1>4
<1>6. /\ g[o].entries[i] = new
      /\ \A j \in Index \ {i} : g[o].entries[j] = h[o].entries[j]
      /\ g[o].entries = [j \in Index |-> g[o].entries[j]]
  BY <1>2, <1>5
<1>7. old \in DOMAIN h \union {NULL} /\ new \in DOMAIN h \union {NULL}
  BY <1>1, <1>2
<1>8. \A y \in DOMAIN s : s[y] \in DOMAIN g \union {NULL}
  BY <1>1, <1>3, <1>4, <1>7
<1>9. Typed(h, r)
  BY <1>1
<1>10. Puts(r, s, x, old)
  BY DEF Puts
<1> HIDE DEF old, new, s
<1>11. g[o].active = UsedEntries(g, o) /\ g[o].active \in Nat
  <2>1. /\ UsedEntries(h, o) \in Nat /\ UsedEntries(g, o) \in Nat
        /\ UsedEntries(g, o) + (IF h[o].entries[i] # NULL THEN 1 ELSE 0)
             = UsedEntries(h, o) + (IF g[o].entries[i] # NULL THEN 1 ELSE 0)
    <3>1. EntriesBut(h, g, o, i)
      BY <1>6 DEF EntriesBut
    <3> QED
      BY <3>1, UsedMoved
  <2>2. h[o].active = UsedEntries(h, o)
    BY CountedFacts
  <2>3. /\ g[o].active + (IF h[o].entries[i] # NULL THEN 1 ELSE 0)
             = h[o].active + (IF g[o].entries[i] # NULL THEN 1 ELSE 0)
        /\ g[o].active \in Int
    BY <1>4, <1>6 DEF old
  <2> QED
    BY <2>1, <2>2, <2>3
<1>12. Formed(g, o)
  <2>1. \A j \in Index : g[o].entries[j] \in DOMAIN g \union {NULL}
    BY <1>2, <1>4, <1>6, <1>7
  <2>2. g[o] = [level |-> g[o].level, refs |-> g[o].refs, active |-> g[o].active,
                entries |-> g[o].entries, frame |-> g[o].frame]
    BY <1>4, <1>5
  <2> QED
    BY <1>2, <1>5, <1>6, <1>11, <2>1, <2>2 DEF Formed
<1>13. ASSUME NEW y \in DOMAIN g PROVE Formed(g, y)
  <2>1. CASE y # o
    <3>1. Formed(h, y) /\ g[y] = h[y] /\ DOMAIN g = DOMAIN h
      BY <1>1, <1>4, <2>1
    <3> QED
      BY <3>1 DEF Formed
  <2> QED
    BY <1>12, <2>1
<1>14. Typed(g, s)
  <2>1. IsFiniteSet(DOMAIN g) /\ DOMAIN g \in SUBSET Nat /\ NULL \notin DOMAIN g
    BY <1>1, <1>4
  <2>2. g = [y \in DOMAIN g |-> g[y]] /\ IsFiniteSet(DOMAIN s)
    BY <1>1, <1>3, <1>4
  <2> QED
    BY <1>3, <1>8, <1>13, <2>1, <2>2, TypedFacts
<1>15. ASSUME NEW y \in DOMAIN g
       PROVE  /\ g[y].refs = Cardinality(Held(s, y)) + PointersFrom(g, DOMAIN g, y)
              /\ g[y].active = UsedEntries(g, y)
  <2>1. y \in DOMAIN h /\ DOMAIN g = DOMAIN h
    BY <1>4
  <2>2. /\ Cardinality(Held(r, y)) \in Nat /\ Cardinality(Held(s, y)) \in Nat
        /\ Cardinality(Held(s, y)) + (IF r[x] = y THEN 1 ELSE 0)
             = Cardinality(Held(r, y)) + (IF old = y THEN 1 ELSE 0)
    <3>1. IsFiniteSet(DOMAIN r)
      BY <1>1
    <3> QED
      BY <1>10, <3>1, HeldMoved
  <2>3. PointersFrom(g, DOMAIN h, y) + (IF h[o].entries[i] = y THEN 1 ELSE 0)
          = PointersFrom(h, DOMAIN h, y) + (IF g[o].entries[i] = y THEN 1 ELSE 0)
    <3>1. \A b \in DOMAIN h, j \in Index :
            <<b, j>> # <<o, i>> => g[b].entries[j] = h[b].entries[j]
      BY <1>4, <1>6
    <3> QED
      BY <1>1, <3>1, PointersMoved
  <2>4. h[o].entries[i] = old /\ g[o].entries[i] = r[x]
    BY <1>6 DEF old, new
  <2>5. /\ h[y].refs = Cardinality(Held(r, y)) + PointersFrom(h, DOMAIN h, y)
        /\ h[y].active = UsedEntries(h, y)
        /\ PointersFrom(h, DOMAIN h, y) \in Nat
    BY <2>1, CountedFacts
  <2>6. PointersFrom(g, DOMAIN h, y) \in Nat
    BY <1>1, PointersCounted
  <2>7. g[y].refs = h[y].refs
    BY <1>4, <1>5, <2>1
  <2>8. g[y].refs = Cardinality(Held(s, y)) + PointersFrom(g, DOMAIN h, y)
    BY <2>2, <2>3, <2>4, <2>5, <2>6, <2>7
  <2>9. g[y].active = UsedEntries(g, y)
    <3>1. CASE y # o
      <4>1. g[y] = h[y]
        BY <1>4, <2>1, <3>1
      <4> QED
        BY <2>5, <4>1, UsedSame
    <3> QED
      BY <1>11, <3>1
  <2> QED
    BY <2>1, <2>8, <2>9
<1>16. \A y \in DOMAIN g : g[y].level = h[y].level /\ g[y].frame = h[y].frame
  BY <1>4, <1>5
<1>17. Layered(g)
  <2>1. ASSUME NEW y \in DOMAIN g, NEW j \in Index, g[y].entries[j] # NULL
        PROVE  g[g[y].entries[j]].level = g[y].level + 1
    <3>1. CASE <<y, j>> = <<o, i>>
      <4>1. g[y].entries[j] = r[x] /\ r[x] \in DOMAIN g
        BY <1>4, <1>6, <1>7, <2>1, <3>1 DEF new
      <4> QED
        BY <1>4, <1>16, <2>1, <3>1, <4>1
    <3>2. CASE <<y, j>> # <<o, i>>
      <4>1. g[y].entries[j] = h[y].entries[j] /\ y \in DOMAIN h
        BY <1>4, <1>6, <3>2
      <4>2. h[y].entries[j] \in DOMAIN h
        BY <1>1, <2>1, <4>1 DEF Formed
      <4>3. h[h[y].entries[j]].level = h[y].level + 1
        BY <2>1, <4>1 DEF Sound, Layered
      <4> QED
        BY <1>4, <1>16, <4>1, <4>2, <4>3
    <3> QED
      BY <3>1, <3>2
  <2>2. \A y \in DOMAIN g : g[y].level # Levels => g[y].frame = NoFrame
    BY <1>4, <1>16 DEF Sound, Layered
  <2> QED
    BY <2>1, <2>2 DEF Layered
<1>18. Sound(g, s)
  BY <1>14, <1>15, <1>17 DEF Sound, Counted
<1> QED
  BY <1>18 DEF s, old

\* Some objects are left, with other counts.
Recounted(h, g) ==
  /\ DOMAIN g \in SUBSET DOMAIN h
  /\ g = [y \in DOMAIN g |-> g[y]]
  /\ \A y \in DOMAIN g :
       /\ g[y] = [h[y] EXCEPT !.refs = g[y].refs]
       /\ \A i \in Index : h[y].entries[i] \in DOMAIN g \union {NULL}

LEMMA RecountedFacts ==
  ASSUME NEW h, NEW r, Typed(h, r), NEW g, Recounted(h, g), NEW y \in DOMAIN g
  PROVE  /\ g[y].level = h[y].level /\ g[y].active = h[y].active
         /\ g[y].entries = h[y].entries /\ g[y].frame = h[y].frame
         /\ g[y] = [level |-> g[y].level, refs |-> g[y].refs,
                    active |-> g[y].active, entries |-> g[y].entries,
                    frame |-> g[y].frame]
<1>1. y \in DOMAIN h /\ g[y] = [h[y] EXCEPT !.refs = g[y].refs]
  BY DEF Recounted
<1>2. h[y] = [level |-> h[y].level, refs |-> h[y].refs, active |-> h[y].active,
              entries |-> h[y].entries, frame |-> h[y].frame]
  BY <1>1, TypedFacts DEF Formed
<1> QED
  BY <1>1, <1>2, RefsChanged

\* The places hold objects of D.
PlacesIn(s, D) ==
  /\ IsFiniteSet(DOMAIN s) /\ s = [y \in DOMAIN s |-> s[y]]
  /\ \A y \in DOMAIN s : s[y] \in D \union {NULL}

\* The new counts are those of what is left.
CountsWhatIsLeft(h, g, s) ==
  \A y \in DOMAIN g :
    /\ g[y].refs \in Nat /\ g[y].refs > 0
    /\ g[y].refs = Cardinality(Held(s, y)) + PointersFrom(h, DOMAIN g, y)

LEMMA RecountedSound ==
  ASSUME NEW h, NEW r, Sound(h, r), NEW g, Recounted(h, g),
         NEW s, PlacesIn(s, DOMAIN g), CountsWhatIsLeft(h, g, s)
  PROVE  Sound(g, s)
<1>1. /\ IsFiniteSet(DOMAIN h) /\ DOMAIN h \in SUBSET Nat /\ NULL \notin DOMAIN h
      /\ Typed(h, r)
      /\ \A y \in DOMAIN h : Formed(h, y)
  BY TypedFacts DEF Sound
<1>2. DOMAIN g \in SUBSET DOMAIN h /\ g = [y \in DOMAIN g |-> g[y]]
  BY DEF Recounted
<1>3. ASSUME NEW y \in DOMAIN g
      PROVE  /\ g[y].level = h[y].level /\ g[y].active = h[y].active
             /\ g[y].entries = h[y].entries /\ g[y].frame = h[y].frame
             /\ g[y] = [level |-> g[y].level, refs |-> g[y].refs,
                        active |-> g[y].active, entries |-> g[y].entries,
                        frame |-> g[y].frame]
             /\ \A i \in Index : h[y].entries[i] \in DOMAIN g \union {NULL}
  <2>1. \A i \in Index : h[y].entries[i] \in DOMAIN g \union {NULL}
    BY DEF Recounted
  <2>2. Typed(h, r)
    BY <1>1
  <2> QED
    BY <2>1, <2>2, RecountedFacts
<1>4. ASSUME NEW y \in DOMAIN g PROVE Formed(g, y)
  <2>1. Formed(h, y)
    BY <1>1, <1>2
  <2>2. g[y].refs \in Nat /\ g[y].refs > 0
    BY DEF CountsWhatIsLeft
  <2> QED
    BY <1>3, <2>1, <2>2 DEF Formed
<1>5. Typed(g, s)
  <2>1. IsFiniteSet(DOMAIN g)
    BY <1>1, <1>2, FS_Subset
  <2> QED
    BY <1>1, <1>2, <1>4, <2>1, TypedFacts DEF PlacesIn
<1>6. Counted(g, s)
  <2>1. ASSUME NEW y \in DOMAIN g
        PROVE  /\ g[y].refs = Cardinality(Held(s, y)) + PointersFrom(g, DOMAIN g, y)
               /\ g[y].active = UsedEntries(g, y)
    <3>1. SameEntries(h, g, DOMAIN g)
      BY <1>3 DEF SameEntries
    <3>2. PointersFrom(h, DOMAIN g, y) = PointersFrom(g, DOMAIN g, y)
      BY <3>1, PointersSame
    <3>3. g[y].refs = Cardinality(Held(s, y)) + PointersFrom(h, DOMAIN g, y)
      BY DEF CountsWhatIsLeft
    <3>4. g[y].entries = h[y].entries /\ g[y].active = h[y].active /\ y \in DOMAIN h
      BY <1>2, <1>3
    <3>5. h[y].active = UsedEntries(h, y)
      BY <3>4, CountedFacts
    <3>6. UsedEntries(g, y) = UsedEntries(h, y)
      BY <3>4, UsedSame
    <3> QED
      BY <3>2, <3>3, <3>4, <3>5, <3>6
  <2> QED
    BY <2>1 DEF Counted
<1>7. Layered(g)
  <2>1. ASSUME NEW y \in DOMAIN g
        PROVE  /\ \A i \in Index : g[y].entries[i] # NULL =>
                     g[g[y].entries[i]].level = g[y].level + 1
               /\ g[y].level # Levels => g[y].frame = NoFrame
    <3>1. /\ \A i \in Index : h[y].entries[i] # NULL =>
               h[h[y].entries[i]].level = h[y].level + 1
          /\ h[y].level # Levels => h[y].frame = NoFrame
      BY <1>2 DEF Sound, Layered
    <3> QED
      BY <1>3, <3>1
  <2> QED
    BY <2>1 DEF Layered
<1> QED
  BY <1>5, <1>6, <1>7 DEF Sound

\* A count of the heap is changed.
Recounts(h, g, o, n) == g = [h EXCEPT ![o].refs = n]

LEMMA CountChanged ==
  ASSUME NEW h, NEW r, Typed(h, r), NEW o \in DOMAIN h, NEW n,
         NEW g, Recounts(h, g, o, n)
  PROVE  /\ Recounted(h, g) /\ DOMAIN g = DOMAIN h
         /\ g[o].refs = n
         /\ \A y \in DOMAIN h \ {o} : g[y].refs = h[y].refs
<1>1. \A y \in DOMAIN h : Formed(h, y)
  BY TypedFacts
<1>2. ASSUME NEW y \in DOMAIN h
      PROVE  /\ g[y] = [h[y] EXCEPT !.refs = g[y].refs]
             /\ y = o => g[y].refs = n
             /\ y # o => g[y].refs = h[y].refs
  <2>1. h[y] = [level |-> h[y].level, refs |-> h[y].refs, active |-> h[y].active,
                entries |-> h[y].entries, frame |-> h[y].frame]
    BY <1>1 DEF Formed
  <2>2. y = o => g[y] = [h[y] EXCEPT !.refs = n]
    BY DEF Recounts
  <2>3. y # o => g[y] = h[y]
    BY DEF Recounts
  <2> QED
    BY <2>1, <2>2, <2>3
<1>3. \A y \in DOMAIN h, i \in Index : h[y].entries[i] \in DOMAIN h \union {NULL}
  BY <1>1 DEF Formed
<1>4. DOMAIN g = DOMAIN h /\ g = [y \in DOMAIN g |-> g[y]]
  BY TypedFacts DEF Recounts
<1> QED
  BY <1>2, <1>3, <1>4 DEF Recounted

\* One more pointer to o, in place x.
LEMMA RetainedSound ==
  ASSUME NEW h, NEW r, Sound(h, r), NEW x \in DOMAIN r, r[x] = NULL,
         NEW o \in DOMAIN h
  PROVE  Sound([h EXCEPT ![o].refs = @ + 1], [r EXCEPT ![x] = o])
<1> DEFINE g == [h EXCEPT ![o].refs = h[o].refs + 1]
           s == [r EXCEPT ![x] = o]
<1>1. /\ IsFiniteSet(DOMAIN r) /\ Typed(h, r) /\ NULL \notin DOMAIN h
      /\ \A y \in DOMAIN r : r[y] \in DOMAIN h \union {NULL}
  BY TypedFacts DEF Sound
<1>2. PlacesIn(s, DOMAIN h) /\ Puts(r, s, x, o)
  BY <1>1 DEF PlacesIn, Puts
<1>3. Recounts(h, g, o, h[o].refs + 1)
  BY DEF Recounts
<1> HIDE DEF g, s
<1>4. /\ Recounted(h, g) /\ DOMAIN g = DOMAIN h
      /\ g[o].refs = h[o].refs + 1
      /\ \A y \in DOMAIN h \ {o} : g[y].refs = h[y].refs
  <2>1. Typed(h, r)
    BY <1>1
  <2> QED
    BY <1>3, <2>1, CountChanged
<1>5. ASSUME NEW y \in DOMAIN g
      PROVE  /\ g[y].refs \in Nat /\ g[y].refs > 0
             /\ g[y].refs = Cardinality(Held(s, y)) + PointersFrom(h, DOMAIN g, y)
  <2>1. /\ h[y].refs = Cardinality(Held(r, y)) + PointersFrom(h, DOMAIN h, y)
        /\ Cardinality(Held(r, y)) \in Nat
        /\ PointersFrom(h, DOMAIN h, y) \in Nat
        /\ h[y].refs \in Nat /\ h[y].refs > 0
    BY <1>4, CountedFacts
  <2>2. /\ Cardinality(Held(s, y)) \in Nat
        /\ Cardinality(Held(s, y)) + (IF r[x] = y THEN 1 ELSE 0)
             = Cardinality(Held(r, y)) + (IF o = y THEN 1 ELSE 0)
    <3>1. IsFiniteSet(DOMAIN r)
      BY <1>1
    <3> QED
      BY <1>2, <3>1, HeldMoved
  <2>3. r[x] # y
    BY <1>1, <1>4
  <2>4. g[y].refs = h[y].refs + (IF o = y THEN 1 ELSE 0)
    BY <1>4, <2>1
  <2>5. DOMAIN g = DOMAIN h
    BY <1>4
  <2> QED
    BY <2>1, <2>2, <2>3, <2>4, <2>5
<1>6. Sound(g, s)
  <2>1. CountsWhatIsLeft(h, g, s)
    BY <1>5 DEF CountsWhatIsLeft
  <2>2. PlacesIn(s, DOMAIN g) /\ Recounted(h, g)
    BY <1>2, <1>4
  <2> QED
    BY <2>1, <2>2, RecountedSound
<1> QED
  BY <1>6 DEF g, s

-----------------------------------------------------------------------------
(* What is freed when the last pointer to an object goes. *)

LEMMA Upwards ==
  ASSUME NEW m \in Nat, NEW S, 0 \in S, \A n \in 0 .. m - 1 : n \in S => n + 1 \in S
  PROVE  0 .. m \subseteq S
<1> DEFINE bad == {n \in 0 .. m : n \notin S}
<1> SUFFICES ASSUME bad # {} PROVE FALSE
  OBVIOUS
<1> DEFINE k == First(bad)
<1>1. k \in bad /\ \A j \in bad : k <= j
  <2>1. bad \in SUBSET Nat
    OBVIOUS
  <2> HIDE DEF bad
  <2> QED
    BY <2>1, FirstOfNaturals
<1> HIDE DEF k
<1>2. k \in 0 .. m /\ k \notin S /\ k # 0
  BY <1>1
<1>3. k - 1 \in 0 .. m - 1 /\ k - 1 \notin bad
  BY <1>1, <1>2
<1>4. k - 1 \in S
  BY <1>3
<1> QED
  BY <1>2, <1>3, <1>4

\* The sets of objects freed by and by.
Freeing(h, o, freed, m) ==
  freed = [n \in 0 .. m |->
             IF n = 0 THEN {o}
             ELSE freed[n - 1]
                    \union {x \in DOMAIN h : h[x].refs <= PointersFrom(h, freed[n - 1], x)}]

LEMMA FreeingExists ==
  ASSUME NEW h, NEW o, NEW m \in Nat
  PROVE  \E freed : Freeing(h, o, freed, m)
<1> DEFINE S == {k \in Nat : \E freed : Freeing(h, o, freed, k)}
<1>1. 0 \in S
  <2> DEFINE freed == [n \in 0 .. 0 |-> {o}]
  <2>1. \A n \in 0 .. 0 : n = 0
    OBVIOUS
  <2>2. Freeing(h, o, freed, 0)
    BY <2>1 DEF Freeing
  <2> QED
    BY <2>2
<1>2. ASSUME NEW k \in 0 .. m - 1, k \in S PROVE k + 1 \in S
  <2>1. PICK before : Freeing(h, o, before, k)
    BY <1>2
  <2> DEFINE last == before[k]
                       \union {x \in DOMAIN h : h[x].refs <= PointersFrom(h, before[k], x)}
             freed == [n \in 0 .. k + 1 |-> IF n = k + 1 THEN last ELSE before[n]]
             turn(n) == IF n = 0 THEN {o}
                        ELSE freed[n - 1]
                               \union {x \in DOMAIN h :
                                         h[x].refs <= PointersFrom(h, freed[n - 1], x)}
  <2>2. k \in Nat /\ \A n \in 0 .. k : freed[n] = before[n]
    OBVIOUS
  <2>3. ASSUME NEW n \in 0 .. k + 1 PROVE freed[n] = turn(n)
    <3>1. CASE n = k + 1
      <4>1. freed[n] = last /\ n # 0 /\ freed[n - 1] = before[k]
        BY <2>2, <3>1
      <4> QED
        BY <4>1
    <3>2. CASE n # k + 1
      <4>1. n \in 0 .. k /\ (n # 0 => n - 1 \in 0 .. k)
        BY <2>2, <3>2
      <4>2. before[n] = IF n = 0 THEN {o}
                        ELSE before[n - 1]
                               \union {x \in DOMAIN h :
                                         h[x].refs <= PointersFrom(h, before[n - 1], x)}
        BY <2>1, <4>1 DEF Freeing
      <4>3. n # 0 => freed[n - 1] = before[n - 1]
        BY <2>2, <4>1
      <4>4. freed[n] = before[n]
        BY <2>2, <4>1
      <4> QED
        BY <4>2, <4>3, <4>4
    <3> QED
      BY <3>1, <3>2
  <2>4. freed = [n \in 0 .. k + 1 |-> freed[n]]
    OBVIOUS
  <2>5. freed = [n \in 0 .. k + 1 |-> turn(n)]
    <3> HIDE DEF turn, freed
    <3> QED
      BY <2>3, <2>4
  <2>6. Freeing(h, o, freed, k + 1)
    <3> HIDE DEF freed
    <3> QED
      BY <2>5 DEF Freeing
  <2> QED
    BY <2>2, <2>6
<1>3. 0 .. m \subseteq S
  <2> HIDE DEF S
  <2> QED
    BY <1>1, <1>2, Upwards
<1>4. m \in S
  BY <1>3
<1> QED
  BY <1>4

\* An object that nothing outside S points to.
OnlyFrom(h, S, x) == h[x].refs <= PointersFrom(h, S, x)

\* A way down from o to objects of S: they lie below o.
LEMMA OnlyFromSome ==
  ASSUME NEW h, NEW r, Sound(h, r), NEW S \in SUBSET DOMAIN h, NEW x \in DOMAIN h,
         OnlyFrom(h, S, x)
  PROVE  \E a \in S, i \in Index :
           h[a].entries[i] = x /\ h[x].level = h[a].level + 1
<1>1. IsFiniteSet(S) /\ NULL \notin DOMAIN h
  BY TypedFacts, FS_Subset DEF Sound
<1>2. h[x].refs > 0 /\ h[x].refs \in Nat
  BY CountedFacts
<1>3. PointersFrom(h, S, x) \in Nat /\ PointersFrom(h, S, x) # 0
  BY <1>1, <1>2, PointersCounted DEF OnlyFrom
<1>4. PICK a \in S, i \in Index : h[a].entries[i] = x
  BY <1>1, <1>3, NoPointers
<1>5. h[x].level = h[a].level + 1
  BY <1>1, <1>4 DEF Sound, Layered
<1> QED
  BY <1>4, <1>5

LEMMA OnlyFromMore ==
  ASSUME NEW h, NEW r, Sound(h, r), NEW S \in SUBSET DOMAIN h, NEW x \in DOMAIN h,
         OnlyFrom(h, S, x), NEW T \in SUBSET DOMAIN h,
         \A a \in S, i \in Index : h[a].entries[i] = x => a \in T
  PROVE  OnlyFrom(h, T, x)
<1>1. IsFiniteSet(S) /\ IsFiniteSet(T)
  BY TypedFacts, FS_Subset DEF Sound
<1>2. PointersFrom(h, S, x) <= PointersFrom(h, T, x)
  BY <1>1, PointersGrow
<1>3. PointersFrom(h, S, x) \in Nat /\ PointersFrom(h, T, x) \in Nat
  BY <1>1, PointersCounted
<1>4. h[x].refs \in Nat
  BY CountedFacts
<1> QED
  BY <1>2, <1>3, <1>4 DEF OnlyFrom

LEMMA FreeingStep ==
  ASSUME NEW h, NEW o, NEW freed, NEW m \in Nat, Freeing(h, o, freed, m)
  PROVE  /\ freed[0] = {o}
         /\ \A n \in 0 .. m - 1 :
              freed[n + 1] = freed[n] \union {x \in DOMAIN h : OnlyFrom(h, freed[n], x)}
<1>1. freed[0] = {o}
  BY DEF Freeing
<1>2. ASSUME NEW n \in 0 .. m - 1
      PROVE  freed[n + 1]
               = freed[n] \union {x \in DOMAIN h : OnlyFrom(h, freed[n], x)}
  <2>1. n + 1 \in 0 .. m /\ n + 1 # 0 /\ (n + 1) - 1 = n
    OBVIOUS
  <2>2. freed[n + 1]
          = freed[(n + 1) - 1]
              \union {x \in DOMAIN h : h[x].refs <= PointersFrom(h, freed[(n + 1) - 1], x)}
    BY <2>1 DEF Freeing
  <2> QED
    BY <2>1, <2>2 DEF OnlyFrom
<1> QED
  BY <1>1, <1>2

LEMMA LevelType ==
  ASSUME NEW h, NEW r, Sound(h, r), NEW o \in DOMAIN h
  PROVE  h[o].level \in 0 .. Levels /\ h[o].level \in Nat
<1>1. Formed(h, o)
  BY TypedFacts DEF Sound
<1> QED
  BY <1>1, SizesAssumption DEF Formed

\* Every object freed but o has lost all its pointers to objects freed, which
\* lie between it and o.
LEMMA FreedBelow ==
  ASSUME NEW h, NEW r, Sound(h, r), NEW o \in DOMAIN h, NEW freed, NEW m \in Nat,
         Freeing(h, o, freed, m), NEW n \in 0 .. m
  PROVE  /\ freed[n] \in SUBSET DOMAIN h /\ o \in freed[n]
         /\ \A x \in freed[n] \ {o} :
              OnlyFrom(h, freed[n], x) /\ h[x].level > h[o].level
<1> DEFINE S == {k \in 0 .. m :
                   /\ freed[k] \in SUBSET DOMAIN h /\ o \in freed[k]
                   /\ \A x \in freed[k] \ {o} :
                        OnlyFrom(h, freed[k], x) /\ h[x].level > h[o].level}
<1>1. 0 \in S
  BY FreeingStep
<1>2. ASSUME NEW k \in 0 .. m - 1, k \in S PROVE k + 1 \in S
  <2>1. /\ freed[k] \in SUBSET DOMAIN h /\ o \in freed[k]
        /\ \A x \in freed[k] \ {o} :
             OnlyFrom(h, freed[k], x) /\ h[x].level > h[o].level
    BY <1>2
  <2>2. freed[k + 1] = freed[k] \union {x \in DOMAIN h : OnlyFrom(h, freed[k], x)}
    BY FreeingStep
  <2>3. freed[k + 1] \in SUBSET DOMAIN h /\ o \in freed[k + 1]
    BY <2>1, <2>2
  <2>4. ASSUME NEW x \in freed[k + 1] \ {o}
        PROVE  OnlyFrom(h, freed[k + 1], x) /\ h[x].level > h[o].level
    <3>1. x \in DOMAIN h /\ OnlyFrom(h, freed[k], x)
      BY <2>1, <2>2, <2>3
    <3>2. OnlyFrom(h, freed[k + 1], x)
      BY <2>1, <2>2, <2>3, <3>1, OnlyFromMore
    <3>3. PICK a \in freed[k] : h[x].level = h[a].level + 1
      BY <2>1, <3>1, OnlyFromSome
    <3>4. a \in DOMAIN h /\ (a = o \/ h[a].level > h[o].level)
      BY <2>1
    <3>5. h[a].level \in Nat /\ h[o].level \in Nat
      BY <3>4, LevelType
    <3> QED
      BY <3>2, <3>3, <3>4, <3>5
  <2>5. k + 1 \in 0 .. m
    OBVIOUS
  <2> QED
    BY <2>3, <2>4, <2>5
<1>3. 0 .. m \subseteq S
  <2> HIDE DEF S
  <2> QED
    BY <1>1, <1>2, Upwards
<1>4. n \in S
  BY <1>3
<1> QED
  BY <1>4

\* After n turns everything is freed that will be, down to n levels below o.
LEMMA FreedByLevels ==
  ASSUME NEW h, NEW r, Sound(h, r), NEW o \in DOMAIN h, NEW freed, NEW m \in Nat,
         Freeing(h, o, freed, m), NEW n \in 0 .. m
  PROVE  \A x \in freed[m] : h[x].level <= h[o].level + n => x \in freed[n]
<1> DEFINE S == {k \in 0 .. m :
                   \A x \in freed[m] : h[x].level <= h[o].level + k => x \in freed[k]}
<1>1. /\ freed[m] \in SUBSET DOMAIN h
      /\ \A x \in freed[m] \ {o} :
           OnlyFrom(h, freed[m], x) /\ h[x].level > h[o].level
  <2>1. m \in 0 .. m
    OBVIOUS
  <2> QED
    BY <2>1, FreedBelow
<1>2. \A x \in DOMAIN h : h[x].level \in Nat
  BY LevelType
<1>3. 0 \in S
  <2>1. ASSUME NEW x \in freed[m], h[x].level <= h[o].level + 0 PROVE x \in freed[0]
    <3>1. x \in DOMAIN h
      BY <1>1
    <3>2. ~(h[x].level > h[o].level)
      BY <1>2, <2>1, <3>1
    <3> QED
      BY <1>1, <3>2, FreeingStep
  <2> QED
    BY <2>1
<1>4. ASSUME NEW k \in 0 .. m - 1, k \in S PROVE k + 1 \in S
  <2>1. \A x \in freed[m] : h[x].level <= h[o].level + k => x \in freed[k]
    BY <1>4
  <2>2. k \in 0 .. m /\ k + 1 \in 0 .. m
    OBVIOUS
  <2>3. /\ freed[k] \in SUBSET DOMAIN h /\ o \in freed[k + 1]
        /\ freed[k + 1] = freed[k] \union {x \in DOMAIN h : OnlyFrom(h, freed[k], x)}
    BY <2>2, FreedBelow, FreeingStep
  <2>4. ASSUME NEW x \in freed[m], h[x].level <= h[o].level + (k + 1)
        PROVE  x \in freed[k + 1]
    <3>1. CASE x # o
      <4>1. x \in DOMAIN h /\ OnlyFrom(h, freed[m], x)
        BY <1>1, <3>1
      <4>2. ASSUME NEW a \in freed[m], NEW i \in Index, h[a].entries[i] = x
            PROVE  a \in freed[k]
        <5>1. a \in DOMAIN h
          BY <1>1
        <5>2. h[x].level = h[a].level + 1
          <6>1. x # NULL
            BY <4>1, TypedFacts DEF Sound
          <6> QED
            BY <4>2, <5>1, <6>1 DEF Sound, Layered
        <5>3. h[a].level <= h[o].level + k
          BY <1>2, <2>4, <4>1, <5>1, <5>2
        <5> QED
          BY <2>1, <5>3
      <4>3. OnlyFrom(h, freed[k], x)
        BY <1>1, <2>3, <4>1, <4>2, OnlyFromMore
      <4> QED
        BY <2>3, <4>1, <4>3
    <3> QED
      BY <2>3, <3>1
  <2> QED
    BY <2>2, <2>4
<1>5. 0 .. m \subseteq S
  <2> HIDE DEF S
  <2> QED
    BY <1>3, <1>4, Upwards
<1>6. n \in S
  BY <1>5
<1> QED
  BY <1>6

\* The objects freed with o are those to which nothing else points.
LEMMA FreedWithFacts ==
  ASSUME NEW h, NEW r, Sound(h, r), NEW o \in DOMAIN h
  PROVE  /\ FreedWith(h, o) \in SUBSET DOMAIN h /\ o \in FreedWith(h, o)
         /\ \A x \in FreedWith(h, o) \ {o} : OnlyFrom(h, FreedWith(h, o), x)
         /\ \A x \in DOMAIN h \ FreedWith(h, o) : ~OnlyFrom(h, FreedWith(h, o), x)
<1> DEFINE freed == CHOOSE freed : Freeing(h, o, freed, Levels)
           D == freed[Levels]
<1>1. Levels \in Nat /\ Levels # 0 /\ Levels \in 0 .. Levels
      /\ Levels - 1 \in 0 .. Levels - 1 /\ Levels - 1 \in 0 .. Levels
      /\ (Levels - 1) + 1 = Levels
  BY SizesAssumption
<1>2. Freeing(h, o, freed, Levels)
  BY <1>1, FreeingExists
<1>3. FreedWith(h, o) = D
  BY DEF FreedWith, Freeing
<1> HIDE DEF freed
<1>4. /\ D \in SUBSET DOMAIN h /\ o \in D
      /\ \A x \in D \ {o} : OnlyFrom(h, D, x) /\ h[x].level > h[o].level
  BY <1>1, <1>2, FreedBelow
<1>5. \A x \in DOMAIN h : h[x].level \in 0 .. Levels
  BY LevelType
<1>6. ASSUME NEW x \in DOMAIN h, OnlyFrom(h, D, x) PROVE x \in D
  <2>1. freed[Levels - 1] \in SUBSET DOMAIN h
    BY <1>1, <1>2, FreedBelow
  <2>2. ASSUME NEW a \in D, NEW i \in Index, h[a].entries[i] = x
        PROVE  a \in freed[Levels - 1]
    <3>1. a \in DOMAIN h
      BY <1>4
    <3>2. h[x].level = h[a].level + 1
      <4>1. x # NULL
        BY TypedFacts DEF Sound
      <4> QED
        BY <2>2, <3>1, <4>1 DEF Sound, Layered
    <3>3. h[a].level <= h[o].level + (Levels - 1)
      <4>1. h[a].level \in 0 .. Levels /\ h[x].level \in 0 .. Levels
            /\ h[o].level \in 0 .. Levels
        BY <1>5, <3>1
      <4> QED
        BY <1>1, <3>2, <4>1
    <3> QED
      BY <1>1, <1>2, <3>3, FreedByLevels
  <2>3. OnlyFrom(h, freed[Levels - 1], x)
    BY <1>4, <1>6, <2>1, <2>2, OnlyFromMore
  <2>4. freed[(Levels - 1) + 1]
          = freed[Levels - 1] \union {y \in DOMAIN h : OnlyFrom(h, freed[Levels - 1], y)}
    BY <1>1, <1>2, FreeingStep
  <2> QED
    BY <1>1, <2>3, <2>4
<1> QED
  BY <1>3, <1>4, <1>6

\* No place and no entry of an object outside S holds o.
NotPointedTo(h, r, S, o) ==
  /\ \A x \in DOMAIN r : r[x] # o
  /\ \A a \in DOMAIN h \ S, i \in Index : h[a].entries[i] # o

LEMMA HeldSplit ==
  ASSUME NEW h, NEW r, Sound(h, r), NEW S \in SUBSET DOMAIN h, NEW o \in DOMAIN h
  PROVE  /\ h[o].refs = Cardinality(Held(r, o)) + PointersFrom(h, S, o)
                          + PointersFrom(h, DOMAIN h \ S, o)
         /\ Cardinality(Held(r, o)) \in Nat /\ PointersFrom(h, S, o) \in Nat
         /\ PointersFrom(h, DOMAIN h \ S, o) \in Nat
         /\ Cardinality(Held(r, o)) = 0 /\ PointersFrom(h, DOMAIN h \ S, o) = 0
              => NotPointedTo(h, r, S, o)
<1>1. IsFiniteSet(DOMAIN h) /\ IsFiniteSet(DOMAIN r)
  BY TypedFacts DEF Sound
<1>2. IsFiniteSet(S) /\ IsFiniteSet(DOMAIN h \ S)
  BY <1>1, FS_Subset
<1>3. PointersFrom(h, DOMAIN h, o) = PointersFrom(h, S, o) + PointersFrom(h, DOMAIN h \ S, o)
  BY <1>1, PointersSplit
<1>4. PointersFrom(h, S, o) \in Nat /\ PointersFrom(h, DOMAIN h \ S, o) \in Nat
  BY <1>2, PointersCounted
<1>5. PointersFrom(h, DOMAIN h \ S, o) = 0
        <=> \A a \in DOMAIN h \ S, i \in Index : h[a].entries[i] # o
  BY <1>2, NoPointers
<1>6. /\ h[o].refs = Cardinality(Held(r, o)) + PointersFrom(h, DOMAIN h, o)
      /\ Cardinality(Held(r, o)) \in Nat
  BY CountedFacts
<1>7. Cardinality(Held(r, o)) = 0 <=> \A x \in DOMAIN r : r[x] # o
  <2>1. Held(r, o) \in SUBSET DOMAIN r
    BY DEF Held
  <2>2. IsFiniteSet(Held(r, o))
    BY <1>1, <2>1, FS_Subset
  <2>3. Held(r, o) = {} <=> \A x \in DOMAIN r : r[x] # o
    BY DEF Held
  <2> QED
    BY <2>2, <2>3, FS_EmptySet
<1>8. Cardinality(Held(r, o)) = 0 /\ PointersFrom(h, DOMAIN h \ S, o) = 0
        => NotPointedTo(h, r, S, o)
  BY <1>5, <1>7 DEF NotPointedTo
<1> QED
  BY <1>3, <1>4, <1>6, <1>8

\* The only pointer to an object that is counted once.
LEMMA HeldAlone ==
  ASSUME NEW h, NEW r, Sound(h, r), NEW x \in DOMAIN r, r[x] \in DOMAIN h,
         h[r[x]].refs = 1
  PROVE  /\ \A y \in DOMAIN r \ {x} : r[y] # r[x]
         /\ \A a \in DOMAIN h, i \in Index : h[a].entries[i] # r[x]
<1> DEFINE o == r[x]
<1>1. IsFiniteSet(DOMAIN h) /\ IsFiniteSet(DOMAIN r)
  BY TypedFacts DEF Sound
<1>2. x \in Held(r, o) /\ Held(r, o) \in SUBSET DOMAIN r
  BY DEF Held
<1> HIDE DEF o
<1>3. IsFiniteSet(Held(r, o))
  BY <1>1, <1>2, FS_Subset
<1>4. Cardinality(Held(r, o)) \in Nat /\ Cardinality(Held(r, o)) # 0
  BY <1>2, <1>3, FS_EmptySet, FS_CardinalityType
<1>5. /\ 1 = Cardinality(Held(r, o)) + PointersFrom(h, DOMAIN h, o)
      /\ PointersFrom(h, DOMAIN h, o) \in Nat
  BY CountedFacts DEF o
<1>6. Cardinality(Held(r, o)) = 1 /\ PointersFrom(h, DOMAIN h, o) = 0
  BY <1>4, <1>5
<1>7. Held(r, o) = {x}
  BY <1>2, <1>3, <1>6, FS_Singleton
<1>8. \A a \in DOMAIN h, i \in Index : h[a].entries[i] # o
  BY <1>1, <1>6, NoPointers
<1>9. \A y \in DOMAIN r : r[y] = o => y = x
  BY <1>7 DEF Held
<1> QED
  BY <1>8, <1>9 DEF o

\* Nothing that stays points to what is freed with the last pointer to an object.
LEMMA FreedAreAlone ==
  ASSUME NEW h, NEW r, Sound(h, r), NEW x \in DOMAIN r, r[x] \in DOMAIN h,
         h[r[x]].refs = 1
  PROVE  LET D == FreedWith(h, r[x])
         IN  /\ D \in SUBSET DOMAIN h /\ r[x] \in D
             /\ \A y \in DOMAIN r \ {x} : r[y] \notin D
             /\ \A a \in DOMAIN h \ D, i \in Index : h[a].entries[i] \notin D
             /\ \A y \in DOMAIN h \ D : h[y].refs > PointersFrom(h, D, y)
<1> DEFINE o == r[x]
           D == FreedWith(h, r[x])
<1>1. /\ D \in SUBSET DOMAIN h /\ o \in D
      /\ \A d \in D \ {o} : OnlyFrom(h, D, d)
      /\ \A y \in DOMAIN h \ D : ~OnlyFrom(h, D, y)
  BY FreedWithFacts
<1>2. /\ \A y \in DOMAIN r \ {x} : r[y] # o
      /\ \A a \in DOMAIN h, i \in Index : h[a].entries[i] # o
  BY HeldAlone
<1> HIDE DEF D
<1>3. ASSUME NEW d \in D \ {o}
      PROVE  /\ \A y \in DOMAIN r : r[y] # d
             /\ \A a \in DOMAIN h \ D, i \in Index : h[a].entries[i] # d
  <2>1. d \in DOMAIN h /\ h[d].refs <= PointersFrom(h, D, d)
    BY <1>1 DEF OnlyFrom
  <2>2. /\ h[d].refs = Cardinality(Held(r, d)) + PointersFrom(h, D, d)
                          + PointersFrom(h, DOMAIN h \ D, d)
        /\ Cardinality(Held(r, d)) \in Nat /\ PointersFrom(h, D, d) \in Nat
        /\ PointersFrom(h, DOMAIN h \ D, d) \in Nat
        /\ Cardinality(Held(r, d)) = 0 /\ PointersFrom(h, DOMAIN h \ D, d) = 0
             => NotPointedTo(h, r, D, d)
    <3>1. D \in SUBSET DOMAIN h /\ d \in DOMAIN h
      BY <1>1, <2>1
    <3> QED
      BY <3>1, HeldSplit
  <2>3. Cardinality(Held(r, d)) = 0 /\ PointersFrom(h, DOMAIN h \ D, d) = 0
    BY <2>1, <2>2
  <2> QED
    BY <2>2, <2>3 DEF NotPointedTo
<1>4. ASSUME NEW y \in DOMAIN h \ D PROVE h[y].refs > PointersFrom(h, D, y)
  <2>1. ~(h[y].refs <= PointersFrom(h, D, y))
    BY <1>1 DEF OnlyFrom
  <2>2. h[y].refs \in Nat /\ PointersFrom(h, D, y) \in Nat
    BY <1>1, HeldSplit, CountedFacts
  <2> QED
    BY <2>1, <2>2
<1>5. \A y \in DOMAIN r \ {x} : r[y] \notin D
  BY <1>2, <1>3
<1>6. \A a \in DOMAIN h \ D, i \in Index : h[a].entries[i] \notin D
  BY <1>2, <1>3
<1> QED
  BY <1>1, <1>4, <1>5, <1>6 DEF D

\* The heap that a release leaves.
LEMMA ReleasedFacts ==
  ASSUME NEW h, NEW r, Sound(h, r), NEW x \in DOMAIN r, r[x] \in DOMAIN h
  PROVE  LET g == Released(h, r[x])
         IN  /\ Recounted(h, g)
             /\ \A y \in DOMAIN r \ {x} : r[y] \in DOMAIN g \union {NULL}
             /\ h[r[x]].refs > 1 => DOMAIN g = DOMAIN h
<1> DEFINE o == r[x]
           g == Released(h, r[x])
<1>1. Typed(h, r)
  BY DEF Sound
<1>2. CASE h[o].refs > 1
  <2>1. Recounts(h, g, o, h[o].refs - 1)
    BY <1>2 DEF Recounts, Released
  <2> HIDE DEF g
  <2>2. Recounted(h, g) /\ DOMAIN g = DOMAIN h
    BY <1>1, <2>1, CountChanged
  <2>3. \A y \in DOMAIN r : r[y] \in DOMAIN h \union {NULL}
    BY <1>1, TypedFacts
  <2> QED
    BY <2>2, <2>3 DEF g
<1>3. CASE ~(h[o].refs > 1)
  <2> DEFINE D == FreedWith(h, o)
  <2>1. h[o].refs = 1
    <3>1. h[o].refs \in Nat /\ h[o].refs > 0
      BY CountedFacts
    <3> QED
      BY <1>3, <3>1
  <2>2. /\ D \in SUBSET DOMAIN h
        /\ \A y \in DOMAIN r \ {x} : r[y] \notin D
        /\ \A a \in DOMAIN h \ D, i \in Index : h[a].entries[i] \notin D
    BY <2>1, FreedAreAlone
  <2>3. g = [y \in DOMAIN h \ D |-> [h[y] EXCEPT !.refs = @ - PointersFrom(h, D, y)]]
    BY <1>3 DEF Released
  <2>4. /\ \A y \in DOMAIN r : r[y] \in DOMAIN h \union {NULL}
        /\ \A y \in DOMAIN h : Formed(h, y)
    BY <1>1, TypedFacts
  <2> HIDE DEF D, g
  <2>5. DOMAIN g = DOMAIN h \ D /\ g = [y \in DOMAIN g |-> g[y]]
    BY <2>3
  <2>6. ASSUME NEW y \in DOMAIN g
        PROVE  /\ g[y] = [h[y] EXCEPT !.refs = g[y].refs]
               /\ \A i \in Index : h[y].entries[i] \in DOMAIN g \union {NULL}
    <3>1. y \in DOMAIN h /\ y \notin D /\ Formed(h, y)
      BY <2>4, <2>5
    <3>2. g[y] = [h[y] EXCEPT !.refs = h[y].refs - PointersFrom(h, D, y)]
      BY <2>3, <3>1
    <3>3. h[y] = [level |-> h[y].level, refs |-> h[y].refs, active |-> h[y].active,
                  entries |-> h[y].entries, frame |-> h[y].frame]
      BY <3>1 DEF Formed
    <3>4. g[y] = [h[y] EXCEPT !.refs = g[y].refs]
      BY <3>2, <3>3
    <3>5. \A i \in Index : h[y].entries[i] \in DOMAIN h \union {NULL}
      BY <3>1 DEF Formed
    <3> QED
      BY <2>2, <2>5, <3>1, <3>4, <3>5
  <2>7. Recounted(h, g)
    BY <2>5, <2>6 DEF Recounted
  <2>8. \A y \in DOMAIN r \ {x} : r[y] \in DOMAIN g \union {NULL}
    BY <2>2, <2>4, <2>5
  <2> QED
    BY <1>3, <2>7, <2>8 DEF g
<1> QED
  BY <1>2, <1>3

\* The pointer in place x goes.
LEMMA ReleasedSound ==
  ASSUME NEW h, NEW r, Sound(h, r), NEW x \in DOMAIN r, r[x] # NULL
  PROVE  Sound(Released(h, r[x]), [r EXCEPT ![x] = NULL])
<1> DEFINE o == r[x]
           g == Released(h, r[x])
           s == [r EXCEPT ![x] = NULL]
<1>1. Typed(h, r) /\ o \in DOMAIN h /\ IsFiniteSet(DOMAIN r) /\ NULL \notin DOMAIN h
  BY TypedFacts DEF Sound
<1>2. /\ Recounted(h, g)
      /\ \A y \in DOMAIN r \ {x} : r[y] \in DOMAIN g \union {NULL}
  BY <1>1, ReleasedFacts
<1>3. PlacesIn(s, DOMAIN g) /\ Puts(r, s, x, NULL)
  BY <1>1, <1>2 DEF PlacesIn, Puts
<1>4. CountsWhatIsLeft(h, g, s)
  <2>1. ASSUME NEW y \in DOMAIN h
        PROVE  /\ Cardinality(Held(r, y)) \in Nat /\ Cardinality(Held(s, y)) \in Nat
               /\ Cardinality(Held(s, y)) + (IF o = y THEN 1 ELSE 0)
                    = Cardinality(Held(r, y))
    <3>1. /\ Cardinality(Held(r, y)) \in Nat /\ Cardinality(Held(s, y)) \in Nat
          /\ Cardinality(Held(s, y)) + (IF r[x] = y THEN 1 ELSE 0)
               = Cardinality(Held(r, y)) + (IF NULL = y THEN 1 ELSE 0)
      <4> HIDE DEF s
      <4>1. IsFiniteSet(DOMAIN r) /\ Puts(r, s, x, NULL)
        BY <1>1, <1>3
      <4> QED
        BY <4>1, HeldMoved
    <3>2. NULL # y
      BY <1>1
    <3> HIDE DEF s
    <3> QED
      BY <3>1, <3>2
  <2>2. CASE h[o].refs > 1
    <3>1. Recounts(h, g, o, h[o].refs - 1)
      BY <2>2 DEF Recounts, Released
    <3> HIDE DEF g, s
    <3>2. /\ DOMAIN g = DOMAIN h /\ g[o].refs = h[o].refs - 1
          /\ \A y \in DOMAIN h \ {o} : g[y].refs = h[y].refs
      BY <1>1, <3>1, CountChanged
    <3>3. ASSUME NEW y \in DOMAIN h
          PROVE  /\ g[y].refs \in Nat /\ g[y].refs > 0
                 /\ g[y].refs = Cardinality(Held(s, y)) + PointersFrom(h, DOMAIN h, y)
      <4>1. /\ h[y].refs = Cardinality(Held(r, y)) + PointersFrom(h, DOMAIN h, y)
            /\ PointersFrom(h, DOMAIN h, y) \in Nat
            /\ h[y].refs \in Nat /\ h[y].refs > 0
        BY CountedFacts
      <4>2. CASE y = o
        <5>1. /\ g[y].refs = h[y].refs - 1 /\ h[y].refs > 1
              /\ Cardinality(Held(s, y)) + 1 = Cardinality(Held(r, y))
          BY <2>1, <2>2, <3>2, <4>2
        <5> QED
          BY <2>1, <4>1, <5>1
      <4>3. CASE y # o
        <5>1. /\ g[y].refs = h[y].refs
              /\ Cardinality(Held(s, y)) = Cardinality(Held(r, y))
          BY <2>1, <3>2, <4>3
        <5> QED
          BY <4>1, <5>1
      <4> QED
        BY <4>2, <4>3
    <3> QED
      BY <3>2, <3>3 DEF CountsWhatIsLeft
  <2>3. CASE ~(h[o].refs > 1)
    <3> DEFINE D == FreedWith(h, o)
    <3>1. h[o].refs = 1
      <4>1. h[o].refs \in Nat /\ h[o].refs > 0
        BY <1>1, CountedFacts
      <4> QED
        BY <2>3, <4>1
    <3>2. /\ D \in SUBSET DOMAIN h /\ o \in D
          /\ \A y \in DOMAIN h \ D : h[y].refs > PointersFrom(h, D, y)
      BY <1>1, <3>1, FreedAreAlone
    <3>3. g = [y \in DOMAIN h \ D |-> [h[y] EXCEPT !.refs = @ - PointersFrom(h, D, y)]]
      BY <2>3 DEF Released
    <3>4. \A y \in DOMAIN h : Formed(h, y)
      BY <1>1, TypedFacts
    <3> HIDE DEF D, g, s
    <3>5. DOMAIN g = DOMAIN h \ D
      BY <3>3
    <3>6. ASSUME NEW y \in DOMAIN g
          PROVE  /\ g[y].refs \in Nat /\ g[y].refs > 0
                 /\ g[y].refs = Cardinality(Held(s, y)) + PointersFrom(h, DOMAIN g, y)
      <4>1. y \in DOMAIN h /\ y \notin D /\ y # o
        BY <3>2, <3>5
      <4>2. g[y].refs = h[y].refs - PointersFrom(h, D, y)
        <5>1. g[y] = [h[y] EXCEPT !.refs = h[y].refs - PointersFrom(h, D, y)]
          BY <3>3, <4>1
        <5>2. h[y] = [level |-> h[y].level, refs |-> h[y].refs, active |-> h[y].active,
                      entries |-> h[y].entries, frame |-> h[y].frame]
          BY <3>4, <4>1 DEF Formed
        <5> QED
          BY <5>1, <5>2
      <4>3. /\ h[y].refs = Cardinality(Held(r, y)) + PointersFrom(h, D, y)
                             + PointersFrom(h, DOMAIN h \ D, y)
            /\ Cardinality(Held(r, y)) \in Nat /\ PointersFrom(h, D, y) \in Nat
            /\ PointersFrom(h, DOMAIN h \ D, y) \in Nat
        <5>1. D \in SUBSET DOMAIN h
          BY <3>2
        <5> QED
          BY <4>1, <5>1, HeldSplit
      <4>4. h[y].refs > PointersFrom(h, D, y) /\ h[y].refs \in Nat
        BY <3>2, <4>1, CountedFacts
      <4>5. Cardinality(Held(s, y)) = Cardinality(Held(r, y))
        BY <2>1, <4>1
      <4> QED
        BY <3>5, <4>2, <4>3, <4>4, <4>5
    <3> QED
      BY <3>6 DEF CountsWhatIsLeft
  <2> QED
    BY <2>2, <2>3
<1>5. Sound(g, s)
  <2> HIDE DEF g, s
  <2> QED
    BY <1>2, <1>3, <1>4, RecountedSound
<1> QED
  BY <1>5

-----------------------------------------------------------------------------
(* The pointer that an operation has in hand is one more place. *)

Hand == CHOOSE x : x \notin Table

Places(r, c) == [x \in Table \union {Hand} |-> IF x = Hand THEN c ELSE r[x]]

LEMMA HandIsNoTable == Hand \notin Table
BY NoSetContainsEverything DEF Hand

LEMMA PlacesFacts ==
  ASSUME NEW r, NEW c
  PROVE  /\ DOMAIN Places(r, c) = Table \union {Hand}
         /\ Places(r, c)[Hand] = c
         /\ \A t \in Table : Places(r, c)[t] = r[t]
         /\ Hand \in DOMAIN Places(r, c)
         /\ \A t \in Table : t \in DOMAIN Places(r, c)
         /\ \A d : [Places(r, c) EXCEPT ![Hand] = d] = Places(r, d)
BY HandIsNoTable DEF Places

LEMMA PlacesHeld ==
  ASSUME NEW r, DOMAIN r = Table, NEW o, o # NULL
  PROVE  Held(Places(r, NULL), o) = Held(r, o)
BY PlacesFacts DEF Held

\* With empty hands the places are the tables.
LEMMA EmptyHanded ==
  ASSUME NEW h, NEW r, DOMAIN r = Table, r = [t \in Table |-> r[t]]
  PROVE  Sound(h, r) <=> Sound(h, Places(r, NULL))
<1> DEFINE s == Places(r, NULL)
<1>1. /\ DOMAIN s = Table \union {Hand} /\ s[Hand] = NULL
      /\ \A t \in Table : s[t] = r[t]
  BY PlacesFacts
<1>2. s = [x \in DOMAIN s |-> s[x]]
  BY DEF Places
<1>3. IsFiniteSet(Table) /\ IsFiniteSet(DOMAIN s)
  BY <1>1, SizesAssumption, FS_AddElement
<1> HIDE DEF s
<1>4. (\A x \in DOMAIN s : s[x] \in DOMAIN h \union {NULL})
        <=> (\A x \in DOMAIN r : r[x] \in DOMAIN h \union {NULL})
  BY <1>1
<1>5. Typed(h, s) <=> Typed(h, r)
  BY <1>2, <1>3, <1>4, TypedFacts
<1>6. NULL \notin DOMAIN h => (Counted(h, s) <=> Counted(h, r))
  <2>1. \A o \in DOMAIN h : o # NULL => Held(s, o) = Held(r, o)
    BY PlacesHeld DEF s
  <2> QED
    BY <2>1 DEF Counted
<1>7. Typed(h, r) => NULL \notin DOMAIN h
  BY TypedFacts
<1> QED
  BY <1>5, <1>6, <1>7 DEF Sound, s

\* What two places hold is exchanged.
LEMMA ExchangedSound ==
  ASSUME NEW h, NEW r, DOMAIN r = Table, NEW c, Sound(h, Places(r, c)),
         NEW t \in Table
  PROVE  Sound(h, Places([r EXCEPT ![t] = c], r[t]))
<1> DEFINE a == Places(r, c)
           b == [a EXCEPT ![t] = c]
           d == Places([r EXCEPT ![t] = c], r[t])
<1>1. DOMAIN a = Table \union {Hand} /\ a[t] = r[t] /\ a[Hand] = c
  BY PlacesFacts
<1>2. /\ DOMAIN b = DOMAIN a /\ b[Hand] = c /\ b[t] = c
      /\ \A x \in Table \ {t} : b[x] = r[x]
  BY <1>1, PlacesFacts, HandIsNoTable
<1>3. /\ DOMAIN d = DOMAIN a /\ d[Hand] = r[t] /\ d[t] = c
      /\ \A x \in Table \ {t} : d[x] = r[x]
      /\ d = [x \in DOMAIN d |-> d[x]]
  BY <1>1, HandIsNoTable DEF Places
<1>4. b = [x \in DOMAIN b |-> b[x]]
  BY DEF Places
<1>5. Puts(a, b, t, c)
  BY DEF Puts
<1>6. Puts(b, d, Hand, r[t])
  <2> HIDE DEF b, d
  <2> QED
    BY <1>1, <1>2, <1>3, <1>4, HandIsNoTable DEF Puts
<1> HIDE DEF a, b, d
<1>7. /\ IsFiniteSet(DOMAIN a) /\ Typed(h, a) /\ NULL \notin DOMAIN h
      /\ \A x \in DOMAIN a : a[x] \in DOMAIN h \union {NULL}
  BY TypedFacts DEF Sound, a
<1>8. ASSUME NEW o PROVE Cardinality(Held(d, o)) = Cardinality(Held(a, o))
  <2>1. /\ Cardinality(Held(a, o)) \in Nat /\ Cardinality(Held(b, o)) \in Nat
        /\ Cardinality(Held(b, o)) + (IF a[t] = o THEN 1 ELSE 0)
             = Cardinality(Held(a, o)) + (IF c = o THEN 1 ELSE 0)
    <3>1. IsFiniteSet(DOMAIN a) /\ t \in DOMAIN a
      BY <1>1, <1>7
    <3> QED
      BY <1>5, <3>1, HeldMoved
  <2>2. /\ Cardinality(Held(d, o)) \in Nat
        /\ Cardinality(Held(d, o)) + (IF b[Hand] = o THEN 1 ELSE 0)
             = Cardinality(Held(b, o)) + (IF r[t] = o THEN 1 ELSE 0)
    <3>1. IsFiniteSet(DOMAIN b) /\ Hand \in DOMAIN b
      BY <1>1, <1>2, <1>7
    <3> QED
      BY <1>6, <3>1, HeldMoved
  <2> QED
    BY <1>1, <1>2, <2>1, <2>2
<1>9. \A x \in DOMAIN d : d[x] \in DOMAIN h \union {NULL}
  <2>1. a[t] \in DOMAIN h \union {NULL} /\ a[Hand] \in DOMAIN h \union {NULL}
    BY <1>1, <1>7
  <2>2. ASSUME NEW x \in Table \ {t} PROVE d[x] \in DOMAIN h \union {NULL}
    <3>1. a[x] = r[x] /\ x \in DOMAIN a
      BY <1>1, PlacesFacts DEF a
    <3> QED
      BY <1>3, <1>7, <3>1
  <2> QED
    BY <1>1, <1>3, <2>1, <2>2
<1>10. Typed(h, d)
  <2>1. IsFiniteSet(DOMAIN d)
    BY <1>3, <1>7
  <2> QED
    BY <1>3, <1>7, <1>9, <2>1, TypedFacts
<1>11. Counted(h, d)
  BY <1>8 DEF Sound, Counted, a
<1> QED
  BY <1>10, <1>11 DEF Sound, a, d

-----------------------------------------------------------------------------
(* One level down. *)

\* An entry is set and the entries in use are counted.
LEMMA SetEntryPlaces ==
  ASSUME NEW h, NEW r, Typed(h, r), NEW o \in DOMAIN h, NEW i \in Index, NEW c
  PROVE  /\ (h[o].entries[i] = NULL <=> c = NULL)
              => Placed(h, SetEntry(h, o, i, c), o, i, c)
         /\ h[o].entries[i] = NULL /\ c # NULL
              => Placed(h, [SetEntry(h, o, i, c) EXCEPT ![o].active = @ + 1], o, i, c)
         /\ h[o].entries[i] # NULL => Placed(h, Cut(h, o, i), o, i, NULL)
<1>1. /\ h = [y \in DOMAIN h |-> h[y]]
      /\ h[o] = [level |-> h[o].level, refs |-> h[o].refs, active |-> h[o].active,
                 entries |-> h[o].entries, frame |-> h[o].frame]
      /\ h[o].active \in Nat
  <2>1. Formed(h, o) /\ h = [y \in DOMAIN h |-> h[y]]
    BY TypedFacts
  <2> QED
    BY <2>1 DEF Formed
<1>2. ASSUME NEW d
      PROVE  LET g == SetEntry(h, o, i, d)
             IN  /\ DOMAIN g = DOMAIN h /\ g = [y \in DOMAIN g |-> g[y]]
                 /\ \A y \in DOMAIN h \ {o} : g[y] = h[y]
                 /\ g[o] = [level |-> h[o].level, refs |-> h[o].refs,
                            active |-> h[o].active,
                            entries |-> [h[o].entries EXCEPT ![i] = d],
                            frame |-> h[o].frame]
  BY <1>1 DEF SetEntry
<1>3. ASSUME NEW d, NEW n
      PROVE  LET g == [SetEntry(h, o, i, d) EXCEPT ![o].active = n]
             IN  /\ DOMAIN g = DOMAIN h /\ g = [y \in DOMAIN g |-> g[y]]
                 /\ \A y \in DOMAIN h \ {o} : g[y] = h[y]
                 /\ g[o] = [level |-> h[o].level, refs |-> h[o].refs, active |-> n,
                            entries |-> [h[o].entries EXCEPT ![i] = d],
                            frame |-> h[o].frame]
  <2> DEFINE e == SetEntry(h, o, i, d)
             g == [e EXCEPT ![o].active = n]
  <2>1. /\ DOMAIN e = DOMAIN h
        /\ \A y \in DOMAIN h \ {o} : e[y] = h[y]
        /\ e[o] = [level |-> h[o].level, refs |-> h[o].refs, active |-> h[o].active,
                   entries |-> [h[o].entries EXCEPT ![i] = d], frame |-> h[o].frame]
    BY <1>2
  <2> HIDE DEF e
  <2>2. /\ DOMAIN g = DOMAIN e /\ g = [y \in DOMAIN g |-> g[y]]
        /\ \A y \in DOMAIN h \ {o} : g[y] = e[y]
        /\ g[o] = [e[o] EXCEPT !.active = n]
    BY <2>1
  <2> HIDE DEF g
  <2>3. [e[o] EXCEPT !.active = n]
          = [level |-> h[o].level, refs |-> h[o].refs, active |-> n,
             entries |-> [h[o].entries EXCEPT ![i] = d], frame |-> h[o].frame]
    BY <2>1
  <2>4. /\ DOMAIN g = DOMAIN h /\ g = [y \in DOMAIN g |-> g[y]]
        /\ \A y \in DOMAIN h \ {o} : g[y] = h[y]
        /\ g[o] = [level |-> h[o].level, refs |-> h[o].refs, active |-> n,
                   entries |-> [h[o].entries EXCEPT ![i] = d], frame |-> h[o].frame]
    BY <2>1, <2>2, <2>3
  <2> QED
    BY <2>4 DEF g, e
<1>4. ASSUME NEW d PROVE SetEntry(h, o, i, d)[o].active = h[o].active
  <2> DEFINE g == SetEntry(h, o, i, d)
  <2>1. g[o] = [level |-> h[o].level, refs |-> h[o].refs, active |-> h[o].active,
                entries |-> [h[o].entries EXCEPT ![i] = d], frame |-> h[o].frame]
    BY <1>2
  <2> HIDE DEF g
  <2>2. g[o].active = h[o].active
    BY <2>1
  <2> QED
    BY <2>2 DEF g
<1>5. ASSUME h[o].entries[i] = NULL <=> c = NULL
      PROVE  Placed(h, SetEntry(h, o, i, c), o, i, c)
  <2> DEFINE g == SetEntry(h, o, i, c)
  <2>1. /\ DOMAIN g = DOMAIN h /\ g = [y \in DOMAIN g |-> g[y]]
        /\ \A y \in DOMAIN h \ {o} : g[y] = h[y]
        /\ g[o] = [level |-> h[o].level, refs |-> h[o].refs, active |-> h[o].active,
                   entries |-> [h[o].entries EXCEPT ![i] = c], frame |-> h[o].frame]
    BY <1>2
  <2> HIDE DEF g
  <2>2. g[o].active = h[o].active
    BY <2>1
  <2>3. Placed(h, g, o, i, c)
    BY <1>1, <1>5, <2>1, <2>2 DEF Placed
  <2> QED
    BY <2>3 DEF g
<1>6. ASSUME h[o].entries[i] = NULL, c # NULL
      PROVE  Placed(h, [SetEntry(h, o, i, c) EXCEPT ![o].active = @ + 1], o, i, c)
  <2> DEFINE g == [SetEntry(h, o, i, c) EXCEPT ![o].active = h[o].active + 1]
  <2>1. g = [SetEntry(h, o, i, c) EXCEPT ![o].active = @ + 1]
    BY <1>4
  <2>2. /\ DOMAIN g = DOMAIN h /\ g = [y \in DOMAIN g |-> g[y]]
        /\ \A y \in DOMAIN h \ {o} : g[y] = h[y]
        /\ g[o] = [level |-> h[o].level, refs |-> h[o].refs, active |-> h[o].active + 1,
                   entries |-> [h[o].entries EXCEPT ![i] = c], frame |-> h[o].frame]
    BY <1>3
  <2> HIDE DEF g
  <2>3. g[o].active = h[o].active + 1
    BY <2>2
  <2>4. Placed(h, g, o, i, c)
    BY <1>1, <1>6, <2>2, <2>3 DEF Placed
  <2> QED
    BY <2>1, <2>4
<1>7. ASSUME h[o].entries[i] # NULL PROVE Placed(h, Cut(h, o, i), o, i, NULL)
  <2> DEFINE g == [SetEntry(h, o, i, NULL) EXCEPT ![o].active = h[o].active - 1]
  <2>1. g = Cut(h, o, i)
    BY <1>4 DEF Cut
  <2>2. /\ DOMAIN g = DOMAIN h /\ g = [y \in DOMAIN g |-> g[y]]
        /\ \A y \in DOMAIN h \ {o} : g[y] = h[y]
        /\ g[o] = [level |-> h[o].level, refs |-> h[o].refs, active |-> h[o].active - 1,
                   entries |-> [h[o].entries EXCEPT ![i] = NULL], frame |-> h[o].frame]
    BY <1>3
  <2> HIDE DEF g
  <2>3. g[o].active = h[o].active - 1
    BY <2>2
  <2>4. Placed(h, g, o, i, NULL)
    BY <1>1, <1>7, <2>2, <2>3 DEF Placed
  <2> QED
    BY <2>1, <2>4
<1> QED
  BY <1>5, <1>6, <1>7

\* b holds in g what a holds in h: nothing, if there is no a.
Copied(h, g, a, b) ==
  IF a = NULL
    THEN g[b].frame = NoFrame /\ \A i \in Index : g[b].entries[i] = NULL
    ELSE g[b].frame = h[a].frame /\ g[b].entries = h[a].entries

\* What a step from at down to b makes of the heap.
Descended(h, g, at, i, b) ==
  LET a == h[at].entries[i]
  IN  /\ b \in DOMAIN g /\ DOMAIN g = DOMAIN h \union {b}
      /\ g[b].refs = 1 /\ g[b].level = h[at].level + 1
      /\ g[at].entries = [h[at].entries EXCEPT ![i] = b]
      /\ \A y \in DOMAIN h :
           /\ g[y].level = h[y].level /\ g[y].frame = h[y].frame
           /\ y # at => g[y].entries = h[y].entries
           /\ h[y].level <= h[at].level => g[y].refs = h[y].refs
      /\ \/ b = a /\ g = h
         \/ b \notin DOMAIN h /\ Copied(h, g, a, b)

\* What is changed where an entry is placed.
ChangedAt(h, g, o, i, c) ==
  /\ DOMAIN g = DOMAIN h
  /\ g[o].entries = [h[o].entries EXCEPT ![i] = c]
  /\ \A y \in DOMAIN h :
       /\ g[y].level = h[y].level /\ g[y].frame = h[y].frame
       /\ g[y].refs = h[y].refs
       /\ y # o => g[y].entries = h[y].entries /\ g[y].active = h[y].active

LEMMA PlacedFacts ==
  ASSUME NEW h, NEW g, NEW o \in DOMAIN h, NEW i, NEW c, Placed(h, g, o, i, c)
  PROVE  ChangedAt(h, g, o, i, c)
<1>1. /\ g[o].level = h[o].level /\ g[o].frame = h[o].frame /\ g[o].refs = h[o].refs
      /\ g[o].entries = [h[o].entries EXCEPT ![i] = c]
  BY DEF Placed
<1>2. DOMAIN g = DOMAIN h /\ \A y \in DOMAIN h \ {o} : g[y] = h[y]
  BY DEF Placed
<1> QED
  BY <1>1, <1>2 DEF ChangedAt

\* The step creates the child that is missing.
LEMMA StepCreates ==
  ASSUME NEW h, NEW r, DOMAIN r = Table, Sound(h, r), NEW at \in DOMAIN h,
         h[at].level # Levels, NEW i \in Index, h[at].entries[i] = NULL
  PROVE  LET new == Fresh(h)
             g == [SetEntry(Added(h, NewObject(h[at].level + 1)), at, i, new)
                     EXCEPT ![at].active = @ + 1]
         IN  Sound(g, r) /\ Descended(h, g, at, i, new)
<1> DEFINE new == Fresh(h)
           level == h[at].level + 1
           f == Added(h, NewObject(level))
           g == [SetEntry(f, at, i, new) EXCEPT ![at].active = @ + 1]
<1>1. /\ Typed(h, r) /\ IsFiniteSet(DOMAIN h) /\ NULL \notin DOMAIN h
      /\ r = [t \in Table |-> r[t]]
  BY TypedFacts DEF Sound
<1>2. level \in 0 .. Levels /\ h[at].level \in Nat
  BY LevelType, SizesAssumption
<1>3. new \notin DOMAIN h /\ new # NULL
  BY <1>1, FreshIsNew
<1>4. /\ DOMAIN f = DOMAIN h \union {new}
      /\ \A o \in DOMAIN h : f[o] = h[o]
      /\ f[new] = NewObject(level)
      /\ \A j \in Index : f[new].entries[j] = NULL
      /\ f[new].frame = NoFrame /\ f[new].level = level
  <2>1. WithNew(h, f, new, level)
    BY <1>1, NewObjectFacts
  <2> HIDE DEF level, f, new
  <2> QED
    BY <2>1 DEF WithNew
<1>5. f[new].refs = 1
  BY <1>4 DEF NewObject
<1>6. Sound(f, Places(r, new))
  <2>1. Sound(h, Places(r, NULL))
    BY <1>1, EmptyHanded
  <2> HIDE DEF level
  <2>2. Sound(f, [Places(r, NULL) EXCEPT ![Hand] = new])
    BY <1>2, <2>1, PlacesFacts, AddedSound
  <2>3. [Places(r, NULL) EXCEPT ![Hand] = new] = Places(r, new)
    BY PlacesFacts
  <2> QED
    BY <2>2, <2>3
<1> HIDE DEF f, new, level
<1>7. at \in DOMAIN f /\ f[at] = h[at] /\ new \in DOMAIN f
  BY <1>4
<1>8. Placed(f, g, at, i, new)
  <2>1. Typed(f, Places(r, new))
    BY <1>6 DEF Sound
  <2>2. f[at].entries[i] = NULL
    BY <1>7
  <2> QED
    BY <1>3, <1>7, <2>1, <2>2, SetEntryPlaces
<1> HIDE DEF g
<1>9. Sound(g, r)
  <2> DEFINE s == Places(r, new)
  <2>1. s[Hand] = new /\ Hand \in DOMAIN s
    BY PlacesFacts
  <2>2. f[s[Hand]].level = f[at].level + 1
    BY <1>4, <1>7, <2>1 DEF level
  <2>3. Placed(f, g, at, i, s[Hand]) /\ Sound(f, s)
    BY <1>6, <1>8, <2>1
  <2> HIDE DEF s
  <2>4. Sound(g, [s EXCEPT ![Hand] = f[at].entries[i]])
    BY <1>7, <2>1, <2>2, <2>3, PlacedSound
  <2>5. [s EXCEPT ![Hand] = f[at].entries[i]] = Places(r, NULL)
    BY <1>7, PlacesFacts DEF s
  <2> QED
    BY <1>1, <2>4, <2>5, EmptyHanded
<1>10. /\ DOMAIN g = DOMAIN f
       /\ g[at].entries = [f[at].entries EXCEPT ![i] = new]
       /\ \A y \in DOMAIN f :
            /\ g[y].level = f[y].level /\ g[y].frame = f[y].frame
            /\ g[y].refs = f[y].refs
            /\ y # at => g[y].entries = f[y].entries
  <2>1. ChangedAt(f, g, at, i, new)
    BY <1>7, <1>8, PlacedFacts
  <2> QED
    BY <2>1 DEF ChangedAt
<1>11. Descended(h, g, at, i, new)
  <2>1. new # at
    BY <1>3
  <2>2. Copied(h, g, NULL, new)
    BY <1>4, <1>7, <1>10, <2>1 DEF Copied
  <2>3. g[new].refs = 1 /\ g[new].level = h[at].level + 1
    BY <1>4, <1>5, <1>7, <1>10 DEF level
  <2>4. \A y \in DOMAIN h : /\ g[y].level = h[y].level /\ g[y].frame = h[y].frame
                            /\ y # at => g[y].entries = h[y].entries
                            /\ g[y].refs = h[y].refs
    BY <1>4, <1>10
  <2>5. new \in DOMAIN g /\ DOMAIN g = DOMAIN h \union {new}
        /\ g[at].entries = [h[at].entries EXCEPT ![i] = new]
    BY <1>4, <1>7, <1>10
  <2> QED
    BY <1>3, <2>2, <2>3, <2>4, <2>5 DEF Descended
<1> QED
  BY <1>9, <1>11 DEF g, f, new, level

\* The step copies the child that is shared.
LEMMA StepCopies ==
  ASSUME NEW h, NEW r, DOMAIN r = Table, Sound(h, r), NEW at \in DOMAIN h,
         NEW i \in Index, h[at].entries[i] # NULL, h[h[at].entries[i]].refs > 1
  PROVE  LET new == Fresh(h)
             a == h[at].entries[i]
             g == Released(SetEntry(Clone(h, a), at, i, new), a)
         IN  Sound(g, r) /\ Descended(h, g, at, i, new)
<1> DEFINE new == Fresh(h)
           a == h[at].entries[i]
           e == Clone(h, a)
           f == SetEntry(e, at, i, new)
           g == Released(f, a)
<1>1. /\ Typed(h, r) /\ IsFiniteSet(DOMAIN h) /\ NULL \notin DOMAIN h
      /\ r = [t \in Table |-> r[t]]
  BY TypedFacts DEF Sound
<1>2. /\ a \in DOMAIN h /\ h[a].level = h[at].level + 1
      /\ h[at].level \in Nat
  <2>1. Formed(h, at)
    BY TypedFacts DEF Sound
  <2>2. a \in DOMAIN h
    BY <2>1 DEF Formed
  <2> QED
    BY <2>2, LevelType DEF Sound, Layered
<1>3. new \notin DOMAIN h /\ new # NULL
  BY <1>1, FreshIsNew
<1>4. /\ DOMAIN e = DOMAIN h \union {new}
      /\ \A y \in DOMAIN h : e[y] = [h[y] EXCEPT !.refs = @ + Times(h, a, y)]
      /\ e[new] = [h[a] EXCEPT !.refs = 1]
  BY <1>1, <1>2, CloneFacts
<1>5. Sound(e, Places(r, new))
  <2>1. Sound(h, Places(r, NULL))
    BY <1>1, EmptyHanded
  <2> HIDE DEF a
  <2>2. Sound(e, [Places(r, NULL) EXCEPT ![Hand] = new])
    BY <1>2, <2>1, PlacesFacts, ClonedSound
  <2>3. [Places(r, NULL) EXCEPT ![Hand] = new] = Places(r, new)
    BY PlacesFacts
  <2> QED
    BY <2>2, <2>3
<1> HIDE DEF e, new
<1>6. ASSUME NEW y \in DOMAIN h
      PROVE  /\ e[y].level = h[y].level /\ e[y].frame = h[y].frame
             /\ e[y].entries = h[y].entries
             /\ e[y].refs = h[y].refs + Times(h, a, y)
             /\ h[y].refs \in Nat
  <2>1. h[y] = [level |-> h[y].level, refs |-> h[y].refs, active |-> h[y].active,
                entries |-> h[y].entries, frame |-> h[y].frame]
        /\ h[y].refs \in Nat
    BY TypedFacts DEF Sound, Formed
  <2>2. e[y] = [h[y] EXCEPT !.refs = h[y].refs + Times(h, a, y)]
    BY <1>4
  <2> QED
    BY <2>1, <2>2, RefsChanged
<1>7. /\ e[new].level = h[a].level /\ e[new].frame = h[a].frame
      /\ e[new].entries = h[a].entries /\ e[new].refs = 1
  <2>1. h[a] = [level |-> h[a].level, refs |-> h[a].refs, active |-> h[a].active,
                entries |-> h[a].entries, frame |-> h[a].frame]
    BY <1>2, TypedFacts DEF Sound, Formed
  <2>2. e[new] = [h[a] EXCEPT !.refs = 1]
    BY <1>4
  <2> HIDE DEF a
  <2> QED
    BY <2>1, <2>2, RefsChanged
\* The children of the copy are below the copy.
<1>8. ASSUME NEW y \in DOMAIN h, h[y].level <= h[a].level PROVE Times(h, a, y) = 0
  <2>1. ASSUME NEW j \in Index, h[a].entries[j] = y PROVE FALSE
    <3>1. y # NULL /\ h[a].level \in Nat
      BY <1>1, <1>2, LevelType
    <3>2. h[y].level = h[a].level + 1
      BY <1>2, <2>1, <3>1 DEF Sound, Layered
    <3> QED
      BY <1>8, <3>1, <3>2
  <2>2. {j \in Index : h[a].entries[j] = y} = {}
    BY <2>1
  <2> QED
    BY <2>2, FS_EmptySet DEF Times
<1>9. /\ at \in DOMAIN e /\ e[at].entries = h[at].entries /\ new \in DOMAIN e
      /\ e[new].level = e[at].level + 1 /\ at # new /\ a # new
  BY <1>2, <1>3, <1>4, <1>6, <1>7
<1>10. Placed(e, f, at, i, new)
  <2>1. Typed(e, Places(r, new))
    BY <1>5 DEF Sound
  <2>2. e[at].entries[i] # NULL
    BY <1>9
  <2> QED
    BY <1>3, <1>9, <2>1, <2>2, SetEntryPlaces
<1> HIDE DEF f
<1>11. Sound(f, Places(r, a))
  <2> DEFINE s == Places(r, new)
  <2>1. s[Hand] = new /\ Hand \in DOMAIN s
    BY PlacesFacts
  <2>2. e[s[Hand]].level = e[at].level + 1
    BY <1>9, <2>1
  <2>3. Placed(e, f, at, i, s[Hand]) /\ Sound(e, s)
    BY <1>5, <1>10, <2>1
  <2> HIDE DEF s
  <2>4. Sound(f, [s EXCEPT ![Hand] = e[at].entries[i]])
    BY <1>9, <2>1, <2>2, <2>3, PlacedSound
  <2>5. [s EXCEPT ![Hand] = e[at].entries[i]] = Places(r, a)
    BY <1>9, PlacesFacts DEF s
  <2> QED
    BY <2>4, <2>5
<1>12. /\ DOMAIN f = DOMAIN e
       /\ f[at].entries = [e[at].entries EXCEPT ![i] = new]
       /\ \A y \in DOMAIN e :
            /\ f[y].level = e[y].level /\ f[y].frame = e[y].frame
            /\ f[y].refs = e[y].refs
            /\ y # at => f[y].entries = e[y].entries
  <2>1. ChangedAt(e, f, at, i, new)
    BY <1>9, <1>10, PlacedFacts
  <2> QED
    BY <2>1 DEF ChangedAt
<1>13. a \in DOMAIN f /\ f[a].refs = h[a].refs /\ f[a].refs > 1
  <2>1. h[a].level <= h[a].level
    BY <1>2, LevelType
  <2>2. Times(h, a, a) = 0
    BY <1>2, <1>8, <2>1
  <2>3. e[a].refs = h[a].refs
    BY <1>2, <1>6, <2>2
  <2> QED
    BY <1>2, <1>4, <1>12, <2>3
<1>14. Sound(g, r)
  <2> DEFINE s == Places(r, a)
  <2>1. s[Hand] = a /\ Hand \in DOMAIN s /\ s[Hand] # NULL /\ Sound(f, s)
    BY <1>11, PlacesFacts
  <2> HIDE DEF s, g
  <2>2. Sound(Released(f, s[Hand]), [s EXCEPT ![Hand] = NULL])
    BY <2>1, ReleasedSound
  <2>3. [s EXCEPT ![Hand] = NULL] = Places(r, NULL)
    BY PlacesFacts DEF s
  <2>4. Sound(g, Places(r, NULL))
    BY <2>1, <2>2, <2>3 DEF g
  <2> QED
    BY <1>1, <2>4, EmptyHanded
<1>15. Recounts(f, g, a, f[a].refs - 1)
  BY <1>13 DEF Released, Recounts
<1> HIDE DEF g
<1>16. /\ Recounted(f, g) /\ DOMAIN g = DOMAIN f
       /\ \A y \in DOMAIN f \ {a} : g[y].refs = f[y].refs
       /\ Typed(f, Places(r, a))
  <2>1. Typed(f, Places(r, a))
    BY <1>11 DEF Sound
  <2> HIDE DEF a
  <2> QED
    BY <1>13, <1>15, <2>1, CountChanged
<1>17. \A y \in DOMAIN f : /\ g[y].level = f[y].level /\ g[y].frame = f[y].frame
                           /\ g[y].entries = f[y].entries
  BY <1>16, RecountedFacts
<1>18. Descended(h, g, at, i, new)
  <2>1. Copied(h, g, a, new)
    BY <1>1, <1>2, <1>7, <1>9, <1>12, <1>17 DEF Copied
  <2>2. g[new].refs = 1 /\ g[new].level = h[at].level + 1
    BY <1>2, <1>7, <1>9, <1>12, <1>16, <1>17
  <2>3. ASSUME NEW y \in DOMAIN h
        PROVE  /\ g[y].level = h[y].level /\ g[y].frame = h[y].frame
               /\ y # at => g[y].entries = h[y].entries
               /\ h[y].level <= h[at].level => g[y].refs = h[y].refs
    <3>1. y \in DOMAIN e /\ y \in DOMAIN f
      BY <1>4, <1>12
    <3>2. ASSUME h[y].level <= h[at].level PROVE g[y].refs = h[y].refs
      <4>1. y # a /\ h[y].level <= h[a].level
        BY <1>2, <3>2, LevelType
      <4>2. Times(h, a, y) = 0
        BY <1>8, <4>1
      <4>3. e[y].refs = h[y].refs
        BY <1>6, <4>2
      <4> QED
        BY <1>12, <1>16, <3>1, <4>1, <4>3
    <3> QED
      BY <1>6, <1>12, <1>17, <3>1, <3>2
  <2>4. new \in DOMAIN g /\ DOMAIN g = DOMAIN h \union {new}
        /\ g[at].entries = [h[at].entries EXCEPT ![i] = new]
    BY <1>4, <1>9, <1>12, <1>16, <1>17
  <2> QED
    BY <1>3, <2>1, <2>2, <2>3, <2>4 DEF Descended
<1> QED
  BY <1>14, <1>18 DEF g, f, e, new

\* One level down on a private object: what the step comes to is private.
LEMMA StepDescends ==
  ASSUME NEW h, NEW r, DOMAIN r = Table, Sound(h, r), NEW at \in DOMAIN h,
         h[at].level # Levels, NEW i \in Index
  PROVE  LET walk == Step([heap |-> h, at |-> at], i)
         IN  Sound(walk.heap, r) /\ Descended(h, walk.heap, at, i, walk.at)
<1> DEFINE w == [heap |-> h, at |-> at]
           a == h[at].entries[i]
           new == Fresh(h)
<1>1. w.heap = h /\ w.at = at
  OBVIOUS
<1>2. CASE a = NULL
  <2> DEFINE g == [SetEntry(Added(h, NewObject(h[at].level + 1)), at, i, new)
                     EXCEPT ![at].active = @ + 1]
  <2>1. Step(w, i) = [heap |-> g, at |-> new]
    BY <1>1, <1>2 DEF Step
  <2>2. Sound(g, r) /\ Descended(h, g, at, i, new)
    BY <1>2, StepCreates
  <2> HIDE DEF g, new
  <2> QED
    BY <2>1, <2>2
<1>3. CASE a # NULL /\ h[a].refs > 1
  <2> DEFINE g == Released(SetEntry(Clone(h, a), at, i, new), a)
  <2>1. Step(w, i) = [heap |-> g, at |-> new]
    BY <1>1, <1>3 DEF Step
  <2>2. Sound(g, r) /\ Descended(h, g, at, i, new)
    BY <1>3, StepCopies
  <2> HIDE DEF g, new
  <2> QED
    BY <2>1, <2>2
<1>4. CASE a # NULL /\ ~(h[a].refs > 1)
  <2>1. Step(w, i) = [heap |-> h, at |-> a]
    BY <1>1, <1>4 DEF Step
  <2>2. Formed(h, at) /\ Typed(h, r)
    BY TypedFacts DEF Sound
  <2>3. a \in DOMAIN h
    BY <1>4, <2>2 DEF Formed
  <2>4. h[a].refs = 1
    <3>1. h[a].refs \in Nat /\ h[a].refs > 0
      BY <2>3, CountedFacts
    <3> QED
      BY <1>4, <3>1
  <2>5. h[a].level = h[at].level + 1
    BY <1>4 DEF Sound, Layered
  <2>6. h[at].entries = [h[at].entries EXCEPT ![i] = a]
    BY <2>2 DEF Formed
  <2>7. Descended(h, h, at, i, a)
    BY <2>3, <2>4, <2>5, <2>6 DEF Descended
  <2> QED
    BY <2>1, <2>7
<1> QED
  BY <1>2, <1>3, <1>4

-----------------------------------------------------------------------------
(* The root that a table changes. *)

\* What page_table_ensure_private_root makes of the heap when the root a of a
\* table becomes b.
RootCopied(h, g, a, b) ==
  /\ b \in DOMAIN g /\ DOMAIN g = DOMAIN h \union {b}
  /\ g[b].refs = 1 /\ g[b].level = h[a].level
  /\ \A y \in DOMAIN h : /\ g[y].level = h[y].level /\ g[y].frame = h[y].frame
                         /\ g[y].entries = h[y].entries
  /\ \/ b = a /\ g = h
     \/ b \notin DOMAIN h /\ Copied(h, g, a, b)

LEMMA RootCopies ==
  ASSUME NEW h, NEW r, DOMAIN r = Table, Sound(h, r), NEW t \in Table, r[t] # NULL,
         h[r[t]].refs > 1
  PROVE  LET g == Released(Clone(h, r[t]), r[t])
         IN  /\ Sound(g, [r EXCEPT ![t] = Fresh(h)])
             /\ RootCopied(h, g, r[t], Fresh(h))
<1> DEFINE new == Fresh(h)
           a == r[t]
           e == Clone(h, a)
           g == Released(e, a)
           q == [r EXCEPT ![t] = new]
<1>1. /\ Typed(h, r) /\ IsFiniteSet(DOMAIN h) /\ NULL \notin DOMAIN h
      /\ r = [u \in Table |-> r[u]] /\ a \in DOMAIN h
  BY TypedFacts DEF Sound
<1>2. new \notin DOMAIN h /\ new # NULL
  BY <1>1, FreshIsNew
<1>3. /\ DOMAIN e = DOMAIN h \union {new}
      /\ \A y \in DOMAIN h : e[y] = [h[y] EXCEPT !.refs = @ + Times(h, a, y)]
      /\ e[new] = [h[a] EXCEPT !.refs = 1]
  BY <1>1, CloneFacts
<1>4. Sound(e, Places(r, new))
  <2>1. Sound(h, Places(r, NULL))
    BY <1>1, EmptyHanded
  <2> HIDE DEF a
  <2>2. Sound(e, [Places(r, NULL) EXCEPT ![Hand] = new])
    BY <1>1, <2>1, PlacesFacts, ClonedSound
  <2>3. [Places(r, NULL) EXCEPT ![Hand] = new] = Places(r, new)
    BY PlacesFacts
  <2> QED
    BY <2>2, <2>3
<1>5. Sound(e, Places(q, a))
  <2> HIDE DEF e, new
  <2> QED
    BY <1>4, ExchangedSound
<1>6. DOMAIN q = Table /\ q = [u \in Table |-> q[u]]
  BY <1>1
<1> HIDE DEF e, new, q
<1>7. ASSUME NEW y \in DOMAIN h
      PROVE  /\ e[y].level = h[y].level /\ e[y].frame = h[y].frame
             /\ e[y].entries = h[y].entries
             /\ e[y].refs = h[y].refs + Times(h, a, y)
             /\ h[y].refs \in Nat
  <2>1. h[y] = [level |-> h[y].level, refs |-> h[y].refs, active |-> h[y].active,
                entries |-> h[y].entries, frame |-> h[y].frame]
        /\ h[y].refs \in Nat
    BY TypedFacts DEF Sound, Formed
  <2>2. e[y] = [h[y] EXCEPT !.refs = h[y].refs + Times(h, a, y)]
    BY <1>3
  <2> QED
    BY <2>1, <2>2, RefsChanged
<1>8. /\ e[new].level = h[a].level /\ e[new].frame = h[a].frame
      /\ e[new].entries = h[a].entries /\ e[new].refs = 1
  <2>1. h[a] = [level |-> h[a].level, refs |-> h[a].refs, active |-> h[a].active,
                entries |-> h[a].entries, frame |-> h[a].frame]
    BY <1>1, TypedFacts DEF Sound, Formed
  <2>2. e[new] = [h[a] EXCEPT !.refs = 1]
    BY <1>3
  <2> HIDE DEF a
  <2> QED
    BY <2>1, <2>2, RefsChanged
<1>9. a \in DOMAIN e /\ e[a].refs > 1 /\ a # new /\ new \in DOMAIN e
  <2>1. Times(h, a, a) \in Nat
    BY TimesType
  <2>2. e[a].refs = h[a].refs + Times(h, a, a) /\ h[a].refs \in Nat /\ h[a].refs > 1
    BY <1>1, <1>7
  <2> QED
    BY <1>1, <1>2, <1>3, <2>1, <2>2
<1>10. Sound(g, q)
  <2> DEFINE s == Places(q, a)
  <2>1. s[Hand] = a /\ Hand \in DOMAIN s /\ s[Hand] # NULL /\ Sound(e, s)
    BY <1>5, PlacesFacts
  <2> HIDE DEF s, g
  <2>2. Sound(Released(e, s[Hand]), [s EXCEPT ![Hand] = NULL])
    BY <2>1, ReleasedSound
  <2>3. [s EXCEPT ![Hand] = NULL] = Places(q, NULL)
    BY PlacesFacts DEF s
  <2>4. Sound(g, Places(q, NULL))
    BY <2>1, <2>2, <2>3 DEF g
  <2> QED
    BY <1>6, <2>4, EmptyHanded
<1>11. Recounts(e, g, a, e[a].refs - 1)
  BY <1>9 DEF Released, Recounts
<1> HIDE DEF g
<1>12. /\ Recounted(e, g) /\ DOMAIN g = DOMAIN e
       /\ \A y \in DOMAIN e \ {a} : g[y].refs = e[y].refs
       /\ Typed(e, Places(q, a))
  <2>1. Typed(e, Places(q, a))
    BY <1>5 DEF Sound
  <2> HIDE DEF a
  <2> QED
    BY <1>9, <1>11, <2>1, CountChanged
<1>13. \A y \in DOMAIN e : /\ g[y].level = e[y].level /\ g[y].frame = e[y].frame
                           /\ g[y].entries = e[y].entries
  BY <1>12, RecountedFacts
<1>14. RootCopied(h, g, a, new)
  <2>1. Copied(h, g, a, new)
    BY <1>1, <1>8, <1>9, <1>13 DEF Copied
  <2>2. g[new].refs = 1 /\ g[new].level = h[a].level
    BY <1>8, <1>9, <1>12, <1>13
  <2>3. \A y \in DOMAIN h : /\ g[y].level = h[y].level /\ g[y].frame = h[y].frame
                            /\ g[y].entries = h[y].entries
    BY <1>3, <1>7, <1>13
  <2>4. new \in DOMAIN g /\ DOMAIN g = DOMAIN h \union {new}
    BY <1>3, <1>9, <1>12
  <2> QED
    BY <1>2, <2>1, <2>2, <2>3, <2>4 DEF RootCopied
<1> QED
  BY <1>10, <1>14 DEF g, e, new, q

LEMMA PrivateRootFacts ==
  ASSUME DOMAIN root = Table, Sound(heap, root), NEW t \in Table, Exists(t)
  PROVE  LET walk == PrivateRoot(t)
         IN  /\ Sound(walk.heap, [root EXCEPT ![t] = walk.at])
             /\ RootCopied(heap, walk.heap, root[t], walk.at)
<1> DEFINE h == heap
           r == root
<1>0. h = heap /\ r = root /\ r[t] # NULL
  BY DEF Exists
<1> HIDE DEF h, r
<1>1. DOMAIN r = Table /\ Sound(h, r)
  BY <1>0
<1>2. r[t] \in DOMAIN h /\ r = [u \in Table |-> r[u]]
  BY <1>0, <1>1, TypedFacts DEF Sound
<1>3. CASE h[r[t]].refs = 1
  <2>1. PrivateRoot(t) = [heap |-> h, at |-> r[t]]
    BY <1>0, <1>3 DEF PrivateRoot
  <2>2. [r EXCEPT ![t] = r[t]] = r
    BY <1>2
  <2>3. RootCopied(h, h, r[t], r[t])
    BY <1>2, <1>3 DEF RootCopied
  <2>4. PrivateRoot(t).heap = h /\ PrivateRoot(t).at = r[t]
    BY <2>1
  <2> QED
    BY <1>0, <1>1, <2>2, <2>3, <2>4
<1>4. CASE h[r[t]].refs # 1
  <2> DEFINE g == Released(Clone(h, r[t]), r[t])
             new == Fresh(h)
  <2>1. PrivateRoot(t) = [heap |-> g, at |-> new]
    BY <1>0, <1>4 DEF PrivateRoot
  <2>2. h[r[t]].refs > 1
    <3>1. h[r[t]].refs \in Nat /\ h[r[t]].refs > 0
      BY <1>1, <1>2, CountedFacts
    <3> QED
      BY <1>4, <3>1
  <2>3. /\ Sound(g, [r EXCEPT ![t] = new])
        /\ RootCopied(h, g, r[t], new)
    BY <1>0, <1>1, <2>2, RootCopies
  <2> HIDE DEF g, new
  <2>4. PrivateRoot(t).heap = g /\ PrivateRoot(t).at = new
    BY <2>1
  <2> QED
    BY <1>0, <2>3, <2>4
<1> QED
  BY <1>3, <1>4

-----------------------------------------------------------------------------
(* The way to a page, object by object. *)

\* NULL has no children and maps nothing.
Child(h, o, i) == IF o = NULL THEN NULL ELSE h[o].entries[i]

Value(h, o) == IF o = NULL THEN NoFrame ELSE h[o].frame

\* What a table with the root o maps at the path q.
Read(h, o, q) == Value(h, Reached(h, o, q)[Levels])

Reaching(h, o, q, at, m) ==
  at = [n \in 0 .. m |->
          IF n = 0 THEN o
          ELSE IF at[n - 1] = NULL THEN NULL ELSE h[at[n - 1]].entries[q[n]]]

LEMMA ReachingExists ==
  ASSUME NEW h, NEW o, NEW q, NEW m \in Nat
  PROVE  \E at : Reaching(h, o, q, at, m)
<1> DEFINE S == {k \in Nat : \E at : Reaching(h, o, q, at, k)}
<1>1. 0 \in S
  <2> DEFINE at == [n \in 0 .. 0 |-> o]
  <2>1. \A n \in 0 .. 0 : n = 0
    OBVIOUS
  <2>2. Reaching(h, o, q, at, 0)
    BY <2>1 DEF Reaching
  <2> QED
    BY <2>2
<1>2. ASSUME NEW k \in 0 .. m - 1, k \in S PROVE k + 1 \in S
  <2>1. PICK before : Reaching(h, o, q, before, k)
    BY <1>2
  <2> DEFINE last == IF before[k] = NULL THEN NULL ELSE h[before[k]].entries[q[k + 1]]
             at == [n \in 0 .. k + 1 |-> IF n = k + 1 THEN last ELSE before[n]]
             turn(n) == IF n = 0 THEN o
                        ELSE IF at[n - 1] = NULL THEN NULL
                        ELSE h[at[n - 1]].entries[q[n]]
  <2>2. k \in Nat /\ \A n \in 0 .. k : at[n] = before[n]
    OBVIOUS
  <2>3. ASSUME NEW n \in 0 .. k + 1 PROVE at[n] = turn(n)
    <3>1. CASE n = k + 1
      <4>1. at[n] = last /\ n # 0 /\ at[n - 1] = before[k]
        BY <2>2, <3>1
      <4> QED
        BY <3>1, <4>1
    <3>2. CASE n # k + 1
      <4>1. n \in 0 .. k /\ (n # 0 => n - 1 \in 0 .. k)
        BY <2>2, <3>2
      <4>2. before[n] = IF n = 0 THEN o
                        ELSE IF before[n - 1] = NULL THEN NULL
                        ELSE h[before[n - 1]].entries[q[n]]
        BY <2>1, <4>1 DEF Reaching
      <4>3. n # 0 => at[n - 1] = before[n - 1]
        BY <2>2, <4>1
      <4>4. at[n] = before[n]
        BY <2>2, <4>1
      <4> QED
        BY <4>2, <4>3, <4>4
    <3> QED
      BY <3>1, <3>2
  <2>4. at = [n \in 0 .. k + 1 |-> at[n]]
    OBVIOUS
  <2>5. at = [n \in 0 .. k + 1 |-> turn(n)]
    <3> HIDE DEF turn, at
    <3> QED
      BY <2>3, <2>4
  <2>6. Reaching(h, o, q, at, k + 1)
    <3> HIDE DEF at
    <3> QED
      BY <2>5 DEF Reaching
  <2> QED
    BY <2>2, <2>6
<1>3. 0 .. m \subseteq S
  <2> HIDE DEF S
  <2> QED
    BY <1>1, <1>2, Upwards
<1>4. m \in S
  BY <1>3
<1> QED
  BY <1>4

LEMMA ReachedFacts ==
  ASSUME NEW h, NEW o, NEW q
  PROVE  /\ Reached(h, o, q)[0] = o
         /\ \A n \in 0 .. Levels - 1 :
              Reached(h, o, q)[n + 1] = Child(h, Reached(h, o, q)[n], q[n + 1])
<1> DEFINE at == CHOOSE at : Reaching(h, o, q, at, Levels)
<1>1. Levels \in Nat
  BY SizesAssumption
<1>2. Reaching(h, o, q, at, Levels)
  BY <1>1, ReachingExists
<1>3. Reached(h, o, q) = at
  BY DEF Reached, Reaching
<1> HIDE DEF at
<1>4. at[0] = o
  BY <1>1, <1>2 DEF Reaching
<1>5. ASSUME NEW n \in 0 .. Levels - 1 PROVE at[n + 1] = Child(h, at[n], q[n + 1])
  <2>1. n + 1 \in 0 .. Levels /\ n + 1 # 0 /\ (n + 1) - 1 = n
    BY <1>1
  <2>2. at[n + 1] = IF at[(n + 1) - 1] = NULL THEN NULL
                    ELSE h[at[(n + 1) - 1]].entries[q[n + 1]]
    BY <1>2, <2>1 DEF Reaching
  <2> QED
    BY <2>1, <2>2 DEF Child
<1> QED
  BY <1>3, <1>4, <1>5

\* R relates objects of h with objects of g that map the same.
Simulates(h, g, R) ==
  \A a, b : <<a, b>> \in R =>
    /\ Value(h, a) = Value(g, b)
    /\ \A i \in Index : <<Child(h, a, i), Child(g, b, i)>> \in R

LEMMA ReadsSame ==
  ASSUME NEW h, NEW g, NEW R, Simulates(h, g, R), NEW a, NEW b, <<a, b>> \in R,
         NEW q \in [1 .. Levels -> Index]
  PROVE  Read(h, a, q) = Read(g, b, q)
<1> DEFINE S == {n \in 0 .. Levels : <<Reached(h, a, q)[n], Reached(g, b, q)[n]>> \in R}
<1>1. Levels \in Nat
  BY SizesAssumption
<1>2. 0 \in S
  BY <1>1, ReachedFacts
<1>3. ASSUME NEW n \in 0 .. Levels - 1, n \in S PROVE n + 1 \in S
  <2>1. q[n + 1] \in Index /\ n + 1 \in 0 .. Levels
    BY <1>1
  <2>2. <<Child(h, Reached(h, a, q)[n], q[n + 1]),
          Child(g, Reached(g, b, q)[n], q[n + 1])>> \in R
    BY <1>3, <2>1 DEF Simulates
  <2>3. /\ Reached(h, a, q)[n + 1] = Child(h, Reached(h, a, q)[n], q[n + 1])
        /\ Reached(g, b, q)[n + 1] = Child(g, Reached(g, b, q)[n], q[n + 1])
    <3>1. \A k \in 0 .. Levels - 1 :
            Reached(h, a, q)[k + 1] = Child(h, Reached(h, a, q)[k], q[k + 1])
      BY <1>1, ReachedFacts
    <3>2. \A k \in 0 .. Levels - 1 :
            Reached(g, b, q)[k + 1] = Child(g, Reached(g, b, q)[k], q[k + 1])
      BY <1>1, ReachedFacts
    <3> QED
      BY <3>1, <3>2
  <2>4. <<Reached(h, a, q)[n + 1], Reached(g, b, q)[n + 1]>> \in R
    BY <2>2, <2>3
  <2> QED
    BY <2>1, <2>4
<1>4. 0 .. Levels \subseteq S
  <2> HIDE DEF S
  <2> QED
    BY <1>1, <1>2, <1>3, Upwards
<1>5. Levels \in S
  BY <1>1, <1>4
<1> QED
  BY <1>5 DEF Read, Simulates

\* The objects that a table comes to on a path are allocated, one on each level.
LEMMA ReachedLevels ==
  ASSUME NEW h, NEW r, Sound(h, r), NEW o \in DOMAIN h \union {NULL},
         o # NULL => h[o].level = 0,
         NEW q \in [1 .. Levels -> Index], NEW m \in 0 .. Levels
  PROVE  /\ Reached(h, o, q)[m] \in DOMAIN h \union {NULL}
         /\ Reached(h, o, q)[m] # NULL => h[Reached(h, o, q)[m]].level = m
<1> DEFINE at == Reached(h, o, q)
           S == {n \in 0 .. Levels : /\ at[n] \in DOMAIN h \union {NULL}
                                     /\ at[n] # NULL => h[at[n]].level = n}
<1>1. Levels \in Nat /\ \A a \in DOMAIN h : Formed(h, a)
  BY SizesAssumption, TypedFacts DEF Sound
<1>2. 0 \in S
  BY <1>1, ReachedFacts
<1>3. ASSUME NEW n \in 0 .. Levels - 1, n \in S PROVE n + 1 \in S
  <2>1. q[n + 1] \in Index /\ n + 1 \in 0 .. Levels /\ at[n + 1] = Child(h, at[n], q[n + 1])
    BY <1>1, ReachedFacts
  <2>2. CASE at[n] = NULL
    BY <2>1, <2>2 DEF Child
  <2>3. CASE at[n] # NULL
    <3> DEFINE a == at[n]
    <3>1. a \in DOMAIN h /\ h[a].level = n /\ at[n + 1] = h[a].entries[q[n + 1]]
      BY <1>3, <2>1, <2>3 DEF Child
    <3>2. at[n + 1] \in DOMAIN h \union {NULL}
      BY <1>1, <2>1, <3>1 DEF Formed
    <3> HIDE DEF a
    <3>3. h[a].entries[q[n + 1]] # NULL
            => h[h[a].entries[q[n + 1]]].level = h[a].level + 1
      BY <2>1, <3>1 DEF Sound, Layered
    <3> QED
      BY <2>1, <3>1, <3>2, <3>3
  <2> QED
    BY <2>2, <2>3
<1>4. 0 .. Levels \subseteq S
  <2> HIDE DEF S
  <2> QED
    BY <1>1, <1>2, <1>3, Upwards
<1> QED
  BY <1>4

\* Where a path has ended it does not go on.
LEMMA ReachedEnds ==
  ASSUME NEW h, NEW o, NEW q, NEW m \in 0 .. Levels, Reached(h, o, q)[m] = NULL,
         NEW n \in 0 .. Levels, m <= n
  PROVE  Reached(h, o, q)[n] = NULL
<1> DEFINE at == Reached(h, o, q)
           S == {k \in 0 .. Levels : m <= k => at[k] = NULL}
<1>1. Levels \in Nat
  BY SizesAssumption
<1>2. 0 \in S
  BY <1>1
<1>3. ASSUME NEW k \in 0 .. Levels - 1, k \in S PROVE k + 1 \in S
  <2>1. k + 1 \in 0 .. Levels /\ at[k + 1] = Child(h, at[k], q[k + 1])
    BY <1>1, ReachedFacts
  <2> QED
    BY <1>1, <1>3, <2>1 DEF Child
<1>4. 0 .. Levels \subseteq S
  <2> HIDE DEF S
  <2> QED
    BY <1>1, <1>2, <1>3, Upwards
<1> QED
  BY <1>4

LEMMA NullMapsNothing ==
  ASSUME NEW h, NEW q PROVE Read(h, NULL, q) = NoFrame
<1>1. Levels \in Nat /\ 0 \in 0 .. Levels /\ Levels \in 0 .. Levels /\ 0 <= Levels
  BY SizesAssumption
<1>2. Reached(h, NULL, q)[0] = NULL
  BY ReachedFacts
<1>3. Reached(h, NULL, q)[Levels] = NULL
  BY <1>1, <1>2, ReachedEnds
<1> QED
  BY <1>3 DEF Read, Value

-----------------------------------------------------------------------------
(* What the operations on the heap leave to be read. *)

Same(h) == {<<x, x>> : x \in DOMAIN h \union {NULL}}

\* The children of an object are allocated.
LEMMA ChildIn ==
  ASSUME NEW h, NEW r, Sound(h, r), NEW o \in DOMAIN h \union {NULL}, NEW i \in Index
  PROVE  Child(h, o, i) \in DOMAIN h \union {NULL}
<1>1. o \in DOMAIN h => Formed(h, o)
  BY TypedFacts DEF Sound
<1>2. NULL \notin DOMAIN h
  BY TypedFacts DEF Sound
<1> QED
  BY <1>1, <1>2 DEF Formed, Child

\* Where h has the object a, g has b, which holds the same; else nothing differs
\* but counts.
Moved(h, g, a, b) ==
  /\ a \in DOMAIN h \union {NULL}
  /\ \A y \in DOMAIN h :
       /\ g[y].frame = h[y].frame
       /\ \A j \in Index : \/ g[y].entries[j] = h[y].entries[j]
                           \/ h[y].entries[j] = a /\ g[y].entries[j] = b
  /\ \/ b = a
     \/ b # NULL /\ Copied(h, g, a, b)

LEMMA MovedReads ==
  ASSUME NEW h, NEW r, Sound(h, r), NEW g, NEW a, NEW b, Moved(h, g, a, b),
         NEW q \in [1 .. Levels -> Index]
  PROVE  /\ \A x \in DOMAIN h \union {NULL} : Read(g, x, q) = Read(h, x, q)
         /\ Read(g, b, q) = Read(h, a, q)
<1> DEFINE R == Same(h) \union {<<a, b>>}
<1>1. Simulates(h, g, R)
  <2>0. NULL \notin DOMAIN h /\ a \in DOMAIN h \union {NULL}
    BY TypedFacts DEF Sound, Moved
  <2> SUFFICES ASSUME NEW y, NEW z, <<y, z>> \in R
               PROVE  /\ Value(h, y) = Value(g, z)
                      /\ \A j \in Index : <<Child(h, y, j), Child(g, z, j)>> \in R
    BY DEF Simulates
  <2>2. CASE y = z /\ y = NULL
    BY <2>2 DEF Value, Child, Same
  <2>3. CASE y = z /\ y \in DOMAIN h
    <3>1. Value(h, y) = Value(g, z)
      BY <2>0, <2>3 DEF Value, Moved
    <3>2. ASSUME NEW j \in Index PROVE <<Child(h, y, j), Child(g, z, j)>> \in R
      <4>1. Child(h, y, j) \in DOMAIN h \union {NULL}
        BY <2>3, ChildIn
      <4>2. Child(h, y, j) = h[y].entries[j] /\ Child(g, z, j) = g[y].entries[j]
        BY <2>0, <2>3 DEF Child
      <4>3. \/ g[y].entries[j] = h[y].entries[j]
            \/ h[y].entries[j] = a /\ g[y].entries[j] = b
        BY <2>3 DEF Moved
      <4> QED
        BY <4>1, <4>2, <4>3 DEF Same
    <3> QED
      BY <3>1, <3>2
  <2>4. CASE y = a /\ z = b /\ b # NULL /\ Copied(h, g, a, b)
    <3>1. CASE a = NULL
      <4>1. Value(h, y) = Value(g, z)
        BY <2>4, <3>1 DEF Copied, Value
      <4>2. \A j \in Index : Child(h, y, j) = NULL /\ Child(g, z, j) = NULL
        BY <2>4, <3>1 DEF Copied, Child
      <4> QED
        BY <4>1, <4>2 DEF Same
    <3>2. CASE a # NULL
      <4>1. Value(h, y) = Value(g, z)
        BY <2>4, <3>2 DEF Copied, Value
      <4>2. ASSUME NEW j \in Index
            PROVE  Child(h, y, j) = Child(g, z, j) /\ Child(h, y, j) \in DOMAIN h \union {NULL}
        <5>1. Child(h, y, j) \in DOMAIN h \union {NULL}
          BY <2>0, <2>4, ChildIn
        <5> QED
          BY <2>4, <3>2, <5>1 DEF Copied, Child
      <4> QED
        BY <4>1, <4>2 DEF Same
    <3> QED
      BY <3>1, <3>2
  <2>5. \/ y = z /\ y \in DOMAIN h \union {NULL}
        \/ y = a /\ z = b
    BY DEF Same
  <2>6. b = a \/ (b # NULL /\ Copied(h, g, a, b))
    BY DEF Moved
  <2> QED
    BY <2>0, <2>2, <2>3, <2>4, <2>5, <2>6
<1>2. <<a, b>> \in R /\ \A x \in DOMAIN h \union {NULL} : <<x, x>> \in R
  BY DEF Same
<1> HIDE DEF R
<1>3. ASSUME NEW x \in DOMAIN h \union {NULL} PROVE Read(g, x, q) = Read(h, x, q)
  <2>1. <<x, x>> \in R
    BY <1>2
  <2> QED
    BY <1>1, <2>1, ReadsSame
<1>4. Read(g, b, q) = Read(h, a, q)
  BY <1>1, <1>2, ReadsSame
<1> QED
  BY <1>3, <1>4

\* Nothing but counts changes in what is left of h.
LEMMA RecountedReads ==
  ASSUME NEW h, NEW r, Typed(h, r), NEW g, NEW s, Sound(g, s), Recounted(h, g),
         NEW x \in DOMAIN g \union {NULL}, NEW q \in [1 .. Levels -> Index]
  PROVE  Read(g, x, q) = Read(h, x, q)
<1>1. \A y \in DOMAIN g : g[y].entries = h[y].entries /\ g[y].frame = h[y].frame
  BY RecountedFacts
<1>2. Moved(g, h, NULL, NULL)
  BY <1>1 DEF Moved
<1> QED
  BY <1>2, MovedReads

LEMMA AddedReads ==
  ASSUME NEW h, NEW r, Sound(h, r), NEW level, NEW q \in [1 .. Levels -> Index]
  PROVE  LET g == Added(h, NewObject(level))
         IN  /\ \A x \in DOMAIN h \union {NULL} : Read(g, x, q) = Read(h, x, q)
             /\ Read(g, Fresh(h), q) = NoFrame
<1> DEFINE g == Added(h, NewObject(level))
           new == Fresh(h)
<1>1. IsFiniteSet(DOMAIN h)
  BY TypedFacts DEF Sound
<1>2. WithNew(h, g, new, level) /\ new # NULL
  BY <1>1, NewObjectFacts, FreshIsNew
<1> HIDE DEF g, new
<1>3. Moved(h, g, NULL, new)
  BY <1>2 DEF WithNew, Moved, Copied
<1>4. /\ \A x \in DOMAIN h \union {NULL} : Read(g, x, q) = Read(h, x, q)
      /\ Read(g, new, q) = Read(h, NULL, q)
  BY <1>3, MovedReads
<1>5. Read(g, new, q) = NoFrame
  BY <1>4, NullMapsNothing
<1> QED
  BY <1>4, <1>5 DEF g, new

LEMMA DescendedReads ==
  ASSUME NEW h, NEW r, Sound(h, r), NEW at \in DOMAIN h, NEW i \in Index,
         NEW g, NEW b, b # NULL, Descended(h, g, at, i, b),
         NEW x \in DOMAIN h \union {NULL}, NEW q \in [1 .. Levels -> Index]
  PROVE  Read(g, x, q) = Read(h, x, q)
<1> DEFINE a == h[at].entries[i]
<1>1. Formed(h, at)
  BY TypedFacts DEF Sound
<1>2. a \in DOMAIN h \union {NULL}
  BY <1>1 DEF Formed
<1>3. ASSUME NEW y \in DOMAIN h
      PROVE  /\ g[y].frame = h[y].frame
             /\ \A j \in Index : \/ g[y].entries[j] = h[y].entries[j]
                                 \/ h[y].entries[j] = a /\ g[y].entries[j] = b
  <2>1. /\ g[y].frame = h[y].frame
        /\ y # at => g[y].entries = h[y].entries
        /\ g[at].entries = [h[at].entries EXCEPT ![i] = b]
    BY DEF Descended
  <2>2. h[at].entries = [j \in Index |-> h[at].entries[j]]
    BY <1>1 DEF Formed
  <2>3. \A j \in Index : g[at].entries[j] = IF j = i THEN b ELSE h[at].entries[j]
    BY <2>1, <2>2
  <2> QED
    BY <2>1, <2>3
<1>4. b = a \/ (b # NULL /\ Copied(h, g, a, b))
  BY DEF Descended
<1>5. Moved(h, g, a, b)
  BY <1>2, <1>3, <1>4 DEF Moved
<1> HIDE DEF a
<1> QED
  BY <1>5, MovedReads

LEMMA RootCopiedReads ==
  ASSUME NEW h, NEW r, Sound(h, r), NEW a \in DOMAIN h, NEW g, NEW b, b # NULL,
         RootCopied(h, g, a, b), NEW q \in [1 .. Levels -> Index]
  PROVE  /\ \A x \in DOMAIN h \union {NULL} : Read(g, x, q) = Read(h, x, q)
         /\ Read(g, b, q) = Read(h, a, q)
<1>1. Moved(h, g, a, b)
  BY DEF RootCopied, Moved
<1> QED
  BY <1>1, MovedReads

-----------------------------------------------------------------------------
(* The walks of a table down to a page. *)

Walking(t, p, walk, m) ==
  walk = [n \in 0 .. m |->
            IF n = 0 THEN PrivateRoot(t) ELSE Step(walk[n - 1], p[n])]

LEMMA WalkingExists ==
  ASSUME NEW t, NEW p, NEW m \in Nat
  PROVE  \E walk : Walking(t, p, walk, m)
<1> DEFINE S == {k \in Nat : \E walk : Walking(t, p, walk, k)}
<1>1. 0 \in S
  <2> DEFINE walk == [n \in 0 .. 0 |-> PrivateRoot(t)]
  <2>1. \A n \in 0 .. 0 : n = 0
    OBVIOUS
  <2>2. Walking(t, p, walk, 0)
    BY <2>1 DEF Walking
  <2> QED
    BY <2>2
<1>2. ASSUME NEW k \in 0 .. m - 1, k \in S PROVE k + 1 \in S
  <2>1. PICK before : Walking(t, p, before, k)
    BY <1>2
  <2> DEFINE last == Step(before[k], p[k + 1])
             walk == [n \in 0 .. k + 1 |-> IF n = k + 1 THEN last ELSE before[n]]
             turn(n) == IF n = 0 THEN PrivateRoot(t) ELSE Step(walk[n - 1], p[n])
  <2>2. k \in Nat /\ \A n \in 0 .. k : walk[n] = before[n]
    OBVIOUS
  <2>3. ASSUME NEW n \in 0 .. k + 1 PROVE walk[n] = turn(n)
    <3>1. CASE n = k + 1
      <4>1. walk[n] = last /\ n # 0 /\ walk[n - 1] = before[k]
        BY <2>2, <3>1
      <4> QED
        BY <3>1, <4>1
    <3>2. CASE n # k + 1
      <4>1. n \in 0 .. k /\ (n # 0 => n - 1 \in 0 .. k)
        BY <2>2, <3>2
      <4>2. before[n] = IF n = 0 THEN PrivateRoot(t) ELSE Step(before[n - 1], p[n])
        BY <2>1, <4>1 DEF Walking
      <4>3. n # 0 => walk[n - 1] = before[n - 1]
        BY <2>2, <4>1
      <4>4. walk[n] = before[n]
        BY <2>2, <4>1
      <4> QED
        BY <4>2, <4>3, <4>4
    <3> QED
      BY <3>1, <3>2
  <2>4. walk = [n \in 0 .. k + 1 |-> walk[n]]
    OBVIOUS
  <2>5. walk = [n \in 0 .. k + 1 |-> turn(n)]
    <3> HIDE DEF turn, walk
    <3> QED
      BY <2>3, <2>4
  <2>6. Walking(t, p, walk, k + 1)
    <3> HIDE DEF walk
    <3> QED
      BY <2>5 DEF Walking
  <2> QED
    BY <2>2, <2>6
<1>3. 0 .. m \subseteq S
  <2> HIDE DEF S
  <2> QED
    BY <1>1, <1>2, Upwards
<1>4. m \in S
  BY <1>3
<1> QED
  BY <1>4

LEMMA WaySteps ==
  ASSUME NEW t, NEW p
  PROVE  /\ Way(t, p)[0] = PrivateRoot(t)
         /\ \A n \in 0 .. Levels - 1 : Way(t, p)[n + 1] = Step(Way(t, p)[n], p[n + 1])
<1> DEFINE walk == CHOOSE walk : Walking(t, p, walk, Levels)
<1>1. Levels \in Nat
  BY SizesAssumption
<1>2. Walking(t, p, walk, Levels)
  BY <1>1, WalkingExists
<1>3. Way(t, p) = walk
  BY DEF Way, Walking
<1> HIDE DEF walk
<1>4. walk[0] = PrivateRoot(t)
  BY <1>1, <1>2 DEF Walking
<1>5. ASSUME NEW n \in 0 .. Levels - 1 PROVE walk[n + 1] = Step(walk[n], p[n + 1])
  <2>1. n + 1 \in 0 .. Levels /\ n + 1 # 0 /\ (n + 1) - 1 = n
    BY <1>1
  <2>2. walk[n + 1] = Step(walk[(n + 1) - 1], p[n + 1])
    BY <1>2, <2>1 DEF Walking
  <2> QED
    BY <2>1, <2>2
<1> QED
  BY <1>3, <1>4, <1>5

\* The first k + 1 objects of a way are in h, private, and each one's entry on the
\* path p is the next one.
Chained(h, way, p, k) ==
  /\ \A m \in 0 .. k : /\ way[m].at \in DOMAIN h
                       /\ h[way[m].at].level = m /\ h[way[m].at].refs = 1
  /\ \A m \in 0 .. k - 1 : h[way[m].at].entries[p[m + 1]] = way[m + 1].at

LEMMA ChainDescends ==
  ASSUME NEW h, NEW r, Sound(h, r), NEW p \in [1 .. Levels -> Index], NEW way,
         NEW n \in 0 .. Levels - 1, Chained(h, way, p, n),
         NEW g, Descended(h, g, way[n].at, p[n + 1], way[n + 1].at)
  PROVE  Chained(g, way, p, n + 1)
<1> DEFINE at == way[n].at
           b == way[n + 1].at
<1>1. Levels \in Nat /\ n \in 0 .. n /\ p[n + 1] \in Index
  BY SizesAssumption
<1>2. at \in DOMAIN h /\ h[at].level = n
  BY <1>1 DEF Chained
<1>3. /\ b \in DOMAIN g /\ DOMAIN g = DOMAIN h \union {b}
      /\ g[b].refs = 1 /\ g[b].level = n + 1
      /\ g[at].entries = [h[at].entries EXCEPT ![p[n + 1]] = b]
      /\ \A y \in DOMAIN h :
           /\ g[y].level = h[y].level /\ g[y].frame = h[y].frame
           /\ y # at => g[y].entries = h[y].entries
           /\ h[y].level <= n => g[y].refs = h[y].refs
  BY <1>2 DEF Descended
<1>4. g[at].entries[p[n + 1]] = b
  <2>1. h[at].entries = [i \in Index |-> h[at].entries[i]]
    BY <1>2, TypedFacts DEF Sound, Formed
  <2> QED
    BY <1>1, <1>3, <2>1
<1> HIDE DEF at, b
<1>5. ASSUME NEW m \in 0 .. n
      PROVE  /\ way[m].at \in DOMAIN g
             /\ g[way[m].at].level = m /\ g[way[m].at].refs = 1
  <2>1. /\ way[m].at \in DOMAIN h
        /\ h[way[m].at].level = m /\ h[way[m].at].refs = 1
    BY DEF Chained
  <2>2. m <= n
    OBVIOUS
  <2> QED
    BY <1>3, <2>1, <2>2
<1>6. ASSUME NEW m \in 0 .. n - 1
      PROVE  g[way[m].at].entries[p[m + 1]] = way[m + 1].at
  <2>1. m \in 0 .. n /\ m # n
    OBVIOUS
  <2>2. way[m].at \in DOMAIN h /\ h[way[m].at].level = m
        /\ h[way[m].at].entries[p[m + 1]] = way[m + 1].at
    BY <2>1 DEF Chained
  <2>3. way[m].at # at
    BY <1>2, <2>1, <2>2
  <2> QED
    BY <1>3, <2>2, <2>3
<1>7. ASSUME NEW m \in 0 .. n + 1
      PROVE  /\ way[m].at \in DOMAIN g
             /\ g[way[m].at].level = m /\ g[way[m].at].refs = 1
  <2>1. CASE m = n + 1
    BY <1>3, <2>1 DEF b
  <2>2. CASE m # n + 1
    <3>1. m \in 0 .. n
      BY <2>2
    <3> QED
      BY <1>5, <3>1
  <2> QED
    BY <2>1, <2>2
<1>8. ASSUME NEW m \in 0 .. (n + 1) - 1
      PROVE  g[way[m].at].entries[p[m + 1]] = way[m + 1].at
  <2>1. CASE m = n
    BY <1>4, <2>1 DEF at, b
  <2>2. CASE m # n
    <3>1. m \in 0 .. n - 1
      BY <2>2
    <3> QED
      BY <1>6, <3>1
  <2> QED
    BY <2>1, <2>2
<1> QED
  BY <1>7, <1>8 DEF Chained

TopRoots(h, r) == \A u \in Table : r[u] # NULL => h[r[u]].level = 0

\* The inductive invariant.
HeapInv ==
  /\ DOMAIN root = Table
  /\ Sound(heap, root)
  /\ TopRoots(heap, root)

\* The roots when that of t is private.
Roots(t) == [root EXCEPT ![t] = PrivateRoot(t).at]

\* With the roots s in the heap g the tables map what they map now.
MapsSame(g, s) ==
  \A u \in Table, q \in [1 .. Levels -> Index] : Read(g, s[u], q) = Read(heap, root[u], q)

\* The walk of t along p comes to its n-th object.
Arrives(t, p, n) ==
  LET h == Way(t, p)[n].heap
  IN  /\ Sound(h, Roots(t)) /\ TopRoots(h, Roots(t))
      /\ Chained(h, Way(t, p), p, n)
      /\ MapsSame(h, Roots(t))

LEMMA RootsFacts ==
  ASSUME HeapInv, NEW t \in Table
  PROVE  /\ DOMAIN Roots(t) = Table
         /\ Roots(t) = [u \in Table |-> Roots(t)[u]]
         /\ Roots(t)[t] = PrivateRoot(t).at
         /\ \A u \in Table \ {t} : Roots(t)[u] = root[u]
<1>1. root = [u \in Table |-> root[u]]
  BY TypedFacts DEF HeapInv, Sound
<1> QED
  BY <1>1 DEF Roots

LEMMA ArrivesAtRoot ==
  ASSUME HeapInv, NEW t \in Table, Exists(t), NEW p
  PROVE  Arrives(t, p, 0)
<1> DEFINE g == PrivateRoot(t).heap
           b == PrivateRoot(t).at
           a == root[t]
           s == Roots(t)
<1>1. Sound(g, s) /\ RootCopied(heap, g, a, b)
  BY PrivateRootFacts DEF HeapInv, Roots
<1>2. /\ DOMAIN s = Table /\ s[t] = b /\ \A u \in Table \ {t} : s[u] = root[u]
  BY RootsFacts
<1>3. /\ a \in DOMAIN heap /\ heap[a].level = 0
      /\ \A u \in Table : root[u] \in DOMAIN heap \union {NULL}
      /\ Typed(heap, root)
  <2>1. Typed(heap, root) /\ DOMAIN root = Table /\ a # NULL /\ TopRoots(heap, root)
    BY DEF HeapInv, Sound, Exists
  <2> QED
    BY <2>1, TypedFacts DEF TopRoots
<1>4. Way(t, p)[0].heap = g /\ Way(t, p)[0].at = b
  BY WaySteps
<1>5. b \in DOMAIN g /\ b # NULL
  <2>1. NULL \notin DOMAIN g
    BY <1>1, TypedFacts DEF Sound
  <2> QED
    BY <1>1, <2>1 DEF RootCopied
<1> HIDE DEF g, b, s
<1>6. /\ g[b].level = 0 /\ g[b].refs = 1
      /\ \A y \in DOMAIN heap : g[y].level = heap[y].level
  BY <1>1, <1>3 DEF RootCopied
<1>7. TopRoots(g, s)
  <2> SUFFICES ASSUME NEW u \in Table, s[u] # NULL PROVE g[s[u]].level = 0
    BY DEF TopRoots
  <2>1. CASE u = t
    BY <1>2, <1>6, <2>1
  <2>2. CASE u # t
    <3>1. s[u] = root[u] /\ root[u] \in DOMAIN heap
      BY <1>2, <1>3, <2>2
    <3>2. heap[root[u]].level = 0
      BY <2>2, <3>1 DEF HeapInv, TopRoots
    <3> QED
      BY <1>6, <3>1, <3>2
  <2> QED
    BY <2>1, <2>2
<1>8. Chained(g, Way(t, p), p, 0)
  <2>1. \A m \in 0 .. 0 : m = 0
    OBVIOUS
  <2>2. 0 .. 0 - 1 = {}
    OBVIOUS
  <2> QED
    BY <1>4, <1>5, <1>6, <2>1, <2>2 DEF Chained
<1>9. MapsSame(g, s)
  <2> SUFFICES ASSUME NEW u \in Table, NEW q \in [1 .. Levels -> Index]
               PROVE  Read(g, s[u], q) = Read(heap, root[u], q)
    BY DEF MapsSame
  <2>1. Sound(heap, root)
    BY DEF HeapInv
  <2> HIDE DEF a
  <2>2. /\ \A x \in DOMAIN heap \union {NULL} : Read(g, x, q) = Read(heap, x, q)
        /\ Read(g, b, q) = Read(heap, a, q)
    BY <1>1, <1>3, <1>5, <2>1, RootCopiedReads
  <2>3. CASE u = t
    BY <1>2, <2>2, <2>3 DEF a
  <2>4. CASE u # t
    BY <1>2, <1>3, <2>2, <2>4
  <2> QED
    BY <2>3, <2>4
<1> QED
  BY <1>1, <1>4, <1>7, <1>8, <1>9 DEF Arrives, s

LEMMA ArrivesBelow ==
  ASSUME HeapInv, NEW t \in Table, NEW p \in [1 .. Levels -> Index],
         NEW n \in 0 .. Levels - 1, Arrives(t, p, n)
  PROVE  Arrives(t, p, n + 1)
<1> DEFINE way == Way(t, p)
           h == way[n].heap
           at == way[n].at
           g == way[n + 1].heap
           b == way[n + 1].at
           s == Roots(t)
<1>1. Sound(h, s) /\ TopRoots(h, s) /\ Chained(h, way, p, n) /\ MapsSame(h, s)
  BY DEF Arrives
<1>2. DOMAIN s = Table
  BY RootsFacts
<1>3. /\ Levels \in Nat /\ n \in 0 .. n /\ p[n + 1] \in Index /\ n # Levels
  BY SizesAssumption
<1>4. at \in DOMAIN h /\ h[at].level = n
  BY <1>1, <1>3 DEF Chained
<1>5. way[n + 1] = Step([heap |-> h, at |-> at], p[n + 1])
  <2>1. way[n + 1] = Step(way[n], p[n + 1])
    BY WaySteps
  <2> QED
    BY <2>1 DEF Step, Allocates
<1> HIDE DEF way, h, at, s
<1>6. Sound(g, s) /\ Descended(h, g, at, p[n + 1], b)
  <2> DEFINE walk == Step([heap |-> h, at |-> at], p[n + 1])
  <2>1. Sound(walk.heap, s) /\ Descended(h, walk.heap, at, p[n + 1], walk.at)
    BY <1>1, <1>2, <1>3, <1>4, StepDescends
  <2> HIDE DEF walk
  <2> QED
    BY <1>5, <2>1 DEF walk
<1>7. b \in DOMAIN g /\ b # NULL
  <2>1. NULL \notin DOMAIN g
    BY <1>6, TypedFacts DEF Sound
  <2> QED
    BY <1>6, <2>1 DEF Descended
<1>8. Chained(g, way, p, n + 1)
  <2>1. Descended(h, g, way[n].at, p[n + 1], way[n + 1].at)
    BY <1>6 DEF at
  <2> HIDE DEF g
  <2> QED
    BY <1>1, <2>1, ChainDescends
<1> HIDE DEF g, b
<1>9. \A u \in Table : s[u] \in DOMAIN h \union {NULL}
  BY <1>1, <1>2, TypedFacts DEF Sound
<1>10. TopRoots(g, s)
  BY <1>1, <1>6, <1>9 DEF TopRoots, Descended
<1>11. MapsSame(g, s)
  <2> SUFFICES ASSUME NEW u \in Table, NEW q \in [1 .. Levels -> Index]
               PROVE  Read(g, s[u], q) = Read(heap, root[u], q)
    BY DEF MapsSame
  <2>1. Read(g, s[u], q) = Read(h, s[u], q)
    BY <1>1, <1>3, <1>4, <1>6, <1>7, <1>9, DescendedReads
  <2> QED
    BY <1>1, <2>1 DEF MapsSame
<1> QED
  BY <1>6, <1>8, <1>10, <1>11 DEF Arrives, g, s, way

\* A walk comes to every level, in a sound heap, without a change of what is mapped.
LEMMA Arrival ==
  ASSUME HeapInv, NEW t \in Table, Exists(t), NEW p \in Path, NEW n \in 0 .. Levels
  PROVE  Arrives(t, p, n)
<1> DEFINE S == {m \in 0 .. Levels : Arrives(t, p, m)}
<1>1. Levels \in Nat /\ p \in [1 .. Levels -> Index]
  BY SizesAssumption, PathAssumption
<1>2. 0 \in S
  BY <1>1, ArrivesAtRoot
<1>3. ASSUME NEW m \in 0 .. Levels - 1, m \in S PROVE m + 1 \in S
  <2>1. m + 1 \in 0 .. Levels
    BY <1>1
  <2> QED
    BY <1>1, <1>3, <2>1, ArrivesBelow
<1>4. 0 .. Levels \subseteq S
  <2> HIDE DEF S
  <2> QED
    BY <1>1, <1>2, <1>3, Upwards
<1> QED
  BY <1>4

-----------------------------------------------------------------------------
(* No other way leads to a private object. *)

LEMMA PointedToOnce ==
  ASSUME NEW h, NEW r, Sound(h, r), NEW o \in DOMAIN h, h[o].refs = 1,
         NEW a \in DOMAIN h, NEW i \in Index, h[a].entries[i] = o
  PROVE  /\ \A x \in DOMAIN r : r[x] # o
         /\ \A b \in DOMAIN h, j \in Index : h[b].entries[j] = o => b = a /\ j = i
<1> DEFINE E == Pointers(h, DOMAIN h, o)
<1>1. IsFiniteSet(DOMAIN h) /\ IsFiniteSet(DOMAIN r)
  BY TypedFacts DEF Sound
<1>2. IsFiniteSet(E) /\ PointersFrom(h, DOMAIN h, o) = Cardinality(E) /\ Cardinality(E) \in Nat
  BY <1>1, PointersCounted
<1>5. \A b \in DOMAIN h, j \in Index : h[b].entries[j] = o => <<b, j>> \in E
  BY DEF Pointers
<1> HIDE DEF E
<1>3. /\ 1 = Cardinality(Held(r, o)) + Cardinality(E)
      /\ Cardinality(Held(r, o)) \in Nat /\ Cardinality(E) \in Nat
  BY <1>2, CountedFacts
<1>4. <<a, i>> \in E
  BY <1>5
<1>6. Cardinality(E \ {<<a, i>>}) = Cardinality(E) - 1 /\ IsFiniteSet(E \ {<<a, i>>})
  BY <1>2, <1>4, FS_RemoveElement
<1>7. Cardinality(E \ {<<a, i>>}) \in Nat
  BY <1>6, FS_CardinalityType
<1>8. Cardinality(E \ {<<a, i>>}) = 0 /\ Cardinality(Held(r, o)) = 0
  BY <1>3, <1>6, <1>7
<1>9. E \ {<<a, i>>} = {}
  BY <1>6, <1>8, FS_EmptySet
<1>10. Held(r, o) = {}
  <2>1. Held(r, o) \in SUBSET DOMAIN r
    BY DEF Held
  <2>2. IsFiniteSet(Held(r, o))
    BY <1>1, <2>1, FS_Subset
  <2> QED
    BY <1>8, <2>2, FS_EmptySet
<1>11. \A x \in DOMAIN r : r[x] # o
  BY <1>10 DEF Held
<1>12. ASSUME NEW b \in DOMAIN h, NEW j \in Index, h[b].entries[j] = o
       PROVE  b = a /\ j = i
  <2>1. <<b, j>> = <<a, i>>
    BY <1>5, <1>9, <1>12
  <2> QED
    BY <2>1
<1> QED
  BY <1>11, <1>12

LEMMA ReachedOnChain ==
  ASSUME NEW h, NEW r, Sound(h, r), NEW way, NEW p, NEW k \in 0 .. Levels,
         Chained(h, way, p, k), NEW n \in 0 .. k
  PROVE  Reached(h, way[0].at, p)[n] = way[n].at
<1> DEFINE at == Reached(h, way[0].at, p)
           S == {m \in 0 .. k : at[m] = way[m].at}
<1>1. Levels \in Nat /\ k \in Nat
  BY SizesAssumption
<1>2. 0 \in S
  BY <1>1, ReachedFacts
<1>3. ASSUME NEW m \in 0 .. k - 1, m \in S PROVE m + 1 \in S
  <2>1. m \in 0 .. Levels - 1 /\ m \in 0 .. k /\ m + 1 \in 0 .. k
    BY <1>1
  <2>2. at[m + 1] = Child(h, at[m], p[m + 1])
    BY <1>1, <2>1, ReachedFacts
  <2>3. /\ way[m].at \in DOMAIN h
        /\ h[way[m].at].entries[p[m + 1]] = way[m + 1].at
    BY <2>1 DEF Chained
  <2>4. way[m].at # NULL
    BY <2>3, TypedFacts DEF Sound
  <2> HIDE DEF at
  <2>5. at[m + 1] = way[m + 1].at
    BY <1>3, <2>2, <2>3, <2>4 DEF Child
  <2> QED
    BY <2>1, <2>5
<1>4. 0 .. k \subseteq S
  <2> HIDE DEF S
  <2> QED
    BY <1>1, <1>2, <1>3, Upwards
<1> QED
  BY <1>4

\* The paths p and q agree in the first m indices.
Agree(p, q, m) == \A j \in 1 .. m : q[j] = p[j]

\* Only along p does only t come to the objects of its way.
LEMMA OnlyWay ==
  ASSUME NEW h, NEW r, DOMAIN r = Table, Sound(h, r), TopRoots(h, r),
         NEW p \in [1 .. Levels -> Index], NEW way, NEW k \in 0 .. Levels,
         Chained(h, way, p, k), NEW t \in Table, r[t] = way[0].at,
         NEW u \in Table, NEW q \in [1 .. Levels -> Index],
         NEW n \in 0 .. k, Reached(h, r[u], q)[n] = way[n].at
  PROVE  u = t /\ Agree(p, q, n)
<1> DEFINE at == Reached(h, r[u], q)
           S == {m \in 0 .. k : at[m] = way[m].at => u = t /\ Agree(p, q, m)}
<1>1. Levels \in Nat /\ k \in Nat /\ NULL \notin DOMAIN h
  BY SizesAssumption, TypedFacts DEF Sound
<1>2. 0 \in S
  <2>1. at[0] = r[u]
    BY ReachedFacts
  <2>2. ASSUME at[0] = way[0].at PROVE u = t
    <3>1. 0 \in 0 .. k
      BY <1>1
    <3>2. r[t] \in DOMAIN h /\ h[r[t]].refs = 1
      BY <3>1 DEF Chained
    <3>3. \A y \in DOMAIN r \ {t} : r[y] # r[t]
      BY <3>2, HeldAlone
    <3> QED
      BY <2>1, <2>2, <3>3
  <2>3. Agree(p, q, 0)
    BY DEF Agree
  <2> QED
    BY <1>1, <2>2, <2>3
<1>3. ASSUME NEW m \in 0 .. k - 1, m \in S PROVE m + 1 \in S
  <2>1. m \in 0 .. Levels - 1 /\ m \in 0 .. Levels /\ m \in 0 .. k /\ m + 1 \in 0 .. k
        /\ m + 1 \in 1 .. Levels
    BY <1>1
  <2>2. at[m + 1] = Child(h, at[m], q[m + 1])
    BY <1>1, <2>1, ReachedFacts
  <2>3. /\ way[m].at \in DOMAIN h
        /\ h[way[m].at].entries[p[m + 1]] = way[m + 1].at
        /\ way[m + 1].at \in DOMAIN h /\ h[way[m + 1].at].refs = 1
    BY <2>1 DEF Chained
  <2>4. at[m] \in DOMAIN h \union {NULL}
    <3>1. r[u] \in DOMAIN h \union {NULL}
      BY TypedFacts DEF Sound
    <3>2. r[u] # NULL => h[r[u]].level = 0
      BY DEF TopRoots
    <3> QED
      BY <2>1, <3>1, <3>2, ReachedLevels
  <2>5. p[m + 1] \in Index /\ q[m + 1] \in Index
    BY <2>1
  <2> HIDE DEF at
  <2>6. ASSUME at[m + 1] = way[m + 1].at PROVE u = t /\ Agree(p, q, m + 1)
    <3>1. at[m] \in DOMAIN h /\ h[at[m]].entries[q[m + 1]] = way[m + 1].at
      BY <1>1, <2>2, <2>3, <2>4, <2>6 DEF Child
    <3>2. at[m] = way[m].at /\ q[m + 1] = p[m + 1]
      BY <2>3, <2>5, <3>1, PointedToOnce
    <3>3. u = t /\ Agree(p, q, m)
      BY <1>3, <3>2
    <3>4. ASSUME NEW j \in 1 .. m + 1 PROVE q[j] = p[j]
      <4>1. CASE j = m + 1
        BY <3>2, <4>1
      <4>2. CASE j # m + 1
        <5>1. j \in 1 .. m
          BY <2>1, <4>2
        <5> QED
          BY <3>3, <5>1 DEF Agree
      <4> QED
        BY <4>1, <4>2
    <3> QED
      BY <3>3, <3>4 DEF Agree
  <2> QED
    BY <2>1, <2>6
<1>4. 0 .. k \subseteq S
  <2> HIDE DEF S
  <2> QED
    BY <1>1, <1>2, <1>3, Upwards
<1> QED
  BY <1>4

\* A path goes the same way in g as far as its entries are the same.
SameWay(h, g, o, q, k) ==
  \A m \in 0 .. k - 1 :
    Child(g, Reached(h, o, q)[m], q[m + 1]) = Child(h, Reached(h, o, q)[m], q[m + 1])

LEMMA ReachedSame ==
  ASSUME NEW h, NEW g, NEW o, NEW q, NEW k \in 0 .. Levels, SameWay(h, g, o, q, k),
         NEW n \in 0 .. k
  PROVE  Reached(g, o, q)[n] = Reached(h, o, q)[n]
<1> DEFINE a == Reached(h, o, q)
           b == Reached(g, o, q)
           S == {m \in 0 .. k : b[m] = a[m]}
<1>1. Levels \in Nat /\ k \in Nat
  BY SizesAssumption
<1>2. 0 \in S
  BY <1>1, ReachedFacts
<1>3. ASSUME NEW m \in 0 .. k - 1, m \in S PROVE m + 1 \in S
  <2>1. m \in 0 .. Levels - 1 /\ m + 1 \in 0 .. k
    BY <1>1
  <2>2. a[m + 1] = Child(h, a[m], q[m + 1])
    BY <1>1, <2>1, ReachedFacts
  <2>3. b[m + 1] = Child(g, b[m], q[m + 1])
    BY <1>1, <2>1, ReachedFacts
  <2>4. Child(g, a[m], q[m + 1]) = Child(h, a[m], q[m + 1])
    BY DEF SameWay
  <2> HIDE DEF a, b
  <2> QED
    BY <1>3, <2>1, <2>2, <2>3, <2>4
<1>4. 0 .. k \subseteq S
  <2> HIDE DEF S
  <2> QED
    BY <1>1, <1>2, <1>3, Upwards
<1> QED
  BY <1>4

-----------------------------------------------------------------------------
(* page_table_map. *)

\* The frame of a leaf is changed.
FrameSet(h, g, o, f) ==
  /\ DOMAIN g = DOMAIN h /\ g = [y \in DOMAIN g |-> g[y]]
  /\ \A y \in DOMAIN h : g[y] = [level |-> h[y].level, refs |-> h[y].refs,
                                 active |-> h[y].active, entries |-> h[y].entries,
                                 frame |-> IF y = o THEN f ELSE h[y].frame]

LEMMA FrameIsSet ==
  ASSUME NEW h, NEW r, Typed(h, r), NEW o \in DOMAIN h, NEW f
  PROVE  FrameSet(h, [h EXCEPT ![o].frame = f], o, f)
<1>1. /\ h = [y \in DOMAIN h |-> h[y]]
      /\ \A y \in DOMAIN h :
           h[y] = [level |-> h[y].level, refs |-> h[y].refs, active |-> h[y].active,
                   entries |-> h[y].entries, frame |-> h[y].frame]
  BY TypedFacts DEF Formed
<1>2. [h[o] EXCEPT !.frame = f]
        = [level |-> h[o].level, refs |-> h[o].refs, active |-> h[o].active,
           entries |-> h[o].entries, frame |-> f]
  BY <1>1
<1> QED
  BY <1>1, <1>2 DEF FrameSet

LEMMA FrameSetFacts ==
  ASSUME NEW h, NEW g, NEW o, NEW f, FrameSet(h, g, o, f), NEW y \in DOMAIN h
  PROVE  /\ g[y].level = h[y].level /\ g[y].refs = h[y].refs
         /\ g[y].active = h[y].active /\ g[y].entries = h[y].entries
         /\ g[y].frame = IF y = o THEN f ELSE h[y].frame
<1>1. g[y] = [level |-> h[y].level, refs |-> h[y].refs, active |-> h[y].active,
              entries |-> h[y].entries, frame |-> IF y = o THEN f ELSE h[y].frame]
  BY DEF FrameSet
<1> QED
  BY <1>1

LEMMA FrameSetSound ==
  ASSUME NEW h, NEW r, Sound(h, r), NEW o \in DOMAIN h, h[o].level = Levels,
         NEW f \in Frame, NEW g, FrameSet(h, g, o, f)
  PROVE  Sound(g, r)
<1>1. DOMAIN g = DOMAIN h /\ g = [y \in DOMAIN g |-> g[y]]
  BY DEF FrameSet
<1>2. Typed(h, r) /\ \A y \in DOMAIN h : Formed(h, y)
  BY TypedFacts DEF Sound
<1>3. ASSUME NEW y \in DOMAIN h
      PROVE  /\ g[y] = [level |-> h[y].level, refs |-> h[y].refs,
                        active |-> h[y].active, entries |-> h[y].entries,
                        frame |-> IF y = o THEN f ELSE h[y].frame]
             /\ g[y].level = h[y].level /\ g[y].refs = h[y].refs
             /\ g[y].active = h[y].active /\ g[y].entries = h[y].entries
             /\ g[y].frame = IF y = o THEN f ELSE h[y].frame
  <2>1. g[y] = [level |-> h[y].level, refs |-> h[y].refs, active |-> h[y].active,
                entries |-> h[y].entries, frame |-> IF y = o THEN f ELSE h[y].frame]
    BY DEF FrameSet
  <2> QED
    BY <2>1, FrameSetFacts
<1>4. ASSUME NEW y \in DOMAIN h PROVE Formed(g, y)
  <2>1. Formed(h, y)
    BY <1>2
  <2>2. g[y].frame \in Frame \union {NoFrame}
    BY <1>3, <2>1 DEF Formed
  <2> QED
    BY <1>1, <1>3, <2>1, <2>2 DEF Formed
<1>5. Typed(g, r)
  <2>1. /\ IsFiniteSet(DOMAIN h) /\ DOMAIN h \in SUBSET Nat /\ NULL \notin DOMAIN h
        /\ IsFiniteSet(DOMAIN r)
        /\ r = [x \in DOMAIN r |-> r[x]]
        /\ \A x \in DOMAIN r : r[x] \in DOMAIN h \union {NULL}
    BY <1>2, TypedFacts
  <2> QED
    BY <1>1, <1>4, <2>1, TypedFacts
<1>6. ASSUME NEW y \in DOMAIN h
      PROVE  /\ g[y].refs = Cardinality(Held(r, y)) + PointersFrom(g, DOMAIN g, y)
             /\ g[y].active = UsedEntries(g, y)
  <2>1. SameEntries(h, g, DOMAIN h)
    BY <1>3 DEF SameEntries
  <2>2. PointersFrom(h, DOMAIN h, y) = PointersFrom(g, DOMAIN g, y)
    BY <1>1, <2>1, PointersSame
  <2>3. UsedEntries(g, y) = UsedEntries(h, y)
    <3>1. g[y].entries = h[y].entries
      BY <1>3
    <3> QED
      BY <3>1, UsedSame
  <2>4. h[y].refs = Cardinality(Held(r, y)) + PointersFrom(h, DOMAIN h, y)
        /\ h[y].active = UsedEntries(h, y)
    BY DEF Sound, Counted
  <2> QED
    BY <1>3, <2>2, <2>3, <2>4
<1>7. Counted(g, r)
  BY <1>1, <1>6 DEF Counted
<1>8. ASSUME NEW y \in DOMAIN h
      PROVE  /\ \A i \in Index : g[y].entries[i] # NULL =>
                  g[g[y].entries[i]].level = g[y].level + 1
             /\ g[y].level # Levels => g[y].frame = NoFrame
  <2>1. ASSUME NEW i \in Index, g[y].entries[i] # NULL
        PROVE  g[g[y].entries[i]].level = g[y].level + 1
    <3>1. h[y].entries[i] # NULL /\ h[y].entries[i] \in DOMAIN h
      <4>1. Formed(h, y) /\ g[y].entries = h[y].entries
        BY <1>2, <1>3
      <4>2. h[y].entries[i] \in DOMAIN h \union {NULL}
        BY <4>1 DEF Formed
      <4> QED
        BY <2>1, <4>1, <4>2
    <3>2. h[h[y].entries[i]].level = h[y].level + 1
      BY <3>1 DEF Sound, Layered
    <3>3. g[h[y].entries[i]].level = h[h[y].entries[i]].level
      BY <1>3, <3>1
    <3>4. g[y].entries = h[y].entries /\ g[y].level = h[y].level
      BY <1>3
    <3> QED
      BY <3>2, <3>3, <3>4
  <2>2. ASSUME g[y].level # Levels PROVE g[y].frame = NoFrame
    <3>1. h[y].level # Levels /\ y # o
      BY <1>3, <2>2
    <3>2. h[y].frame = NoFrame
      BY <3>1 DEF Sound, Layered
    <3> QED
      BY <1>3, <3>1, <3>2
  <2> QED
    BY <2>1, <2>2
<1>9. Layered(g)
  BY <1>1, <1>8 DEF Layered
<1> QED
  BY <1>5, <1>7, <1>9 DEF Sound

\* The roots s in the heap g map what the roots r in the heap h map, but for the
\* page p of t, which has the frame f.
Remaps(h, r, g, s, t, p, f) ==
  \A u \in Table, q \in [1 .. Levels -> Index] :
    Read(g, s[u], q) = IF u = t /\ q = p THEN f ELSE Read(h, r[u], q)

\* What changes for the tables themselves.
MapsAs(g, s, t, p, f) == Remaps(heap, root, g, s, t, p, f)

LEMMA RemapsFromWay ==
  ASSUME NEW h, NEW s, MapsSame(h, s), NEW g, NEW t, NEW p, NEW f,
         Remaps(h, s, g, s, t, p, f)
  PROVE  MapsAs(g, s, t, p, f)
BY DEF MapsSame, Remaps, MapsAs

\* Paths that agree in all their indices.
LEMMA WholePath ==
  ASSUME NEW p \in [1 .. Levels -> Index], NEW q \in [1 .. Levels -> Index],
         Agree(p, q, Levels)
  PROVE  q = p
<1>1. q = [j \in 1 .. Levels |-> q[j]] /\ p = [j \in 1 .. Levels |-> p[j]]
  OBVIOUS
<1>2. \A j \in 1 .. Levels : q[j] = p[j]
  BY DEF Agree
<1> QED
  BY <1>1, <1>2

LEMMA RootsIn ==
  ASSUME NEW h, NEW r, Sound(h, r), DOMAIN r = Table, TopRoots(h, r), NEW u \in Table
  PROVE  /\ r[u] \in DOMAIN h \union {NULL}
         /\ r[u] # NULL => h[r[u]].level = 0
BY TypedFacts DEF Sound, TopRoots

LEMMA FrameSetReads ==
  ASSUME NEW h, NEW r, DOMAIN r = Table, Sound(h, r), TopRoots(h, r),
         NEW p \in [1 .. Levels -> Index], NEW way, Chained(h, way, p, Levels),
         NEW t \in Table, r[t] = way[0].at,
         NEW f, NEW g, FrameSet(h, g, way[Levels].at, f)
  PROVE  Remaps(h, r, g, r, t, p, f)
<1> SUFFICES ASSUME NEW u \in Table, NEW q \in [1 .. Levels -> Index]
             PROVE  Read(g, r[u], q) = IF u = t /\ q = p THEN f ELSE Read(h, r[u], q)
  BY DEF Remaps
<1> DEFINE leaf == way[Levels].at
           o == r[u]
           at == Reached(h, o, q)
<1>1. Levels \in Nat /\ Levels \in 0 .. Levels /\ NULL \notin DOMAIN h
  BY SizesAssumption, TypedFacts DEF Sound
<1>2. ASSUME NEW m \in 0 .. Levels PROVE at[m] \in DOMAIN h \union {NULL}
  <2>1. o \in DOMAIN h \union {NULL} /\ (o # NULL => h[o].level = 0)
    BY RootsIn
  <2> HIDE DEF o
  <2> QED
    BY <2>1, ReachedLevels
<1>3. ASSUME NEW m \in 0 .. Levels - 1
      PROVE  Child(g, at[m], q[m + 1]) = Child(h, at[m], q[m + 1])
  <2>1. at[m] \in DOMAIN h \union {NULL}
    BY <1>1, <1>2
  <2> HIDE DEF at
  <2>2. at[m] \in DOMAIN h => g[at[m]].entries = h[at[m]].entries
    BY FrameSetFacts
  <2> QED
    BY <2>1, <2>2 DEF Child
<1>4. Reached(g, o, q)[Levels] = at[Levels]
  <2>1. SameWay(h, g, o, q, Levels)
    BY <1>3 DEF SameWay
  <2> HIDE DEF o
  <2> QED
    BY <1>1, <2>1, ReachedSame
<1>5. leaf \in DOMAIN h
  BY <1>1 DEF Chained
<1>6. at[Levels] \in DOMAIN h \union {NULL}
  BY <1>1, <1>2
<1>7. CASE u = t /\ q = p
  <2>1. at[Levels] = leaf
    BY <1>1, <1>7, ReachedOnChain
  <2>2. g[leaf].frame = f
    BY <1>5, FrameSetFacts
  <2> QED
    BY <1>1, <1>4, <1>5, <1>7, <2>1, <2>2 DEF Read, Value
<1>8. CASE ~(u = t /\ q = p)
  <2>1. at[Levels] # leaf
    <3> SUFFICES ASSUME at[Levels] = leaf PROVE FALSE
      OBVIOUS
    <3>1. u = t /\ Agree(p, q, Levels)
      BY <1>1, OnlyWay
    <3> QED
      BY <1>8, <3>1, WholePath
  <2>2. at[Levels] # NULL => g[at[Levels]].frame = h[at[Levels]].frame
    <3> HIDE DEF at, leaf
    <3>1. ASSUME at[Levels] # NULL PROVE at[Levels] \in DOMAIN h
      BY <1>6, <3>1
    <3> QED
      BY <2>1, <3>1, FrameSetFacts DEF leaf
  <2> QED
    BY <1>4, <1>8, <2>2 DEF Read, Value
<1> QED
  BY <1>7, <1>8

LEMMA MapKeeps ==
  ASSUME HeapInv, NEW t \in Table, NEW p \in Path, NEW f \in Frame, Map(t, p, f)
  PROVE  HeapInv' /\ MapsAs(heap', root', t, p, f)
<1> DEFINE way == Way(t, p)
           h == way[Levels].heap
           leaf == way[Levels].at
           s == Roots(t)
<1>1. Levels \in Nat /\ Levels \in 0 .. Levels /\ p \in [1 .. Levels -> Index]
  BY SizesAssumption, PathAssumption
<1>2. Sound(h, s) /\ TopRoots(h, s) /\ Chained(h, way, p, Levels) /\ MapsSame(h, s)
  <2>1. Arrives(t, p, Levels)
    BY <1>1, Arrival DEF Map
  <2> QED
    BY <2>1 DEF Arrives
<1>3. root' = s /\ heap' = [h EXCEPT ![leaf].frame = f]
  BY DEF Map, Roots
<1>4. DOMAIN s = Table /\ s[t] = way[0].at
  BY RootsFacts, WaySteps
<1> HIDE DEF way, h, leaf, s
<1>5. leaf \in DOMAIN h /\ h[leaf].level = Levels
  BY <1>1, <1>2 DEF Chained, leaf
<1>6. FrameSet(h, heap', leaf, f)
  <2>1. Typed(h, s)
    BY <1>2 DEF Sound
  <2> QED
    BY <1>3, <1>5, <2>1, FrameIsSet
<1>7. Sound(heap', s)
  BY <1>2, <1>5, <1>6, FrameSetSound
<1>8. TopRoots(heap', s)
  <2> SUFFICES ASSUME NEW u \in Table, s[u] # NULL PROVE heap'[s[u]].level = 0
    BY DEF TopRoots
  <2>1. s[u] \in DOMAIN h /\ h[s[u]].level = 0
    BY <1>2, <1>4, RootsIn
  <2> QED
    BY <1>6, <2>1, FrameSetFacts
<1>9. MapsAs(heap', s, t, p, f)
  <2> DEFINE g == heap'
  <2>1. FrameSet(h, g, way[Levels].at, f)
    BY <1>6 DEF leaf
  <2> HIDE DEF g
  <2>2. Remaps(h, s, g, s, t, p, f)
    BY <1>1, <1>2, <1>4, <2>1, FrameSetReads
  <2>3. MapsAs(g, s, t, p, f)
    BY <1>2, <2>2, RemapsFromWay
  <2> QED
    BY <2>3 DEF g
<1> QED
  BY <1>3, <1>4, <1>7, <1>8, <1>9 DEF HeapInv

-----------------------------------------------------------------------------
(* page_table_unmap: the entry of the leaf. *)

\* What a place other than the hand holds.
LEMMA HeldByTables ==
  ASSUME NEW r, DOMAIN r = Table, NEW c, NEW y, y # c
  PROVE  Held(Places(r, c), y) = Held(r, y)
BY PlacesFacts DEF Held

\* The entry that is emptied is in hand.
LEMMA CutSound ==
  ASSUME NEW h, NEW r, DOMAIN r = Table, Sound(h, r), NEW o \in DOMAIN h,
         NEW i \in Index, h[o].entries[i] # NULL
  PROVE  /\ Sound(Cut(h, o, i), Places(r, h[o].entries[i]))
         /\ ChangedAt(h, Cut(h, o, i), o, i, NULL)
<1> DEFINE g == Cut(h, o, i)
           c == h[o].entries[i]
           s == Places(r, NULL)
<1>1. Typed(h, r) /\ r = [t \in Table |-> r[t]]
  BY TypedFacts DEF Sound
<1>2. Placed(h, g, o, i, NULL)
  BY <1>1, SetEntryPlaces
<1>3. Sound(h, s)
  BY <1>1, EmptyHanded
<1>4. Hand \in DOMAIN s /\ s[Hand] = NULL
  BY PlacesFacts
<1>5. [s EXCEPT ![Hand] = c] = Places(r, c)
  BY PlacesFacts
<1> HIDE DEF g, s
<1>6. Sound(g, [s EXCEPT ![Hand] = h[o].entries[i]])
  BY <1>2, <1>3, <1>4, PlacedSound
<1>7. ChangedAt(h, g, o, i, NULL)
  BY <1>2, PlacedFacts
<1> QED
  BY <1>5, <1>6, <1>7 DEF g

\* A release does not make anything else count more.
LEMMA ReleasedCounts ==
  ASSUME NEW h, NEW r, DOMAIN r = Table, NEW c, Sound(h, Places(r, c)),
         NEW g, Sound(g, r), Recounted(h, g), NEW y \in DOMAIN g, y # c
  PROVE  g[y].refs <= h[y].refs
<1>1. /\ DOMAIN g \in SUBSET DOMAIN h
      /\ IsFiniteSet(DOMAIN h) /\ IsFiniteSet(DOMAIN g) /\ Typed(h, Places(r, c))
  BY TypedFacts DEF Recounted, Sound
<1>2. /\ g[y].refs = Cardinality(Held(r, y)) + PointersFrom(g, DOMAIN g, y)
      /\ PointersFrom(g, DOMAIN g, y) \in Nat /\ Cardinality(Held(r, y)) \in Nat
  BY CountedFacts
<1>3. /\ h[y].refs = Cardinality(Held(Places(r, c), y)) + PointersFrom(h, DOMAIN h, y)
      /\ PointersFrom(h, DOMAIN h, y) \in Nat
  BY <1>1, CountedFacts
<1>4. Held(Places(r, c), y) = Held(r, y)
  BY HeldByTables
<1>5. PointersFrom(g, DOMAIN g, y) <= PointersFrom(h, DOMAIN h, y)
  <2>1. \A a \in DOMAIN g : g[a].entries = h[a].entries
    BY <1>1, RecountedFacts
  <2>2. \A a \in DOMAIN g, i \in Index :
          g[a].entries[i] = y => a \in DOMAIN h /\ h[a].entries[i] = y
    BY <1>1, <2>1
  <2> QED
    BY <1>1, <2>2, PointersGrow
<1> QED
  BY <1>2, <1>3, <1>4, <1>5

\* The last object of a way before the leaf no longer leads on.
LEMMA CutReads ==
  ASSUME NEW h, NEW r, DOMAIN r = Table, Sound(h, r), TopRoots(h, r),
         NEW p \in [1 .. Levels -> Index], NEW way, Chained(h, way, p, Levels - 1),
         NEW t \in Table, r[t] = way[0].at,
         NEW g, ChangedAt(h, g, way[Levels - 1].at, p[Levels], NULL)
  PROVE  Remaps(h, r, g, r, t, p, NoFrame)
<1> SUFFICES ASSUME NEW u \in Table, NEW q \in [1 .. Levels -> Index]
             PROVE  Read(g, r[u], q) = IF u = t /\ q = p THEN NoFrame ELSE Read(h, r[u], q)
  BY DEF Remaps
<1> DEFINE last == Levels - 1
           node == way[last].at
           o == r[u]
           at == Reached(h, o, q)
<1>1. /\ Levels \in Nat /\ last \in 0 .. Levels /\ last \in 0 .. last /\ last + 1 = Levels
      /\ last \in 0 .. Levels - 1 /\ Levels \in 1 .. Levels /\ Levels \in 0 .. Levels
  BY SizesAssumption
<1>2. NULL \notin DOMAIN h
  BY TypedFacts DEF Sound
<1>3. o \in DOMAIN h \union {NULL} /\ (o # NULL => h[o].level = 0)
  BY RootsIn
<1>4. ASSUME NEW m \in 0 .. Levels
      PROVE  at[m] \in DOMAIN h \union {NULL} /\ (at[m] # NULL => h[at[m]].level = m)
  <2> HIDE DEF o
  <2> QED
    BY <1>3, ReachedLevels
<1>5. node \in DOMAIN h /\ h[node].level = last
  BY <1>1 DEF Chained
<1>6. /\ g[node].entries = [h[node].entries EXCEPT ![p[Levels]] = NULL]
      /\ \A y \in DOMAIN h : g[y].frame = h[y].frame
      /\ \A y \in DOMAIN h : y # node => g[y].entries = h[y].entries
  BY DEF ChangedAt
<1>7. \A i \in Index : g[node].entries[i] = IF i = p[Levels] THEN NULL
                                            ELSE h[node].entries[i]
  <2>1. h[node].entries = [i \in Index |-> h[node].entries[i]]
    BY <1>5, TypedFacts DEF Sound, Formed
  <2> HIDE DEF node
  <2> QED
    BY <1>6, <2>1
<1> HIDE DEF at, node
\* Where both heaps go on the same way.
<1>8. ASSUME NEW m \in 0 .. Levels - 1, ~(at[m] = node /\ q[m + 1] = p[Levels])
      PROVE  Child(g, at[m], q[m + 1]) = Child(h, at[m], q[m + 1])
  <2>1. m \in 0 .. Levels /\ m + 1 \in 1 .. Levels
    BY <1>1
  <2>2. at[m] \in DOMAIN h \union {NULL} /\ q[m + 1] \in Index
    BY <1>4, <2>1
  <2>3. CASE at[m] = NULL
    BY <2>3 DEF Child
  <2>4. CASE at[m] = node /\ at[m] # NULL
    BY <1>7, <1>8, <2>2, <2>4 DEF Child
  <2>5. CASE at[m] # node /\ at[m] # NULL
    BY <1>6, <2>2, <2>5 DEF Child
  <2> QED
    BY <2>3, <2>4, <2>5
<1>9. \A m \in 0 .. last - 1 : at[m] # node
  <2> SUFFICES ASSUME NEW m \in 0 .. last - 1, at[m] = node PROVE FALSE
    OBVIOUS
  <2>1. m \in 0 .. Levels /\ m # last
    BY <1>1
  <2> QED
    BY <1>2, <1>4, <1>5, <2>1
<1>10. CASE u = t /\ q = p
  <2>1. SameWay(h, g, o, q, last)
    <3>1. ASSUME NEW m \in 0 .. last - 1
          PROVE  Child(g, at[m], q[m + 1]) = Child(h, at[m], q[m + 1])
      <4>1. m \in 0 .. Levels - 1
        BY <1>1
      <4> QED
        BY <1>8, <1>9, <4>1
    <3> QED
      BY <3>1 DEF SameWay, at
  <2>2. Reached(g, o, q)[last] = at[last]
    <3> HIDE DEF o, last
    <3> QED
      BY <1>1, <2>1, ReachedSame DEF at
  <2>3. at[last] = node
    <3>1. Chained(h, way, p, last) /\ o = way[0].at /\ q = p
      BY <1>10
    <3> HIDE DEF o, last
    <3> QED
      BY <1>1, <3>1, ReachedOnChain DEF at, node
  <2>4. Reached(g, o, q)[Levels] = Child(g, node, p[Levels])
    <3>1. Reached(g, o, q)[last + 1] = Child(g, Reached(g, o, q)[last], q[last + 1])
      <4> HIDE DEF o, last
      <4> QED
        BY <1>1, ReachedFacts
    <3> QED
      BY <1>1, <1>10, <2>2, <2>3, <3>1
  <2>5. Child(g, node, p[Levels]) = NULL
    <3>1. p[Levels] \in Index
      BY <1>1
    <3> QED
      BY <1>7, <3>1 DEF Child
  <2> QED
    BY <1>10, <2>4, <2>5 DEF Read, Value
<1>11. CASE ~(u = t /\ q = p)
  <2>1. ~(at[last] = node /\ q[last + 1] = p[Levels])
    <3>0. SUFFICES ASSUME at[last] = node, q[last + 1] = p[Levels] PROVE FALSE
      OBVIOUS
    <3>1. u = t /\ Agree(p, q, last)
      <4>1. Reached(h, r[u], q)[last] = way[last].at /\ Chained(h, way, p, last)
        BY <3>0 DEF at, node
      <4> HIDE DEF last
      <4> QED
        BY <1>1, <4>1, OnlyWay
    <3>2. Agree(p, q, Levels)
      <4> SUFFICES ASSUME NEW j \in 1 .. Levels PROVE q[j] = p[j]
        BY DEF Agree
      <4>1. j = Levels \/ j \in 1 .. last
        BY <1>1
      <4> QED
        BY <1>1, <3>0, <3>1, <4>1 DEF Agree
    <3> QED
      BY <1>11, <3>1, <3>2, WholePath
  <2>2. SameWay(h, g, o, q, Levels)
    <3>1. ASSUME NEW m \in 0 .. Levels - 1
          PROVE  Child(g, at[m], q[m + 1]) = Child(h, at[m], q[m + 1])
      <4>1. m = last \/ m \in 0 .. last - 1
        BY <1>1
      <4> QED
        BY <1>8, <1>9, <2>1, <4>1
    <3> QED
      BY <3>1 DEF SameWay, at
  <2>3. Reached(g, o, q)[Levels] = at[Levels]
    <3> HIDE DEF o, last
    <3> QED
      BY <1>1, <2>2, ReachedSame DEF at
  <2>4. at[Levels] \in DOMAIN h \union {NULL}
    BY <1>1, <1>4
  <2>5. Value(g, at[Levels]) = Value(h, at[Levels])
    BY <1>6, <2>4 DEF Value
  <2> QED
    BY <1>11, <2>3, <2>5 DEF Read, at
<1> QED
  BY <1>10, <1>11

\* An object that is not empty, where there is one.
Busy(h, o) == o = NULL \/ h[o].active > 0

\* The page p of t is unmapped and its way pruned down to the k-th object.
Cleared(t, p, g, k) ==
  /\ Sound(g, Roots(t)) /\ TopRoots(g, Roots(t))
  /\ Chained(g, Way(t, p), p, k)
  /\ MapsAs(g, Roots(t), t, p, NoFrame)
  /\ \A m \in 1 .. Levels - 1 : m > k => Busy(g, Reached(g, Roots(t)[t], p)[m])

LEMMA LookupReads ==
  ASSUME NEW t, NEW p PROVE Lookup(t, p) = Read(heap, root[t], p)
BY DEF Lookup, Read, Value

\* What a table comes to on its way is the way.
LEMMA WayStartsAtRoot ==
  ASSUME HeapInv, NEW t \in Table, NEW p
  PROVE  Roots(t)[t] = Way(t, p)[0].at /\ DOMAIN Roots(t) = Table
BY RootsFacts, WaySteps

\* The private chain is not shortened by the release of what hung below it.
LEMMA ChainStays ==
  ASSUME NEW h, NEW r, DOMAIN r = Table, NEW c, Sound(h, Places(r, c)),
         NEW g, Sound(g, r), Recounted(h, g),
         NEW p \in [1 .. Levels -> Index], NEW way, NEW k \in 0 .. Levels - 1,
         Chained(h, way, p, k), NEW t \in Table, r[t] = way[0].at,
         c \in DOMAIN h, h[c].level = Levels
  PROVE  Chained(g, way, p, k)
<1> DEFINE S == {m \in 0 .. k : way[m].at \in DOMAIN g}
<1>1. Levels \in Nat /\ k \in Nat /\ NULL \notin DOMAIN h /\ Typed(h, Places(r, c))
  BY SizesAssumption, TypedFacts DEF Sound
<1>2. ASSUME NEW m \in 0 .. k
      PROVE  /\ way[m].at \in DOMAIN h
             /\ h[way[m].at].level = m /\ h[way[m].at].refs = 1
  BY DEF Chained
<1>3. ASSUME NEW m \in 0 .. k - 1 PROVE h[way[m].at].entries[p[m + 1]] = way[m + 1].at
  BY DEF Chained
<1>4. 0 \in S
  <2>1. r[t] \in DOMAIN g \union {NULL}
    BY TypedFacts DEF Sound
  <2>2. 0 \in 0 .. k
    BY <1>1
  <2> QED
    BY <1>1, <1>2, <2>1, <2>2
<1>5. ASSUME NEW m \in 0 .. k - 1, m \in S PROVE m + 1 \in S
  <2>1. m + 1 \in 0 .. k /\ p[m + 1] \in Index
    BY <1>1
  <2>2. way[m].at \in DOMAIN g
    BY <1>5
  <2>3. h[way[m].at].entries[p[m + 1]] \in DOMAIN g \union {NULL}
    BY <2>1, <2>2 DEF Recounted
  <2>4. way[m + 1].at \in DOMAIN h
    BY <1>2, <2>1
  <2> QED
    BY <1>1, <1>3, <2>1, <2>3, <2>4
<1>6. 0 .. k \subseteq S
  <2> HIDE DEF S
  <2> QED
    BY <1>1, <1>4, <1>5, Upwards
<1>7. ASSUME NEW m \in 0 .. k
      PROVE  /\ way[m].at \in DOMAIN g
             /\ g[way[m].at].level = m /\ g[way[m].at].refs = 1
             /\ g[way[m].at].entries = h[way[m].at].entries
  <2> DEFINE y == way[m].at
  <2>1. y \in DOMAIN g
    BY <1>6
  <2>2. y \in DOMAIN h /\ h[y].level = m /\ h[y].refs = 1
    BY <1>2
  <2>3. y # c
    BY <1>1, <2>2
  <2> HIDE DEF y
  <2>4. g[y].refs <= h[y].refs
    BY <2>1, <2>3, ReleasedCounts
  <2>5. g[y].refs \in Nat /\ g[y].refs > 0
    BY <2>1, CountedFacts
  <2>6. g[y].level = h[y].level /\ g[y].entries = h[y].entries
    BY <1>1, <2>1, RecountedFacts
  <2>7. g[y].refs = 1
    BY <2>2, <2>4, <2>5
  <2> QED
    BY <2>1, <2>2, <2>6, <2>7 DEF y
<1>8. ASSUME NEW m \in 0 .. k - 1 PROVE g[way[m].at].entries[p[m + 1]] = way[m + 1].at
  <2>1. m \in 0 .. k
    BY <1>1
  <2>2. g[way[m].at].entries = h[way[m].at].entries
    BY <1>7, <2>1
  <2> QED
    BY <1>3, <2>2
<1> QED
  BY <1>7, <1>8 DEF Chained

\* A chain that goes on to its end in an emptied entry.
LEMMA ChainCut ==
  ASSUME NEW h, NEW way, NEW p, NEW k \in 0 .. Levels - 1, Chained(h, way, p, k),
         NEW g, NEW i, NEW c, ChangedAt(h, g, way[k].at, i, c)
  PROVE  Chained(g, way, p, k)
<1>1. Levels \in Nat /\ k \in Nat /\ k \in 0 .. k
  BY SizesAssumption
<1>2. ASSUME NEW m \in 0 .. k
      PROVE  /\ way[m].at \in DOMAIN h
             /\ h[way[m].at].level = m /\ h[way[m].at].refs = 1
  BY DEF Chained
<1>3. /\ DOMAIN g = DOMAIN h
      /\ \A y \in DOMAIN h :
           /\ g[y].level = h[y].level /\ g[y].refs = h[y].refs
           /\ y # way[k].at => g[y].entries = h[y].entries
  BY DEF ChangedAt
<1>4. ASSUME NEW m \in 0 .. k - 1 PROVE g[way[m].at].entries[p[m + 1]] = way[m + 1].at
  <2>1. m \in 0 .. k /\ m # k
    BY <1>1
  <2>2. way[m].at \in DOMAIN h /\ way[m].at # way[k].at
    BY <1>1, <1>2, <2>1
  <2>3. h[way[m].at].entries[p[m + 1]] = way[m + 1].at
    BY DEF Chained
  <2> QED
    BY <1>3, <2>2, <2>3
<1> QED
  BY <1>2, <1>3, <1>4 DEF Chained

LEMMA LeafCleared ==
  ASSUME HeapInv, NEW t \in Table, NEW p \in Path, Exists(t), Lookup(t, p) # NoFrame
  PROVE  LET walk == Way(t, p)[Levels - 1]
             leaf == walk.heap[walk.at].entries[p[Levels]]
         IN  Cleared(t, p, Released(Cut(walk.heap, walk.at, p[Levels]), leaf), Levels - 1)
<1> DEFINE way == Way(t, p)
           last == Levels - 1
           h == way[last].heap
           node == way[last].at
           i == p[Levels]
           leaf == h[node].entries[i]
           cut == Cut(h, node, i)
           g == Released(cut, leaf)
           s == Roots(t)
<1>1. /\ Levels \in Nat /\ last \in 0 .. Levels /\ last \in 0 .. last /\ last + 1 = Levels
      /\ last \in 0 .. Levels - 1 /\ p \in [1 .. Levels -> Index] /\ i \in Index
      /\ Levels \in 0 .. Levels /\ last <= Levels - 1
  BY SizesAssumption, PathAssumption
<1>2. Sound(h, s) /\ TopRoots(h, s) /\ Chained(h, way, p, last) /\ MapsSame(h, s)
  <2>1. Arrives(t, p, last)
    <3> HIDE DEF last
    <3> QED
      BY <1>1, Arrival
  <2> QED
    BY <2>1 DEF Arrives
<1>3. DOMAIN s = Table /\ s[t] = way[0].at
  BY WayStartsAtRoot
<1> HIDE DEF way, s, h, node
<1>4. node \in DOMAIN h /\ h[node].level = last /\ NULL \notin DOMAIN h
  <2>1. NULL \notin DOMAIN h
    BY <1>2, TypedFacts DEF Sound
  <2>2. way[last].at \in DOMAIN h /\ h[way[last].at].level = last
    BY <1>1, <1>2 DEF Chained
  <2> QED
    BY <2>1, <2>2 DEF node
<1>5. leaf # NULL
  <2>1. Read(h, s[t], p) # NoFrame
    <3>1. Read(h, s[t], p) = Read(heap, root[t], p)
      BY <1>1, <1>2 DEF MapsSame
    <3> QED
      BY <3>1, LookupReads
  <2> DEFINE at == Reached(h, s[t], p)
  <2>2. at[last] = node
    <3> HIDE DEF last
    <3>1. Reached(h, way[0].at, p)[last] = way[last].at
      BY <1>1, <1>2, ReachedOnChain
    <3> QED
      BY <1>3, <3>1 DEF node
  <2>3. at[last + 1] = Child(h, at[last], p[last + 1])
    BY <1>1, ReachedFacts
  <2>4. at[Levels] = leaf
    BY <1>1, <1>4, <2>2, <2>3 DEF Child
  <2> QED
    BY <2>1, <2>4 DEF Read, Value
<1>6. leaf \in DOMAIN h /\ h[leaf].level = Levels
  <2>1. Formed(h, node)
    BY <1>2, <1>4, TypedFacts DEF Sound
  <2>2. leaf \in DOMAIN h
    BY <1>1, <1>5, <2>1 DEF Formed
  <2>3. h[leaf].level = h[node].level + 1
    BY <1>1, <1>2, <1>4, <1>5 DEF Sound, Layered
  <2> QED
    BY <1>1, <1>4, <2>2, <2>3
<1> HIDE DEF i
<1>7. Sound(cut, Places(s, leaf)) /\ ChangedAt(h, cut, node, i, NULL)
  BY <1>1, <1>2, <1>3, <1>4, <1>5, CutSound
<1> HIDE DEF cut, leaf
<1>8. leaf \in DOMAIN cut /\ cut[leaf].level = Levels
  BY <1>6, <1>7 DEF ChangedAt
<1>9. Sound(g, s) /\ Recounted(cut, g)
  <2> DEFINE r == Places(s, leaf)
  <2>1. r[Hand] = leaf /\ Hand \in DOMAIN r /\ Sound(cut, r)
    BY <1>7, PlacesFacts
  <2>2. [r EXCEPT ![Hand] = NULL] = Places(s, NULL)
    BY PlacesFacts
  <2> HIDE DEF r, g
  <2>3. Sound(Released(cut, r[Hand]), [r EXCEPT ![Hand] = NULL])
    BY <1>5, <2>1, ReleasedSound
  <2>4. Recounted(cut, Released(cut, r[Hand]))
    BY <1>8, <2>1, ReleasedFacts
  <2>5. Sound(g, Places(s, NULL))
    BY <2>1, <2>2, <2>3 DEF g
  <2>6. s = [u \in Table |-> s[u]]
    BY RootsFacts DEF s
  <2>7. Sound(g, s)
    BY <1>3, <2>5, <2>6, EmptyHanded
  <2> QED
    BY <2>1, <2>4, <2>7 DEF g
<1> HIDE DEF g
<1>10. Chained(g, way, p, last)
  <2>1. ChangedAt(h, cut, way[last].at, i, NULL)
    BY <1>7 DEF node
  <2> HIDE DEF last
  <2>2. Chained(cut, way, p, last)
    BY <1>1, <1>2, <2>1, ChainCut
  <2> QED
    BY <1>1, <1>3, <1>7, <1>8, <1>9, <2>2, ChainStays
<1>11. Typed(cut, Places(s, leaf))
  BY <1>7 DEF Sound
<1>12. ASSUME NEW u \in Table PROVE s[u] \in DOMAIN g \union {NULL}
  BY <1>3, <1>9, TypedFacts DEF Sound
<1>13. TopRoots(g, s)
  <2> SUFFICES ASSUME NEW u \in Table, s[u] # NULL PROVE g[s[u]].level = 0
    BY DEF TopRoots
  <2>1. s[u] \in DOMAIN g
    BY <1>12
  <2>2. g[s[u]].level = cut[s[u]].level
    BY <1>9, <1>11, <2>1, RecountedFacts
  <2>3. s[u] \in DOMAIN h /\ h[s[u]].level = 0
    BY <1>2, <1>3, RootsIn
  <2> QED
    BY <1>7, <2>2, <2>3 DEF ChangedAt
<1>14. MapsAs(g, s, t, p, NoFrame)
  <2>1. Remaps(h, s, cut, s, t, p, NoFrame)
    <3>1. ChangedAt(h, cut, way[Levels - 1].at, p[Levels], NULL)
      BY <1>7 DEF node, i
    <3>2. Chained(h, way, p, Levels - 1)
      BY <1>2
    <3> QED
      BY <1>1, <1>2, <1>3, <3>1, <3>2, CutReads
  <2>2. ASSUME NEW u \in Table, NEW q \in [1 .. Levels -> Index]
        PROVE  Read(g, s[u], q) = Read(cut, s[u], q)
    BY <1>9, <1>11, <1>12, RecountedReads
  <2>3. Remaps(h, s, g, s, t, p, NoFrame)
    BY <2>1, <2>2 DEF Remaps
  <2> QED
    BY <1>2, <2>3, RemapsFromWay
<1>15. Cleared(t, p, g, last)
  <2>1. \A m \in 1 .. Levels - 1 : ~(m > last)
    BY <1>1
  <2> QED
    BY <1>9, <1>10, <1>13, <1>14, <2>1 DEF Cleared, s, way
<1> QED
  BY <1>15 DEF g, cut, leaf, node, h, i, way

-----------------------------------------------------------------------------
(* page_table_unmap: the nodes left empty. *)

\* The node is gone, and with it the entry i of its parent.
Without(h, g, parent, i, node) ==
  /\ DOMAIN g = DOMAIN h \ {node}
  /\ g[parent].entries = [h[parent].entries EXCEPT ![i] = NULL]
  /\ \A y \in DOMAIN g :
       /\ g[y].level = h[y].level /\ g[y].frame = h[y].frame
       /\ g[y].refs = h[y].refs
       /\ y # parent => g[y].entries = h[y].entries /\ g[y].active = h[y].active

\* An object without active entries has no entries.
LEMMA InactiveIsEmpty ==
  ASSUME NEW h, NEW r, Sound(h, r), NEW o \in DOMAIN h, h[o].active = 0
  PROVE  \A i \in Index : h[o].entries[i] = NULL
<1> DEFINE U == {i \in Index : h[o].entries[i] # NULL}
<1>1. IsFiniteSet(U)
  BY SizesAssumption, FS_Subset
<1>2. Cardinality(U) = 0
  BY CountedFacts DEF UsedEntries
<1>3. U = {}
  <2> HIDE DEF U
  <2> QED
    BY <1>1, <1>2, FS_EmptySet
<1> QED
  BY <1>3

LEMMA DetachedSound ==
  ASSUME NEW h, NEW r, DOMAIN r = Table, Sound(h, r), NEW parent \in DOMAIN h,
         NEW i \in Index, NEW node \in DOMAIN h, h[parent].entries[i] = node,
         node # parent, h[node].active = 0, h[node].refs = 1
  PROVE  LET g == Detached(h, parent, i, node)
         IN  Sound(g, r) /\ Without(h, g, parent, i, node)
<1> DEFINE cut == Cut(h, parent, i)
           g == Detached(h, parent, i, node)
           s == Places(r, node)
<1>1. /\ Typed(h, r) /\ NULL \notin DOMAIN h /\ node # NULL
      /\ IsFiniteSet(DOMAIN r) /\ r = [t \in DOMAIN r |-> r[t]]
  BY TypedFacts DEF Sound
<1>2. Sound(cut, s) /\ ChangedAt(h, cut, parent, i, NULL)
  BY <1>1, CutSound
<1>3. s[Hand] = node /\ Hand \in DOMAIN s /\ \A t \in Table : t \in DOMAIN s \ {Hand} /\ s[t] = r[t]
  BY PlacesFacts, HandIsNoTable
<1>4. g = [x \in DOMAIN h \ {node} |-> cut[x]]
  BY DEF Detached
<1> HIDE DEF cut, g, s
<1>5. /\ DOMAIN cut = DOMAIN h
      /\ cut[parent].entries = [h[parent].entries EXCEPT ![i] = NULL]
      /\ \A y \in DOMAIN h :
           /\ cut[y].level = h[y].level /\ cut[y].frame = h[y].frame
           /\ cut[y].refs = h[y].refs
           /\ y # parent => cut[y].entries = h[y].entries /\ cut[y].active = h[y].active
  BY <1>2 DEF ChangedAt
<1>6. /\ DOMAIN g = DOMAIN h \ {node}
      /\ g = [y \in DOMAIN g |-> g[y]]
      /\ \A y \in DOMAIN g : g[y] = cut[y] /\ y \in DOMAIN h
  BY <1>4
<1>7. Without(h, g, parent, i, node)
  BY <1>5, <1>6 DEF Without
<1>8. /\ \A y \in DOMAIN s \ {Hand} : s[y] # node
      /\ \A a \in DOMAIN cut, j \in Index : cut[a].entries[j] # node
  <2>1. s[Hand] \in DOMAIN cut /\ cut[s[Hand]].refs = 1
    BY <1>3, <1>5
  <2> QED
    BY <1>2, <1>3, <2>1, HeldAlone
<1>9. /\ Typed(cut, s) /\ \A y \in DOMAIN cut : Formed(cut, y)
      /\ \A x \in DOMAIN s : s[x] \in DOMAIN cut \union {NULL}
  BY <1>2, TypedFacts DEF Sound
<1>10. Recounted(cut, g)
  <2>1. ASSUME NEW y \in DOMAIN g
        PROVE  /\ g[y] = [cut[y] EXCEPT !.refs = g[y].refs]
               /\ \A j \in Index : cut[y].entries[j] \in DOMAIN g \union {NULL}
    <3>1. g[y] = cut[y] /\ y \in DOMAIN cut
      BY <1>5, <1>6
    <3>2. Formed(cut, y)
      BY <1>9, <3>1
    <3>3. cut[y] = [level |-> cut[y].level, refs |-> cut[y].refs,
                    active |-> cut[y].active, entries |-> cut[y].entries,
                    frame |-> cut[y].frame]
      BY <3>2 DEF Formed
    <3>4. cut[y] = [cut[y] EXCEPT !.refs = cut[y].refs]
      BY <3>3
    <3>5. \A j \in Index : cut[y].entries[j] \in DOMAIN cut \union {NULL}
      BY <3>2 DEF Formed
    <3> QED
      BY <1>5, <1>6, <1>8, <3>1, <3>4, <3>5
  <2>2. DOMAIN g \in SUBSET DOMAIN cut
    BY <1>5, <1>6
  <2> QED
    BY <1>6, <2>1, <2>2 DEF Recounted
<1>11. PlacesIn(r, DOMAIN g)
  <2>1. \A t \in DOMAIN r : r[t] \in DOMAIN g \union {NULL}
    <3> SUFFICES ASSUME NEW t \in Table PROVE r[t] \in DOMAIN g \union {NULL}
      OBVIOUS
    <3>1. t \in DOMAIN s \ {Hand} /\ s[t] = r[t]
      BY <1>3
    <3>2. r[t] \in DOMAIN cut \union {NULL} /\ r[t] # node
      BY <1>8, <1>9, <3>1
    <3> QED
      BY <1>5, <1>6, <3>2
  <2> QED
    BY <1>1, <2>1 DEF PlacesIn
<1>12. CountsWhatIsLeft(cut, g, r)
  <2> SUFFICES ASSUME NEW y \in DOMAIN g
               PROVE  /\ g[y].refs \in Nat /\ g[y].refs > 0
                      /\ g[y].refs = Cardinality(Held(r, y)) + PointersFrom(cut, DOMAIN g, y)
    BY DEF CountsWhatIsLeft
  <2>1. g[y] = cut[y] /\ y \in DOMAIN cut /\ y # node /\ y # NULL
    BY <1>1, <1>5, <1>6
  <2>2. /\ cut[y].refs = Cardinality(Held(s, y)) + PointersFrom(cut, DOMAIN cut, y)
        /\ cut[y].refs \in Nat /\ cut[y].refs > 0
    BY <1>2, <2>1, CountedFacts
  <2>3. Held(s, y) = Held(r, y)
    BY <2>1, HeldByTables DEF s
  <2>4. IsFiniteSet(DOMAIN cut) /\ {node} \in SUBSET DOMAIN cut
        /\ DOMAIN cut \ {node} = DOMAIN g
    BY <1>5, <1>6, <1>9, TypedFacts
  <2>5. PointersFrom(cut, DOMAIN cut, y)
          = PointersFrom(cut, {node}, y) + PointersFrom(cut, DOMAIN g, y)
    BY <2>4, PointersSplit
  <2>6. PointersFrom(cut, {node}, y) = 0
    <3>1. \A j \in Index : h[node].entries[j] = NULL
      BY InactiveIsEmpty
    <3>2. \A j \in Index : cut[node].entries[j] # y
      BY <1>5, <2>1, <3>1
    <3>3. \A a \in {node}, j \in Index : cut[a].entries[j] # y
      BY <3>2
    <3>4. IsFiniteSet({node})
      BY FS_Singleton
    <3> QED
      BY <3>3, <3>4, NoPointers
  <2>7. PointersFrom(cut, DOMAIN g, y) \in Nat
    <3>1. IsFiniteSet(DOMAIN g)
      BY <2>4, FS_RemoveElement
    <3> QED
      BY <3>1, PointersCounted
  <2> QED
    BY <2>1, <2>2, <2>3, <2>5, <2>6, <2>7
<1>13. Sound(g, r)
  BY <1>2, <1>10, <1>11, <1>12, RecountedSound
<1> QED
  BY <1>7, <1>13 DEF g

LEMMA DetachedReads ==
  ASSUME NEW h, NEW r, Sound(h, r), NEW parent \in DOMAIN h, NEW i \in Index,
         NEW node \in DOMAIN h, h[parent].entries[i] = node, node # parent,
         h[node].active = 0, h[node].level # Levels, h[node].refs = 1,
         NEW g, Without(h, g, parent, i, node), NEW s, Sound(g, s),
         NEW x \in DOMAIN g \union {NULL}, NEW q \in [1 .. Levels -> Index]
  PROVE  Read(g, x, q) = Read(h, x, q)
<1>1. /\ DOMAIN g = DOMAIN h \ {node} /\ parent \in DOMAIN g
      /\ g[parent].entries = [h[parent].entries EXCEPT ![i] = NULL]
      /\ \A y \in DOMAIN g : g[y].frame = h[y].frame
      /\ \A y \in DOMAIN g : y # parent => g[y].entries = h[y].entries
  BY DEF Without
<1>2. node # NULL
  BY TypedFacts DEF Sound
<1>3. \A j \in Index : g[parent].entries[j] = IF j = i THEN NULL ELSE h[parent].entries[j]
  <2>1. h[parent].entries = [j \in Index |-> h[parent].entries[j]]
    BY TypedFacts DEF Sound, Formed
  <2> QED
    BY <1>1, <2>1
<1>4. ASSUME NEW y \in DOMAIN g
      PROVE  /\ h[y].frame = g[y].frame
             /\ \A j \in Index : \/ h[y].entries[j] = g[y].entries[j]
                                 \/ g[y].entries[j] = NULL /\ h[y].entries[j] = node
  <2>1. CASE y = parent
    BY <1>1, <1>3, <2>1
  <2>2. CASE y # parent
    BY <1>1, <2>2
  <2> QED
    BY <2>1, <2>2
<1>5. Copied(g, h, NULL, node)
  <2>1. \A j \in Index : h[node].entries[j] = NULL
    BY InactiveIsEmpty
  <2>2. h[node].frame = NoFrame
    BY DEF Sound, Layered
  <2> QED
    BY <2>1, <2>2 DEF Copied
<1>6. Moved(g, h, NULL, node)
  BY <1>2, <1>4, <1>5 DEF Moved
<1> QED
  BY <1>6, MovedReads

\* A node that has entries stays, and what is below it.
LEMMA ClearedWithNode ==
  ASSUME HeapInv, NEW t \in Table, NEW p \in Path, NEW k \in 1 .. Levels - 1,
         NEW h, Cleared(t, p, h, k), h[Way(t, p)[k].at].active # 0
  PROVE  Cleared(t, p, h, k - 1)
<1> DEFINE way == Way(t, p)
           s == Roots(t)
           node == way[k].at
           at == Reached(h, s[t], p)
<1>1. Levels \in Nat /\ k \in 0 .. Levels /\ k \in 0 .. k /\ p \in [1 .. Levels -> Index]
  BY SizesAssumption, PathAssumption
<1>2. /\ Sound(h, s) /\ TopRoots(h, s) /\ Chained(h, way, p, k)
      /\ MapsAs(h, s, t, p, NoFrame)
      /\ \A m \in 1 .. Levels - 1 : m > k => Busy(h, at[m])
  BY DEF Cleared
<1>3. s[t] = way[0].at
  BY WayStartsAtRoot
<1> HIDE DEF way, s
<1>4. at[k] = node
  <2>1. Reached(h, way[0].at, p)[k] = way[k].at
    BY <1>1, <1>2, ReachedOnChain
  <2> QED
    BY <1>3, <2>1
<1>5. Busy(h, at[k])
  <2>1. node \in DOMAIN h
    BY <1>1, <1>2 DEF Chained
  <2> HIDE DEF node, at
  <2>2. Formed(h, node) /\ h[node].active # 0
    BY <1>2, <2>1, TypedFacts DEF Sound, node, way
  <2>3. h[node].active \in Nat
    BY <2>2 DEF Formed
  <2> QED
    BY <1>4, <2>2, <2>3 DEF Busy
<1>6. \A m \in 1 .. Levels - 1 : m > k - 1 => Busy(h, at[m])
  <2> SUFFICES ASSUME NEW m \in 1 .. Levels - 1, m > k - 1 PROVE Busy(h, at[m])
    OBVIOUS
  <2>1. m = k \/ m > k
    BY <1>1
  <2> QED
    BY <1>2, <1>5, <2>1
<1>7. Chained(h, way, p, k - 1)
  <2>1. \A m \in 0 .. k - 1 : m \in 0 .. k
    BY <1>1
  <2>2. \A m \in 0 .. (k - 1) - 1 : m \in 0 .. k - 1
    BY <1>1
  <2> QED
    BY <1>2, <2>1, <2>2 DEF Chained
<1> QED
  BY <1>2, <1>6, <1>7 DEF Cleared, way, s

\* The chain without its last node.
LEMMA ChainWithout ==
  ASSUME NEW h, NEW way, NEW p, NEW k \in 1 .. Levels - 1, Chained(h, way, p, k),
         NEW g, NEW i, Without(h, g, way[k - 1].at, i, way[k].at)
  PROVE  Chained(g, way, p, k - 1)
<1>1. Levels \in Nat /\ k \in Nat /\ k \in 0 .. k
  BY SizesAssumption
<1>2. ASSUME NEW m \in 0 .. k
      PROVE  /\ way[m].at \in DOMAIN h
             /\ h[way[m].at].level = m /\ h[way[m].at].refs = 1
  BY DEF Chained
<1>3. /\ DOMAIN g = DOMAIN h \ {way[k].at}
      /\ \A y \in DOMAIN g :
           /\ g[y].level = h[y].level /\ g[y].refs = h[y].refs
           /\ y # way[k - 1].at => g[y].entries = h[y].entries
  BY DEF Without
<1>4. ASSUME NEW m \in 0 .. k - 1
      PROVE  /\ way[m].at \in DOMAIN g
             /\ g[way[m].at].level = m /\ g[way[m].at].refs = 1
  <2>1. m \in 0 .. k /\ m # k
    BY <1>1
  <2>2. way[m].at \in DOMAIN h /\ way[m].at # way[k].at
        /\ h[way[m].at].level = m /\ h[way[m].at].refs = 1
    BY <1>1, <1>2, <2>1
  <2> QED
    BY <1>3, <2>2
<1>5. ASSUME NEW m \in 0 .. (k - 1) - 1
      PROVE  g[way[m].at].entries[p[m + 1]] = way[m + 1].at
  <2>1. m \in 0 .. k - 1 /\ m \in 0 .. k /\ m # k - 1 /\ k - 1 \in 0 .. k
    BY <1>1
  <2>2. way[m].at \in DOMAIN g /\ way[m].at # way[k - 1].at
    BY <1>2, <1>4, <2>1
  <2>3. h[way[m].at].entries[p[m + 1]] = way[m + 1].at
    BY <2>1 DEF Chained
  <2> QED
    BY <1>3, <2>2, <2>3
<1> QED
  BY <1>4, <1>5 DEF Chained

\* A node without entries goes.
LEMMA ClearedWithoutNode ==
  ASSUME HeapInv, NEW t \in Table, NEW p \in Path, NEW k \in 1 .. Levels - 1,
         NEW h, Cleared(t, p, h, k), h[Way(t, p)[k].at].active = 0
  PROVE  Cleared(t, p, Detached(h, Way(t, p)[k - 1].at, p[k], Way(t, p)[k].at), k - 1)
<1> DEFINE way == Way(t, p)
           s == Roots(t)
           node == way[k].at
           parent == way[k - 1].at
           i == p[k]
           g == Detached(h, parent, i, node)
           at == Reached(g, s[t], p)
<1>1. /\ Levels \in Nat /\ k \in 0 .. Levels /\ k \in 0 .. k /\ k - 1 \in 0 .. k
      /\ k - 1 \in 0 .. Levels /\ k - 1 \in 0 .. k - 1 /\ k # Levels /\ k \in Nat
      /\ k - 1 \in 0 .. Levels - 1 /\ (k - 1) + 1 = k
      /\ p \in [1 .. Levels -> Index] /\ i \in Index
  BY SizesAssumption, PathAssumption
<1>2. /\ Sound(h, s) /\ TopRoots(h, s) /\ Chained(h, way, p, k)
      /\ MapsAs(h, s, t, p, NoFrame)
  BY DEF Cleared
<1>3. s[t] = way[0].at /\ DOMAIN s = Table
  BY WayStartsAtRoot
<1> HIDE DEF way, s
<1>4. /\ node \in DOMAIN h /\ parent \in DOMAIN h /\ node # parent
      /\ h[parent].entries[i] = node
      /\ h[node].level = k /\ h[node].refs = 1 /\ h[node].active = 0
  <2>1. /\ way[k].at \in DOMAIN h /\ way[k - 1].at \in DOMAIN h
        /\ h[way[k].at].level = k /\ h[way[k - 1].at].level = k - 1
        /\ h[way[k].at].refs = 1
    BY <1>1, <1>2 DEF Chained
  <2>2. h[way[k - 1].at].entries[p[(k - 1) + 1]] = way[(k - 1) + 1].at
    BY <1>1, <1>2 DEF Chained
  <2>3. h[way[k].at].active = 0
    BY DEF way
  <2> QED
    BY <1>1, <2>1, <2>2, <2>3
<1> HIDE DEF i, node, parent
<1>5. Sound(g, s) /\ Without(h, g, parent, i, node)
  BY <1>1, <1>2, <1>3, <1>4, DetachedSound
<1> HIDE DEF g
<1>6. ASSUME NEW u \in Table PROVE s[u] \in DOMAIN g \union {NULL}
  BY <1>3, <1>5, TypedFacts DEF Sound
<1>7. TopRoots(g, s)
  <2> SUFFICES ASSUME NEW u \in Table, s[u] # NULL PROVE g[s[u]].level = 0
    BY DEF TopRoots
  <2>1. s[u] \in DOMAIN g
    BY <1>6
  <2>2. h[s[u]].level = 0
    BY <1>2, <1>3, RootsIn
  <2> QED
    BY <1>5, <2>1, <2>2 DEF Without
<1>8. MapsAs(g, s, t, p, NoFrame)
  <2>1. ASSUME NEW u \in Table, NEW q \in [1 .. Levels -> Index]
        PROVE  Read(g, s[u], q) = Read(h, s[u], q)
    <3>1. h[node].level # Levels
      BY <1>1, <1>4
    <3>2. Sound(h, s) /\ Sound(g, s) /\ s[u] \in DOMAIN g \union {NULL}
      BY <1>2, <1>5, <1>6
    <3>3. /\ parent \in DOMAIN h /\ i \in Index /\ node \in DOMAIN h
          /\ h[parent].entries[i] = node /\ node # parent
          /\ h[node].active = 0 /\ h[node].refs = 1
      BY <1>1, <1>4
    <3>4. Without(h, g, parent, i, node)
      BY <1>5
    <3> DEFINE x == s[u]
    <3>6. x \in DOMAIN g \union {NULL}
      BY <3>2
    <3> HIDE DEF x
    <3>5. Read(g, x, q) = Read(h, x, q)
      <4>1. Sound(h, s) /\ Sound(g, s) /\ q \in [1 .. Levels -> Index]
        BY <3>2
      <4> QED
        BY <3>1, <3>3, <3>4, <3>6, <4>1, DetachedReads, SMTT(30)
    <3> QED
      BY <3>5 DEF x
  <2>2. \A u \in Table, q \in [1 .. Levels -> Index] :
          Read(h, s[u], q) = IF u = t /\ q = p THEN NoFrame ELSE Read(heap, root[u], q)
    BY <1>2 DEF MapsAs, Remaps
  <2> QED
    BY <2>1, <2>2 DEF MapsAs, Remaps
<1>9. Chained(g, way, p, k - 1)
  <2>1. Without(h, g, way[k - 1].at, i, way[k].at)
    BY <1>5 DEF parent, node
  <2> QED
    BY <1>2, <2>1, ChainWithout
<1>10. at[k] = NULL
  <2>1. at[k - 1] = parent
    <3>1. Reached(g, way[0].at, p)[k - 1] = way[k - 1].at
      BY <1>1, <1>5, <1>9, ReachedOnChain
    <3> QED
      BY <1>3, <3>1 DEF parent
  <2>2. at[(k - 1) + 1] = Child(g, at[k - 1], p[(k - 1) + 1])
    BY <1>1, ReachedFacts
  <2>3. g[parent].entries[i] = NULL
    <3>1. h[parent].entries = [j \in Index |-> h[parent].entries[j]]
      BY <1>2, <1>4, TypedFacts DEF Sound, Formed
    <3>2. g[parent].entries = [h[parent].entries EXCEPT ![i] = NULL]
      BY <1>5 DEF Without
    <3> QED
      BY <1>1, <3>1, <3>2
  <2> HIDE DEF at
  <2> QED
    BY <1>1, <2>1, <2>2, <2>3 DEF Child, i
<1>11. \A m \in 1 .. Levels - 1 : m > k - 1 => Busy(g, at[m])
  <2> SUFFICES ASSUME NEW m \in 1 .. Levels - 1, m > k - 1 PROVE at[m] = NULL
    BY DEF Busy
  <2>1. k <= m /\ m \in 0 .. Levels
    BY <1>1
  <2> QED
    BY <1>1, <1>10, <2>1, ReachedEnds
<1> QED
  BY <1>5, <1>7, <1>8, <1>9, <1>11 DEF Cleared, g, node, parent, i, way, s

LEMMA ClearedAbove ==
  ASSUME HeapInv, NEW t \in Table, NEW p \in Path, NEW k \in 1 .. Levels - 1,
         NEW h, Cleared(t, p, h, k)
  PROVE  Cleared(t, p, PrunedAt(Way(t, p), p, k, h), k - 1)
<1>1. CASE h[Way(t, p)[k].at].active # 0
  BY <1>1, ClearedWithNode DEF PrunedAt
<1>2. CASE h[Way(t, p)[k].at].active = 0
  BY <1>2, ClearedWithoutNode DEF PrunedAt
<1> QED
  BY <1>1, <1>2

Pruning(t, p, h, pruned, m) ==
  pruned = [n \in 0 .. m |->
              IF n = 0 THEN h ELSE PrunedAt(Way(t, p), p, Levels - n, pruned[n - 1])]

LEMMA PruningExists ==
  ASSUME NEW t, NEW p, NEW h, NEW m \in Nat
  PROVE  \E pruned : Pruning(t, p, h, pruned, m)
<1> DEFINE S == {k \in Nat : \E pruned : Pruning(t, p, h, pruned, k)}
<1>1. 0 \in S
  <2> DEFINE pruned == [n \in 0 .. 0 |-> h]
  <2>1. \A n \in 0 .. 0 : n = 0
    OBVIOUS
  <2>2. Pruning(t, p, h, pruned, 0)
    BY <2>1 DEF Pruning
  <2> QED
    BY <2>2
<1>2. ASSUME NEW k \in 0 .. m - 1, k \in S PROVE k + 1 \in S
  <2>1. PICK before : Pruning(t, p, h, before, k)
    BY <1>2
  <2> DEFINE last == PrunedAt(Way(t, p), p, Levels - (k + 1), before[k])
             pruned == [n \in 0 .. k + 1 |-> IF n = k + 1 THEN last ELSE before[n]]
             turn(n) == IF n = 0 THEN h
                        ELSE PrunedAt(Way(t, p), p, Levels - n, pruned[n - 1])
  <2>2. k \in Nat /\ \A n \in 0 .. k : pruned[n] = before[n]
    OBVIOUS
  <2>3. ASSUME NEW n \in 0 .. k + 1 PROVE pruned[n] = turn(n)
    <3>1. CASE n = k + 1
      <4>1. pruned[n] = last /\ n # 0 /\ pruned[n - 1] = before[k]
        BY <2>2, <3>1
      <4> QED
        BY <3>1, <4>1
    <3>2. CASE n # k + 1
      <4>1. n \in 0 .. k /\ (n # 0 => n - 1 \in 0 .. k)
        BY <2>2, <3>2
      <4>2. before[n] = IF n = 0 THEN h
                        ELSE PrunedAt(Way(t, p), p, Levels - n, before[n - 1])
        BY <2>1, <4>1 DEF Pruning
      <4>3. n # 0 => pruned[n - 1] = before[n - 1]
        BY <2>2, <4>1
      <4>4. pruned[n] = before[n]
        BY <2>2, <4>1
      <4> QED
        BY <4>2, <4>3, <4>4
    <3> QED
      BY <3>1, <3>2
  <2>4. pruned = [n \in 0 .. k + 1 |-> pruned[n]]
    OBVIOUS
  <2>5. pruned = [n \in 0 .. k + 1 |-> turn(n)]
    <3> HIDE DEF turn, pruned
    <3> QED
      BY <2>3, <2>4
  <2>6. Pruning(t, p, h, pruned, k + 1)
    <3> HIDE DEF pruned
    <3> QED
      BY <2>5 DEF Pruning
  <2> QED
    BY <2>2, <2>6
<1>3. 0 .. m \subseteq S
  <2> HIDE DEF S
  <2> QED
    BY <1>1, <1>2, Upwards
<1>4. m \in S
  BY <1>3
<1> QED
  BY <1>4

\* From the bottom of the way to its root.
LEMMA PrunedIsCleared ==
  ASSUME HeapInv, NEW t \in Table, NEW p \in Path, NEW h, Cleared(t, p, h, Levels - 1)
  PROVE  Cleared(t, p, Pruned(t, p, h), 0)
<1> DEFINE last == Levels - 1
           pruned == CHOOSE pruned : Pruning(t, p, h, pruned, last)
           S == {n \in 0 .. last : Cleared(t, p, pruned[n], last - n)}
<1>1. Levels \in Nat /\ last \in Nat /\ last \in 0 .. last /\ last - last = 0
  BY SizesAssumption
<1>2. Pruning(t, p, h, pruned, last)
  <2> HIDE DEF last
  <2> QED
    BY <1>1, PruningExists
<1>3. Pruned(t, p, h) = pruned[last]
  BY DEF Pruned, Pruning
<1> HIDE DEF pruned
<1>4. 0 \in S
  <2>1. pruned[0] = h
    BY <1>1, <1>2 DEF Pruning
  <2>2. last - 0 = last
    BY <1>1
  <2> QED
    BY <1>1, <2>1, <2>2
<1>5. ASSUME NEW n \in 0 .. last - 1, n \in S PROVE n + 1 \in S
  <2>1. /\ n + 1 \in 0 .. last /\ n + 1 # 0 /\ (n + 1) - 1 = n
        /\ Levels - (n + 1) = last - n /\ last - n \in 1 .. Levels - 1
        /\ (last - n) - 1 = last - (n + 1)
    BY <1>1
  <2>2. pruned[n + 1] = PrunedAt(Way(t, p), p, Levels - (n + 1), pruned[(n + 1) - 1])
    BY <1>2, <2>1 DEF Pruning
  <2>3. pruned[n + 1] = PrunedAt(Way(t, p), p, last - n, pruned[n])
    BY <2>1, <2>2
  <2>4. Cleared(t, p, pruned[n], last - n)
    BY <1>5
  <2> DEFINE k == last - n
  <2> HIDE DEF last, k
  <2>5. Cleared(t, p, PrunedAt(Way(t, p), p, k, pruned[n]), k - 1)
    BY <2>1, <2>4, ClearedAbove DEF k
  <2> QED
    BY <2>1, <2>3, <2>5 DEF k
<1>6. 0 .. last \subseteq S
  <2> HIDE DEF S, last
  <2> QED
    BY <1>1, <1>4, <1>5, Upwards
<1>7. Cleared(t, p, pruned[last], 0)
  BY <1>1, <1>6
<1> QED
  BY <1>3, <1>7

-----------------------------------------------------------------------------
(* What each call keeps, and what it changes for the tables. *)

\* The tables that exist are those that exist now.
ExistSame(s) == \A u \in Table : s[u] # NULL <=> root[u] # NULL

LEMMA RootsExist ==
  ASSUME HeapInv, NEW t \in Table, Exists(t), NEW p, NEW h, Sound(h, Roots(t)),
         NEW k \in Nat, Chained(h, Way(t, p), p, k)
  PROVE  ExistSame(Roots(t))
<1>1. Roots(t)[t] = Way(t, p)[0].at
  BY WayStartsAtRoot
<1>2. 0 \in 0 .. k
  OBVIOUS
<1>3. Way(t, p)[0].at \in DOMAIN h /\ NULL \notin DOMAIN h
  BY <1>2, TypedFacts DEF Chained, Sound
<1>4. \A u \in Table \ {t} : Roots(t)[u] = root[u]
  BY RootsFacts
<1> QED
  BY <1>1, <1>3, <1>4 DEF ExistSame, Exists

LEMMA MapKeepsTables ==
  ASSUME HeapInv, NEW t \in Table, NEW p \in Path, NEW f \in Frame, Map(t, p, f)
  PROVE  ExistSame(root')
<1>1. Levels \in Nat /\ Levels \in 0 .. Levels
  BY SizesAssumption
<1>2. Arrives(t, p, Levels) /\ Exists(t)
  BY <1>1, Arrival DEF Map
<1>3. ExistSame(Roots(t))
  BY <1>1, <1>2, RootsExist DEF Arrives
<1> QED
  BY <1>3 DEF Map, Roots

LEMMA RunsOutKeeps ==
  ASSUME HeapInv, NEW t \in Table, NEW p \in Path, NEW depth \in 1 .. Levels,
         RunsOut(t, p, depth)
  PROVE  HeapInv' /\ MapsSame(heap', root') /\ ExistSame(root')
<1> DEFINE k == depth - 1
           h == Way(t, p)[k].heap
<1>1. Levels \in Nat /\ k \in 0 .. Levels /\ k \in Nat
  BY SizesAssumption
<1>2. root' = Roots(t) /\ heap' = h /\ Exists(t)
  BY DEF RunsOut, Roots
<1> HIDE DEF k
<1>3. /\ Sound(h, Roots(t)) /\ TopRoots(h, Roots(t))
      /\ Chained(h, Way(t, p), p, k) /\ MapsSame(h, Roots(t))
  BY <1>1, <1>2, Arrival DEF Arrives
<1>4. DOMAIN Roots(t) = Table
  BY RootsFacts
<1> HIDE DEF h
<1>5. ExistSame(Roots(t))
  BY <1>1, <1>2, <1>3, RootsExist
<1> QED
  BY <1>2, <1>3, <1>4, <1>5 DEF HeapInv

\* The way that an unmapping leaves has no empty nodes.
NoneEmpty(g, s, t, p) ==
  \A m \in 1 .. Levels - 1 : Busy(g, Reached(g, s[t], p)[m])

LEMMA UnmapKeeps ==
  ASSUME HeapInv, NEW t \in Table, NEW p \in Path, Unmap(t, p)
  PROVE  /\ HeapInv' /\ MapsAs(heap', root', t, p, NoFrame)
         /\ ExistSame(root')
         /\ NoneEmpty(heap', root', t, p)
<1> DEFINE walk == Way(t, p)[Levels - 1]
           leaf == walk.heap[walk.at].entries[p[Levels]]
           h == Released(Cut(walk.heap, walk.at, p[Levels]), leaf)
<1>1. Exists(t) /\ Lookup(t, p) # NoFrame /\ root' = Roots(t) /\ heap' = Pruned(t, p, h)
  BY DEF Unmap, Roots
<1>2. Cleared(t, p, h, Levels - 1)
  BY <1>1, LeafCleared
<1> HIDE DEF h
<1>3. Cleared(t, p, Pruned(t, p, h), 0)
  BY <1>2, PrunedIsCleared
<1>4. DOMAIN Roots(t) = Table
  BY RootsFacts
<1> DEFINE g == heap'
<1>5. Cleared(t, p, g, 0)
  BY <1>1, <1>3
<1> HIDE DEF g
<1>6. /\ Sound(g, Roots(t)) /\ TopRoots(g, Roots(t)) /\ Chained(g, Way(t, p), p, 0)
      /\ MapsAs(g, Roots(t), t, p, NoFrame)
  BY <1>5 DEF Cleared
<1>7. ExistSame(Roots(t))
  BY <1>1, <1>6, RootsExist
<1>8. NoneEmpty(g, Roots(t), t, p)
  <2>1. \A m \in 1 .. Levels - 1 : m > 0
    BY SizesAssumption
  <2> QED
    BY <1>5, <2>1 DEF Cleared, NoneEmpty
<1> QED
  BY <1>1, <1>4, <1>6, <1>7, <1>8 DEF HeapInv, g

\* The table t maps nothing, or does not exist; the others are as they were.
OthersSame(g, s, t) ==
  \A u \in Table \ {t} :
    /\ s[u] # NULL <=> root[u] # NULL
    /\ \A q \in [1 .. Levels -> Index] : Read(g, s[u], q) = Read(heap, root[u], q)

LEMMA RootsOfTables ==
  ASSUME HeapInv
  PROVE  /\ Sound(heap, root) /\ TopRoots(heap, root) /\ DOMAIN root = Table
         /\ Typed(heap, root) /\ root = [u \in Table |-> root[u]]
         /\ IsFiniteSet(DOMAIN heap) /\ NULL \notin DOMAIN heap
         /\ \A u \in Table : root[u] \in DOMAIN heap \union {NULL}
BY TypedFacts DEF HeapInv, Sound

LEMMA CreateKeeps ==
  ASSUME HeapInv, NEW t \in Table, Create(t)
  PROVE  /\ HeapInv' /\ OthersSame(heap', root', t) /\ root'[t] # NULL
         /\ \A q \in [1 .. Levels -> Index] : Read(heap', root'[t], q) = NoFrame
<1> DEFINE h == heap
           r == root
           new == Fresh(h)
           g == Added(h, NewObject(0))
           s == [r EXCEPT ![t] = new]
<1>1. /\ Sound(h, r) /\ TopRoots(h, r) /\ DOMAIN r = Table /\ r = [u \in Table |-> r[u]]
      /\ IsFiniteSet(DOMAIN h)
      /\ \A u \in Table : r[u] \in DOMAIN h \union {NULL}
  BY RootsOfTables
<1>2. heap' = g /\ root' = s /\ r[t] = NULL
  BY DEF Create, Exists
<1>3. 0 \in 0 .. Levels
  BY SizesAssumption
<1>4. new \notin DOMAIN h /\ new # NULL /\ WithNew(h, g, new, 0)
  BY <1>1, FreshIsNew, NewObjectFacts
<1>5. DOMAIN s = Table /\ s[t] = new /\ \A u \in Table \ {t} : s[u] = r[u]
  BY <1>1
<1> HIDE DEF h, r
<1>6. Sound(g, s)
  BY <1>1, <1>2, <1>3, AddedSound
<1>7. ASSUME NEW q \in [1 .. Levels -> Index]
      PROVE  /\ \A x \in DOMAIN h \union {NULL} : Read(g, x, q) = Read(h, x, q)
             /\ Read(g, new, q) = NoFrame
  BY <1>1, AddedReads
<1> HIDE DEF new, g, s
<1>8. /\ \A o \in DOMAIN h : g[o] = h[o]
      /\ g[new].level = 0
  BY <1>4 DEF WithNew
<1>9. TopRoots(g, s)
  <2> SUFFICES ASSUME NEW u \in Table, s[u] # NULL PROVE g[s[u]].level = 0
    BY DEF TopRoots
  <2>1. CASE u = t
    BY <1>5, <1>8, <2>1
  <2>2. CASE u # t
    <3>1. s[u] = r[u] /\ r[u] \in DOMAIN h
      BY <1>1, <1>5, <2>2
    <3>2. h[r[u]].level = 0
      BY <1>1, <2>2, <3>1 DEF TopRoots
    <3> QED
      BY <1>8, <3>1, <3>2
  <2> QED
    BY <2>1, <2>2
<1>10. OthersSame(g, s, t)
  <2> SUFFICES ASSUME NEW u \in Table \ {t}
               PROVE  /\ s[u] # NULL <=> r[u] # NULL
                      /\ \A q \in [1 .. Levels -> Index] : Read(g, s[u], q) = Read(h, r[u], q)
    BY DEF OthersSame, h, r
  <2> QED
    BY <1>1, <1>5, <1>7
<1>11. \A q \in [1 .. Levels -> Index] : Read(g, s[t], q) = NoFrame
  BY <1>5, <1>7
<1> QED
  BY <1>2, <1>4, <1>5, <1>6, <1>9, <1>10, <1>11 DEF HeapInv

LEMMA ForkKeeps ==
  ASSUME HeapInv, NEW parent \in Table, NEW child \in Table, Fork(parent, child)
  PROVE  /\ HeapInv' /\ OthersSame(heap', root', child)
         /\ root'[child] # NULL
         /\ \A q \in [1 .. Levels -> Index] :
              Read(heap', root'[child], q) = Read(heap, root[parent], q)
<1> DEFINE h == heap
           r == root
           o == r[parent]
           g == [h EXCEPT ![o].refs = @ + 1]
           s == [r EXCEPT ![child] = o]
<1>1. /\ Sound(h, r) /\ TopRoots(h, r) /\ DOMAIN r = Table /\ r = [u \in Table |-> r[u]]
      /\ Typed(h, r)
      /\ \A u \in Table : r[u] \in DOMAIN h \union {NULL}
  BY RootsOfTables
<1>2. heap' = g /\ root' = s /\ o # NULL /\ r[child] = NULL
  BY DEF Fork, Exists
<1>3. o \in DOMAIN h
  BY <1>1, <1>2
<1>4. DOMAIN s = Table /\ s[child] = o /\ \A u \in Table \ {child} : s[u] = r[u]
  BY <1>1
<1> HIDE DEF h, r, o
<1>5. Sound(g, s)
  BY <1>1, <1>2, <1>3, RetainedSound
<1>6. Recounted(h, g) /\ DOMAIN g = DOMAIN h
  <2>1. Recounts(h, g, o, h[o].refs + 1)
    BY DEF Recounts
  <2> HIDE DEF g
  <2> QED
    BY <1>1, <1>3, <2>1, CountChanged
<1> HIDE DEF g, s
<1>7. \A y \in DOMAIN h : g[y].level = h[y].level
  BY <1>1, <1>6, RecountedFacts
<1>8. ASSUME NEW x \in DOMAIN h \union {NULL}, NEW q \in [1 .. Levels -> Index]
      PROVE  Read(g, x, q) = Read(h, x, q)
  BY <1>1, <1>5, <1>6, RecountedReads
<1>9. TopRoots(g, s)
  <2> SUFFICES ASSUME NEW u \in Table, s[u] # NULL PROVE g[s[u]].level = 0
    BY DEF TopRoots
  <2>1. PICK v \in Table : s[u] = r[v]
    BY <1>4 DEF o
  <2>2. r[v] \in DOMAIN h /\ h[r[v]].level = 0
    BY <1>1, <2>1 DEF TopRoots
  <2> QED
    BY <1>7, <2>1, <2>2
<1>10. OthersSame(g, s, child)
  <2> SUFFICES ASSUME NEW u \in Table \ {child}
               PROVE  /\ s[u] # NULL <=> r[u] # NULL
                      /\ \A q \in [1 .. Levels -> Index] : Read(g, s[u], q) = Read(h, r[u], q)
    BY DEF OthersSame, h, r
  <2> QED
    BY <1>1, <1>4, <1>8
<1>11. \A q \in [1 .. Levels -> Index] : Read(g, s[child], q) = Read(h, o, q)
  BY <1>3, <1>4, <1>8
<1> QED
  BY <1>2, <1>4, <1>5, <1>9, <1>10, <1>11 DEF HeapInv, h, r, o

LEMMA DestroyKeeps ==
  ASSUME HeapInv, NEW t \in Table, Destroy(t)
  PROVE  HeapInv' /\ OthersSame(heap', root', t) /\ root'[t] = NULL
<1> DEFINE h == heap
           r == root
           g == Released(h, r[t])
           s == [r EXCEPT ![t] = NULL]
<1>1. /\ Sound(h, r) /\ TopRoots(h, r) /\ DOMAIN r = Table /\ r = [u \in Table |-> r[u]]
      /\ Typed(h, r)
      /\ \A u \in Table : r[u] \in DOMAIN h \union {NULL}
  BY RootsOfTables
<1>2. heap' = g /\ root' = s /\ r[t] # NULL
  BY DEF Destroy, Exists
<1>3. r[t] \in DOMAIN h
  BY <1>1, <1>2
<1>4. DOMAIN s = Table /\ s[t] = NULL /\ \A u \in Table \ {t} : s[u] = r[u]
  BY <1>1
<1> HIDE DEF h, r
<1>5. Sound(g, s)
  BY <1>1, <1>2, ReleasedSound
<1>6. Recounted(h, g)
  BY <1>1, <1>3, ReleasedFacts
<1> HIDE DEF g, s
<1>7. \A y \in DOMAIN g : g[y].level = h[y].level /\ y \in DOMAIN h
  BY <1>1, <1>6, RecountedFacts DEF Recounted
<1>8. ASSUME NEW x \in DOMAIN g \union {NULL}, NEW q \in [1 .. Levels -> Index]
      PROVE  Read(g, x, q) = Read(h, x, q)
  BY <1>1, <1>5, <1>6, RecountedReads
<1>9. \A u \in Table : s[u] \in DOMAIN g \union {NULL}
  BY <1>4, <1>5, TypedFacts DEF Sound
<1>10. TopRoots(g, s)
  <2> SUFFICES ASSUME NEW u \in Table, s[u] # NULL PROVE g[s[u]].level = 0
    BY DEF TopRoots
  <2>1. s[u] = r[u] /\ s[u] \in DOMAIN g
    BY <1>4, <1>9
  <2>2. h[r[u]].level = 0
    BY <1>1, <2>1 DEF TopRoots
  <2> QED
    BY <1>7, <2>1, <2>2
<1>11. OthersSame(g, s, t)
  <2> SUFFICES ASSUME NEW u \in Table \ {t}
               PROVE  /\ s[u] # NULL <=> r[u] # NULL
                      /\ \A q \in [1 .. Levels -> Index] : Read(g, s[u], q) = Read(h, r[u], q)
    BY DEF OthersSame, h, r
  <2> QED
    BY <1>4, <1>8, <1>9
<1> QED
  BY <1>2, <1>4, <1>5, <1>10, <1>11 DEF HeapInv

-----------------------------------------------------------------------------
(* The theorems. *)

LEMMA HeapInit == Init => HeapInv
<1> SUFFICES ASSUME Init PROVE HeapInv
  OBVIOUS
<1>1. root = [t \in Table |-> NULL] /\ heap = <<>>
  BY DEF Init
<1>2. DOMAIN heap = {} /\ heap = [o \in DOMAIN heap |-> heap[o]]
  BY <1>1
<1>3. DOMAIN root = Table /\ \A t \in Table : root[t] = NULL
  BY <1>1
<1>4. Typed(heap, root)
  <2>1. IsFiniteSet(DOMAIN heap)
    BY <1>2, FS_EmptySet
  <2>2. IsFiniteSet(DOMAIN root)
    BY <1>3, SizesAssumption
  <2>3. root = [x \in DOMAIN root |-> root[x]]
    BY <1>1
  <2> QED
    BY <1>2, <1>3, <2>1, <2>2, <2>3, TypedFacts
<1>5. Counted(heap, root) /\ Layered(heap)
  BY <1>2 DEF Counted, Layered
<1> QED
  BY <1>3, <1>4, <1>5 DEF HeapInv, Sound, TopRoots

LEMMA HeapNext == HeapInv /\ [Next]_vars => HeapInv'
<1> SUFFICES ASSUME HeapInv, [Next]_vars PROVE HeapInv'
  OBVIOUS
<1>1. ASSUME NEW t \in Table, Create(t) PROVE HeapInv'
  BY <1>1, CreateKeeps
<1>2. ASSUME NEW t \in Table, Destroy(t) PROVE HeapInv'
  BY <1>2, DestroyKeeps
<1>3. ASSUME NEW t \in Table, NEW child \in Table, Fork(t, child) PROVE HeapInv'
  BY <1>3, ForkKeeps
<1>4. ASSUME NEW t \in Table, NEW p \in Path, Unmap(t, p) PROVE HeapInv'
  BY <1>4, UnmapKeeps
<1>5. ASSUME NEW t \in Table, NEW p \in Path, NEW f \in Frame, Map(t, p, f) PROVE HeapInv'
  BY <1>5, MapKeeps
<1>6. ASSUME NEW t \in Table, NEW p \in Path, NEW depth \in 1 .. Levels,
             MapFails(t, p, depth) \/ UnmapFails(t, p, depth)
      PROVE  HeapInv'
  <2>1. RunsOut(t, p, depth)
    BY <1>6 DEF MapFails, UnmapFails
  <2> QED
    BY <2>1, RunsOutKeeps
<1>7. CASE UNCHANGED vars
  BY <1>7 DEF vars, HeapInv
<1> QED
  BY <1>1, <1>2, <1>3, <1>4, <1>5, <1>6, <1>7 DEF Next

LEMMA HeapAlways == Spec => []HeapInv
BY HeapInit, HeapNext, PTL DEF Spec

\* Through every sequence of calls the reference count of an object is the number
\* of tables and entries that point to it (page_table.c retains, releases and
\* copies nodes and leaf entries), so that nothing is freed while it is in use and
\* nothing is left behind.
THEOREM CountsReferencesCorrect == Spec => []CountsReferences
<1>1. ASSUME HeapInv PROVE CountsReferences
  <2>1. /\ Sound(heap, root) /\ DOMAIN root = Table /\ Typed(heap, root)
        /\ root = [u \in Table |-> root[u]]
        /\ \A u \in Table : root[u] \in DOMAIN heap \union {NULL}
    BY <1>1, RootsOfTables
  <2>2. root \in [Table -> DOMAIN heap \union {NULL}]
    BY <2>1
  <2>3. heap \in [DOMAIN heap ->
                    [level : 0 .. Levels, refs : Nat \ {0}, active : Nat,
                     entries : [Index -> DOMAIN heap \union {NULL}],
                     frame : Frame \union {NoFrame}]]
    BY <2>1 DEF Typed, ObjectOver
  <2>4. ASSUME NEW o \in DOMAIN heap
        PROVE  /\ heap[o].refs = Cardinality({t \in Table : root[t] = o})
                                   + PointersFrom(heap, DOMAIN heap, o)
               /\ heap[o].active = Cardinality({i \in Index : heap[o].entries[i] # NULL})
    <3>1. Held(root, o) = {t \in Table : root[t] = o}
      BY <2>1 DEF Held
    <3> QED
      BY <2>1, <3>1 DEF Sound, Counted, UsedEntries
  <2> QED
    BY <2>2, <2>3, <2>4 DEF CountsReferences
<1> QED
  BY <1>1, HeapAlways, PTL

\* The private tables.
Image(h, r) ==
  [t \in Table |-> IF r[t] # NULL THEN [p \in Path |-> Read(h, r[t], p)] ELSE NoTable]

LEMMA ReadType ==
  ASSUME NEW h, NEW r, DOMAIN r = Table, Sound(h, r), TopRoots(h, r),
         NEW t \in Table, NEW p \in Path
  PROVE  Read(h, r[t], p) \in Frame \union {NoFrame}
<1> DEFINE o == r[t]
           leaf == Reached(h, o, p)[Levels]
<1>1. Levels \in 0 .. Levels /\ p \in [1 .. Levels -> Index]
  BY SizesAssumption, PathAssumption
<1>2. o \in DOMAIN h \union {NULL} /\ (o # NULL => h[o].level = 0)
  BY RootsIn
<1> HIDE DEF o
<1>3. leaf \in DOMAIN h \union {NULL}
  BY <1>1, <1>2, ReachedLevels
<1>4. leaf \in DOMAIN h => Formed(h, leaf)
  BY TypedFacts DEF Sound
<1> HIDE DEF leaf
<1>5. Value(h, leaf) \in Frame \union {NoFrame}
  BY <1>3, <1>4 DEF Value, Formed
<1> QED
  BY <1>5 DEF Read, leaf, o

LEMMA ImageFacts ==
  ASSUME HeapInv, NEW t \in Table
  PROVE  /\ Image(heap, root)[t] # NoTable <=> Exists(t)
         /\ Exists(t) => Image(heap, root)[t] = [p \in Path |-> Read(heap, root[t], p)]
<1>1. \A p \in Path : Read(heap, root[t], p) \in Frame \union {NoFrame}
  BY RootsOfTables, ReadType
<1>2. [p \in Path |-> Read(heap, root[t], p)] # NoTable
  <2>1. [p \in Path |-> Read(heap, root[t], p)] \in [Path -> Frame \union {NoFrame}]
    BY <1>1
  <2> QED
    BY <2>1, SentinelAssumption
<1> QED
  BY <1>2 DEF Image, Exists

LEMMA ImageMapped ==
  ASSUME HeapInv, NEW t \in Table, Exists(t), NEW p \in Path, NEW f, NEW g, NEW s,
         ExistSame(s), MapsAs(g, s, t, p, f)
  PROVE  Image(g, s) = [Image(heap, root) EXCEPT ![t][p] = f]
<1> DEFINE A == Image(heap, root)
           B == Image(g, s)
           C == [A EXCEPT ![t][p] = f]
<1>1. A[t] = [q \in Path |-> Read(heap, root[t], q)]
  BY ImageFacts
<1>2. DOMAIN A = Table /\ DOMAIN B = Table /\ B = [u \in Table |-> B[u]]
  BY DEF Image
<1>3. ASSUME NEW u \in Table
      PROVE  B[u] = IF root[u] # NULL THEN [q \in Path |-> Read(g, s[u], q)] ELSE NoTable
  BY DEF Image, ExistSame
<1>4. ASSUME NEW u \in Table, NEW q \in Path
      PROVE  Read(g, s[u], q) = IF u = t /\ q = p THEN f ELSE Read(heap, root[u], q)
  BY PathAssumption DEF MapsAs, Remaps
<1>5. ASSUME NEW u \in Table, u # t PROVE B[u] = A[u]
  <2>1. \A q \in Path : Read(g, s[u], q) = Read(heap, root[u], q)
    BY <1>4, <1>5
  <2>2. A[u] = IF root[u] # NULL THEN [q \in Path |-> Read(heap, root[u], q)] ELSE NoTable
    BY DEF Image
  <2> HIDE DEF A, B
  <2> QED
    BY <1>3, <2>1, <2>2
<1> HIDE DEF A, B
<1>6. B[t] = [A[t] EXCEPT ![p] = f]
  <2>1. B[t] = [q \in Path |-> Read(g, s[t], q)]
    BY <1>3 DEF Exists
  <2>2. \A q \in Path : Read(g, s[t], q) = IF q = p THEN f ELSE Read(heap, root[t], q)
    BY <1>4
  <2>3. B[t] = [q \in Path |-> IF q = p THEN f ELSE Read(heap, root[t], q)]
    BY <2>1, <2>2
  <2> QED
    BY <1>1, <2>3
<1>7. B = [u \in Table |-> IF u = t THEN [A[t] EXCEPT ![p] = f] ELSE A[u]]
  BY <1>2, <1>5, <1>6
<1>8. C = [u \in Table |-> IF u = t THEN [A[t] EXCEPT ![p] = f] ELSE A[u]]
  BY <1>2
<1> QED
  BY <1>7, <1>8 DEF A, B

LEMMA ImageSame ==
  ASSUME NEW g, NEW s, MapsSame(g, s), ExistSame(s)
  PROVE  Image(g, s) = Image(heap, root)
<1>1. ASSUME NEW u \in Table, NEW q \in Path
      PROVE  Read(g, s[u], q) = Read(heap, root[u], q)
  BY PathAssumption DEF MapsSame
<1>2. ASSUME NEW u \in Table
      PROVE  [q \in Path |-> Read(g, s[u], q)] = [q \in Path |-> Read(heap, root[u], q)]
  BY <1>1
<1> QED
  BY <1>2 DEF Image, ExistSame

LEMMA ImageOther ==
  ASSUME NEW g, NEW s, NEW t \in Table, OthersSame(g, s, t)
  PROVE  Image(g, s) = [Image(heap, root) EXCEPT ![t] = Image(g, s)[t]]
<1> DEFINE A == Image(heap, root)
           B == Image(g, s)
<1>1. ASSUME NEW u \in Table, u # t PROVE B[u] = A[u]
  <2>1. \A q \in Path : Read(g, s[u], q) = Read(heap, root[u], q)
    BY <1>1, PathAssumption DEF OthersSame
  <2>2. s[u] # NULL <=> root[u] # NULL
    BY <1>1 DEF OthersSame
  <2>3. [q \in Path |-> Read(g, s[u], q)] = [q \in Path |-> Read(heap, root[u], q)]
    BY <2>1
  <2> QED
    BY <2>2, <2>3 DEF Image
<1>2. DOMAIN A = Table /\ B = [u \in Table |-> B[u]]
  BY DEF Image
<1> HIDE DEF A, B
<1>3. B = [A EXCEPT ![t] = B[t]]
  BY <1>1, <1>2
<1> QED
  BY <1>3 DEF A, B

\* The tables that the refinement maps to.
Tables == [t \in Table |-> IF Exists(t) THEN [p \in Path |-> Lookup(t, p)] ELSE NoTable]

LEMMA TablesAreImage == Tables = Image(heap, root) /\ Tables' = Image(heap', root')
<1>1. ASSUME NEW t, NEW p
      PROVE  /\ Lookup(t, p) = Read(heap, root[t], p)
             /\ Lookup(t, p)' = Read(heap', root'[t], p)
  BY DEF Lookup, Read, Value
<1>2. Tables = Image(heap, root)
  BY <1>1 DEF Tables, Image, Exists
<1>3. Tables' = Image(heap', root')
  BY <1>1 DEF Tables, Image, Exists
<1> QED
  BY <1>2, <1>3

LEMMA PrivateCreate ==
  ASSUME HeapInv, NEW t \in Table, Create(t)
  PROVE  Tables[t] = NoTable /\ Tables' = [Tables EXCEPT ![t] = [p \in Path |-> NoFrame]]
<1> DEFINE g == heap'
           s == root'
<1>1. /\ OthersSame(g, s, t) /\ s[t] # NULL
      /\ \A q \in [1 .. Levels -> Index] : Read(g, s[t], q) = NoFrame
  BY CreateKeeps
<1> HIDE DEF g, s
<1>2. Image(g, s)[t] = [p \in Path |-> NoFrame]
  <2>1. \A p \in Path : Read(g, s[t], p) = NoFrame
    BY <1>1, PathAssumption
  <2>2. Image(g, s)[t] = [p \in Path |-> Read(g, s[t], p)]
    BY <1>1 DEF Image
  <2> QED
    BY <2>1, <2>2
<1>3. Image(g, s) = [Image(heap, root) EXCEPT ![t] = Image(g, s)[t]]
  BY <1>1, ImageOther
<1>4. Image(heap, root)[t] = NoTable
  BY ImageFacts DEF Create
<1> QED
  BY <1>2, <1>3, <1>4, TablesAreImage DEF g, s

LEMMA PrivateFork ==
  ASSUME HeapInv, NEW parent \in Table, NEW child \in Table, Fork(parent, child)
  PROVE  /\ Tables[parent] # NoTable /\ Tables[child] = NoTable
         /\ Tables' = [Tables EXCEPT ![child] = Tables[parent]]
<1> DEFINE g == heap'
           s == root'
<1>1. /\ OthersSame(g, s, child) /\ s[child] # NULL
      /\ \A q \in [1 .. Levels -> Index] : Read(g, s[child], q) = Read(heap, root[parent], q)
  BY ForkKeeps
<1> HIDE DEF g, s
<1>2. Exists(parent) /\ ~Exists(child)
  BY DEF Fork
<1>3. /\ Image(heap, root)[parent] # NoTable /\ Image(heap, root)[child] = NoTable
      /\ Image(heap, root)[parent] = [p \in Path |-> Read(heap, root[parent], p)]
  BY <1>2, ImageFacts
<1>4. Image(g, s)[child] = Image(heap, root)[parent]
  <2>1. \A p \in Path : Read(g, s[child], p) = Read(heap, root[parent], p)
    BY <1>1, PathAssumption
  <2>2. Image(g, s)[child] = [p \in Path |-> Read(g, s[child], p)]
    BY <1>1 DEF Image
  <2> QED
    BY <1>3, <2>1, <2>2
<1>5. Image(g, s) = [Image(heap, root) EXCEPT ![child] = Image(g, s)[child]]
  BY <1>1, ImageOther
<1> QED
  BY <1>3, <1>4, <1>5, TablesAreImage DEF g, s

LEMMA PrivateDestroy ==
  ASSUME HeapInv, NEW t \in Table, Destroy(t)
  PROVE  Tables[t] # NoTable /\ Tables' = [Tables EXCEPT ![t] = NoTable]
<1> DEFINE g == heap'
           s == root'
<1>1. OthersSame(g, s, t) /\ s[t] = NULL
  BY DestroyKeeps
<1> HIDE DEF g, s
<1>2. Image(g, s)[t] = NoTable
  BY <1>1 DEF Image
<1>3. Image(g, s) = [Image(heap, root) EXCEPT ![t] = Image(g, s)[t]]
  BY <1>1, ImageOther
<1>4. Image(heap, root)[t] # NoTable
  BY ImageFacts DEF Destroy
<1> QED
  BY <1>2, <1>3, <1>4, TablesAreImage DEF g, s

LEMMA PrivateMap ==
  ASSUME HeapInv, NEW t \in Table, NEW p \in Path, NEW f \in Frame, Map(t, p, f)
  PROVE  Tables[t] # NoTable /\ Tables' = [Tables EXCEPT ![t][p] = f]
<1> DEFINE g == heap'
           s == root'
<1>1. MapsAs(g, s, t, p, f) /\ ExistSame(s) /\ Exists(t)
  BY MapKeeps, MapKeepsTables DEF Map
<1> HIDE DEF g, s
<1>2. Image(g, s) = [Image(heap, root) EXCEPT ![t][p] = f]
  BY <1>1, ImageMapped
<1>3. Image(heap, root)[t] # NoTable
  BY <1>1, ImageFacts
<1> QED
  BY <1>2, <1>3, TablesAreImage DEF g, s

LEMMA PrivateUnmap ==
  ASSUME HeapInv, NEW t \in Table, NEW p \in Path, Unmap(t, p)
  PROVE  /\ Tables[t] # NoTable /\ Tables[t][p] # NoFrame
         /\ Tables' = [Tables EXCEPT ![t][p] = NoFrame]
<1> DEFINE g == heap'
           s == root'
<1>1. MapsAs(g, s, t, p, NoFrame) /\ ExistSame(s)
  BY UnmapKeeps
<1> HIDE DEF g, s
<1>2. Exists(t) /\ Lookup(t, p) # NoFrame
  BY DEF Unmap
<1>3. Image(g, s) = [Image(heap, root) EXCEPT ![t][p] = NoFrame]
  BY <1>1, <1>2, ImageMapped
<1>4. Image(heap, root)[t] # NoTable
  BY <1>2, ImageFacts
<1>5. Tables[t][p] # NoFrame
  BY <1>2 DEF Tables
<1> QED
  BY <1>3, <1>4, <1>5, TablesAreImage DEF g, s

LEMMA PrivateRunsOut ==
  ASSUME HeapInv, NEW t \in Table, NEW p \in Path, NEW depth \in 1 .. Levels,
         RunsOut(t, p, depth)
  PROVE  Tables' = Tables
<1> DEFINE g == heap'
           s == root'
<1>1. MapsSame(g, s) /\ ExistSame(s)
  BY RunsOutKeeps
<1> HIDE DEF g, s
<1>2. Image(g, s) = Image(heap, root)
  BY <1>1, ImageSame
<1> QED
  BY <1>2, TablesAreImage DEF g, s

\* Sharing is not to be seen: whatever nodes and leaves tables share, each call of
\* page_table.c does to its own table what it would do to a private one, and a call
\* that runs out of memory on its way down does nothing.
THEOREM PrivateTablesCorrect == Spec => ImplementsPrivateTables
<1>1. Init => Private!Init
  <2> SUFFICES ASSUME Init PROVE Private!Init
    OBVIOUS
  <2>1. \A t \in Table : ~Exists(t)
    BY DEF Init, Exists
  <2> QED
    BY <2>1 DEF Private!Init
<1>2. ASSUME HeapInv, [Next]_vars PROVE Private!Next \/ UNCHANGED Tables
  <2>1. ASSUME NEW t \in Table, Create(t) PROVE Private!Next
    <3>1. Private!Create(t)
      BY <1>2, <2>1, PrivateCreate DEF Private!Create, Private!Exists, Tables
    <3> QED
      BY <3>1 DEF Private!Next
  <2>2. ASSUME NEW t \in Table, Destroy(t) PROVE Private!Next
    <3>1. Private!Destroy(t)
      BY <1>2, <2>2, PrivateDestroy DEF Private!Destroy, Private!Exists, Tables
    <3> QED
      BY <3>1 DEF Private!Next
  <2>3. ASSUME NEW t \in Table, NEW child \in Table, Fork(t, child) PROVE Private!Next
    <3>1. Private!Fork(t, child)
      BY <1>2, <2>3, PrivateFork DEF Private!Fork, Private!Exists, Tables
    <3> QED
      BY <3>1 DEF Private!Next
  <2>4. ASSUME NEW t \in Table, NEW p \in Path, Unmap(t, p) PROVE Private!Next
    <3>1. Private!Unmap(t, p)
      BY <1>2, <2>4, PrivateUnmap DEF Private!Unmap, Private!Exists, Tables
    <3> QED
      BY <3>1 DEF Private!Next
  <2>5. ASSUME NEW t \in Table, NEW p \in Path, NEW f \in Frame, Map(t, p, f)
        PROVE  Private!Next
    <3>1. Private!Map(t, p, f)
      BY <1>2, <2>5, PrivateMap DEF Private!Map, Private!Exists, Tables
    <3> QED
      BY <3>1 DEF Private!Next
  <2>6. ASSUME NEW t \in Table, NEW p \in Path, NEW depth \in 1 .. Levels,
               MapFails(t, p, depth) \/ UnmapFails(t, p, depth)
        PROVE  UNCHANGED Tables
    <3>1. RunsOut(t, p, depth)
      BY <2>6 DEF MapFails, UnmapFails
    <3> QED
      BY <1>2, <3>1, PrivateRunsOut
  <2>7. CASE UNCHANGED vars
    <3>1. heap' = heap /\ root' = root
      BY <2>7 DEF vars
    <3> QED
      BY <3>1, TablesAreImage
  <2> QED
    BY <1>2, <2>1, <2>2, <2>3, <2>4, <2>5, <2>6, <2>7 DEF Next
<1> QED
  BY <1>1, <1>2, HeapAlways, PTL DEF Spec, Private!Spec, ImplementsPrivateTables, Tables

\* Each call has on the private tables the effect that its name says, on its own
\* table and page; page_table_map and page_table_unmap leave them alone when no
\* memory is left for a node, a copy or a leaf.
THEOREM CallsMatchCorrect == Spec => CallsMatch
<1>1. ASSUME HeapInv, [Next]_vars, NEW t \in Table, NEW p \in Path
      PROVE  /\ \A f \in Frame : Map(t, p, f) => Private!Map(t, p, f)
             /\ Unmap(t, p) => Private!Unmap(t, p)
             /\ \A depth \in 1 .. Levels : RunsOut(t, p, depth) => Private!Unchanged
  <2>1. ASSUME NEW f \in Frame, Map(t, p, f) PROVE Private!Map(t, p, f)
    BY <1>1, <2>1, PrivateMap DEF Private!Map, Private!Exists, Tables
  <2>2. ASSUME Unmap(t, p) PROVE Private!Unmap(t, p)
    BY <1>1, <2>2, PrivateUnmap DEF Private!Unmap, Private!Exists, Tables
  <2>3. ASSUME NEW depth \in 1 .. Levels, RunsOut(t, p, depth) PROVE Private!Unchanged
    BY <1>1, <2>3, PrivateRunsOut DEF Private!Unchanged, Tables
  <2> QED
    BY <2>1, <2>2, <2>3
<1>2. HeapInv /\ [Next]_vars =>
        [\A t \in Table, p \in Path :
           /\ \A f \in Frame : Map(t, p, f) => Private!Map(t, p, f)
           /\ Unmap(t, p) => Private!Unmap(t, p)
           /\ \A depth \in 1 .. Levels :
                RunsOut(t, p, depth) => Private!Unchanged]_vars
  BY <1>1
<1> QED
  BY <1>2, HeapAlways, PTL DEF Spec, CallsMatch

LEMMA ImageExists ==
  ASSUME NEW h, NEW r, DOMAIN r = Table, Sound(h, r), TopRoots(h, r),
         NEW t \in Table, r[t] # NULL
  PROVE  Image(h, r)[t] # NoTable
<1>1. \A p \in Path : Read(h, r[t], p) \in Frame \union {NoFrame}
  BY ReadType
<1>2. [p \in Path |-> Read(h, r[t], p)] \in [Path -> Frame \union {NoFrame}]
  BY <1>1
<1> QED
  BY <1>2, SentinelAssumption DEF Image

\* The page that loses its frame is the page that is unmapped.
LEMMA OnlyUnmapClears ==
  ASSUME HeapInv, [Next]_vars, NEW t \in Table, NEW p \in Path,
         Tables[t] # NoTable, Tables[t][p] # NoFrame,
         Tables'[t] # NoTable, Tables'[t][p] = NoFrame
  PROVE  Unmap(t, p)
<1> DEFINE A == Tables
           B == Tables'
<1>1. DOMAIN A = Table /\ A[t] # NoTable /\ A[t][p] # NoFrame
      /\ B[t] # NoTable /\ B[t][p] = NoFrame
  BY DEF Tables
<1>2. DOMAIN (A[t]) = Path
  BY DEF Tables
<1>3. \A u \in Table : Create(u) => A[u] = NoTable /\ B = [A EXCEPT ![u] = [q \in Path |-> NoFrame]]
  BY PrivateCreate
<1>4. \A u \in Table : Destroy(u) => B = [A EXCEPT ![u] = NoTable]
  BY PrivateDestroy
<1>5. \A u, child \in Table : Fork(u, child) => A[child] = NoTable /\ B = [A EXCEPT ![child] = A[u]]
  BY PrivateFork
<1>6. \A u \in Table, q \in Path : Unmap(u, q) => B = [A EXCEPT ![u][q] = NoFrame]
  BY PrivateUnmap
<1>7. \A u \in Table, q \in Path, f \in Frame : Map(u, q, f) => B = [A EXCEPT ![u][q] = f]
  BY PrivateMap
<1>8. \A u \in Table, q \in Path, depth \in 1 .. Levels : RunsOut(u, q, depth) => B = A
  BY PrivateRunsOut
<1>9. UNCHANGED vars => B = A
  BY TablesAreImage DEF vars
<1> HIDE DEF A, B
<1>10. B # A
  BY <1>1
<1>11. ASSUME NEW u \in Table PROVE ~Create(u) /\ ~Destroy(u)
  BY <1>1, <1>3, <1>4
<1>12. ASSUME NEW u \in Table, NEW child \in Table PROVE ~Fork(u, child)
  BY <1>1, <1>5
<1>13. ASSUME NEW u \in Table, NEW q \in Path, Unmap(u, q) PROVE u = t /\ q = p
  <2>1. B = [A EXCEPT ![u][q] = NoFrame]
    BY <1>6, <1>13
  <2>2. u = t
    BY <1>1, <2>1
  <2> QED
    BY <1>1, <1>2, <2>1, <2>2
<1>14. ASSUME NEW u \in Table, NEW q \in Path, NEW f \in Frame PROVE ~Map(u, q, f)
  <2>1. SUFFICES ASSUME Map(u, q, f) PROVE FALSE
    OBVIOUS
  <2>2. B = [A EXCEPT ![u][q] = f]
    BY <1>7, <2>1
  <2>3. u = t
    BY <1>1, <2>2
  <2> QED
    BY <1>1, <1>2, <2>2, <2>3, SentinelAssumption
<1>15. ASSUME NEW u \in Table, NEW q \in Path, NEW depth \in 1 .. Levels
       PROVE  ~MapFails(u, q, depth) /\ ~UnmapFails(u, q, depth)
  BY <1>8, <1>10 DEF MapFails, UnmapFails
<1> QED
  BY <1>9, <1>10, <1>11, <1>12, <1>13, <1>14, <1>15 DEF Next

\* When a page is unmapped, page_table_unmap leaves no node without entries on its
\* path, also where the path was shared and had to be copied.
THEOREM UnmapPrunesCorrect == Spec => UnmapPrunes
<1>1. ASSUME HeapInv, [Next]_vars, NEW t \in Table, NEW p \in Path,
             Exists(t), Lookup(t, p) # NoFrame, Exists(t)', Lookup(t, p)' = NoFrame,
             NEW n \in 1 .. Levels - 1
      PROVE  LET o == Reached(heap, root[t], p)'[n] IN o = NULL \/ heap'[o].active > 0
  <2>1. Tables[t] # NoTable /\ Tables'[t] # NoTable
    <3>1. HeapInv'
      BY <1>1, HeapNext
    <3>2. Image(heap, root)[t] # NoTable /\ Image(heap', root')[t] # NoTable
      BY <1>1, <3>1, ImageExists DEF HeapInv, Exists
    <3> QED
      BY <3>2, TablesAreImage
  <2>2. Tables[t][p] # NoFrame /\ Tables'[t][p] = NoFrame
    BY <1>1 DEF Tables
  <2>3. Unmap(t, p)
    BY <1>1, <2>1, <2>2, OnlyUnmapClears
  <2>4. NoneEmpty(heap', root', t, p)
    BY <1>1, <2>3, UnmapKeeps
  <2> QED
    BY <2>4 DEF NoneEmpty, Busy
<1>2. HeapInv /\ [Next]_vars =>
        [\A t \in Table, p \in Path :
           /\ Exists(t) /\ Lookup(t, p) # NoFrame
           /\ Exists(t)' /\ Lookup(t, p)' = NoFrame
           => \A n \in 1 .. Levels - 1 :
                LET o == Reached(heap, root[t], p)'[n]
                IN  o = NULL \/ heap'[o].active > 0]_vars
  BY <1>1
<1> QED
  BY <1>2, HeapAlways, PTL DEF Spec, UnmapPrunes
=============================================================================
