-------------------------- MODULE CowManagerProofs --------------------------
(***************************************************************************)
(* The lists of the COW manager, for any number of frames, mappings and    *)
(* cells.                                                                  *)
(***************************************************************************)
EXTENDS CowManager, FiniteSetTheorems, TLAPS

-----------------------------------------------------------------------------
(* Walks along the next of the cells of C.                                 *)

\* C has no next that dangles.
Linked(C) ==
  /\ DOMAIN C \in SUBSET Cell
  /\ \A c \in DOMAIN C : C[c].next \in DOMAIN C \union {NULL}

ClosedIn(C, S) == \A c \in S : C[c].next \in S \union {NULL}

\* The cells that a walk from s comes to.
Walk(C, s) ==
  {c \in DOMAIN C :
     \A S \in SUBSET DOMAIN C : s \in S \union {NULL} /\ ClosedIn(C, S) => c \in S}

LEMMA CellsOfIsWalk ==
  ASSUME NEW f \in Frame
  PROVE  CellsOf(f) = Walk(cell, head[f]) /\ CellsOf(f)' = Walk(cell', head'[f])
BY DEF CellsOf, Walk, ClosedIn, Closed, Allocated

LEMMA NullIsNoCell == ASSUME NEW C, Linked(C) PROVE NULL \notin DOMAIN C
BY DEF Linked, Cell, NULL

LEMMA WalkIsClosed ==
  ASSUME NEW C, Linked(C), NEW s \in DOMAIN C \union {NULL}
  PROVE  /\ Walk(C, s) \in SUBSET DOMAIN C
         /\ s \in Walk(C, s) \union {NULL}
         /\ ClosedIn(C, Walk(C, s))
<1>1. Walk(C, s) \in SUBSET DOMAIN C
  BY DEF Walk
<1>2. s \in Walk(C, s) \union {NULL}
  BY DEF Walk
<1>3. ASSUME NEW d \in Walk(C, s) PROVE C[d].next \in Walk(C, s) \union {NULL}
  <2>1. d \in DOMAIN C /\ C[d].next \in DOMAIN C \union {NULL}
    BY <1>1 DEF Linked
  <2>2. ASSUME NEW S \in SUBSET DOMAIN C, s \in S \union {NULL}, ClosedIn(C, S)
        PROVE  C[d].next \in S \union {NULL}
    <3>1. d \in S
      BY <2>2 DEF Walk
    <3> QED
      BY <2>2, <3>1 DEF ClosedIn
  <2> QED
    BY <2>1, <2>2 DEF Walk
<1> QED
  BY <1>1, <1>2, <1>3 DEF ClosedIn

LEMMA WalkIsLeast ==
  ASSUME NEW C, NEW s, NEW S \in SUBSET DOMAIN C, s \in S \union {NULL}, ClosedIn(C, S)
  PROVE  Walk(C, s) \subseteq S
BY DEF Walk

\* A walk enters a cell from its start or from another of its cells.
LEMMA Entered ==
  ASSUME NEW C, Linked(C), NEW s \in DOMAIN C \union {NULL},
         NEW c \in Walk(C, s), s # c
  PROVE  \E d \in Walk(C, s) \ {c} : C[d].next = c
<1> SUFFICES ASSUME \A d \in Walk(C, s) \ {c} : C[d].next # c
             PROVE  FALSE
  OBVIOUS
<1> DEFINE S == Walk(C, s) \ {c}
<1>1. S \in SUBSET DOMAIN C /\ s \in S \union {NULL}
  BY WalkIsClosed
<1>2. ClosedIn(C, S)
  BY WalkIsClosed DEF ClosedIn
<1>3. Walk(C, s) \subseteq S
  BY <1>1, <1>2, WalkIsLeast
<1> QED
  BY <1>3

\* A new cell c before s: walks from c come to what walks from s came to.
LEMMA WalkWithCell ==
  ASSUME NEW C, Linked(C), NEW D, Linked(D), NEW c, c \notin DOMAIN C,
         DOMAIN D = DOMAIN C \union {c},
         \A d \in DOMAIN C : D[d].next = C[d].next,
         NEW s \in DOMAIN C \union {NULL}
  PROVE  /\ Walk(D, s) = Walk(C, s)
         /\ D[c].next = s => Walk(D, c) = Walk(C, s) \union {c}
<1> DEFINE W == Walk(C, s)
<1>1. W \in SUBSET DOMAIN C /\ s \in W \union {NULL} /\ ClosedIn(C, W)
  BY WalkIsClosed
<1>2. ASSUME NEW t \in DOMAIN D \union {NULL}, t = s \/ (t = c /\ D[c].next = s)
      PROVE  W \subseteq Walk(D, t)
  <2> DEFINE S == Walk(D, t) \cap DOMAIN C
  <2>1. Walk(D, t) \in SUBSET DOMAIN D /\ t \in Walk(D, t) \union {NULL}
        /\ ClosedIn(D, Walk(D, t))
    BY WalkIsClosed
  <2>2. c # NULL
    BY NullIsNoCell
  <2>3. s \in S \union {NULL}
    BY <1>2, <2>1, <2>2 DEF ClosedIn
  <2>4. ClosedIn(C, S)
    BY <2>1 DEF ClosedIn, Linked
  <2>5. S \in SUBSET DOMAIN C
    OBVIOUS
  <2> HIDE DEF S
  <2>6. W \subseteq S
    BY <2>3, <2>4, <2>5, WalkIsLeast
  <2> QED
    BY <2>6 DEF S
<1>3. Walk(D, s) = W
  <2>1. W \in SUBSET DOMAIN D /\ ClosedIn(D, W)
    BY <1>1 DEF ClosedIn
  <2>2. Walk(D, s) \subseteq W
    BY <1>1, <2>1, WalkIsLeast
  <2> QED
    BY <1>2, <2>2
<1>4. ASSUME D[c].next = s PROVE Walk(D, c) = W \union {c}
  <2> DEFINE S == W \union {c}
  <2>1. S \in SUBSET DOMAIN D /\ c \in S \union {NULL} /\ ClosedIn(D, S)
    BY <1>1, <1>4 DEF ClosedIn
  <2> HIDE DEF S
  <2>2. Walk(D, c) \subseteq S
    BY <2>1, WalkIsLeast
  <2>3. c \in Walk(D, c)
    BY WalkIsClosed, NullIsNoCell
  <2>4. W \subseteq Walk(D, c)
    BY <1>2, <1>4
  <2> QED
    BY <2>2, <2>3, <2>4 DEF S
<1> QED
  BY <1>3, <1>4

\* Cell c is bypassed: walks come to what they came to, without c.
LEMMA WalkWithoutCell ==
  ASSUME NEW C, Linked(C), NEW D, Linked(D), NEW c \in DOMAIN C,
         C[c].next # c,
         DOMAIN D = DOMAIN C \ {c},
         \A d \in DOMAIN C \ {c} :
           D[d].next = IF C[d].next = c THEN C[c].next ELSE C[d].next,
         NEW s \in DOMAIN C \union {NULL}
  PROVE  Walk(D, IF s = c THEN C[c].next ELSE s) = Walk(C, s) \ {c}
<1> DEFINE W == Walk(C, s)
           t == IF s = c THEN C[c].next ELSE s
           V == Walk(D, t)
<1>1. W \in SUBSET DOMAIN C /\ s \in W \union {NULL} /\ ClosedIn(C, W)
  BY WalkIsClosed
<1>2. c # NULL /\ C[c].next \in DOMAIN D \union {NULL} /\ t \in DOMAIN D \union {NULL}
  BY NullIsNoCell DEF Linked
<1>3. V \in SUBSET DOMAIN D /\ t \in V \union {NULL} /\ ClosedIn(D, V)
  BY <1>2, WalkIsClosed
<1>4. V \subseteq W \ {c}
  <2> DEFINE S == W \ {c}
  <2>1. S \in SUBSET DOMAIN D
    BY <1>1
  <2>2. t \in S \union {NULL}
    BY <1>1, <1>2 DEF ClosedIn
  <2>3. ASSUME NEW d \in S PROVE D[d].next \in S \union {NULL}
    <3>1. d \in DOMAIN C \ {c} /\ C[d].next \in W \union {NULL}
      BY <1>1 DEF ClosedIn
    <3>2. CASE C[d].next = c
      <4>1. c \in W /\ D[d].next = C[c].next
        BY <1>2, <3>1, <3>2
      <4>2. C[c].next \in W \union {NULL}
        BY <1>1, <4>1 DEF ClosedIn
      <4> QED
        BY <4>1, <4>2
    <3>3. CASE C[d].next # c
      BY <3>1, <3>3
    <3> QED
      BY <3>2, <3>3
  <2>4. ClosedIn(D, S)
    BY <2>3 DEF ClosedIn
  <2> HIDE DEF S, t
  <2>5. Walk(D, t) \subseteq S
    BY <2>1, <2>2, <2>4, WalkIsLeast
  <2> QED
    BY <2>5 DEF S
<1>5. W \subseteq V \union {c}
  <2> DEFINE met == s = c \/ \E d \in V : C[d].next = c
             S == IF met THEN V \union {c} ELSE V
  <2>1. S \in SUBSET DOMAIN C /\ s \in S \union {NULL}
    BY <1>3
  <2>2. ASSUME NEW d \in V
        PROVE  C[d].next = c \/ C[d].next \in V \union {NULL}
    <3>1. d \in DOMAIN C \ {c} /\ D[d].next \in V \union {NULL}
      BY <1>3 DEF ClosedIn
    <3> QED
      BY <3>1
  <2>3. met => C[c].next \in V \union {NULL}
    <3>1. CASE s = c
      BY <1>3, <3>1
    <3>2. ASSUME NEW d \in V, C[d].next = c PROVE C[c].next \in V \union {NULL}
      <4>1. d \in DOMAIN C \ {c} /\ D[d].next \in V \union {NULL}
        BY <1>3 DEF ClosedIn
      <4> QED
        BY <3>2, <4>1
    <3> QED
      BY <3>1, <3>2
  <2>4. ClosedIn(C, S)
    <3> HIDE DEF V, t
    <3> QED
      BY <2>2, <2>3 DEF ClosedIn
  <2> HIDE DEF S, met
  <2>5. W \subseteq S
    BY <2>1, <2>4, WalkIsLeast
  <2> QED
    BY <2>5 DEF S
<1>6. c \notin V
  BY <1>3
<1> QED
  BY <1>4, <1>5, <1>6

-----------------------------------------------------------------------------
(* The invariant: each allocated cell is entered by one pointer and come to *)
(* by a walk, and no mapping stands twice in a list.                        *)

TypeOK ==
  /\ Allocated \in SUBSET Cell
  /\ head \in [Frame -> Allocated \union {NULL}]
  /\ cell \in [Allocated -> [mapping : Mapping, next : Allocated \union {NULL}]]

EnteredOnce ==
  \A c \in Allocated :
    /\ \A f, g \in Frame : head[f] = c /\ head[g] = c => f = g
    /\ \A d, e \in Allocated : cell[d].next = c /\ cell[e].next = c => d = e
    /\ \A f \in Frame, d \in Allocated : ~(head[f] = c /\ cell[d].next = c)

AllReached == Allocated = UNION {CellsOf(f) : f \in Frame}

MappedOnce ==
  \A f \in Frame : \A c, d \in CellsOf(f) : cell[c].mapping = cell[d].mapping => c = d

IInv == TypeOK /\ EnteredOnce /\ AllReached /\ MappedOnce

LEMMA ListsAreLinked ==
  /\ TypeOK => Linked(cell)
  /\ TypeOK' => Linked(cell')
BY DEF TypeOK, Linked, Allocated

LEMMA ListFacts ==
  ASSUME TypeOK, NEW f \in Frame
  PROVE  /\ Linked(cell) /\ CellsOf(f) = Walk(cell, head[f])
         /\ head[f] \in DOMAIN cell \union {NULL} /\ NULL \notin DOMAIN cell
         /\ CellsOf(f) \in SUBSET DOMAIN cell
         /\ head[f] \in CellsOf(f) \union {NULL}
         /\ ClosedIn(cell, CellsOf(f))
<1>1. Linked(cell) /\ head[f] \in DOMAIN cell \union {NULL}
  BY ListsAreLinked DEF TypeOK, Allocated
<1> QED
  BY <1>1, CellsOfIsWalk, NullIsNoCell, WalkIsClosed

\* No cell is in two lists.
LEMMA ListsAreDisjoint ==
  ASSUME TypeOK, EnteredOnce, NEW f \in Frame, NEW g \in Frame, f # g
  PROVE  CellsOf(f) \cap CellsOf(g) = {}
<1> DEFINE S == CellsOf(f) \ CellsOf(g)
<1>1. ASSUME NEW c \in CellsOf(g), head[g] # c
      PROVE  \E d \in CellsOf(g) : cell[d].next = c
  BY <1>1, ListFacts, Entered
<1>2. head[f] \in S \union {NULL}
  <2> SUFFICES ASSUME head[f] \in CellsOf(g) PROVE FALSE
    BY ListFacts
  <2>1. head[f] \in Allocated /\ CellsOf(g) \in SUBSET Allocated
    BY ListFacts DEF Allocated
  <2>2. head[g] # head[f]
    BY <2>1 DEF EnteredOnce
  <2>3. PICK d \in CellsOf(g) : cell[d].next = head[f]
    BY <1>1, <2>2
  <2> QED
    BY <2>1, <2>3 DEF EnteredOnce
<1>3. ASSUME NEW d \in S PROVE cell[d].next \in S \union {NULL}
  <2> DEFINE e == cell[d].next
  <2>1. e \in CellsOf(f) \union {NULL}
    BY ListFacts DEF ClosedIn
  <2> SUFFICES ASSUME e \in CellsOf(g) PROVE FALSE
    BY <2>1
  <2>2. e \in Allocated /\ d \in Allocated /\ CellsOf(g) \in SUBSET Allocated
    BY ListFacts DEF Allocated
  <2>3. head[g] # e
    BY <2>2 DEF EnteredOnce
  <2>4. PICK b \in CellsOf(g) : cell[b].next = e
    BY <1>1, <2>3
  <2>5. b = d
    BY <2>2, <2>4 DEF EnteredOnce
  <2> QED
    BY <2>4, <2>5
<1>4. ClosedIn(cell, S) /\ S \in SUBSET DOMAIN cell
  BY <1>3, ListFacts DEF ClosedIn
<1>5. Walk(cell, head[f]) \subseteq S
  <2> HIDE DEF S
  <2> QED
    BY <1>2, <1>4, WalkIsLeast
<1> QED
  BY <1>5, ListFacts

LEMMA IInvInit == Init => IInv
<1> SUFFICES ASSUME Init PROVE IInv
  OBVIOUS
<1>1. Allocated = {}
  BY DEF Init, Allocated
<1>2. cell \in [Allocated -> [mapping : Mapping, next : Allocated \union {NULL}]]
  BY <1>1 DEF Init
<1>3. TypeOK
  BY <1>1, <1>2 DEF Init, TypeOK
<1>4. \A f \in Frame : CellsOf(f) = {}
  BY <1>1 DEF CellsOf
<1> QED
  BY <1>1, <1>3, <1>4 DEF IInv, EnteredOnce, AllReached, MappedOnce

-----------------------------------------------------------------------------
(* What the operations do to the lists. *)

\* A new cell c for m at the head of the list of f.
LEMMA AddStep ==
  ASSUME IInv, NEW f \in Frame, NEW m \in Mapping, Add(f, m)
  PROVE  /\ IInv'
         /\ \A g \in Frame :
              Mappings(g)' = IF g = f THEN Mappings(g) \union {m} ELSE Mappings(g)
<1>1. PICK c \in Cell \ Allocated :
        /\ cell' = [d \in Allocated \union {c} |->
                      IF d = c THEN [mapping |-> m, next |-> head[f]] ELSE cell[d]]
        /\ head' = [head EXCEPT ![f] = c]
  BY DEF Add
<1>2. /\ TypeOK /\ Allocated = DOMAIN cell /\ Allocated' = DOMAIN cell'
      /\ Allocated \in SUBSET Cell
  BY DEF IInv, TypeOK, Allocated
<1>3. /\ Allocated' = Allocated \union {c} /\ c \notin Allocated
      /\ cell'[c] = [mapping |-> m, next |-> head[f]]
      /\ \A d \in Allocated : cell'[d] = cell[d]
      /\ \A g \in Frame : head'[g] = IF g = f THEN c ELSE head[g]
  BY <1>1, <1>2 DEF TypeOK
<1>4. TypeOK'
  <2>1. Allocated' \in SUBSET Cell
    BY <1>2, <1>3
  <2>2. head' \in [Frame -> Allocated' \union {NULL}]
    BY <1>1, <1>2, <1>3 DEF TypeOK
  <2>3. cell' \in [Allocated' -> [mapping : Mapping, next : Allocated' \union {NULL}]]
    BY <1>1, <1>2, <1>3 DEF TypeOK
  <2> QED
    BY <2>1, <2>2, <2>3 DEF TypeOK
<1>5. Linked(cell) /\ Linked(cell')
  BY <1>2, <1>4, ListsAreLinked
<1>6. ASSUME NEW g \in Frame
      PROVE  CellsOf(g)' = IF g = f THEN CellsOf(g) \union {c} ELSE CellsOf(g)
  <2>1. head[g] \in DOMAIN cell \union {NULL}
    BY <1>2, ListFacts
  <2>2. /\ Walk(cell', head[g]) = Walk(cell, head[g])
        /\ cell'[c].next = head[g] => Walk(cell', c) = Walk(cell, head[g]) \union {c}
    <3>1. /\ c \notin DOMAIN cell /\ DOMAIN cell' = DOMAIN cell \union {c}
          /\ \A d \in DOMAIN cell : cell'[d].next = cell[d].next
      BY <1>2, <1>3
    <3> QED
      BY <1>5, <2>1, <3>1, WalkWithCell
  <2>3. /\ CellsOf(g) = Walk(cell, head[g])
        /\ CellsOf(g)' = Walk(cell', IF g = f THEN c ELSE head[g])
    BY <1>3, CellsOfIsWalk
  <2> QED
    BY <1>3, <2>2, <2>3
<1>7. \A g \in Frame : CellsOf(g) \in SUBSET Allocated
  BY <1>2, ListFacts
<1>8. EnteredOnce'
  <2>1. \A g \in Frame : head[g] \in Allocated \union {NULL}
    BY <1>2 DEF TypeOK
  <2>2. \A d \in Allocated : cell[d].next \in Allocated \union {NULL}
    BY <1>2 DEF TypeOK
  <2>3. c # NULL
    BY <1>1 DEF Cell, NULL
  <2>4. EnteredOnce
    BY DEF IInv
  <2>5. ASSUME NEW b \in Allocated', NEW g \in Frame, NEW h \in Frame,
               head'[g] = b, head'[h] = b
        PROVE  g = h
    BY <1>3, <2>1, <2>3, <2>4, <2>5 DEF EnteredOnce
  <2>6. ASSUME NEW b \in Allocated', NEW d \in Allocated', NEW e \in Allocated',
               cell'[d].next = b, cell'[e].next = b
        PROVE  d = e
    BY <1>3, <2>1, <2>2, <2>3, <2>4, <2>6 DEF EnteredOnce
  <2>7. ASSUME NEW b \in Allocated', NEW g \in Frame, NEW d \in Allocated',
               head'[g] = b, cell'[d].next = b
        PROVE  FALSE
    BY <1>3, <2>1, <2>2, <2>3, <2>4, <2>7 DEF EnteredOnce
  <2> QED
    BY <2>5, <2>6, <2>7 DEF EnteredOnce
<1>9. AllReached'
  <2>1. Allocated = UNION {CellsOf(g) : g \in Frame}
    BY DEF IInv, AllReached
  <2>2. Allocated' = UNION {CellsOf(g)' : g \in Frame}
    BY <1>3, <1>6, <2>1
  <2> QED
    BY <2>2 DEF AllReached
<1>10. \A d \in CellsOf(f) : cell[d].mapping # m
  BY DEF Add, HasMapping, Mappings
<1>11. MappedOnce'
  <2> SUFFICES ASSUME NEW g \in Frame, NEW d \in CellsOf(g)', NEW e \in CellsOf(g)',
                      cell'[d].mapping = cell'[e].mapping
               PROVE  d = e
    BY DEF MappedOnce
  <2>1. MappedOnce
    BY DEF IInv
  <2> QED
    BY <1>3, <1>6, <1>7, <1>10, <2>1 DEF MappedOnce
<1>12. ASSUME NEW g \in Frame
       PROVE  Mappings(g)' = IF g = f THEN Mappings(g) \union {m} ELSE Mappings(g)
  <2>1. Mappings(g)' = {cell'[d].mapping : d \in CellsOf(g)'}
    BY DEF Mappings
  <2>2. Mappings(g) = {cell[d].mapping : d \in CellsOf(g)}
    BY DEF Mappings
  <2>3. \A d \in CellsOf(g) : cell'[d].mapping = cell[d].mapping
    BY <1>3, <1>7
  <2> QED
    BY <1>3, <1>6, <2>1, <2>2, <2>3
<1> QED
  BY <1>4, <1>8, <1>9, <1>11, <1>12 DEF IInv

\* The cell c of m is unlinked from the list of f, and freed.
LEMMA RemoveStep ==
  ASSUME IInv, NEW f \in Frame, NEW m \in Mapping, RemoveMapping(f, m)
  PROVE  /\ IInv'
         /\ m \in Mappings(f)
         /\ \A g \in Frame :
              Mappings(g)' = IF g = f THEN Mappings(g) \ {m} ELSE Mappings(g)
<1>0. TypeOK /\ EnteredOnce /\ AllReached /\ MappedOnce
  BY DEF IInv
<1>1. PICK c \in CellsOf(f) :
        /\ cell[c].mapping = m
        /\ IF head[f] = c
             THEN /\ head' = [head EXCEPT ![f] = cell[c].next]
                  /\ cell' = Without({c})
             ELSE /\ head' = head
                  /\ cell' = [d \in Allocated \ {c} |->
                       IF d \in PointsTo(f, c)
                         THEN [cell[d] EXCEPT !.next = cell[c].next]
                         ELSE cell[d]]
  BY DEF RemoveMapping
<1>2. /\ Allocated = DOMAIN cell /\ Allocated' = DOMAIN cell'
      /\ \A g \in Frame : CellsOf(g) \in SUBSET Allocated
      /\ c \in Allocated /\ c # NULL
  BY <1>0, ListFacts DEF Allocated
<1>3. Allocated' = Allocated \ {c}
  BY <1>1, <1>2 DEF Without
\* The list comes to c in one way.
<1>4. head[f] # c => \E d \in CellsOf(f) \ {c} : cell[d].next = c
  BY <1>0, ListFacts, Entered
<1>5. \A d \in Allocated : cell[d].next = c => head[f] # c /\ d \in CellsOf(f) \ {c}
  BY <1>0, <1>2, <1>4 DEF EnteredOnce
<1>6. cell[c].next # c
  BY <1>2, <1>5
<1>7. \A g \in Frame : head'[g] = IF head[g] = c THEN cell[c].next ELSE head[g]
  <2>1. CASE head[f] = c
    <3>1. head' = [head EXCEPT ![f] = cell[c].next]
      BY <1>1, <2>1
    <3>2. \A g \in Frame : head[g] = c => g = f
      BY <1>0, <1>2, <2>1 DEF EnteredOnce
    <3> QED
      BY <1>0, <2>1, <3>1, <3>2 DEF TypeOK
  <2>2. CASE head[f] # c
    <3>1. PICK d \in Allocated : cell[d].next = c
      BY <1>2, <1>4, <2>2
    <3>2. \A g \in Frame : head[g] # c
      BY <1>0, <1>2, <3>1 DEF EnteredOnce
    <3> QED
      BY <1>1, <2>2, <3>2
  <2> QED
    BY <2>1, <2>2
<1>8. \A d \in Allocated \ {c} :
        /\ cell'[d].mapping = cell[d].mapping
        /\ cell'[d].next = IF cell[d].next = c THEN cell[c].next ELSE cell[d].next
  <2> SUFFICES ASSUME NEW d \in Allocated \ {c}
               PROVE  /\ cell'[d].mapping = cell[d].mapping
                      /\ cell'[d].next = IF cell[d].next = c THEN cell[c].next
                                                             ELSE cell[d].next
    OBVIOUS
  <2>1. CASE head[f] = c
    <3>1. cell'[d] = cell[d]
      BY <1>1, <2>1 DEF Without
    <3>2. cell[d].next # c
      BY <1>5, <2>1
    <3> QED
      BY <3>1, <3>2
  <2>2. CASE head[f] # c
    <3>1. cell'[d] = IF d \in PointsTo(f, c)
                       THEN [cell[d] EXCEPT !.next = cell[c].next] ELSE cell[d]
      BY <1>1, <2>2
    <3>2. d \in PointsTo(f, c) <=> cell[d].next = c
      BY <1>5 DEF PointsTo
    <3>3. cell[d] \in [mapping : Mapping, next : Allocated \union {NULL}]
      BY <1>0 DEF TypeOK
    <3> QED
      BY <3>1, <3>2, <3>3
  <2> QED
    BY <2>1, <2>2
<1>9. TypeOK'
  <2>1. Allocated' \in SUBSET Cell
    BY <1>0, <1>3 DEF TypeOK
  <2>2. cell[c].next \in Allocated' \union {NULL}
    BY <1>0, <1>2, <1>3, <1>6 DEF TypeOK
  <2>3. head' \in [Frame -> Allocated' \union {NULL}]
    <3>1. head' = [g \in Frame |-> head'[g]]
      BY <1>0, <1>1 DEF TypeOK
    <3>2. \A g \in Frame : head'[g] \in Allocated' \union {NULL}
      BY <1>0, <1>3, <1>7, <2>2 DEF TypeOK
    <3> QED
      BY <3>1, <3>2
  <2>4. cell' \in [Allocated' -> [mapping : Mapping, next : Allocated' \union {NULL}]]
    <3>1. ASSUME NEW d \in Allocated'
          PROVE  cell'[d] \in [mapping : Mapping, next : Allocated' \union {NULL}]
      <4>1. cell[d] \in [mapping : Mapping, next : Allocated \union {NULL}]
            /\ d \in Allocated \ {c}
        BY <1>0, <1>3 DEF TypeOK
      <4>2. cell'[d] = cell[d] \/ cell'[d] = [cell[d] EXCEPT !.next = cell[c].next]
        BY <1>1, <4>1 DEF Without
      <4>3. cell'[d].next \in Allocated' \union {NULL}
        BY <1>3, <1>8, <2>2, <4>1
      <4> QED
        BY <4>1, <4>2, <4>3
    <3>2. cell' = [d \in Allocated' |-> cell'[d]]
      BY <1>1, <1>3 DEF Without
    <3> QED
      BY <3>1, <3>2
  <2> QED
    BY <2>1, <2>3, <2>4 DEF TypeOK
<1>10. Linked(cell) /\ Linked(cell')
  BY <1>0, <1>9, ListsAreLinked
<1>11. ASSUME NEW g \in Frame PROVE CellsOf(g)' = CellsOf(g) \ {c}
  <2>1. head[g] \in DOMAIN cell \union {NULL}
    BY <1>0, ListFacts
  <2>2. Walk(cell', IF head[g] = c THEN cell[c].next ELSE head[g])
          = Walk(cell, head[g]) \ {c}
    <3>1. /\ c \in DOMAIN cell /\ DOMAIN cell' = DOMAIN cell \ {c}
          /\ \A d \in DOMAIN cell \ {c} :
               cell'[d].next = IF cell[d].next = c THEN cell[c].next ELSE cell[d].next
      BY <1>2, <1>3, <1>8
    <3> QED
      BY <1>6, <1>10, <2>1, <3>1, WalkWithoutCell
  <2> QED
    BY <1>7, <2>2, CellsOfIsWalk
<1>12. EnteredOnce'
  <2>1. cell[c].next # c
    BY <1>6
  <2>2. ASSUME NEW b \in Allocated', NEW g \in Frame, NEW h \in Frame,
               head'[g] = b, head'[h] = b
        PROVE  g = h
    <3>1. b \in Allocated /\ b # c
      BY <1>3
    <3> QED
      BY <1>0, <1>2, <1>7, <2>2, <3>1 DEF EnteredOnce
  <2>3. ASSUME NEW b \in Allocated', NEW d \in Allocated', NEW e \in Allocated',
               cell'[d].next = b, cell'[e].next = b
        PROVE  d = e
    <3>1. b \in Allocated /\ d \in Allocated \ {c} /\ e \in Allocated \ {c}
      BY <1>3
    <3> QED
      BY <1>0, <1>2, <1>8, <2>3, <3>1 DEF EnteredOnce
  <2>4. ASSUME NEW b \in Allocated', NEW g \in Frame, NEW d \in Allocated',
               head'[g] = b, cell'[d].next = b
        PROVE  FALSE
    <3>1. b \in Allocated /\ d \in Allocated \ {c}
      BY <1>3
    <3>2. head[g] = c => cell[d].next # c
      BY <1>0, <1>2, <3>1 DEF EnteredOnce
    <3> QED
      BY <1>0, <1>2, <1>7, <1>8, <2>4, <3>1, <3>2 DEF EnteredOnce
  <2> QED
    BY <2>2, <2>3, <2>4 DEF EnteredOnce
<1>13. AllReached'
  <2>1. Allocated = UNION {CellsOf(g) : g \in Frame}
    BY <1>0 DEF AllReached
  <2>2. Allocated' = UNION {CellsOf(g)' : g \in Frame}
    BY <1>3, <1>11, <2>1
  <2> QED
    BY <2>2 DEF AllReached
<1>14. MappedOnce'
  <2> SUFFICES ASSUME NEW g \in Frame, NEW d \in CellsOf(g)', NEW e \in CellsOf(g)',
                      cell'[d].mapping = cell'[e].mapping
               PROVE  d = e
    BY DEF MappedOnce
  <2>1. d \in CellsOf(g) /\ e \in CellsOf(g) /\ d \in Allocated \ {c} /\ e \in Allocated \ {c}
    BY <1>2, <1>11
  <2> QED
    BY <1>0, <1>8, <2>1 DEF MappedOnce
<1>15. ASSUME NEW g \in Frame
       PROVE  Mappings(g)' = IF g = f THEN Mappings(g) \ {m} ELSE Mappings(g)
  <2>1. Mappings(g)' = {cell'[d].mapping : d \in CellsOf(g) \ {c}}
    BY <1>11 DEF Mappings
  <2>2. \A d \in CellsOf(g) \ {c} : cell'[d].mapping = cell[d].mapping
    BY <1>2, <1>8
  <2>3. Mappings(g)' = {cell[d].mapping : d \in CellsOf(g) \ {c}}
    BY <2>1, <2>2
  <2>4. CASE g = f
    <3>1. \A d \in CellsOf(g) \ {c} : cell[d].mapping # m
      BY <1>0, <1>1, <2>4 DEF MappedOnce
    <3>2. Mappings(g) = {cell[d].mapping : d \in CellsOf(g)}
      BY DEF Mappings
    <3>3. c \in CellsOf(g) /\ cell[c].mapping = m
      BY <1>1, <2>4
    <3>4. Mappings(g)' = Mappings(g) \ {m}
      BY <2>3, <3>1, <3>2, <3>3
    <3> QED
      BY <2>4, <3>4
  <2>5. CASE g # f
    <3>1. c \notin CellsOf(g)
      BY <1>0, <2>5, ListsAreDisjoint
    <3> QED
      BY <2>3, <2>5, <3>1 DEF Mappings
  <2> QED
    BY <2>4, <2>5
<1>16. m \in Mappings(f)
  BY <1>1 DEF Mappings
<1> QED
  BY <1>9, <1>12, <1>13, <1>14, <1>15, <1>16 DEF IInv

\* All cells are freed, for all are in lists.
LEMMA DestroyStep ==
  ASSUME IInv, Destroy
  PROVE  IInv' /\ \A g \in Frame : Mappings(g)' = {}
<1>1. Allocated = UNION {CellsOf(f) : f \in Frame}
  BY DEF IInv, AllReached
<1>2. /\ cell' = [d \in {} |-> cell[d]] /\ head' = [f \in Frame |-> NULL]
      /\ Allocated' = {}
  BY <1>1 DEF Destroy, Without, Allocated
<1>3. TypeOK'
  BY <1>2 DEF TypeOK
<1>4. \A g \in Frame : CellsOf(g)' = {}
  BY <1>2 DEF CellsOf
<1> QED
  BY <1>2, <1>3, <1>4 DEF IInv, EnteredOnce, AllReached, MappedOnce, Mappings

LEMMA IInvNext == IInv /\ [Next]_vars => IInv'
<1> SUFFICES ASSUME IInv, [Next]_vars PROVE IInv'
  OBVIOUS
<1>1. CASE UNCHANGED vars
  <2>1. head' = head /\ cell' = cell /\ Allocated' = Allocated
    BY <1>1 DEF vars, Allocated
  <2>2. \A f \in Frame : CellsOf(f)' = CellsOf(f)
    BY <2>1, CellsOfIsWalk
  <2>3. TypeOK'
    BY <2>1 DEF IInv, TypeOK
  <2>4. EnteredOnce'
    BY <2>1 DEF IInv, EnteredOnce
  <2>5. AllReached'
    BY <2>1, <2>2 DEF IInv, AllReached
  <2>6. MappedOnce'
    BY <2>1, <2>2 DEF IInv, MappedOnce
  <2> QED
    BY <2>3, <2>4, <2>5, <2>6 DEF IInv
<1> QED
  BY <1>1, AddStep, RemoveStep, DestroyStep DEF Next

LEMMA IInvAlways == Spec => []IInv
BY IInvInit, IInvNext, PTL DEF Spec

-----------------------------------------------------------------------------

\* However many frames, mappings and cells there are, cow.c keeps every cell in
\* one list and once in it: none is lost and none is shared.
THEOREM CellsInOneListCorrect == Spec => []CellsInOneList
<1>1. IInv => CellsInOneList
  <2> SUFFICES ASSUME IInv PROVE CellsInOneList
    OBVIOUS
  <2>1. TypeOK /\ EnteredOnce /\ AllReached
    BY DEF IInv
  <2>2. ASSUME NEW c \in Allocated
        PROVE  Cardinality({f \in Frame : head[f] = c})
                 + Cardinality({d \in Allocated : cell[d].next = c}) = 1
    <3> DEFINE H == {f \in Frame : head[f] = c}
               P == {d \in Allocated : cell[d].next = c}
    <3>1. PICK f \in Frame : c \in CellsOf(f)
      BY <2>1 DEF AllReached
    <3>2. CASE head[f] = c
      <4>1. H = {f} /\ P = {}
        BY <2>1, <3>2 DEF EnteredOnce
      <4> HIDE DEF H, P
      <4>2. Cardinality(H) = 1 /\ Cardinality(P) = 0
        BY <4>1, FS_Singleton, FS_EmptySet
      <4> QED
        BY <4>2 DEF H, P
    <3>3. CASE head[f] # c
      <4>1. PICK d \in CellsOf(f) : cell[d].next = c
        BY <2>1, <3>1, <3>3, ListFacts, Entered
      <4>2. d \in Allocated
        BY <2>1, ListFacts DEF Allocated
      <4>3. P = {d} /\ H = {}
        BY <2>1, <4>1, <4>2 DEF EnteredOnce
      <4> HIDE DEF H, P
      <4>4. Cardinality(H) = 0 /\ Cardinality(P) = 1
        BY <4>3, FS_Singleton, FS_EmptySet
      <4> QED
        BY <4>4 DEF H, P
    <3> QED
      BY <3>2, <3>3
  <2>3. \A f \in Frame : head[f] \in Allocated \union {NULL}
    BY <2>1 DEF TypeOK
  <2>4. \A c \in Allocated : cell[c].next \in Allocated \union {NULL}
    BY <2>1 DEF TypeOK
  <2> QED
    BY <2>1, <2>2, <2>3, <2>4 DEF CellsInOneList, AllReached
<1> QED
  BY <1>1, IInvAlways, PTL

\* The number of cells in a list, which copy-on-write takes for the number of
\* processes that map the frame, is the number of its mappings.
THEOREM CountsMappingsOnceCorrect == Spec => []CountsMappingsOnce
<1>1. IInv => CountsMappingsOnce
  <2> SUFFICES ASSUME IInv, NEW f \in Frame
               PROVE  Cardinality(CellsOf(f)) = Cardinality(Mappings(f))
    BY DEF CountsMappingsOnce
  <2> DEFINE h == [c \in CellsOf(f) |-> cell[c].mapping]
  <2>1. h \in Bijection(CellsOf(f), Mappings(f))
    <3>1. \A c, d \in CellsOf(f) : h[c] = h[d] => c = d
      BY DEF IInv, MappedOnce
    <3>2. h \in [CellsOf(f) -> Mappings(f)] /\ \A m \in Mappings(f) : \E c \in CellsOf(f) : h[c] = m
      BY DEF Mappings
    <3> QED
      BY <3>1, <3>2 DEF Bijection, Injection, Surjection, IsInjective
  <2>2. IsFiniteSet(CellsOf(f))
    <3>1. CellsOf(f) \in SUBSET Cell
      BY ListFacts DEF IInv, TypeOK, Allocated
    <3>2. IsFiniteSet(Cell)
      BY ListsAssumption, FS_Interval DEF Cell
    <3> QED
      BY <3>1, <3>2, FS_Subset
  <2> QED
    BY <2>1, <2>2, FS_Bijection DEF ExistsBijection
<1> QED
  BY <1>1, IInvAlways, PTL

\* Under any number of frames, mappings and cells the lists of cow.c are sets of
\* mappings: a mapping is added to, or removed from, its frame's set only.
THEOREM ListsImplementSets == Spec => ImplementsFrameMappings
<1> DEFINE sets == [f \in Frame |-> Mappings(f)]
<1>1. Init => Sets!Init
  <2> SUFFICES ASSUME Init PROVE \A f \in Frame : Mappings(f) = {}
    BY DEF Sets!Init
  <2>1. Allocated = {}
    BY DEF Init, Allocated
  <2> QED
    BY <2>1 DEF Mappings, CellsOf
<1>2. ASSUME IInv, [Next]_vars PROVE Sets!Next \/ UNCHANGED sets
  <2>1. ASSUME NEW f \in Frame, NEW m \in Mapping, Add(f, m) PROVE Sets!Next
    <3>1. \A g \in Frame :
            Mappings(g)' = IF g = f THEN Mappings(g) \union {m} ELSE Mappings(g)
      BY <1>2, <2>1, AddStep
    <3>2. sets' = [sets EXCEPT ![f] = @ \union {m}]
      BY <3>1
    <3> QED
      BY <3>2 DEF Sets!Next, Sets!Add
  <2>2. ASSUME NEW f \in Frame, NEW m \in Mapping, RemoveMapping(f, m) PROVE Sets!Next
    <3>1. /\ m \in Mappings(f)
          /\ \A g \in Frame :
               Mappings(g)' = IF g = f THEN Mappings(g) \ {m} ELSE Mappings(g)
      BY <1>2, <2>2, RemoveStep
    <3>2. sets' = [sets EXCEPT ![f] = @ \ {m}] /\ m \in sets[f]
      BY <3>1
    <3> QED
      BY <3>2 DEF Sets!Next, Sets!Remove
  <2>3. ASSUME Destroy PROVE Sets!Next
    <3>1. \A g \in Frame : Mappings(g)' = {}
      BY <1>2, <2>3, DestroyStep
    <3>2. sets' = [f \in Frame |-> {}]
      BY <3>1
    <3> QED
      BY <3>2 DEF Sets!Next, Sets!Clear
  <2>4. CASE UNCHANGED vars
    BY <2>4 DEF vars, Mappings, CellsOf, Closed, Allocated
  <2> QED
    BY <1>2, <2>1, <2>2, <2>3, <2>4 DEF Next
<1> QED
  BY <1>1, <1>2, IInvAlways, PTL DEF Spec, Sets!Spec, ImplementsFrameMappings

=============================================================================
