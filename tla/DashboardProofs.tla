--------------------------- MODULE DashboardProofs ---------------------------
(***************************************************************************)
(* What the dashboard keeps.  DayRecords, how it gets its records and what   *)
(* it counts: for every size of page and of the tables, a load misses no row, *)
(* overlays one calendar, the grid and the endpoint read a day alike but for *)
(* named disagreements, and the views count the same days.                    *)
(* Dashboard, a specification of its own, for every calendar, every number   *)
(* of teams and every sequence of controls and answers: the figures and the  *)
(* roster are those asked for, and the filters do what FilterBoard promises. *)
(***************************************************************************)
EXTENDS Dashboard, DayRecords, FiniteSetTheorems, WellFoundedInduction, TLAPS

----------------------------------------------------------------------------
(* Places in an order with ties                                            *)

\* Every non-empty set of naturals has a smallest member.
LEMMA Smallest ==
  ASSUME NEW S, S \subseteq Nat, S # {}
  PROVE  \E m \in S : \A k \in S : m <= k
<1>1. PICK m \in S : \A k \in S : ~(<<k, m>> \in OpToRel(<, Nat))
  BY NatLessThanWellFounded, WFMin, Zenon
<1>2. \A k \in S : ~(k < m)
  BY <1>1 DEF OpToRel
<1> QED BY <1>2

\* Before(B, T, x): the members of T that the order B puts before x.
Before(B, T, x) == {y \in T : <<y, x>> \in B}

\* B orders the finite set T up to ties, and place says how many are before.
Ranked(T, B, place) ==
  /\ IsFiniteSet(T)
  /\ \A x \in T : <<x, x>> \notin B
  /\ \A x, y, z \in T : <<x, y>> \in B /\ <<y, z>> \in B => <<x, z>> \in B
  /\ \A x, y, z \in T : <<x, y>> \in B => <<x, z>> \in B \/ <<z, y>> \in B
  /\ place = [x \in T |-> Cardinality(Before(B, T, x))]

Tied(place, x) == {y \in DOMAIN place : place[y] = place[x]}

\* Places grow with the order, and only with it.
LEMMA PlacesGrow ==
  ASSUME NEW T, NEW B, NEW place, Ranked(T, B, place)
  PROVE  /\ IsFiniteSet(T) /\ DOMAIN place = T
         /\ \A x \in T : place[x] \in Nat /\ place[x] < Cardinality(T)
         /\ \A x, y \in T : <<x, y>> \in B <=> place[x] < place[y]
<1>1. IsFiniteSet(T) /\ DOMAIN place = T /\ \A x \in T : place[x] = Cardinality(Before(B, T, x))
  BY DEF Ranked
<1>2. ASSUME NEW x \in T
      PROVE  /\ IsFiniteSet(Before(B, T, x)) /\ Cardinality(Before(B, T, x)) \in Nat
             /\ Cardinality(Before(B, T, x)) < Cardinality(T)
  <2>1. Before(B, T, x) \in SUBSET T /\ x \notin Before(B, T, x)
    BY DEF Ranked, Before
  <2>2. IsFiniteSet(Before(B, T, x)) /\ Cardinality(Before(B, T, x)) <= Cardinality(T)
        /\ Cardinality(T) # Cardinality(Before(B, T, x))
    BY <1>1, <2>1, FS_Subset
  <2> QED BY <1>1, <2>2, FS_CardinalityType
<1>3. ASSUME NEW x \in T, NEW y \in T, <<x, y>> \in B PROVE place[x] < place[y]
  <2>1. Before(B, T, x) \in SUBSET Before(B, T, y) /\ x \in Before(B, T, y) /\ x \notin Before(B, T, x)
    BY <1>3 DEF Ranked, Before
  <2>2. Cardinality(Before(B, T, x)) <= Cardinality(Before(B, T, y))
        /\ Cardinality(Before(B, T, y)) # Cardinality(Before(B, T, x))
    BY <1>2, <2>1, FS_Subset
  <2> QED BY <1>1, <1>2, <2>2
<1>4. ASSUME NEW x \in T, NEW y \in T, <<x, y>> \notin B, <<y, x>> \notin B PROVE place[x] = place[y]
  <2>1. Before(B, T, x) = Before(B, T, y)
    BY <1>4 DEF Ranked, Before
  <2> QED BY <1>1, <2>1
<1>5. \A x \in T : place[x] \in Nat
  BY <1>1, <1>2
<1>6. ASSUME NEW x \in T, NEW y \in T PROVE <<x, y>> \in B <=> place[x] < place[y]
  <2>1. place[x] \in Nat /\ place[y] \in Nat
    BY <1>5
  <2>2. CASE <<x, y>> \in B
    BY <1>3, <2>2
  <2>3. CASE <<y, x>> \in B
    <3>1. place[y] < place[x]
      BY <1>3, <2>3
    <3>2. <<x, y>> \notin B
      BY <2>3 DEF Ranked
    <3> QED BY <2>1, <3>1, <3>2
  <2>4. CASE <<x, y>> \notin B /\ <<y, x>> \notin B
    <3>1. place[x] = place[y]
      BY <1>4, <2>4
    <3> QED BY <2>1, <2>4, <3>1
  <2> QED BY <2>2, <2>3, <2>4
<1> QED BY <1>1, <1>2, <1>6

\* Members and their ties cover every position.
LEMMA PositionsCovered ==
  ASSUME NEW T, NEW B, NEW place, Ranked(T, B, place), NEW p \in 1 .. Cardinality(T)
  PROVE  \E y \in T : p \in place[y] + 1 .. place[y] + Cardinality(Tied(place, y))
<1>1. /\ IsFiniteSet(T) /\ DOMAIN place = T
      /\ \A x \in T : place[x] \in Nat /\ place[x] < Cardinality(T) /\ place[x] = Cardinality(Before(B, T, x))
      /\ \A x, y \in T : <<x, y>> \in B <=> place[x] < place[y]
      /\ Cardinality(T) \in Nat /\ p \in Nat /\ 0 < p /\ p <= Cardinality(T)
  <2>1. IsFiniteSet(T) /\ Cardinality(T) \in Nat
    BY FS_CardinalityType DEF Ranked
  <2> QED BY <2>1, PlacesGrow DEF Ranked
<1> DEFINE Upto(n) == {z \in T : place[z] <= n}
           Below(n) == {z \in T : place[z] < n}
<1>2. ASSUME NEW x \in T PROVE Before(B, T, x) = Below(place[x])
  BY <1>1 DEF Before
<1>3. \E y \in T : place[y] = 0
  <2> DEFINE places == {place[z] : z \in T}
  <2>1. T # {}
    BY <1>1, FS_EmptySet
  <2>2. PICK m \in places : \A k \in places : m <= k
    <3>1. places \subseteq Nat /\ places # {}
      BY <1>1, <2>1
    <3> HIDE DEF places
    <3> QED BY <3>1, Smallest
  <2>3. PICK y \in T : \A z \in T : place[y] <= place[z]
    BY <2>2
  <2>4. Below(place[y]) = {}
    BY <1>1, <2>3
  <2> QED BY <1>1, <1>2, <2>4, FS_EmptySet
<1> DEFINE gaps == {p - place[z] : z \in Below(p)}
<1>4. PICK y \in Below(p) : \A z \in Below(p) : place[z] <= place[y]
  <2>1. gaps \subseteq Nat /\ gaps # {}
    <3>1. \A z \in Below(p) : p - place[z] \in Nat
      BY <1>1
    <3>2. Below(p) # {}
      BY <1>1, <1>3
    <3> HIDE DEF Below
    <3> QED BY <3>1, <3>2
  <2>2. \E m \in gaps : \A k \in gaps : m <= k
    <3> HIDE DEF gaps
    <3> QED BY <2>1, Smallest
  <2>3. PICK y \in Below(p) : \A z \in Below(p) : p - place[y] <= p - place[z]
    BY <2>2
  <2> QED BY <1>1, <2>3
<1>5. /\ IsFiniteSet(Upto(place[y]))
      /\ Cardinality(Upto(place[y])) = place[y] + Cardinality(Tied(place, y))
      /\ Cardinality(Tied(place, y)) \in Nat
  <2>1. Upto(place[y]) = Below(place[y]) \cup Tied(place, y) /\ Below(place[y]) \cap Tied(place, y) = {}
    BY <1>1 DEF Tied
  <2>2. IsFiniteSet(Below(place[y])) /\ IsFiniteSet(Tied(place, y))
    <3>1. Below(place[y]) \in SUBSET T /\ Tied(place, y) \in SUBSET T
      BY <1>1 DEF Tied
    <3> QED BY <1>1, <3>1, FS_Subset
  <2>3. Cardinality(Below(place[y])) = place[y]
    BY <1>1, <1>2
  <2>4. Cardinality(Tied(place, y)) \in Nat
    BY <2>2, FS_CardinalityType
  <2> HIDE DEF Upto, Below
  <2>5. /\ IsFiniteSet(Below(place[y]) \cup Tied(place, y))
        /\ Cardinality(Below(place[y]) \cup Tied(place, y)) =
             Cardinality(Below(place[y])) + Cardinality(Tied(place, y)) - Cardinality({})
    BY <2>1, <2>2, FS_Union
  <2> QED BY <1>1, <2>1, <2>3, <2>4, <2>5, FS_EmptySet
<1>6. p <= place[y] + Cardinality(Tied(place, y))
  <2> SUFFICES ASSUME Cardinality(Upto(place[y])) < p PROVE FALSE
    BY <1>1, <1>5
  <2>1. Cardinality(T) \in Nat /\ p <= Cardinality(T)
    BY <1>1, FS_CardinalityType
  <2>2. Upto(place[y]) # T
    BY <1>5, <2>1
  <2> DEFINE above == {place[z] : z \in T \ Upto(place[y])}
  <2>3. PICK m \in above : \A k \in above : m <= k
    <3>1. above \subseteq Nat /\ above # {}
      BY <1>1, <2>2
    <3> HIDE DEF above
    <3> QED BY <3>1, Smallest
  <2>4. PICK z \in T \ Upto(place[y]) : \A w \in T \ Upto(place[y]) : place[z] <= place[w]
    BY <2>3
  <2>5. Below(place[z]) = Upto(place[y])
    BY <1>1, <2>4
  <2>6. place[z] = Cardinality(Upto(place[y]))
    <3>1. place[z] = Cardinality(Before(B, T, z)) /\ Before(B, T, z) = Below(place[z])
      BY <1>1, <1>2
    <3> HIDE DEF Below, Upto
    <3> QED BY <2>5, <3>1
  <2>7. place[z] < p /\ place[y] < place[z]
    BY <1>1, <2>4, <2>6
  <2> QED BY <1>1, <1>4, <2>4, <2>7
<1> QED BY <1>1, <1>4, <1>5, <1>6

\* The positions of x and its ties within a page.
OnPage(place, o, x) == (place[x] + 1 .. place[x] + Cardinality(Tied(place, x))) \cap (o + 1 .. o + PageSize)

LEMMA PageIs ==
  ASSUME NEW T, NEW B, NEW place, Ranked(T, B, place), NEW o \in Nat, NEW S \in PagesAt(place, o)
  PROVE  /\ S \subseteq T /\ IsFiniteSet(S) /\ Cardinality(S) \in Nat
         /\ \A x \in T : Cardinality(S \cap Tied(place, x)) = Cardinality(OnPage(place, o, x))
<1>1. DOMAIN place = T /\ IsFiniteSet(T)
  BY PlacesGrow
<1>2. S \in SUBSET T /\ \A x \in T : Cardinality(S \cap Tied(place, x)) = Cardinality(OnPage(place, o, x))
  BY <1>1 DEF PagesAt, Tied, OnPage
<1> QED BY <1>1, <1>2, FS_Subset, FS_CardinalityType

\* A page that has a place beyond it is full.
LEMMA FullPage ==
  ASSUME NEW T, NEW B, NEW place, Ranked(T, B, place), NEW o \in Nat, NEW S \in PagesAt(place, o),
         NEW x \in T, o + PageSize <= place[x]
  PROVE  PageSize <= Cardinality(S)
<1>1. /\ IsFiniteSet(T) /\ DOMAIN place = T /\ Cardinality(T) \in Nat
      /\ \A y \in T : place[y] \in Nat
      /\ place[x] < Cardinality(T)
  BY PlacesGrow, FS_CardinalityType
<1>2. /\ S \subseteq T /\ IsFiniteSet(S)
      /\ \A y \in T : Cardinality(S \cap Tied(place, y)) = Cardinality(OnPage(place, o, y))
  BY PageIs
<1> DEFINE window == o + 1 .. o + PageSize
           Of(n) == {z \in S : place[z] = n}
           At(n) == {q \in window : \E y \in T : place[y] = n /\ q \in OnPage(place, o, y)}
           F(n) == CHOOSE f : f \in Surjection(Of(n), At(n))
           g == [z \in S |-> F(place[z])[z]]
<1>3. IsFiniteSet(window) /\ Cardinality(window) = PageSize
  <2>1. PageSize \in Nat /\ PageSize > 0 /\ o + 1 \in Int /\ o + PageSize \in Int
    BY PageAssumption
  <2>2. IsFiniteSet(window) /\ Cardinality(window) = IF o + 1 > o + PageSize THEN 0 ELSE o + PageSize - (o + 1) + 1
    BY <2>1, FS_Interval
  <2> QED BY <2>1, <2>2
<1>4. ASSUME NEW y \in T PROVE F(place[y]) \in Surjection(Of(place[y]), At(place[y]))
  <2>1. Of(place[y]) = S \cap Tied(place, y)
    BY <1>1, <1>2 DEF Tied
  <2>2. At(place[y]) = OnPage(place, o, y)
    BY <1>1 DEF OnPage, Tied
  <2>3. IsFiniteSet(Of(place[y])) /\ IsFiniteSet(At(place[y]))
    BY <1>2, <1>3, FS_Subset
  <2>4. ExistsBijection(Of(place[y]), At(place[y]))
    <3> HIDE DEF Of, At
    <3> QED BY <1>2, <2>1, <2>2, <2>3, FS_SameCardinalityBij
  <2>5. \E f : f \in Surjection(Of(place[y]), At(place[y]))
    BY <2>4 DEF ExistsBijection, Bijection
  <2> QED BY <2>5
<1> HIDE DEF F
<1>5. ASSUME NEW z \in S PROVE g[z] \in window
  <2>1. z \in T /\ z \in Of(place[z]) /\ g[z] = F(place[z])[z]
    BY <1>2
  <2>2. F(place[z])[z] \in At(place[z])
    BY <1>4, <2>1 DEF Surjection
  <2> QED BY <2>1, <2>2
<1>6. ASSUME NEW q \in window PROVE \E z \in S : g[z] = q
  <2>1. q \in 1 .. Cardinality(T)
    BY <1>1, PageAssumption
  <2>2. PICK y \in T : q \in place[y] + 1 .. place[y] + Cardinality(Tied(place, y))
    BY <2>1, PositionsCovered
  <2>3. q \in At(place[y])
    BY <2>2 DEF OnPage
  <2>4. PICK z \in Of(place[y]) : F(place[y])[z] = q
    BY <1>4, <2>3 DEF Surjection
  <2> QED BY <2>4
<1>7. g \in Surjection(S, window)
  <2>1. g \in [S -> window]
    BY <1>5
  <2> HIDE DEF g, window
  <2> QED BY <1>6, <2>1 DEF Surjection
<1> HIDE DEF g, window
<1> QED BY <1>2, <1>3, <1>7, FS_Surjection

\* A row without ties is on the page that covers its place, and on no other.
LEMMA UntiedOnPage ==
  ASSUME NEW T, NEW B, NEW place, Ranked(T, B, place), NEW o \in Nat, NEW S \in PagesAt(place, o),
         NEW x \in T, Tied(place, x) = {x}
  PROVE  x \in S <=> o <= place[x] /\ place[x] < o + PageSize
<1>1. place[x] \in Nat /\ Cardinality({x}) = 1
  BY PlacesGrow, FS_Singleton
<1>2. Cardinality(S \cap {x}) = Cardinality(OnPage(place, o, x))
  BY PageIs
<1>3. CASE o <= place[x] /\ place[x] < o + PageSize
  <2>1. OnPage(place, o, x) = {place[x] + 1}
    BY <1>1, <1>3, PageAssumption DEF OnPage
  <2>2. Cardinality(S \cap {x}) = 1 /\ S \cap {x} # {}
    BY <1>2, <2>1, FS_Singleton, FS_EmptySet
  <2> QED BY <1>3, <2>2
<1>4. CASE ~(o <= place[x] /\ place[x] < o + PageSize)
  <2>1. OnPage(place, o, x) = {}
    BY <1>1, <1>4, PageAssumption DEF OnPage
  <2>2. Cardinality(S \cap {x}) = 0 /\ S \cap {x} # {x}
    BY <1>1, <1>2, <2>1, FS_EmptySet
  <2> QED BY <1>4, <2>2
<1> QED BY <1>3, <1>4

\* Without ties no page has more rows than it may.
LEMMA PageFits ==
  ASSUME NEW T, NEW B, NEW place, Ranked(T, B, place), NEW o \in Nat, NEW S \in PagesAt(place, o),
         \A x \in T : Tied(place, x) = {x}
  PROVE  Cardinality(S) <= PageSize
<1> DEFINE window == o .. o + PageSize - 1
           g == [x \in S |-> place[x]]
<1>1. S \subseteq T /\ DOMAIN place = T /\ \A x \in T : place[x] \in Nat
  BY PageIs, PlacesGrow
<1>2. \A x \in S : place[x] \in window
  BY <1>1, UntiedOnPage, PageAssumption
<1>3. \A x, y \in S : place[x] = place[y] => x = y
  BY <1>1 DEF Tied
<1>4. g \in Injection(S, window)
  <2> HIDE DEF window
  <2>1. g \in [S -> window] /\ \A x \in S : g[x] = place[x]
    BY <1>2
  <2> HIDE DEF g
  <2> QED BY <1>3, <2>1 DEF Injection, IsInjective
<1>5. IsFiniteSet(window) /\ Cardinality(window) = PageSize
  <2>1. PageSize \in Nat /\ PageSize > 0 /\ o \in Int /\ o + PageSize - 1 \in Int
    BY PageAssumption
  <2>2. IsFiniteSet(window) /\ Cardinality(window) = IF o > o + PageSize - 1 THEN 0 ELSE o + PageSize - 1 - o + 1
    BY <2>1, FS_Interval
  <2> QED BY <2>1, <2>2
<1> HIDE DEF g, window
<1> QED BY <1>4, <1>5, FS_Injection

----------------------------------------------------------------------------
(* Types                                                                   *)

Meta == [date : Days \cup {0}, kind : Kinds \cup {NoKind}]

LoadType ==
  [pc : {"idle", "rows", "count", "cells", "overlay", "shown", "failed"}, offset : Nat,
   rows : [Rows -> Swipes \cup {NoRow}], total : Nat,
   cells : [Rows -> Cell \cup {NoCell}], meta : [Employees -> Meta], calendarOk : BOOLEAN,
   coverage : {"pending", "counted", "read", "null"}, covered : SUBSET Days, through : Days \cup {0},
   standing : SUBSET Rows, since : SUBSET {"attendance", "name", "calendar"}]

RecordsTypeInv ==
  /\ attendance \in [Rows -> Swipes \cup {NoRow}]
  /\ name \in [Employees -> NameSeq]
  /\ calendar \in [Rows -> Cell \cup {NoCell}]
  /\ before \in [Rows -> Cell \cup {NoCell}] \cup {NoCell}
  /\ changes \in 0 .. MaxChanges
  /\ load \in LoadType

LEMMA RowsFinite ==
  /\ IsFiniteSet(Rows)
  /\ \A S \in SUBSET Rows : IsFiniteSet(S) /\ Cardinality(S) \in Nat
<1>1. IsFiniteSet(Rows)
  BY EmployeesAssumption, FS_Product DEF Rows
<1> QED BY <1>1, FS_Subset, FS_CardinalityType

\* Most is the largest member of a finite set of days, or 0.
LEMMA MostIs ==
  ASSUME NEW S, S \subseteq Days
  PROVE  Most(S) \in S \cup {0} /\ \A n \in S : n <= Most(S)
<1>1. \E m \in S \cup {0} : \A n \in S : n <= m
  <2>1. CASE S = {}
    BY <2>1
  <2>2. CASE S # {}
    <3>1. IsFiniteSet(S) /\ \A n \in S : n \in Nat
      BY EmployeesAssumption, DaysAssumption, FS_Subset
    <3> DEFINE B == {p \in S \X S : p[1] < p[2]}
               place == [x \in S |-> Cardinality(Before(B, S, x))]
    <3>2. \A x, y \in S : <<x, y>> \in B <=> x < y
      OBVIOUS
    <3> HIDE DEF B
    <3>3. Ranked(S, B, place)
      BY <3>1, <3>2 DEF Ranked
    <3>4. Cardinality(S) \in Nat /\ \A x \in S : place[x] \in Nat /\ place[x] < Cardinality(S)
      BY <3>1, <3>3, PlacesGrow, FS_CardinalityType
    <3>5. \A x, y \in S : x < y <=> place[x] < place[y]
      BY <3>2, <3>3, PlacesGrow
    <3> HIDE DEF place
    <3> DEFINE rest == {Cardinality(S) - place[x] : x \in S}
    <3>6. PICK m \in rest : \A k \in rest : m <= k
      <4>1. \A x \in S : Cardinality(S) - place[x] \in Nat
        BY <3>4
      <4>2. rest \subseteq Nat /\ rest # {}
        BY <2>2, <4>1
      <4> HIDE DEF rest
      <4> QED BY <4>2, Smallest
    <3>7. PICK x \in S : \A y \in S : Cardinality(S) - place[x] <= Cardinality(S) - place[y]
      BY <3>6
    <3>8. \A y \in S : ~(x < y)
      BY <3>4, <3>5, <3>7
    <3> QED BY <3>1, <3>8
  <2> QED BY <2>1, <2>2
<1> QED BY <1>1 DEF Most

LEMMA FreshLoadType == RecordsTypeInv => FreshLoad \in LoadType /\ Nothing \in [Rows -> Cell \cup {NoCell}]
<1> SUFFICES ASSUME RecordsTypeInv PROVE FreshLoad \in LoadType /\ Nothing \in [Rows -> Cell \cup {NoCell}]
  OBVIOUS
<1>1. Nothing \in [Rows -> Cell \cup {NoCell}]
  BY DEF Nothing
<1>2. [x \in Rows |-> NoRow] \in [Rows -> Swipes \cup {NoRow}]
  OBVIOUS
<1>3. [e \in Employees |-> NoMeta] \in [Employees -> Meta]
  BY DEF NoMeta, Meta
<1>4. {x \in Present : Untied(x)} \in SUBSET Rows
  BY DEF Present
<1> QED BY <1>1, <1>2, <1>3, <1>4 DEF FreshLoad, LoadType

LEMMA MetaType ==
  ASSUME RecordsTypeInv, NEW meta \in [Employees -> Meta], NEW slice, slice \subseteq Calendared
  PROVE  MetaWith(meta, slice) \in [Employees -> Meta]
<1>0. \A k \in Days \cup {0} : k \in Nat
  BY DaysAssumption
<1>1. ASSUME NEW e \in Employees
      PROVE  LET last == Most({x[2] : x \in {y \in slice : y[1] = e}}) IN
             (IF last > meta[e].date THEN [date |-> last, kind |-> calendar[<<e, last>>].kind] ELSE meta[e]) \in Meta
  <2> DEFINE dates == {x[2] : x \in {y \in slice : y[1] = e}}
             last == Most(dates)
  <2>1. dates \subseteq Days
    BY DEF Calendared, Rows
  <2>2. last \in dates \cup {0}
    BY <2>1, MostIs
  <2>3. CASE last > meta[e].date
    <3>1. last # 0
      <4>1. meta[e].date \in Nat
        BY <1>0 DEF Meta
      <4> HIDE DEF last
      <4> QED BY <2>3, <4>1
    <3>2. PICK x \in slice : x[1] = e /\ x[2] = last
      BY <2>2, <3>1
    <3>3. x \in Calendared /\ x = <<e, last>> /\ last \in Days
      BY <3>2 DEF Calendared, Rows
    <3>4. calendar[<<e, last>>] \in Cell
      BY <3>3 DEF Calendared, RecordsTypeInv
    <3> QED BY <2>3, <3>3, <3>4 DEF Meta, Cell
  <2> QED BY <2>3
<1> QED BY <1>1 DEF MetaWith

LEMMA StartPageTypes ==
  ASSUME RecordsTypeInv
  PROVE  /\ StartLoad => load' \in LoadType
         /\ AttendancePage => load' \in LoadType
         /\ CalendarPage => load' \in LoadType
<1>1. load \in LoadType /\ PageSize \in Nat
  BY PageAssumption DEF RecordsTypeInv
<1>2. ASSUME StartLoad PROVE load' \in LoadType
  BY <1>2, FreshLoadType DEF StartLoad
<1>3. ASSUME AttendancePage PROVE load' \in LoadType
  <2>1. PICK slice \in PagesAt(RowPlaces, load.offset) :
          LET got == [x \in Rows |-> IF x \in slice THEN attendance[x] ELSE load.rows[x]] IN
          load' = IF Cardinality(slice) < PageSize
                  THEN [load EXCEPT !.rows = got, !.offset = 0, !.pc = "count"]
                  ELSE [load EXCEPT !.rows = got, !.offset = NextOffset(@)]
    BY <1>3 DEF AttendancePage
  <2> DEFINE got == [x \in Rows |-> IF x \in slice THEN attendance[x] ELSE load.rows[x]]
  <2>2. got \in [Rows -> Swipes \cup {NoRow}]
    BY DEF RecordsTypeInv, LoadType
  <2>3. NextOffset(load.offset) \in Nat
    BY <1>1 DEF NextOffset, LoadType
  <2>4. \/ load' = [load EXCEPT !.rows = got, !.offset = 0, !.pc = "count"]
        \/ load' = [load EXCEPT !.rows = got, !.offset = NextOffset(load.offset)]
    BY <2>1
  <2> HIDE DEF got
  <2>5. CASE load' = [load EXCEPT !.rows = got, !.offset = 0, !.pc = "count"]
    BY <1>1, <2>2, <2>5 DEF LoadType
  <2>6. CASE load' = [load EXCEPT !.rows = got, !.offset = NextOffset(load.offset)]
    BY <1>1, <2>2, <2>3, <2>6 DEF LoadType
  <2> QED BY <2>4, <2>5, <2>6
<1>4. ASSUME CalendarPage PROVE load' \in LoadType
  <2>1. PICK slice \in PagesAt(CellPlaces, load.offset) :
          LET n == Cardinality(slice)
              got == [load EXCEPT !.cells = [x \in Rows |-> IF x \in slice THEN calendar[x] ELSE @[x]],
                                  !.meta = MetaWith(@, slice)]
          IN load' = IF n < PageSize \/ load.offset + n >= load.total
                     THEN [got EXCEPT !.pc = "overlay", !.offset = 0, !.total = 0]
                     ELSE [got EXCEPT !.pc = "count", !.offset = NextOffset(@)]
    BY <1>4 DEF CalendarPage
  <2> DEFINE cells == [x \in Rows |-> IF x \in slice THEN calendar[x] ELSE load.cells[x]]
             meta == MetaWith(load.meta, slice)
             got == [load EXCEPT !.cells = cells, !.meta = meta]
  <2>2. cells \in [Rows -> Cell \cup {NoCell}]
    BY DEF RecordsTypeInv, LoadType
  <2>3. meta \in [Employees -> Meta]
    <3>1. slice \subseteq Calendared
      BY DEF PagesAt, CellPlaces
    <3> QED BY <1>1, <3>1, MetaType DEF LoadType
  <2>4. NextOffset(load.offset) \in Nat
    BY <1>1 DEF NextOffset, LoadType
  <2> HIDE DEF cells, meta
  <2>5. got \in LoadType /\ got.offset = load.offset
    BY <1>1, <2>2, <2>3 DEF LoadType
  <2>6. \/ load' = [got EXCEPT !.pc = "overlay", !.offset = 0, !.total = 0]
        \/ load' = [got EXCEPT !.pc = "count", !.offset = NextOffset(load.offset)]
    BY <2>1, <2>5 DEF cells, meta
  <2> HIDE DEF got
  <2>7. CASE load' = [got EXCEPT !.pc = "overlay", !.offset = 0, !.total = 0]
    BY <2>5, <2>7 DEF LoadType
  <2>8. CASE load' = [got EXCEPT !.pc = "count", !.offset = NextOffset(load.offset)]
    BY <2>4, <2>5, <2>8 DEF LoadType
  <2> QED BY <2>6, <2>7, <2>8
<1> QED BY <1>2, <1>3, <1>4

LEMMA RecordsTypes == RecordsTypeInv /\ [RecordsNext]_recordsVars => RecordsTypeInv'
<1> SUFFICES ASSUME RecordsTypeInv, [RecordsNext]_recordsVars PROVE RecordsTypeInv'
  OBVIOUS
<1>1. load \in LoadType /\ changes \in Nat /\ MaxChanges \in Nat
  BY PageAssumption DEF RecordsTypeInv
<1>2. Changes => changes' \in 0 .. MaxChanges
  BY <1>1 DEF Changes
<1>3. ASSUME NEW x \in Rows, NEW s \in Swipes, WriteAttendance(x, s) PROVE RecordsTypeInv'
  <2> DEFINE standing == {y \in load.standing : y = x \/ y[2] # x[2] \/ name[y[1]] # name[x[1]]}
             since == load.since \cup {"attendance"}
  <2>1. load' = [load EXCEPT !.since = since, !.standing = standing]
    BY <1>3 DEF WriteAttendance
  <2>2. standing \in SUBSET Rows /\ since \in SUBSET {"attendance", "name", "calendar"}
    BY <1>1 DEF LoadType
  <2> HIDE DEF standing, since
  <2>3. load' \in LoadType
    BY <1>1, <2>1, <2>2 DEF LoadType
  <2> QED BY <1>2, <1>3, <2>3 DEF WriteAttendance, RecordsTypeInv
<1>4. ASSUME NEW e \in Employees, NEW n \in NameSeq, Rename(e, n) PROVE RecordsTypeInv'
  <2>1. load' = [load EXCEPT !.since = load.since \cup {"name"}]
    BY <1>4 DEF Rename
  <2>2. load' \in LoadType
    BY <1>1, <2>1 DEF LoadType
  <2> QED BY <1>2, <1>4, <2>2 DEF Rename, RecordsTypeInv
<1>5. ASSUME (\E w \in Workbooks : CommitLeave(w)) \/ RevertLeave
      PROVE  load' \in LoadType
  <2>1. load' = [load EXCEPT !.since = load.since \cup {"calendar"}]
    BY <1>5 DEF CommitLeave, RevertLeave
  <2> QED BY <1>1, <2>1 DEF LoadType
<1>6. ASSUME NEW w \in Workbooks, CommitLeave(w) PROVE RecordsTypeInv'
  <2>1. load' \in LoadType
    BY <1>5, <1>6
  <2>2. calendar' \in [Rows -> Cell \cup {NoCell}]
    BY <1>6, WorkbooksAssumption DEF CommitLeave, RecordsTypeInv
  <2> QED BY <1>2, <1>6, <2>1, <2>2 DEF CommitLeave, RecordsTypeInv
<1>7. ASSUME RevertLeave PROVE RecordsTypeInv'
  <2>1. load' \in LoadType
    BY <1>5, <1>7
  <2> QED BY <1>2, <1>7, <2>1 DEF RevertLeave, RecordsTypeInv
<1>8. ASSUME CalendarCount \/ CalendarFails \/ CountDays \/ ReadThrough \/ CoverageFails \/ ShowLoad \/ LoadFails
      PROVE  load' \in LoadType
  <2>1. Cardinality(Calendared) \in Nat /\ {x[2] : x \in Present} \in SUBSET Days
        /\ {x[2] : x \in Calendared} \in SUBSET Days
    BY RowsFinite DEF Calendared, Present, Rows
  <2>2. Most({x[2] : x \in Calendared}) \in Days \cup {0}
    BY <2>1, MostIs
  <2>3. Nothing \in [Rows -> Cell \cup {NoCell}] /\ [e \in Employees |-> NoMeta] \in [Employees -> Meta]
    BY FreshLoadType DEF NoMeta, Meta
  <2>4. CASE CalendarCount
    <3>1. load' = [load EXCEPT !.total = Cardinality(Calendared), !.pc = "cells"]
      BY <2>4 DEF CalendarCount
    <3> QED BY <1>1, <2>1, <3>1 DEF LoadType
  <2>5. CASE CalendarFails
    <3>1. load' = [load EXCEPT !.pc = "overlay", !.offset = 0, !.total = 0, !.calendarOk = FALSE, !.cells = Nothing,
                               !.meta = [e \in Employees |-> NoMeta]]
      BY <2>5 DEF CalendarFails
    <3> QED BY <1>1, <2>3, <3>1 DEF LoadType
  <2>6. CASE CountDays
    <3>1. load' = [load EXCEPT !.coverage = "counted", !.covered = {x[2] : x \in Present}]
      BY <2>6 DEF CountDays
    <3> QED BY <1>1, <2>1, <3>1 DEF LoadType
  <2>7. CASE ReadThrough
    <3>1. load' = [load EXCEPT !.coverage = "read", !.through = Most({x[2] : x \in Calendared})]
      BY <2>7 DEF ReadThrough
    <3> QED BY <1>1, <2>2, <3>1 DEF LoadType
  <2>8. CASE CoverageFails
    BY <1>1, <2>8 DEF CoverageFails, LoadType
  <2>9. CASE ShowLoad \/ LoadFails
    BY <1>1, <2>9 DEF ShowLoad, LoadFails, LoadType
  <2> QED BY <1>8, <2>4, <2>5, <2>6, <2>7, <2>8, <2>9
<1>9. ASSUME UNCHANGED tables, load' \in LoadType PROVE RecordsTypeInv'
  BY <1>9 DEF tables, RecordsTypeInv
<1>10. CASE \/ StartLoad \/ AttendancePage \/ LoadFails
            \/ CalendarCount \/ CalendarPage \/ CalendarFails
            \/ CountDays \/ ReadThrough \/ CoverageFails \/ ShowLoad
  <2>1. load' \in LoadType
    BY <1>8, <1>10, StartPageTypes
  <2>2. UNCHANGED tables
    BY <1>10 DEF StartLoad, AttendancePage, LoadFails, CalendarCount, CalendarPage, CalendarFails, CountDays,
                 ReadThrough, CoverageFails, ShowLoad
  <2> QED BY <1>9, <2>1, <2>2
<1>11. CASE UNCHANGED recordsVars
  BY <1>1, <1>9, <1>11 DEF recordsVars
<1> QED BY <1>3, <1>4, <1>6, <1>7, <1>10, <1>11 DEF RecordsNext

LEMMA RecordsInitTyped == RecordsInit => RecordsTypeInv
<1> SUFFICES ASSUME RecordsInit PROVE RecordsTypeInv
  OBVIOUS
<1>1. /\ attendance \in [Rows -> Swipes \cup {NoRow}] /\ name \in [Employees -> NameSeq]
      /\ calendar \in [Rows -> Cell \cup {NoCell}]
      /\ before \in [Rows -> Cell \cup {NoCell}] \cup {NoCell} /\ changes \in 0 .. MaxChanges
  BY StartAssumption, PageAssumption DEF RecordsInit, Nothing
<1>2. FreshLoad \in LoadType
  <2>1. Nothing \in [Rows -> Cell \cup {NoCell}]
    BY DEF Nothing
  <2>2. [x \in Rows |-> NoRow] \in [Rows -> Swipes \cup {NoRow}]
    OBVIOUS
  <2>3. [e \in Employees |-> NoMeta] \in [Employees -> Meta]
    BY DEF NoMeta, Meta
  <2>4. {x \in Present : Untied(x)} \in SUBSET Rows
    BY DEF Present
  <2> QED BY <2>1, <2>2, <2>3, <2>4 DEF FreshLoad, LoadType
<1>3. load \in LoadType
  BY <1>2 DEF RecordsInit, LoadType
<1> QED BY <1>1, <1>3 DEF RecordsTypeInv

\* A load never leaves its types: what it gathered are rows and cells, its
\* offset and its count are numbers, its days are days.
THEOREM RecordsTypeCorrect == RecordsSpec => []RecordsTypeOK
<1>1. RecordsTypeInv => RecordsTypeOK
  BY DEF RecordsTypeInv, RecordsTypeOK, LoadType, Meta
<1> QED BY <1>1, RecordsInitTyped, RecordsTypes, PTL DEF RecordsSpec
----------------------------------------------------------------------------
(* What a load has gathered                                                *)

RowOrder == {p \in Present \X Present : RowBefore(p[1], p[2])}
CellOrder == {p \in Calendared \X Calendared : CellBefore(p[1], p[2])}

\* Nothing was renamed: the pages taken hold every standing row placed in them.
RowsInv ==
  /\ \A x \in Rows : "attendance" \notin load.since => load.rows[x] \in {NoRow, attendance[x]}
  /\ "name" \notin load.since =>
       \A x \in load.standing :
         /\ x \in Present /\ Untied(x)
         /\ Gathered \/ (load.pc = "rows" /\ RowPlaces[x] < load.offset) => load.rows[x] # NoRow

\* The last calendar day of each employee among the rows S.
LastOf(S) ==
  [e \in Employees |->
     LET last == Most({x[2] : x \in {y \in S : y[1] = e}}) IN
     IF last = 0 THEN NoMeta ELSE [date |-> last, kind |-> calendar[<<e, last>>].kind]]

Taken == {x \in Calendared : CellPlaces[x] < load.offset}

CellsOf(S) == [x \in Rows |-> IF x \in S THEN calendar[x] ELSE NoCell]

\* No report came or went: the overlay is the calendar of the pages taken.
CellsInv ==
  /\ ~load.calendarOk => load.pc \in {"overlay", "shown"} /\ load.cells = Nothing
  /\ "calendar" \notin load.since =>
       /\ load.pc = "rows" => load.cells = CellsOf({}) /\ load.meta = LastOf({})
       /\ load.pc \in {"count", "cells"} => load.cells = CellsOf(Taken) /\ load.meta = LastOf(Taken)
       /\ load.pc = "cells" => load.total = Cardinality(Calendared)
       /\ load.pc \in {"overlay", "shown"} /\ load.calendarOk =>
            load.cells = CellsOf(Calendared) /\ load.meta = LastOf(Calendared)

GatherInv == RecordsTypeInv /\ RowsInv /\ CellsInv

\* The places of a page are those of a finite order with ties.
LEMMA OrdersRanked ==
  ASSUME RecordsTypeInv
  PROVE  /\ Ranked(Present, RowOrder, RowPlaces)
         /\ Ranked(Calendared, CellOrder, CellPlaces)
         /\ \A x \in Calendared : Tied(CellPlaces, x) = {x}
         /\ \A x \in Present : Untied(x) => Tied(RowPlaces, x) = {x}
<1>1. /\ IsFiniteSet(Present) /\ IsFiniteSet(Calendared)
      /\ Present \subseteq Rows /\ Calendared \subseteq Rows
  BY RowsFinite DEF Present, Calendared
<1>2. \A x \in Rows : x[1] \in Nat /\ x[2] \in Nat /\ name[x[1]] \in Nat /\ x = <<x[1], x[2]>>
  <2>1. \A x \in Rows : x[1] \in Employees /\ x[2] \in Days /\ x = <<x[1], x[2]>>
    BY DEF Rows
  <2>2. \A e \in Employees : e \in Nat /\ name[e] \in Nat
    BY DaysAssumption, EmployeesAssumption DEF RecordsTypeInv
  <2>3. \A d \in Days : d \in Nat
    BY DaysAssumption
  <2> QED BY <2>1, <2>2, <2>3
<1>3. \A x, y \in Present : <<x, y>> \in RowOrder <=> RowBefore(x, y)
  BY DEF RowOrder
<1>4. \A x, y \in Calendared : <<x, y>> \in CellOrder <=> CellBefore(x, y)
  BY DEF CellOrder
<1>5. /\ \A x \in Rows : ~RowBefore(x, x) /\ ~CellBefore(x, x)
      /\ \A x, y, z \in Rows : RowBefore(x, y) /\ RowBefore(y, z) => RowBefore(x, z)
      /\ \A x, y, z \in Rows : CellBefore(x, y) /\ CellBefore(y, z) => CellBefore(x, z)
      /\ \A x, y, z \in Rows : RowBefore(x, y) => RowBefore(x, z) \/ RowBefore(z, y)
      /\ \A x, y, z \in Rows : CellBefore(x, y) => CellBefore(x, z) \/ CellBefore(z, y)
  BY <1>2 DEF RowBefore, CellBefore
<1>6. RowPlaces = [x \in Present |-> Cardinality(Before(RowOrder, Present, x))]
  <2>1. \A x \in Present : {y \in Present : RowBefore(y, x)} = Before(RowOrder, Present, x)
    BY <1>3 DEF Before
  <2> QED BY <2>1 DEF RowPlaces
<1>7. CellPlaces = [x \in Calendared |-> Cardinality(Before(CellOrder, Calendared, x))]
  <2>1. \A x \in Calendared : {y \in Calendared : CellBefore(y, x)} = Before(CellOrder, Calendared, x)
    BY <1>4 DEF Before
  <2> QED BY <2>1 DEF CellPlaces
<1>8. Ranked(Present, RowOrder, RowPlaces)
  <2>1. \A x \in Present : <<x, x>> \notin RowOrder
    BY <1>1, <1>3, <1>5
  <2>2. \A x, y, z \in Present : <<x, y>> \in RowOrder /\ <<y, z>> \in RowOrder => <<x, z>> \in RowOrder
    BY <1>1, <1>3, <1>5
  <2>3. \A x, y, z \in Present : <<x, y>> \in RowOrder => <<x, z>> \in RowOrder \/ <<z, y>> \in RowOrder
    BY <1>1, <1>3, <1>5
  <2> QED BY <1>1, <1>6, <2>1, <2>2, <2>3 DEF Ranked
<1>9. Ranked(Calendared, CellOrder, CellPlaces)
  <2>1. \A x \in Calendared : <<x, x>> \notin CellOrder
    BY <1>1, <1>4, <1>5
  <2>2. \A x, y, z \in Calendared : <<x, y>> \in CellOrder /\ <<y, z>> \in CellOrder => <<x, z>> \in CellOrder
    BY <1>1, <1>4, <1>5
  <2>3. \A x, y, z \in Calendared : <<x, y>> \in CellOrder => <<x, z>> \in CellOrder \/ <<z, y>> \in CellOrder
    BY <1>1, <1>4, <1>5
  <2> QED BY <1>1, <1>7, <2>1, <2>2, <2>3 DEF Ranked
<1>10. ASSUME NEW x \in Calendared PROVE Tied(CellPlaces, x) = {x}
  <2>1. x \in Tied(CellPlaces, x)
    BY <1>7 DEF Tied
  <2>2. ASSUME NEW y \in Tied(CellPlaces, x) PROVE y = x
    <3>1. y \in Calendared /\ CellPlaces[y] = CellPlaces[x] /\ CellPlaces[y] \in Nat
      BY <1>9, PlacesGrow DEF Tied
    <3>2. ~CellBefore(x, y) /\ ~CellBefore(y, x)
      <4>1. \A v, w \in Calendared : <<v, w>> \in CellOrder <=> CellPlaces[v] < CellPlaces[w]
        BY <1>9, PlacesGrow
      <4>2. <<x, y>> \notin CellOrder /\ <<y, x>> \notin CellOrder
        BY <3>1, <4>1
      <4> QED BY <1>4, <3>1, <4>2
    <3> QED BY <1>1, <1>2, <3>1, <3>2 DEF CellBefore
  <2> QED BY <2>1, <2>2
<1>11. ASSUME NEW x \in Present, Untied(x) PROVE Tied(RowPlaces, x) = {x}
  <2>1. x \in Tied(RowPlaces, x)
    BY <1>6 DEF Tied
  <2>2. ASSUME NEW y \in Tied(RowPlaces, x) PROVE y = x
    <3>1. y \in Present /\ RowPlaces[y] = RowPlaces[x] /\ RowPlaces[y] \in Nat
      BY <1>8, PlacesGrow DEF Tied
    <3>2. ~RowBefore(x, y) /\ ~RowBefore(y, x)
      <4>1. \A v, w \in Present : <<v, w>> \in RowOrder <=> RowPlaces[v] < RowPlaces[w]
        BY <1>8, PlacesGrow
      <4>2. <<x, y>> \notin RowOrder /\ <<y, x>> \notin RowOrder
        BY <3>1, <4>1
      <4> QED BY <1>3, <3>1, <4>2
    <3>3. x[2] = y[2] /\ name[x[1]] = name[y[1]]
      BY <1>1, <1>2, <3>1, <3>2 DEF RowBefore
    <3> QED BY <1>11, <3>1, <3>3 DEF Untied
  <2> QED BY <2>1, <2>2
<1> QED BY <1>8, <1>9, <1>10, <1>11

\* A row written meanwhile only moves others further back.
LEMMA RowsMoveBack ==
  ASSUME RecordsTypeInv, NEW x \in Rows, NEW s \in Swipes, WriteAttendance(x, s)
  PROVE  /\ RowPlaces' \in [Present' -> Nat]
         /\ Present \subseteq Present'
         /\ \A y \in Present : RowPlaces[y] <= (RowPlaces[y])'
<1>1. /\ attendance' = [attendance EXCEPT ![x] = s] /\ name' = name /\ s # NoRow
      /\ attendance \in [Rows -> Swipes \cup {NoRow}]
  BY MarkersAssumption DEF WriteAttendance, RecordsTypeInv
<1>2. Present' = Present \cup {x} /\ Present' \subseteq Rows
  BY <1>1 DEF Present
<1> DEFINE Older(y) == {z \in Present : RowBefore(z, y)}
           Newer(y) == {z \in Present' : RowBefore(z, y)}
<1>3. RowPlaces = [y \in Present |-> Cardinality(Older(y))] /\ RowPlaces' = [y \in Present' |-> Cardinality(Newer(y))]
  BY <1>1 DEF RowPlaces, RowBefore
<1>4. ASSUME NEW y \in Present'
      PROVE  /\ IsFiniteSet(Newer(y)) /\ Cardinality(Newer(y)) \in Nat
             /\ Older(y) \in SUBSET Newer(y)
             /\ Cardinality(Older(y)) <= Cardinality(Newer(y))
  <2>1. Newer(y) \in SUBSET Rows /\ Older(y) \in SUBSET Newer(y)
    BY <1>2
  <2>2. IsFiniteSet(Newer(y)) /\ Cardinality(Newer(y)) \in Nat
    <3> HIDE DEF Newer
    <3> QED BY <2>1, RowsFinite
  <2> HIDE DEF Newer, Older
  <2> QED BY <2>1, <2>2, FS_Subset
<1> HIDE DEF Newer, Older
<1> QED BY <1>2, <1>3, <1>4

\* What leaves attendance, names and the rows gathered alone keeps RowsInv.
LEMMA RowsUndisturbed ==
  ASSUME RowsInv, UNCHANGED <<attendance, name>>,
         load'.rows = load.rows, load'.standing = load.standing, load.since \subseteq load'.since,
         Gathered' => Gathered,
         load'.pc = "rows" => load.pc = "rows" /\ load'.offset = load.offset
  PROVE  RowsInv'
<1>1. Present' = Present /\ RowPlaces' = RowPlaces
  BY DEF Present, RowPlaces, RowBefore
<1>2. \A x : Untied(x)' <=> Untied(x)
  BY <1>1 DEF Untied
<1>3. \A x \in Rows : "attendance" \notin load'.since => load'.rows[x] \in {NoRow, attendance'[x]}
  BY DEF RowsInv
<1>4. ASSUME "name" \notin load'.since, NEW x \in load'.standing
      PROVE  /\ x \in Present' /\ Untied(x)'
             /\ Gathered' \/ (load'.pc = "rows" /\ (RowPlaces[x])' < load'.offset) => load'.rows[x] # NoRow
  <2>1. /\ x \in Present /\ Untied(x)
        /\ Gathered \/ (load.pc = "rows" /\ RowPlaces[x] < load.offset) => load.rows[x] # NoRow
    BY <1>4 DEF RowsInv
  <2>2. (RowPlaces[x])' = RowPlaces[x]
    BY <1>1
  <2> QED BY <1>1, <1>2, <2>1, <2>2
<1> QED BY <1>3, <1>4 DEF RowsInv

LEMMA RowsWritten ==
  ASSUME RecordsTypeInv, RowsInv, NEW x \in Rows, NEW s \in Swipes, WriteAttendance(x, s)
  PROVE  RowsInv'
<1>1. /\ name' = name /\ load \in LoadType
      /\ load' = [load EXCEPT !.since = load.since \cup {"attendance"},
                              !.standing = {y \in load.standing : y = x \/ y[2] # x[2] \/ name[y[1]] # name[x[1]]}]
  BY DEF WriteAttendance, RecordsTypeInv
<1>2. /\ load'.pc = load.pc /\ load'.rows = load.rows /\ load'.offset = load.offset /\ load.offset \in Nat
      /\ load'.since = load.since \cup {"attendance"}
      /\ load'.standing = {y \in load.standing : y = x \/ y[2] # x[2] \/ name[y[1]] # name[x[1]]}
  BY <1>1 DEF LoadType
<1>3. Present' \subseteq Present \cup {x}
  BY DEF WriteAttendance, Present
<1>4. ASSUME "name" \notin load'.since, NEW y \in load'.standing
      PROVE  /\ y \in Present' /\ Untied(y)'
             /\ Gathered' \/ (load'.pc = "rows" /\ (RowPlaces[y])' < load'.offset) => load'.rows[y] # NoRow
  <2>1. /\ y \in load.standing /\ y \in Present /\ Untied(y)
        /\ Gathered \/ (load.pc = "rows" /\ RowPlaces[y] < load.offset) => load.rows[y] # NoRow
    BY <1>2, <1>4 DEF RowsInv
  <2>2. y \in Present' /\ RowPlaces[y] <= (RowPlaces[y])' /\ (RowPlaces[y])' \in Nat
    BY <2>1, RowsMoveBack
  <2>3. RowPlaces[y] \in Nat
    BY <2>1, OrdersRanked, PlacesGrow
  <2>4. Untied(y)'
    <3>1. y = x \/ y[2] # x[2] \/ name[y[1]] # name[x[1]]
      BY <1>2, <1>4
    <3> SUFFICES ASSUME NEW z \in Present' \ {y}, y[2] = z[2] PROVE name'[y[1]] # name'[z[1]]
      BY DEF Untied
    <3>2. CASE z \in Present
      BY <1>1, <2>1, <3>2 DEF Untied
    <3>3. CASE z = x
      BY <1>1, <3>1, <3>3
    <3> QED BY <1>3, <3>2, <3>3
  <2>5. (RowPlaces[y])' < load'.offset => RowPlaces[y] < load.offset
    BY <1>2, <2>2, <2>3
  <2> QED BY <1>2, <2>1, <2>2, <2>4, <2>5 DEF Gathered
<1> QED BY <1>2, <1>4 DEF RowsInv

LEMMA RowsPaged ==
  ASSUME RecordsTypeInv, RowsInv, AttendancePage
  PROVE  RowsInv'
<1>1. PICK slice \in PagesAt(RowPlaces, load.offset) :
        LET got == [x \in Rows |-> IF x \in slice THEN attendance[x] ELSE load.rows[x]] IN
        load' = IF Cardinality(slice) < PageSize
                THEN [load EXCEPT !.rows = got, !.offset = 0, !.pc = "count"]
                ELSE [load EXCEPT !.rows = got, !.offset = NextOffset(@)]
  BY DEF AttendancePage
<1>2. /\ load.pc = "rows" /\ UNCHANGED <<attendance, name>> /\ load \in LoadType /\ load.offset \in Nat
      /\ PageSize \in Nat /\ PageSize > 0
  BY PageAssumption DEF AttendancePage, tables, RecordsTypeInv, LoadType
<1>3. /\ load'.since = load.since /\ load'.standing = load.standing
      /\ load'.rows = [x \in Rows |-> IF x \in slice THEN attendance[x] ELSE load.rows[x]]
      /\ \/ Cardinality(slice) < PageSize /\ load'.pc = "count"
         \/ ~(Cardinality(slice) < PageSize) /\ load'.pc = "rows" /\ load'.offset = load.offset + PageSize
  <2> DEFINE got == [x \in Rows |-> IF x \in slice THEN attendance[x] ELSE load.rows[x]]
  <2>1. \/ Cardinality(slice) < PageSize /\ load' = [load EXCEPT !.rows = got, !.offset = 0, !.pc = "count"]
        \/ ~(Cardinality(slice) < PageSize) /\ load' = [load EXCEPT !.rows = got, !.offset = load.offset + PageSize]
    BY <1>1 DEF NextOffset
  <2> HIDE DEF got
  <2>2. CASE Cardinality(slice) < PageSize /\ load' = [load EXCEPT !.rows = got, !.offset = 0, !.pc = "count"]
    BY <1>2, <2>2 DEF LoadType, got
  <2>3. CASE ~(Cardinality(slice) < PageSize) /\ load' = [load EXCEPT !.rows = got, !.offset = load.offset + PageSize]
    BY <1>2, <2>3 DEF LoadType, got
  <2> QED BY <2>1, <2>2, <2>3
<1>4. Present' = Present /\ RowPlaces' = RowPlaces
  BY <1>2 DEF Present, RowPlaces, RowBefore
<1>5. \A x : Untied(x)' <=> Untied(x)
  BY <1>2, <1>4 DEF Untied
<1>6. \A x \in Rows : "attendance" \notin load'.since => load'.rows[x] \in {NoRow, attendance'[x]}
  BY <1>2, <1>3 DEF RowsInv
<1>7. ASSUME "name" \notin load'.since, NEW x \in load'.standing
      PROVE  /\ x \in Present' /\ Untied(x)'
             /\ Gathered' \/ (load'.pc = "rows" /\ (RowPlaces[x])' < load'.offset) => load'.rows[x] # NoRow
  <2>1. /\ x \in Rows /\ x \in Present /\ Untied(x) /\ attendance[x] # NoRow
        /\ RowPlaces[x] < load.offset => load.rows[x] # NoRow
    BY <1>2, <1>3, <1>7 DEF RowsInv, Present
  <2>2. RowPlaces[x] \in Nat /\ (RowPlaces[x])' = RowPlaces[x]
    BY <1>4, <2>1, OrdersRanked, PlacesGrow
  <2>3. x \in slice <=> load.offset <= RowPlaces[x] /\ RowPlaces[x] < load.offset + PageSize
    BY <1>2, <2>1, OrdersRanked, UntiedOnPage
  <2>4. Cardinality(slice) < PageSize => RowPlaces[x] < load.offset + PageSize
    <3> SUFFICES ASSUME load.offset + PageSize <= RowPlaces[x] PROVE ~(Cardinality(slice) < PageSize)
      BY <1>2, <2>2
    <3>1. PageSize <= Cardinality(slice)
      BY <1>2, <2>1, OrdersRanked, FullPage
    <3>2. Cardinality(slice) \in Nat
      BY <1>2, OrdersRanked, PageIs
    <3> QED BY <1>2, <3>1, <3>2
  <2>5. RowPlaces[x] < load.offset + PageSize => load'.rows[x] # NoRow
    <3>1. load'.rows[x] = IF x \in slice THEN attendance[x] ELSE load.rows[x]
      BY <1>3, <2>1
    <3> QED BY <1>2, <2>1, <2>2, <2>3, <3>1
  <2>6. Cardinality(slice) < PageSize => load'.rows[x] # NoRow
    BY <2>4, <2>5
  <2>7. load'.pc = "rows" /\ (RowPlaces[x])' < load'.offset => load'.rows[x] # NoRow
    BY <1>3, <2>2, <2>5
  <2>8. Gathered' => load'.rows[x] # NoRow
    BY <1>3, <2>6 DEF Gathered
  <2> QED BY <1>4, <1>5, <2>1, <2>7, <2>8
<1> QED BY <1>6, <1>7 DEF RowsInv

LEMMA RowsKept == RecordsTypeInv /\ RowsInv /\ [RecordsNext]_recordsVars => RowsInv'
<1> SUFFICES ASSUME RecordsTypeInv, RowsInv, [RecordsNext]_recordsVars PROVE RowsInv'
  OBVIOUS
<1>1. load \in LoadType
  BY DEF RecordsTypeInv
<1>2. ASSUME NEW x \in Rows, NEW s \in Swipes, WriteAttendance(x, s) PROVE RowsInv'
  BY <1>2, RowsWritten
<1>3. ASSUME NEW e \in Employees, NEW n \in NameSeq, Rename(e, n) PROVE RowsInv'
  <2>1. /\ attendance' = attendance /\ load' = [load EXCEPT !.since = load.since \cup {"name"}]
    BY <1>3 DEF Rename
  <2>2. load'.rows = load.rows /\ load'.since = load.since \cup {"name"}
    BY <1>1, <2>1 DEF LoadType
  <2> QED BY <2>1, <2>2 DEF RowsInv
<1>4. ASSUME NEW w \in Workbooks, CommitLeave(w) PROVE RowsInv'
  <2>1. UNCHANGED <<attendance, name>> /\ load' = [load EXCEPT !.since = load.since \cup {"calendar"}]
    BY <1>4 DEF CommitLeave
  <2> QED BY <1>1, <2>1, RowsUndisturbed DEF LoadType, Gathered
<1>5. ASSUME RevertLeave PROVE RowsInv'
  <2>1. UNCHANGED <<attendance, name>> /\ load' = [load EXCEPT !.since = load.since \cup {"calendar"}]
    BY <1>5 DEF RevertLeave
  <2> QED BY <1>1, <2>1, RowsUndisturbed DEF LoadType, Gathered
<1>6. ASSUME StartLoad PROVE RowsInv'
  <2>1. UNCHANGED <<attendance, name>> /\ load' = FreshLoad
    BY <1>6 DEF StartLoad, tables
  <2>2. Present' = Present /\ RowPlaces' = RowPlaces
    BY <2>1 DEF Present, RowPlaces, RowBefore
  <2>3. \A x : Untied(x)' <=> Untied(x)
    BY <2>1, <2>2 DEF Untied
  <2>4. /\ load'.pc = "rows" /\ load'.offset = 0 /\ load'.rows = [x \in Rows |-> NoRow]
        /\ load'.standing = {x \in Present : Untied(x)}
    BY <2>1 DEF FreshLoad
  <2>5. \A x \in Present : RowPlaces[x] \in Nat /\ (RowPlaces[x])' = RowPlaces[x]
    BY <2>2, OrdersRanked, PlacesGrow
  <2>6. \A x \in Present : ~((RowPlaces[x])' < load'.offset)
    BY <2>4, <2>5
  <2>7. ~Gathered'
    BY <2>4 DEF Gathered
  <2>8. ASSUME NEW x \in load'.standing
        PROVE  /\ x \in Present' /\ Untied(x)'
               /\ Gathered' \/ (load'.pc = "rows" /\ (RowPlaces[x])' < load'.offset) => load'.rows[x] # NoRow
    BY <2>2, <2>3, <2>4, <2>6, <2>7, <2>8
  <2>9. \A x \in Rows : load'.rows[x] \in {NoRow, attendance'[x]}
    BY <2>4
  <2> QED BY <2>8, <2>9 DEF RowsInv
<1>7. ASSUME AttendancePage PROVE RowsInv'
  BY <1>7, RowsPaged
<1>8. CASE LoadFails \/ CalendarCount \/ CalendarFails \/ CountDays \/ ReadThrough \/ CoverageFails \/ ShowLoad
  <2>1. UNCHANGED <<attendance, name>>
    BY <1>8 DEF LoadFails, CalendarCount, CalendarFails, CountDays, ReadThrough, CoverageFails, ShowLoad, tables
  <2>2. /\ load'.rows = load.rows /\ load'.standing = load.standing /\ load'.since = load.since
        /\ Gathered' => Gathered
        /\ load'.pc = "rows" => load.pc = "rows" /\ load'.offset = load.offset
    <3>1. CASE LoadFails
      BY <1>1, <3>1 DEF LoadFails, LoadType, Gathered
    <3>2. CASE CalendarCount
      BY <1>1, <3>2 DEF CalendarCount, LoadType, Gathered
    <3>3. CASE CalendarFails
      BY <1>1, <3>3 DEF CalendarFails, LoadType, Gathered
    <3>4. CASE CountDays \/ ReadThrough \/ CoverageFails
      BY <1>1, <3>4 DEF CountDays, ReadThrough, CoverageFails, LoadType, Gathered
    <3>5. CASE ShowLoad
      BY <1>1, <3>5 DEF ShowLoad, LoadType, Gathered
    <3> QED BY <1>8, <3>1, <3>2, <3>3, <3>4, <3>5
  <2> QED BY <2>1, <2>2, RowsUndisturbed
<1>9. CASE CalendarPage
  <2>1. PICK slice \in PagesAt(CellPlaces, load.offset) :
          LET n == Cardinality(slice)
              got == [load EXCEPT !.cells = [x \in Rows |-> IF x \in slice THEN calendar[x] ELSE @[x]],
                                  !.meta = MetaWith(@, slice)]
          IN load' = IF n < PageSize \/ load.offset + n >= load.total
                     THEN [got EXCEPT !.pc = "overlay", !.offset = 0, !.total = 0]
                     ELSE [got EXCEPT !.pc = "count", !.offset = NextOffset(@)]
    BY <1>9 DEF CalendarPage
  <2>2. /\ load'.rows = load.rows /\ load'.standing = load.standing /\ load'.since = load.since
        /\ load'.pc \in {"overlay", "count"} /\ load.pc = "cells"
    BY <1>1, <1>9, <2>1 DEF CalendarPage, LoadType
  <2>3. UNCHANGED <<attendance, name>> /\ Gathered /\ load'.pc # "rows"
    BY <1>9, <2>2 DEF CalendarPage, tables, Gathered
  <2> QED BY <2>2, <2>3, RowsUndisturbed
<1>10. CASE UNCHANGED recordsVars
  BY <1>10, RowsUndisturbed DEF recordsVars, tables, Gathered
<1> QED BY <1>2, <1>3, <1>4, <1>5, <1>6, <1>7, <1>8, <1>9, <1>10 DEF RecordsNext

\* Before anything was read there is no cell and no last day.
LEMMA NothingYet == CellsOf({}) = Nothing /\ LastOf({}) = [e \in Employees |-> NoMeta]
<1>1. CellsOf({}) = Nothing
  BY DEF CellsOf, Nothing
<1>2. ASSUME NEW e \in Employees PROVE Most({x[2] : x \in {y \in {} : y[1] = e}}) = 0
  <2>1. {x[2] : x \in {y \in {} : y[1] = e}} = {}
    OBVIOUS
  <2>2. Most({}) \in {} \cup {0}
    BY MostIs
  <2> QED BY <2>1, <2>2
<1>3. LastOf({}) = [e \in Employees |-> NoMeta]
  BY <1>2 DEF LastOf
<1> QED BY <1>1, <1>3

\* What the last days are after one more page.
LEMMA LastDaysJoin ==
  ASSUME RecordsTypeInv, NEW S, NEW slice, S \subseteq Calendared, slice \subseteq Calendared
  PROVE  MetaWith(LastOf(S), slice) = LastOf(S \cup slice)
<1> DEFINE DatesIn(T, e) == {x[2] : x \in {y \in T : y[1] = e}}
           Told(e, last) == [date |-> last, kind |-> calendar[<<e, last>>].kind]
<1>1. ASSUME NEW e \in Employees
      PROVE  (IF Most(DatesIn(slice, e)) > LastOf(S)[e].date
              THEN Told(e, Most(DatesIn(slice, e))) ELSE LastOf(S)[e]) = LastOf(S \cup slice)[e]
  <2> DEFINE s == Most(DatesIn(S, e))
             p == Most(DatesIn(slice, e))
             b == Most(DatesIn(S \cup slice, e))
  <2>1. DatesIn(S, e) \subseteq Days /\ DatesIn(slice, e) \subseteq Days /\ DatesIn(S \cup slice, e) \subseteq Days
    BY DEF Calendared, Rows
  <2>2. DatesIn(S \cup slice, e) = DatesIn(S, e) \cup DatesIn(slice, e)
    OBVIOUS
  <2> HIDE DEF DatesIn
  <2>3. /\ s \in DatesIn(S, e) \cup {0} /\ \A n \in DatesIn(S, e) : n <= s
        /\ p \in DatesIn(slice, e) \cup {0} /\ \A n \in DatesIn(slice, e) : n <= p
        /\ b \in DatesIn(S \cup slice, e) \cup {0} /\ \A n \in DatesIn(S \cup slice, e) : n <= b
    BY <2>1, MostIs
  <2>4. \A n \in Days \cup {0} : n \in Nat
    BY DaysAssumption
  <2> HIDE DEF s, p, b
  <2>5. s \in Nat /\ p \in Nat /\ b \in Nat
    BY <2>1, <2>3, <2>4
  <2>6. (p > s => b = p) /\ (~(p > s) => b = s)
    BY <2>2, <2>3, <2>5
  <2>7. LastOf(S)[e] = (IF s = 0 THEN NoMeta ELSE Told(e, s))
        /\ LastOf(S \cup slice)[e] = (IF b = 0 THEN NoMeta ELSE Told(e, b))
    BY DEF LastOf, s, b, DatesIn
  <2>8. LastOf(S)[e].date = s
    BY <2>7 DEF NoMeta
  <2>9. CASE p > s
    <3>1. b = p /\ b # 0
      BY <2>5, <2>6, <2>9
    <3>2. LastOf(S \cup slice)[e] = Told(e, p)
      BY <2>7, <3>1
    <3> HIDE DEF Told
    <3> QED BY <2>8, <2>9, <3>2 DEF p
  <2>10. CASE ~(p > s)
    <3>1. LastOf(S \cup slice)[e] = LastOf(S)[e]
      BY <2>6, <2>7, <2>10
    <3> HIDE DEF Told
    <3> QED BY <2>8, <2>10, <3>1 DEF p
  <2> QED BY <2>9, <2>10
<1>2. MetaWith(LastOf(S), slice) =
        [e \in Employees |-> IF Most(DatesIn(slice, e)) > LastOf(S)[e].date
                             THEN Told(e, Most(DatesIn(slice, e))) ELSE LastOf(S)[e]]
  BY DEF MetaWith
<1>3. LastOf(S \cup slice) = [e \in Employees |-> LastOf(S \cup slice)[e]]
  BY DEF LastOf
<1> HIDE DEF DatesIn, Told
<1> QED BY <1>1, <1>2, <1>3

LEMMA CellsUndisturbed ==
  ASSUME CellsInv, UNCHANGED calendar, load.since \subseteq load'.since,
         load'.cells = load.cells, load'.meta = load.meta, load'.calendarOk = load.calendarOk,
         load'.pc = "rows" => load.pc = "rows",
         load'.pc \in {"count", "cells"} => load.pc \in {"count", "cells"} /\ load'.offset = load.offset,
         load'.pc = "cells" => load'.total = Cardinality(Calendared) \/ (load.pc = "cells" /\ load'.total = load.total),
         load'.pc \in {"overlay", "shown"} <=> load.pc \in {"overlay", "shown"}
  PROVE  CellsInv'
<1>1. Calendared' = Calendared /\ CellPlaces' = CellPlaces /\ Nothing' = Nothing
  BY DEF Calendared, CellPlaces, CellBefore, Nothing
<1>2. load'.offset = load.offset => Taken' = Taken
  BY <1>1 DEF Taken
<1>3. ~load'.calendarOk => load'.pc \in {"overlay", "shown"} /\ load'.cells = Nothing'
  BY <1>1 DEF CellsInv
<1>4. ASSUME "calendar" \notin load'.since
      PROVE  /\ load'.pc = "rows" => load'.cells = CellsOf({}) /\ load'.meta = LastOf({})
             /\ load'.pc \in {"count", "cells"} => load'.cells = CellsOf(Taken) /\ load'.meta = LastOf(Taken)
             /\ load'.pc = "cells" => load'.total = Cardinality(Calendared)
             /\ load'.pc \in {"overlay", "shown"} /\ load'.calendarOk =>
                  load'.cells = CellsOf(Calendared) /\ load'.meta = LastOf(Calendared)
  <2>1. "calendar" \notin load.since
    BY <1>4
  <2>2. /\ load.pc = "rows" => load.cells = CellsOf({}) /\ load.meta = LastOf({})
        /\ load.pc \in {"count", "cells"} => load.cells = CellsOf(Taken) /\ load.meta = LastOf(Taken)
        /\ load.pc = "cells" => load.total = Cardinality(Calendared)
        /\ load.pc \in {"overlay", "shown"} /\ load.calendarOk =>
             load.cells = CellsOf(Calendared) /\ load.meta = LastOf(Calendared)
    BY <2>1 DEF CellsInv
  <2> QED BY <2>2
<1>5. /\ CellsOf({})' = CellsOf({}) /\ LastOf({})' = LastOf({})
      /\ CellsOf(Calendared)' = CellsOf(Calendared) /\ LastOf(Calendared)' = LastOf(Calendared)
      /\ load'.offset = load.offset => CellsOf(Taken)' = CellsOf(Taken) /\ LastOf(Taken)' = LastOf(Taken)
  BY <1>1, <1>2 DEF CellsOf, LastOf
<1> QED BY <1>1, <1>3, <1>4, <1>5 DEF CellsInv

\* One page of the calendar: what was taken and the page are what was placed
\* before its end, and the load stops only with everything.
LEMMA CellsPaged ==
  ASSUME RecordsTypeInv, CellsInv, CalendarPage
  PROVE  CellsInv'
<1>1. PICK slice \in PagesAt(CellPlaces, load.offset) :
        LET n == Cardinality(slice)
            got == [load EXCEPT !.cells = [x \in Rows |-> IF x \in slice THEN calendar[x] ELSE @[x]],
                                !.meta = MetaWith(@, slice)]
        IN load' = IF n < PageSize \/ load.offset + n >= load.total
                   THEN [got EXCEPT !.pc = "overlay", !.offset = 0, !.total = 0]
                   ELSE [got EXCEPT !.pc = "count", !.offset = NextOffset(@)]
  BY DEF CalendarPage
<1>2. /\ load.pc = "cells" /\ calendar' = calendar /\ load \in LoadType
      /\ load.offset \in Nat /\ load.total \in Nat /\ PageSize \in Nat /\ PageSize > 0
  BY PageAssumption DEF CalendarPage, tables, RecordsTypeInv, LoadType
<1> DEFINE cells == [x \in Rows |-> IF x \in slice THEN calendar[x] ELSE load.cells[x]]
           meta == MetaWith(load.meta, slice)
           n == Cardinality(slice)
           whole == n < PageSize \/ load.offset + n >= load.total
<1>3. /\ load'.since = load.since /\ load'.calendarOk = load.calendarOk
      /\ load'.cells = cells /\ load'.meta = meta
      /\ \/ whole /\ load'.pc = "overlay"
         \/ ~whole /\ load'.pc = "count" /\ load'.offset = load.offset + PageSize
  <2>1. \/ whole /\ load' = [load EXCEPT !.cells = cells, !.meta = meta, !.pc = "overlay", !.offset = 0, !.total = 0]
        \/ ~whole /\ load' = [load EXCEPT !.cells = cells, !.meta = meta, !.pc = "count",
                                          !.offset = load.offset + PageSize]
    <3> DEFINE got == [load EXCEPT !.cells = cells, !.meta = meta]
    <3>1. \/ whole /\ load' = [got EXCEPT !.pc = "overlay", !.offset = 0, !.total = 0]
          \/ ~whole /\ load' = [got EXCEPT !.pc = "count", !.offset = NextOffset(got.offset)]
      BY <1>1
    <3> HIDE DEF cells, meta, whole
    <3>2. NextOffset(got.offset) = load.offset + PageSize
      BY <1>2 DEF NextOffset, LoadType
    <3> QED BY <1>2, <3>1, <3>2 DEF LoadType
  <2> HIDE DEF cells, meta, whole
  <2>2. CASE whole /\ load' = [load EXCEPT !.cells = cells, !.meta = meta, !.pc = "overlay", !.offset = 0, !.total = 0]
    BY <1>2, <2>2 DEF LoadType
  <2>3. CASE ~whole /\ load' = [load EXCEPT !.cells = cells, !.meta = meta, !.pc = "count",
                                            !.offset = load.offset + PageSize]
    BY <1>2, <2>3 DEF LoadType
  <2> QED BY <2>1, <2>2, <2>3
<1>4. /\ slice \subseteq Calendared /\ n \in Nat /\ n <= PageSize
      /\ \A x \in Calendared : CellPlaces[x] \in Nat /\ CellPlaces[x] < Cardinality(Calendared)
      /\ \A x \in Calendared : x \in slice <=> load.offset <= CellPlaces[x] /\ CellPlaces[x] < load.offset + PageSize
      /\ \A x \in Calendared : load.offset + PageSize <= CellPlaces[x] => PageSize <= n
  <2>1. Ranked(Calendared, CellOrder, CellPlaces) /\ \A x \in Calendared : Tied(CellPlaces, x) = {x}
    BY OrdersRanked
  <2>2. slice \subseteq Calendared /\ n \in Nat
    BY <1>2, <2>1, PageIs
  <2>3. n <= PageSize
    BY <1>2, <2>1, PageFits
  <2>4. \A x \in Calendared : CellPlaces[x] \in Nat /\ CellPlaces[x] < Cardinality(Calendared)
    BY <2>1, PlacesGrow
  <2>5. ASSUME NEW x \in Calendared
        PROVE  x \in slice <=> load.offset <= CellPlaces[x] /\ CellPlaces[x] < load.offset + PageSize
    BY <1>2, <2>1, UntiedOnPage
  <2>6. ASSUME NEW x \in Calendared, load.offset + PageSize <= CellPlaces[x] PROVE PageSize <= n
    BY <1>2, <2>1, <2>6, FullPage
  <2> QED BY <2>2, <2>3, <2>4, <2>5, <2>6
<1>5. Taken \cup slice = {x \in Calendared : CellPlaces[x] < load.offset + PageSize}
  BY <1>2, <1>4 DEF Taken
<1>6. ASSUME whole, load.total = Cardinality(Calendared) PROVE Taken \cup slice = Calendared
  <2>1. Cardinality(Calendared) \in Nat
    BY RowsFinite DEF Calendared
  <2>2. ASSUME NEW x \in Calendared PROVE CellPlaces[x] < load.offset + PageSize
    <3>1. CASE n < PageSize
      <4>1. ~(load.offset + PageSize <= CellPlaces[x])
        BY <1>2, <1>4, <3>1
      <4>2. CellPlaces[x] \in Nat
        BY <1>4
      <4> QED BY <1>2, <4>1, <4>2
    <3>2. CASE load.offset + n >= load.total
      <4>1. CellPlaces[x] \in Nat /\ CellPlaces[x] < load.total
        BY <1>4, <1>6
      <4>2. n \in Nat /\ n <= PageSize
        BY <1>4
      <4> HIDE DEF n
      <4> QED BY <1>2, <3>2, <4>1, <4>2
    <3> QED BY <1>6, <3>1, <3>2
  <2> QED BY <1>5, <2>2
<1>7. Calendared' = Calendared /\ CellPlaces' = CellPlaces /\ Nothing' = Nothing
  BY <1>2 DEF Calendared, CellPlaces, CellBefore, Nothing
<1>8. ASSUME "calendar" \notin load'.since
      PROVE  /\ load'.cells = CellsOf(Taken \cup slice) /\ load'.meta = LastOf(Taken \cup slice)
             /\ load.total = Cardinality(Calendared)
  <2>1. /\ load.cells = CellsOf(Taken) /\ load.meta = LastOf(Taken)
        /\ load.total = Cardinality(Calendared)
    BY <1>2, <1>3, <1>8 DEF CellsInv
  <2>2. cells = CellsOf(Taken \cup slice)
    BY <2>1 DEF CellsOf
  <2>3. meta = LastOf(Taken \cup slice)
    BY <1>4, <2>1, LastDaysJoin DEF Taken
  <2> QED BY <1>3, <2>1, <2>2, <2>3
<1>9. ~whole => Taken' = Taken \cup slice
  BY <1>3, <1>5, <1>7 DEF Taken
<1>10. /\ Taken' = Taken \cup slice => CellsOf(Taken)' = CellsOf(Taken \cup slice)
                                      /\ LastOf(Taken)' = LastOf(Taken \cup slice)
       /\ CellsOf(Calendared)' = CellsOf(Calendared) /\ LastOf(Calendared)' = LastOf(Calendared)
  BY <1>2, <1>7 DEF CellsOf, LastOf
<1>11. load'.calendarOk
  BY <1>2, <1>3 DEF CellsInv
<1> HIDE DEF cells, meta, n, whole
<1> QED BY <1>3, <1>6, <1>7, <1>8, <1>9, <1>10, <1>11 DEF CellsInv

LEMMA CellsKept == RecordsTypeInv /\ CellsInv /\ [RecordsNext]_recordsVars => CellsInv'
<1> SUFFICES ASSUME RecordsTypeInv, CellsInv, [RecordsNext]_recordsVars PROVE CellsInv'
  OBVIOUS
<1>1. load \in LoadType
  BY DEF RecordsTypeInv
<1>2. CASE (\E x \in Rows, s \in Swipes : WriteAttendance(x, s)) \/ (\E e \in Employees, n \in NameSeq : Rename(e, n))
  <2>1. /\ calendar' = calendar
        /\ \/ \E S : load' = [load EXCEPT !.since = load.since \cup {"attendance"}, !.standing = S]
           \/ load' = [load EXCEPT !.since = load.since \cup {"name"}]
    BY <1>2 DEF WriteAttendance, Rename
  <2> DEFINE same == /\ load.since \subseteq load'.since /\ load'.cells = load.cells /\ load'.meta = load.meta
                     /\ load'.calendarOk = load.calendarOk /\ load'.pc = load.pc
                     /\ load'.offset = load.offset /\ load'.total = load.total
  <2>2. same
    <3>1. ASSUME NEW S, load' = [load EXCEPT !.since = load.since \cup {"attendance"}, !.standing = S]
          PROVE same
      BY <1>1, <3>1 DEF LoadType
    <3>2. CASE load' = [load EXCEPT !.since = load.since \cup {"name"}]
      BY <1>1, <3>2 DEF LoadType
    <3> QED BY <2>1, <3>1, <3>2
  <2> QED BY <2>1, <2>2, CellsUndisturbed
<1>3. CASE (\E w \in Workbooks : CommitLeave(w)) \/ RevertLeave
  <2>1. load' = [load EXCEPT !.since = load.since \cup {"calendar"}]
    BY <1>3 DEF CommitLeave, RevertLeave
  <2>2. /\ load'.since = load.since \cup {"calendar"} /\ load'.cells = load.cells
        /\ load'.calendarOk = load.calendarOk /\ load'.pc = load.pc
    BY <1>1, <2>1 DEF LoadType
  <2> QED BY <2>2 DEF CellsInv, Nothing
<1>4. CASE StartLoad
  <2>1. /\ load'.pc = "rows" /\ load'.cells = Nothing /\ load'.meta = [e \in Employees |-> NoMeta]
        /\ load'.calendarOk /\ calendar' = calendar
    BY <1>4 DEF StartLoad, FreshLoad, tables
  <2>2. load'.cells = CellsOf({}) /\ load'.meta = LastOf({})
    BY <2>1, NothingYet
  <2>3. CellsOf({})' = CellsOf({}) /\ LastOf({})' = LastOf({})
    BY <2>1 DEF CellsOf, LastOf
  <2> QED BY <2>1, <2>2, <2>3 DEF CellsInv
<1>5. CASE AttendancePage
  <2>1. PICK slice \in PagesAt(RowPlaces, load.offset) :
          LET got == [x \in Rows |-> IF x \in slice THEN attendance[x] ELSE load.rows[x]] IN
          load' = IF Cardinality(slice) < PageSize
                  THEN [load EXCEPT !.rows = got, !.offset = 0, !.pc = "count"]
                  ELSE [load EXCEPT !.rows = got, !.offset = NextOffset(@)]
    BY <1>5 DEF AttendancePage
  <2>2. /\ load.pc = "rows" /\ calendar' = calendar
        /\ load'.since = load.since /\ load'.cells = load.cells /\ load'.meta = load.meta
        /\ load'.calendarOk = load.calendarOk
        /\ load'.pc = "rows" \/ (load'.pc = "count" /\ load'.offset = 0)
    BY <1>1, <1>5, <2>1 DEF AttendancePage, tables, LoadType
  <2>3. CASE load'.pc = "rows"
    BY <2>2, <2>3, CellsUndisturbed
  <2>4. CASE load'.pc = "count" /\ load'.offset = 0
    <3>1. load.calendarOk
      BY <2>2 DEF CellsInv
    <3>2. Calendared' = Calendared /\ CellPlaces' = CellPlaces
      BY <2>2 DEF Calendared, CellPlaces, CellBefore
    <3>3. \A x \in Calendared : CellPlaces[x] \in Nat
      BY OrdersRanked, PlacesGrow
    <3>4. Taken' = {}
      BY <2>4, <3>2, <3>3 DEF Taken
    <3>5. CellsOf(Taken)' = CellsOf({}) /\ LastOf(Taken)' = LastOf({})
      BY <2>2, <3>4 DEF CellsOf, LastOf
    <3>6. "calendar" \notin load'.since => load'.cells = CellsOf({}) /\ load'.meta = LastOf({})
      BY <2>2 DEF CellsInv
    <3> QED BY <2>2, <2>4, <3>1, <3>5, <3>6 DEF CellsInv
  <2> QED BY <2>2, <2>3, <2>4
<1>6. CASE CalendarPage
  BY <1>6, CellsPaged
<1>7. CASE CalendarFails
  <2>1. load' = [load EXCEPT !.pc = "overlay", !.offset = 0, !.total = 0, !.calendarOk = FALSE, !.cells = Nothing,
                             !.meta = [e \in Employees |-> NoMeta]]
    BY <1>7 DEF CalendarFails
  <2>2. load'.pc = "overlay" /\ ~load'.calendarOk /\ load'.cells = Nothing
    BY <1>1, <2>1 DEF LoadType
  <2> QED BY <2>2 DEF CellsInv, Nothing
<1>8. CASE LoadFails \/ CalendarCount \/ CountDays \/ ReadThrough \/ CoverageFails \/ ShowLoad
  <2>1. calendar' = calendar
    BY <1>8 DEF LoadFails, CalendarCount, CountDays, ReadThrough, CoverageFails, ShowLoad, tables
  <2>2. CASE LoadFails
    <3>1. /\ load'.pc = "failed" /\ load.pc = "rows" /\ load'.since = load.since
          /\ load'.cells = load.cells /\ load'.meta = load.meta /\ load'.calendarOk = load.calendarOk
      BY <1>1, <2>2 DEF LoadFails, LoadType
    <3> QED BY <2>1, <3>1, CellsUndisturbed
  <2>3. CASE CalendarCount
    <3>1. /\ load'.pc = "cells" /\ load.pc = "count" /\ load'.since = load.since
          /\ load'.cells = load.cells /\ load'.meta = load.meta /\ load'.calendarOk = load.calendarOk
          /\ load'.offset = load.offset /\ load'.total = Cardinality(Calendared)
      BY <1>1, <2>3 DEF CalendarCount, LoadType
    <3> QED BY <2>1, <3>1, CellsUndisturbed
  <2>4. CASE CountDays \/ ReadThrough \/ CoverageFails \/ ShowLoad
    <3>1. /\ load'.since = load.since /\ load'.total = load.total
          /\ load'.cells = load.cells /\ load'.meta = load.meta /\ load'.calendarOk = load.calendarOk
          /\ load'.offset = load.offset
          /\ load'.pc = load.pc \/ (load.pc = "overlay" /\ load'.pc = "shown")
      BY <1>1, <2>4 DEF CountDays, ReadThrough, CoverageFails, ShowLoad, LoadType
    <3> QED BY <2>1, <3>1, CellsUndisturbed
  <2> QED BY <1>8, <2>2, <2>3, <2>4
<1>9. CASE UNCHANGED recordsVars
  BY <1>9, CellsUndisturbed DEF recordsVars, tables
<1> QED BY <1>2, <1>3, <1>4, <1>5, <1>6, <1>7, <1>8, <1>9 DEF RecordsNext

\* Everything gathered is accounted for along every behavior.
LEMMA Gathering == RecordsSpec => []GatherInv
<1>1. RecordsInit => GatherInv
  <2> SUFFICES ASSUME RecordsInit PROVE GatherInv
    OBVIOUS
  <2>1. RecordsTypeInv
    BY RecordsInitTyped
  <2>2. /\ load.pc = "idle" /\ load.rows = [x \in Rows |-> NoRow] /\ load.since = {}
        /\ load.standing = {x \in Present : Untied(x)} /\ load.calendarOk
    BY DEF RecordsInit, FreshLoad
  <2>3. RowsInv
    BY <2>2 DEF RowsInv, Gathered
  <2>4. CellsInv
    BY <2>2 DEF CellsInv
  <2> QED BY <2>1, <2>3, <2>4 DEF GatherInv
<1>2. GatherInv /\ [RecordsNext]_recordsVars => GatherInv'
  BY RecordsTypes, RowsKept, CellsKept DEF GatherInv
<1> QED BY <1>1, <1>2, PTL DEF RecordsSpec

\* Paging loses no row, for every size of page, every order of the rows that
\* the database does not tell apart, and whatever is inserted between two
\* pages: a row only moves further back, and a short page has nothing beyond.
THEOREM LoadsAreComplete == RecordsSpec => []LoadComplete
<1>1. GatherInv => LoadComplete
  <2> SUFFICES ASSUME GatherInv, Gathered, "name" \notin load.since, NEW x \in load.standing
               PROVE  load.rows[x] # NoRow /\ ("attendance" \notin load.since => load.rows[x] = attendance[x])
    BY DEF LoadComplete
  <2>1. x \in Present /\ load.rows[x] # NoRow
    BY DEF GatherInv, RowsInv
  <2> QED BY <2>1 DEF GatherInv, RowsInv, Present
<1> QED BY <1>1, Gathering, PTL

\* The overlay is the calendar, whole, and the last days are those of the
\* whole calendar, unless a report was committed or reverted meanwhile.
THEOREM OverlaysAreExact == RecordsSpec => []OverlayExact
<1>1. GatherInv => OverlayExact
  <2> SUFFICES ASSUME GatherInv, load.pc \in {"overlay", "shown"}, load.calendarOk, "calendar" \notin load.since
               PROVE  /\ load.cells = calendar
                      /\ \A e \in Employees :
                           LET last == Most({x[2] : x \in {y \in Calendared : y[1] = e}}) IN
                           load.meta[e] = IF last = 0 THEN NoMeta
                                          ELSE [date |-> last, kind |-> calendar[<<e, last>>].kind]
    BY DEF OverlayExact
  <2>1. load.cells = CellsOf(Calendared) /\ load.meta = LastOf(Calendared)
    BY DEF GatherInv, CellsInv
  <2>2. CellsOf(Calendared) = calendar
    BY DEF CellsOf, Calendared, GatherInv, RecordsTypeInv
  <2> QED BY <2>1, <2>2 DEF LastOf
<1> QED BY <1>1, Gathering, PTL

----------------------------------------------------------------------------
(* The grid and the endpoint                                               *)

\* What each status of the browser says of the swipes and of the calendar.
LEMMA OverlaySays ==
  ASSUME NEW r, NEW c
  PROVE  /\ ClassifyOverlay(r, c) = "absent" =>
              r.kind = "working" /\ ~HasPunch(r) /\ ~r.holiday /\ ~(r.date > c.today) /\ r.date # c.today
         /\ ClassifyOverlay(r, c) \in ShownSwiped => HasPunch(r)
         /\ PunchCount(r) \in {1, 2} /\ HasPunch(r) /\ ~(r.date > c.today) => ClassifyOverlay(r, c) \notin ShownUnswiped
  BY DEF ClassifyOverlay, PunchStatus, WorkingUnpunched, ShownSwiped, ShownUnswiped, NoKind

LEMMA LegacySays ==
  ASSUME NEW r, NEW c
  PROVE  /\ ClassifyLegacy(r, c) # "absent"
         /\ ClassifyLegacy(r, c) \in ShownSwiped => PunchCount(r) > 0
         /\ PunchCount(r) \in {1, 2} /\ ~(r.date > c.today) => ClassifyLegacy(r, c) \notin ShownUnswiped
  BY DEF ClassifyLegacy, PunchStatus, ShownSwiped, ShownUnswiped

LEMMA BackendSays ==
  ASSUME NEW r, NEW c, NEW day
  PROVE  /\ ClassifyBackendLegacy(r, c, day) = "absent" => day.status = "absent"
         /\ ClassifyBackendLegacy(r, c, day) \in ShownSwiped =>
              day.status = "present" \/ (day.status = "pending" /\ day.progress)
         /\ day.status = "present" => ClassifyBackendLegacy(r, c, day) \notin ShownUnswiped
         /\ day.status = "none" => ClassifyBackendLegacy(r, c, day) = "none"
  BY DEF ClassifyBackendLegacy, ShownSwiped, ShownUnswiped

\* What the endpoint says of them.
Verdicts == {"non_working", "pending", "no_data", "present", "on_leave", "absent", "unverified", "wfh_exempt"}

LEMMA ServerSays ==
  ASSUME NEW r, NEW c, NEW punches, NEW through, NEW exempt \in BOOLEAN
  PROVE  LET day == ServerDay(r, c, punches, through, exempt)
             status == day.status
         IN /\ status \in Verdicts
            /\ status = "wfh_exempt" => exempt
            /\ status = "present" => ServerHasPunch(r) /\ ~(r.date > c.today)
            /\ status = "on_leave" => r.kind = "leave" \/ r.leave
            /\ status \in {"absent", "on_leave", "unverified"} => ~ServerHasPunch(r)
            /\ status = "non_working" => IsWeekend(r.date, c) \/ r.holiday
            /\ status = "no_data" => r.date \notin punches
            /\ status = "pending" => r.date > c.today \/ (r.date = c.today /\ ~ServerHasPunch(r))
            /\ status = "unverified" => ~(r.date <= through)
            /\ status = "pending" => ~day.progress \/ exempt
<1> DEFINE s == ServerStatus(r, c, punches, through)
           d == ServerDay(r, c, punches, through, exempt)
<1>1. /\ d.status = IF exempt THEN "wfh_exempt" ELSE s
      /\ d.progress => s = "present"
  BY DEF ServerDay
<1>2. /\ s \in Verdicts \ {"wfh_exempt"}
      /\ s = "present" => ServerHasPunch(r) /\ ~(r.date > c.today)
      /\ s = "on_leave" => r.kind = "leave" \/ r.leave
      /\ s \in {"absent", "on_leave", "unverified"} => ~ServerHasPunch(r)
      /\ s = "non_working" => IsWeekend(r.date, c) \/ r.holiday
      /\ s = "no_data" => r.date \notin punches
      /\ s = "pending" => r.date > c.today \/ (r.date = c.today /\ ~ServerHasPunch(r))
      /\ s = "unverified" => ~(r.date <= through)
  BY DEF ServerStatus, Verdicts
<1> HIDE DEF s, d
<1> QED BY <1>1, <1>2 DEF d, Verdicts

\* A row gathered as it is in the table has the same swipes for both.
LEMMA SameSwipes ==
  ASSUME NEW x \in Rows, load.rows[x] = attendance[x], RecordsTypeInv
  PROVE  /\ HasPunch(RecordOf(x)) => ServerHasPunch(TableRecord(x))
         /\ ServerHasPunch(TableRecord(x)) => HasPunch(RecordOf(x)) /\ x \in Present
         /\ PunchCount(RecordOf(x)) > 0 => HasPunch(RecordOf(x))
         /\ PunchCount(TableRecord(x)) > 0 => PunchCount(RecordOf(x)) \in {1, 2} /\ HasPunch(RecordOf(x))
<1> DEFINE r == RecordOf(x)
           t == TableRecord(x)
<1>1. /\ r.checkIn = t.checkIn /\ r.checkOut = t.checkOut /\ r.flag = t.flag
      /\ t.checkIn \/ t.checkOut \/ t.flag => x \in Present
  BY DEF RecordOf, TableRecord, Present
<1> HIDE DEF r, t
<1>2. /\ HasPunch(r) <=> r.checkIn \/ r.checkOut \/ r.flag
      /\ PunchCount(r) > 0 => HasPunch(r)
      /\ PunchCount(t) = PunchCount(r)
      /\ PunchCount(r) > 0 => PunchCount(r) \in {1, 2}
  BY <1>1 DEF HasPunch, PunchCount
<1> QED BY <1>1, <1>2 DEF ServerHasPunch, r, t

\* The calendar cell a record shows is the one in the table, or none.
LEMMA SameCell ==
  ASSUME NEW x \in Rows, GatherInv, load.pc = "shown", "calendar" \in load.since => load.cells[x] = calendar[x],
         RecordOf(x).kind = "working"
  PROVE  calendar[x] # NoCell /\ calendar[x].kind = "working"
<1>1. load.cells[x] # NoCell /\ load.cells[x].kind = "working"
  BY DEF RecordOf, NoKind
<1>2. load.calendarOk /\ "calendar" \notin load.since => load.cells[x] = calendar[x]
  BY DEF GatherInv, CellsInv, CellsOf, Calendared
<1>3. ~load.calendarOk => load.cells[x] = NoCell
  BY DEF GatherInv, CellsInv, Nothing
<1> QED BY <1>1, <1>2, <1>3

\* No calendar day lies past the report.
LEMMA WithinReport ==
  ASSUME NEW x \in Rows, calendar[x] # NoCell
  PROVE  x[2] <= Through
<1> DEFINE dates == {y[2] : y \in Calendared}
<1>1. dates \subseteq Days /\ Through = Most(dates) /\ x[2] \in dates
  BY DEF Calendared, Rows, Through
<1> HIDE DEF dates
<1> QED BY <1>1, MostIs

\* The status in the grid beside the verdict of the endpoint, whatever was
\* written, committed or reverted while the page loaded: "absent" in the browser
\* needs a working cell of the overlay, which is the calendar's, and no swipe; a
\* status with a swipe needs a swipe, and a stored time gives one.
THEOREM VerdictsAreCompatible == RecordsSpec => []VerdictsCompatible
<1>1. GatherInv => VerdictsCompatible
  <2> SUFFICES ASSUME GatherInv, load.pc = "shown", NEW x \in Rows, load.rows[x] = attendance[x],
                      "calendar" \in load.since => load.cells[x] = calendar[x],
                      NEW day \in {NoBackend, Verdict(x)}
               PROVE  LET shown == Status(x, day)
                          verdict == Verdict(x).status
                      IN /\ shown = "absent" => \/ verdict \in {"absent", "no_data"} \/ x \in Exempt
                                                \/ verdict = "on_leave" /\ x \in Leaves
                                                \/ verdict = "non_working" /\ x[2] \in Weekend
                         /\ shown \in ShownSwiped => \/ verdict \in {"present", "non_working"} \/ x \in Exempt
                                                     \/ verdict = "pending" /\ x[2] > Today
                         /\ verdict = "present" /\ PunchCount(TableRecord(x)) > 0 => shown \notin ShownUnswiped
    BY Zenon DEF VerdictsCompatible
  <2> DEFINE r == RecordOf(x)
             t == TableRecord(x)
             c == PageContext
             shown == Status(x, day)
             v == Verdict(x).status
  <2>1. /\ HasPunch(r) => ServerHasPunch(t)
        /\ ServerHasPunch(t) => HasPunch(r) /\ x \in Present
        /\ PunchCount(r) > 0 => HasPunch(r)
        /\ PunchCount(t) > 0 => PunchCount(r) \in {1, 2} /\ HasPunch(r)
    BY SameSwipes DEF GatherInv
  <2>2. /\ v \in Verdicts
        /\ v = "wfh_exempt" => x \in Exempt
        /\ v = "present" => ServerHasPunch(t) /\ ~(t.date > c.today)
        /\ v = "on_leave" => t.kind = "leave" \/ t.leave
        /\ v \in {"absent", "on_leave", "unverified"} => ~ServerHasPunch(t)
        /\ v = "non_working" => IsWeekend(t.date, c) \/ t.holiday
        /\ v = "no_data" => t.date \notin PunchDates
        /\ v = "pending" => t.date > c.today \/ (t.date = c.today /\ ~ServerHasPunch(t))
        /\ v = "unverified" => ~(t.date <= Through)
        /\ v = "pending" => ~Verdict(x).progress \/ x \in Exempt
    <3>1. (x \in Exempt) \in BOOLEAN
      OBVIOUS
    <3> HIDE DEF t, c
    <3> QED BY <3>1, ServerSays DEF Verdict, t, c
  <2>3. /\ t.date = x[2] /\ r.date = x[2] /\ c.today = Today /\ t.leave = (x \in Leaves)
        /\ t.kind = (IF calendar[x] = NoCell THEN NoKind ELSE calendar[x].kind)
        /\ t.holiday = (x[2] \in Holidays) /\ (IsWeekend(x[2], c) <=> x[2] \in Weekend)
    BY DEF TableRecord, RecordOf, PageContext, IsWeekend
  <2>4. r.kind = "working" => t.kind = "working" /\ x[2] <= Through
    BY <2>3, SameCell, WithinReport
  <2>5. ServerHasPunch(t) => x[2] \in PunchDates
    BY <2>1 DEF PunchDates
  <2>6. r.kind = "working" => (r.holiday <=> x[2] \in Holidays)
    <3> SUFFICES ASSUME r.kind = "working" PROVE load.rows[x] # NoRow /\ (r.holiday <=> x[2] \in Holidays)
      OBVIOUS
    <3>1. load.rows[x] # NoRow
      BY DEF RecordOf, NoKind
    <3> QED BY <3>1 DEF RecordOf
  <2>7. Today \in Nat /\ x[2] \in Nat
    BY DaysAssumption DEF Rows
  <2> HIDE DEF r, t, c
  <2>8. CASE c.leaveActive
    <3>1. shown = ClassifyOverlay(r, c)
      BY <2>8 DEF Status, ClassifyDay, r, c
    <3>2. /\ shown = "absent" => r.kind = "working" /\ ~HasPunch(r) /\ ~r.holiday /\ ~(r.date > c.today) /\ r.date # c.today
          /\ shown \in ShownSwiped => HasPunch(r)
          /\ PunchCount(r) \in {1, 2} /\ HasPunch(r) /\ ~(r.date > c.today) => shown \notin ShownUnswiped
      BY <3>1, OverlaySays
    <3> HIDE DEF shown, v
    <3>3. ASSUME shown = "absent"
          PROVE  \/ v \in {"absent", "no_data"} \/ x \in Exempt
                 \/ v = "on_leave" /\ x \in Leaves
                 \/ v = "non_working" /\ x[2] \in Weekend
      <4>1. v \notin {"present", "pending", "unverified"}
        BY <2>1, <2>2, <2>3, <2>4, <3>2, <3>3
      <4>2. v = "on_leave" => x \in Leaves
        BY <2>2, <2>3, <2>4, <3>2, <3>3
      <4>3. v = "non_working" => x[2] \in Weekend
        BY <2>2, <2>3, <2>6, <3>2, <3>3
      <4> QED BY <2>2, <4>1, <4>2, <4>3 DEF Verdicts
    <3>4. ASSUME shown \in ShownSwiped
          PROVE  v \in {"present", "non_working"} \/ x \in Exempt \/ (v = "pending" /\ x[2] > Today)
      <4>1. ServerHasPunch(t)
        BY <2>1, <3>2, <3>4
      <4> QED BY <2>2, <2>3, <2>5, <4>1 DEF Verdicts
    <3>5. v = "present" /\ PunchCount(t) > 0 => shown \notin ShownUnswiped
      BY <2>1, <2>2, <2>3, <3>2
    <3> QED BY <3>3, <3>4, <3>5 DEF shown, v, t
  <2>9. CASE ~c.leaveActive
    <3> DEFINE told == ClassifyBackendLegacy(r, c, day)
    <3>1. shown = IF told = "none" THEN ClassifyLegacy(r, c) ELSE told
      BY <2>9 DEF Status, ClassifyDay, r, c
    <3>2. /\ told = "absent" => day.status = "absent"
          /\ told \in ShownSwiped => day.status = "present" \/ (day.status = "pending" /\ day.progress)
          /\ day.status = "present" => told \notin ShownUnswiped
          /\ day.status = "none" => told = "none"
      BY BackendSays
    <3>3. /\ ClassifyLegacy(r, c) # "absent"
          /\ ClassifyLegacy(r, c) \in ShownSwiped => PunchCount(r) > 0
          /\ PunchCount(r) \in {1, 2} /\ ~(r.date > c.today) => ClassifyLegacy(r, c) \notin ShownUnswiped
      BY LegacySays
    <3>4. day.status = "none" \/ (day.status = v /\ day.progress = Verdict(x).progress)
      BY DEF NoBackend
    <3> HIDE DEF told, shown, v
    <3>5. shown = "absent" => v = "absent"
      BY <3>1, <3>2, <3>3, <3>4
    <3>6. ASSUME shown \in ShownSwiped
          PROVE  v \in {"present", "non_working"} \/ x \in Exempt \/ (v = "pending" /\ x[2] > Today)
      <4>1. v = "present" \/ (v = "pending" /\ x \in Exempt) \/ ServerHasPunch(t)
        BY <2>1, <2>2, <3>1, <3>2, <3>3, <3>4, <3>6
      <4> QED BY <2>2, <2>3, <2>5, <4>1 DEF Verdicts
    <3>7. v = "present" /\ PunchCount(t) > 0 => shown \notin ShownUnswiped
      BY <2>1, <2>2, <2>3, <3>1, <3>2, <3>3, <3>4
    <3> QED BY <3>5, <3>6, <3>7 DEF shown, v, t
  <2> QED BY <2>8, <2>9
<1> QED BY <1>1, Gathering, PTL

----------------------------------------------------------------------------
(* Sums                                                                     *)
(*                                                                         *)
(* SumFunctionOnSet is a fold, that is CHOOSE of a function defined by      *)
(* recursion on subsets.  AddsExists constructs it for every finite set,    *)
(* and induction on finite sets takes the sets with a property as a set.    *)

\* Induction on finite sets, with the sets that have the property as a set.
LEMMA SetInduction ==
  ASSUME NEW S, IsFiniteSet(S), NEW G,
         \A T \in SUBSET S : (\A U \in SUBSET T : U # T => U \in G) => T \in G
  PROVE  S \in G
<1> DEFINE Bad == {T \in SUBSET S : T \notin G}
           sizes == {Cardinality(T) : T \in Bad}
<1> SUFFICES ASSUME Bad # {} PROVE FALSE
  OBVIOUS
<1>1. \A T \in SUBSET S : IsFiniteSet(T) /\ Cardinality(T) \in Nat
  BY FS_Subset, FS_CardinalityType
<1>2. PICK m \in sizes : \A k \in sizes : m <= k
  <2>1. sizes \subseteq Nat /\ sizes # {}
    BY <1>1
  <2> HIDE DEF sizes
  <2> QED BY <2>1, Smallest
<1>3. PICK T \in Bad : \A U \in Bad : Cardinality(T) <= Cardinality(U)
  BY <1>2
<1>4. \A U \in SUBSET T : U # T => U \in G
  <2> TAKE U \in SUBSET T
  <2>1. IsFiniteSet(T) /\ Cardinality(T) \in Nat /\ Cardinality(U) \in Nat /\ U \in SUBSET S
    BY <1>1
  <2>2. Cardinality(U) <= Cardinality(T) /\ (Cardinality(U) = Cardinality(T) => U = T)
    BY <2>1, FS_Subset
  <2> QED BY <1>3, <2>1, <2>2
<1> QED BY <1>3, <1>4

\* it adds up fun over every part of S.
FirstOf(s) == CHOOSE x \in s : TRUE
AddFirst(it, fun, s) == IF s = {} THEN 0 ELSE fun[FirstOf(s)] + it[s \ {FirstOf(s)}]
Adds(it, fun, S) == it = [s \in SUBSET S |-> AddFirst(it, fun, s)]

LEMMA SumIs ==
  ASSUME NEW fun, NEW S
  PROVE  SumFunctionOnSet(fun, S) = (CHOOSE it : Adds(it, fun, S))[S]
BY DEF SumFunctionOnSet, FoldFunctionOnSet, MapThenFoldSet, Adds, AddFirst, FirstOf

LEMMA FirstIn == \A s : s # {} => FirstOf(s) \in s
BY DEF FirstOf

LEMMA AddsAt ==
  ASSUME NEW fun, NEW S, NEW it, Adds(it, fun, S), NEW s \in SUBSET S
  PROVE  it[s] = AddFirst(it, fun, s)
BY DEF Adds

\* Two that add up agree where both do.
LEMMA AddsAgree ==
  ASSUME NEW fun, NEW gun, NEW S, NEW T, IsFiniteSet(S), S \subseteq T, \A x \in S : fun[x] = gun[x],
         NEW it, Adds(it, fun, S), NEW jt, Adds(jt, gun, T)
  PROVE  it[S] = jt[S]
<1> DEFINE G == {s \in SUBSET S : it[s] = jt[s]}
<1>1. ASSUME NEW s \in SUBSET S, \A u \in SUBSET s : u # s => u \in G PROVE s \in G
  <2>1. it[s] = AddFirst(it, fun, s) /\ jt[s] = AddFirst(jt, gun, s)
    BY AddsAt
  <2>2. CASE s = {}
    BY <2>1, <2>2 DEF AddFirst
  <2>3. CASE s # {}
    <3>1. FirstOf(s) \in s
      BY <2>3, FirstIn
    <3>2. it[s \ {FirstOf(s)}] = jt[s \ {FirstOf(s)}]
      BY <1>1, <3>1
    <3> QED BY <2>1, <2>3, <3>1, <3>2 DEF AddFirst
  <2> QED BY <2>2, <2>3
<1>2. S \in G
  <2> HIDE DEF G
  <2> QED BY <1>1, SetInduction
<1> QED BY <1>2

\* There is one for every finite set.
LEMMA AddsExists ==
  ASSUME NEW fun, NEW S, IsFiniteSet(S)
  PROVE  \E it : Adds(it, fun, S)
<1> DEFINE G == {T \in SUBSET S : \E it : Adds(it, fun, T)}
<1>1. ASSUME NEW T \in SUBSET S, \A U \in SUBSET T : U # T => U \in G PROVE T \in G
  <2> DEFINE Own(U) == CHOOSE it : Adds(it, fun, U)
             sums == [U \in SUBSET T |-> Own(U)[U]]
             it == [s \in SUBSET T |-> AddFirst(sums, fun, s)]
  <2>1. ASSUME NEW U \in SUBSET T, U # T PROVE it[U] = sums[U]
    <3>1. Adds(Own(U), fun, U)
      BY <1>1, <2>1
    <3> HIDE DEF Own
    <3>2. sums[U] = AddFirst(Own(U), fun, U) /\ it[U] = AddFirst(sums, fun, U)
      BY <3>1, AddsAt
    <3>3. CASE U = {}
      BY <3>2, <3>3 DEF AddFirst
    <3>4. CASE U # {}
      <4> DEFINE V == U \ {FirstOf(U)}
      <4>1. V \in SUBSET U /\ V \in SUBSET T /\ V # T
        BY <2>1, <3>4, FirstIn
      <4>2. Adds(Own(V), fun, V)
        BY <1>1, <4>1 DEF Own
      <4>3. IsFiniteSet(V)
        BY <4>1, FS_Subset
      <4> HIDE DEF V
      <4>4. Own(V)[V] = Own(U)[V]
        BY <3>1, <4>1, <4>2, <4>3, AddsAgree
      <4>5. sums[V] = Own(U)[V]
        BY <4>1, <4>4
      <4> QED BY <3>2, <3>4, <4>5 DEF AddFirst, V
    <3> QED BY <3>3, <3>4
  <2> HIDE DEF sums
  <2>2. ASSUME NEW s \in SUBSET T PROVE AddFirst(sums, fun, s) = AddFirst(it, fun, s)
    <3>1. CASE s = {}
      BY <3>1 DEF AddFirst
    <3>2. CASE s # {}
      <4>1. s \ {FirstOf(s)} \in SUBSET T /\ s \ {FirstOf(s)} # T
        BY <3>2, FirstIn
      <4>2. it[s \ {FirstOf(s)}] = sums[s \ {FirstOf(s)}]
        BY <2>1, <4>1
      <4> HIDE DEF it
      <4> QED BY <3>2, <4>2 DEF AddFirst
    <3> QED BY <3>1, <3>2
  <2>3. Adds(it, fun, T)
    <3>1. it = [s \in SUBSET T |-> AddFirst(sums, fun, s)]
      OBVIOUS
    <3> HIDE DEF it
    <3> QED BY <2>2, <3>1 DEF Adds
  <2> QED BY <2>3
<1>2. S \in G
  <2> HIDE DEF G
  <2> QED BY <1>1, SetInduction
<1> QED BY <1>2

\* The sum of fun over S.
LEMMA SumStep ==
  ASSUME NEW fun, NEW S, IsFiniteSet(S)
  PROVE  /\ SumFunctionOnSet(fun, {}) = 0
         /\ S # {} => SumFunctionOnSet(fun, S) = fun[FirstOf(S)] + SumFunctionOnSet(fun, S \ {FirstOf(S)})
<1> DEFINE Own(T) == CHOOSE it : Adds(it, fun, T)
<1>1. ASSUME NEW T, IsFiniteSet(T)
      PROVE  Adds(Own(T), fun, T) /\ SumFunctionOnSet(fun, T) = Own(T)[T] /\ Own(T)[T] = AddFirst(Own(T), fun, T)
  <2>1. Adds(Own(T), fun, T) /\ SumFunctionOnSet(fun, T) = Own(T)[T]
    BY <1>1, AddsExists, SumIs
  <2> HIDE DEF Own
  <2>2. T \in SUBSET T
    OBVIOUS
  <2> QED BY <2>1, <2>2, AddsAt
<1> HIDE DEF Own
<1>2. SumFunctionOnSet(fun, {}) = 0
  BY <1>1, FS_EmptySet DEF AddFirst
<1>3. ASSUME S # {} PROVE SumFunctionOnSet(fun, S) = fun[FirstOf(S)] + SumFunctionOnSet(fun, S \ {FirstOf(S)})
  <2> DEFINE T == S \ {FirstOf(S)}
  <2>1. IsFiniteSet(T) /\ T \subseteq S
    BY FS_Subset
  <2>2. Own(S)[S] = fun[FirstOf(S)] + Own(S)[T]
    BY <1>1, <1>3 DEF AddFirst
  <2> HIDE DEF T
  <2>3. Own(T)[T] = Own(S)[T]
    BY <1>1, <2>1, AddsAgree
  <2>4. SumFunctionOnSet(fun, S) = fun[FirstOf(S)] + SumFunctionOnSet(fun, T)
    BY <1>1, <2>1, <2>2, <2>3
  <2> QED BY <2>4 DEF T
<1> QED BY <1>2, <1>3

LEMMA SumType ==
  ASSUME NEW fun, NEW S, IsFiniteSet(S), \A x \in S : fun[x] \in Nat
  PROVE  SumFunctionOnSet(fun, S) \in Nat
<1> DEFINE G == {T \in SUBSET S : SumFunctionOnSet(fun, T) \in Nat}
<1>1. ASSUME NEW T \in SUBSET S, \A U \in SUBSET T : U # T => U \in G PROVE T \in G
  <2>1. IsFiniteSet(T)
    BY FS_Subset
  <2>2. CASE T = {}
    <3>1. SumFunctionOnSet(fun, {}) = 0
      BY SumStep
    <3> QED BY <2>2, <3>1
  <2>3. CASE T # {}
    <3>1. FirstOf(T) \in T
      BY <2>3, FirstIn
    <3>2. SumFunctionOnSet(fun, T \ {FirstOf(T)}) \in Nat
      BY <1>1, <3>1
    <3> QED BY <2>1, <2>3, <3>1, <3>2, SumStep
  <2> QED BY <2>2, <2>3
<1>2. S \in G
  <2> HIDE DEF G
  <2> QED BY <1>1, SetInduction
<1> QED BY <1>2

\* Any member can be taken out first.
LEMMA SumTake ==
  ASSUME NEW fun, NEW S, IsFiniteSet(S), \A x \in S : fun[x] \in Nat, NEW z \in S
  PROVE  SumFunctionOnSet(fun, S) = fun[z] + SumFunctionOnSet(fun, S \ {z})
<1> DEFINE G == {T \in SUBSET S : \A y \in T : SumFunctionOnSet(fun, T) = fun[y] + SumFunctionOnSet(fun, T \ {y})}
<1>1. ASSUME NEW T \in SUBSET S, \A U \in SUBSET T : U # T => U \in G PROVE T \in G
  <2> SUFFICES ASSUME NEW y \in T PROVE SumFunctionOnSet(fun, T) = fun[y] + SumFunctionOnSet(fun, T \ {y})
    OBVIOUS
  <2> DEFINE x == FirstOf(T)
  <2>1. x \in T
    BY FirstIn
  <2>2. IsFiniteSet(T) /\ IsFiniteSet(T \ {x}) /\ IsFiniteSet(T \ {y}) /\ IsFiniteSet((T \ {x}) \ {y})
    <3>1. T \ {x} \in SUBSET S /\ T \ {y} \in SUBSET S /\ (T \ {x}) \ {y} \in SUBSET S
      OBVIOUS
    <3> HIDE DEF x
    <3> QED BY <3>1, FS_Subset
  <2>3. SumFunctionOnSet(fun, T) = fun[x] + SumFunctionOnSet(fun, T \ {x})
    BY <2>2, SumStep
  <2> HIDE DEF x
  <2>4. CASE x = y
    BY <2>3, <2>4
  <2>5. CASE x # y
    <3>1. T \ {x} \in G /\ T \ {y} \in G /\ y \in T \ {x} /\ x \in T \ {y} /\ (T \ {x}) \ {y} = (T \ {y}) \ {x}
      BY <1>1, <2>1, <2>5
    <3>2. SumFunctionOnSet(fun, T \ {x}) = fun[y] + SumFunctionOnSet(fun, (T \ {x}) \ {y})
          /\ SumFunctionOnSet(fun, T \ {y}) = fun[x] + SumFunctionOnSet(fun, (T \ {x}) \ {y})
      BY <3>1
    <3>3. SumFunctionOnSet(fun, (T \ {x}) \ {y}) \in Nat /\ fun[x] \in Nat /\ fun[y] \in Nat
      BY <2>1, <2>2, SumType
    <3> QED BY <2>3, <3>2, <3>3
  <2> QED BY <2>4, <2>5
<1>2. S \in G
  <2> HIDE DEF G
  <2> QED BY <1>1, SetInduction
<1> QED BY <1>2

LEMMA SumEmpty == \A fun : SumFunctionOnSet(fun, {}) = 0
BY SumStep, FS_EmptySet

LEMMA SumSame ==
  ASSUME NEW fun, NEW gun, NEW S, IsFiniteSet(S), \A x \in S : fun[x] = gun[x]
  PROVE  SumFunctionOnSet(fun, S) = SumFunctionOnSet(gun, S)
<1> DEFINE it == CHOOSE it : Adds(it, fun, S)
           jt == CHOOSE jt : Adds(jt, gun, S)
<1>1. Adds(it, fun, S) /\ Adds(jt, gun, S)
  BY AddsExists
<1>2. SumFunctionOnSet(fun, S) = it[S] /\ SumFunctionOnSet(gun, S) = jt[S]
  BY SumIs
<1> HIDE DEF it, jt
<1> QED BY <1>1, <1>2, AddsAgree

LEMMA SumPlus ==
  ASSUME NEW S, IsFiniteSet(S), NEW fun, NEW gun, NEW hun,
         \A x \in S : fun[x] \in Nat /\ gun[x] \in Nat /\ hun[x] = fun[x] + gun[x]
  PROVE  SumFunctionOnSet(hun, S) = SumFunctionOnSet(fun, S) + SumFunctionOnSet(gun, S)
<1> DEFINE G == {T \in SUBSET S : SumFunctionOnSet(hun, T) = SumFunctionOnSet(fun, T) + SumFunctionOnSet(gun, T)}
<1>1. ASSUME NEW T \in SUBSET S, \A U \in SUBSET T : U # T => U \in G PROVE T \in G
  <2>1. CASE T = {}
    BY <2>1, SumEmpty
  <2>2. CASE T # {}
    <3> DEFINE x == FirstOf(T)
               U == T \ {x}
    <3>1. x \in T /\ U \in G /\ U \in SUBSET S
      BY <1>1, <2>2, FirstIn
    <3>2. IsFiniteSet(T) /\ IsFiniteSet(U)
      BY <3>1, FS_Subset
    <3>3. /\ SumFunctionOnSet(fun, T) = fun[x] + SumFunctionOnSet(fun, U)
          /\ SumFunctionOnSet(gun, T) = gun[x] + SumFunctionOnSet(gun, U)
          /\ SumFunctionOnSet(hun, T) = hun[x] + SumFunctionOnSet(hun, U)
      BY <2>2, <3>2, SumStep
    <3>4. SumFunctionOnSet(hun, U) = SumFunctionOnSet(fun, U) + SumFunctionOnSet(gun, U)
      BY <3>1
    <3>5. SumFunctionOnSet(fun, U) \in Nat /\ SumFunctionOnSet(gun, U) \in Nat
      <4> HIDE DEF U
      <4> QED BY <3>1, <3>2, SumType
    <3> HIDE DEF U, x
    <3>6. SumFunctionOnSet(hun, T) = SumFunctionOnSet(fun, T) + SumFunctionOnSet(gun, T)
      BY <3>1, <3>3, <3>4, <3>5
    <3> QED BY <3>6
  <2> QED BY <2>1, <2>2
<1>2. S \in G
  <2> HIDE DEF G
  <2> QED BY <1>1, SetInduction
<1> QED BY <1>2

\* What is 0 outside a part adds up to the sum over that part.
LEMMA SumPart ==
  ASSUME NEW S, IsFiniteSet(S), NEW P, P \subseteq S, NEW fun, NEW gun,
         \A x \in S : fun[x] \in Nat /\ gun[x] = IF x \in P THEN fun[x] ELSE 0
  PROVE  SumFunctionOnSet(gun, S) = SumFunctionOnSet(fun, P)
<1> DEFINE G == {T \in SUBSET S : SumFunctionOnSet(gun, T) = SumFunctionOnSet(fun, T \cap P)}
<1>1. ASSUME NEW T \in SUBSET S, \A U \in SUBSET T : U # T => U \in G PROVE T \in G
  <2>1. CASE T = {}
    <3>1. T \cap P = {} /\ SumFunctionOnSet(gun, {}) = 0 /\ SumFunctionOnSet(fun, {}) = 0
      BY <2>1, SumEmpty
    <3> QED BY <2>1, <3>1
  <2>2. CASE T # {}
    <3> DEFINE x == FirstOf(T)
               U == T \ {x}
    <3>1. x \in T /\ U \in G /\ U \in SUBSET S
      BY <1>1, <2>2, FirstIn
    <3>2. IsFiniteSet(T) /\ IsFiniteSet(U) /\ IsFiniteSet(T \cap P) /\ IsFiniteSet(U \cap P)
      <4>1. U \in SUBSET S /\ T \cap P \in SUBSET S /\ U \cap P \in SUBSET S
        BY <3>1
      <4> HIDE DEF U
      <4> QED BY <4>1, FS_Subset
    <3>3. SumFunctionOnSet(gun, T) = gun[x] + SumFunctionOnSet(gun, U)
      BY <2>2, <3>2, SumStep
    <3>4. SumFunctionOnSet(gun, U) = SumFunctionOnSet(fun, U \cap P) /\ SumFunctionOnSet(fun, U \cap P) \in Nat
      <4>1. SumFunctionOnSet(gun, U) = SumFunctionOnSet(fun, U \cap P)
        BY <3>1
      <4>2. \A y \in U \cap P : fun[y] \in Nat
        OBVIOUS
      <4> HIDE DEF U
      <4> QED BY <3>2, <4>1, <4>2, SumType
    <3>5. CASE x \in P
      <4>1. (T \cap P) \ {x} = U \cap P /\ x \in T \cap P /\ gun[x] = fun[x]
        BY <3>1, <3>5
      <4>2. \A y \in T \cap P : fun[y] \in Nat
        OBVIOUS
      <4> HIDE DEF x, U
      <4>3. SumFunctionOnSet(fun, T \cap P) = fun[x] + SumFunctionOnSet(fun, (T \cap P) \ {x})
        BY <3>2, <4>1, <4>2, SumTake
      <4> QED BY <3>3, <3>4, <4>1, <4>3
    <3>6. CASE x \notin P
      <4>1. T \cap P = U \cap P /\ gun[x] = 0
        BY <3>1, <3>6
      <4> HIDE DEF x, U
      <4>2. SumFunctionOnSet(fun, T \cap P) = SumFunctionOnSet(fun, U \cap P)
        BY <4>1, Zenon
      <4>3. SumFunctionOnSet(gun, T) = SumFunctionOnSet(fun, T \cap P)
        BY <3>3, <3>4, <4>1, <4>2
      <4> QED BY <4>3
    <3> QED BY <3>5, <3>6
  <2> QED BY <2>1, <2>2
<1>2. S \in G
  <2> HIDE DEF G
  <2> QED BY <1>1, SetInduction
<1>3. S \cap P = P
  OBVIOUS
<1> QED BY <1>2, <1>3

\* Whom of B does R relate a to, and whom of A to b.
Along(R, B, a) == {b \in B : <<a, b>> \in R}
Across(R, A, b) == {a \in A : <<a, b>> \in R}

\* R relates members of the finite sets A and B; along[a] is how many a is related to.
LEMMA SumPairs ==
  ASSUME NEW A, NEW B, IsFiniteSet(A), IsFiniteSet(B), NEW R, R \subseteq A \X B,
         NEW along, \A a \in A : along[a] = Cardinality(Along(R, B, a))
  PROVE  SumFunctionOnSet(along, A) = Cardinality(R) /\ IsFiniteSet(R)
<1> DEFINE In(T) == {p \in R : p[1] \in T}
           G == {T \in SUBSET A : SumFunctionOnSet(along, T) = Cardinality(In(T))}
<1>1. IsFiniteSet(R) /\ \A T \in SUBSET A : IsFiniteSet(In(T)) /\ Cardinality(In(T)) \in Nat
  <2>1. IsFiniteSet(A \X B)
    BY FS_Product
  <2>2. R \in SUBSET (A \X B) /\ \A T : In(T) \in SUBSET (A \X B)
    OBVIOUS
  <2> HIDE DEF In
  <2> QED BY <2>1, <2>2, FS_Subset, FS_CardinalityType
<1>2. ASSUME NEW T \in SUBSET A, \A U \in SUBSET T : U # T => U \in G PROVE T \in G
  <2>1. CASE T = {}
    <3>1. In(T) = {} /\ SumFunctionOnSet(along, {}) = 0 /\ Cardinality({}) = 0
      BY <2>1, SumEmpty, FS_EmptySet
    <3> QED BY <2>1, <3>1
  <2>2. CASE T # {}
    <3> DEFINE a == FirstOf(T)
               U == T \ {a}
               row == Along(R, B, a)
               pairs == {p \in R : p[1] = a}
    <3>1. a \in T /\ U \in G /\ U \in SUBSET A
      BY <1>2, <2>2, FirstIn
    <3>2. IsFiniteSet(T) /\ IsFiniteSet(row) /\ IsFiniteSet(pairs)
      <4>1. row \in SUBSET B /\ pairs \in SUBSET R
        BY DEF Along
      <4> HIDE DEF row, pairs
      <4> QED BY <1>1, <4>1, FS_Subset
    <3>3. SumFunctionOnSet(along, T) = along[a] + SumFunctionOnSet(along, U)
      BY <2>2, <3>2, SumStep
    <3>4. Cardinality(pairs) = along[a] /\ Cardinality(pairs) \in Nat
      <4> DEFINE g == [b \in row |-> <<a, b>>]
      <4>1. g \in Bijection(row, pairs)
        <5>1. g \in [row -> pairs]
          BY DEF Along
        <5>2. \A b, d \in row : g[b] = g[d] => b = d
          OBVIOUS
        <5>3. \A p \in pairs : \E b \in row : g[b] = p
          <6> TAKE p \in pairs
          <6>1. p = <<a, p[2]>> /\ p[2] \in row
            BY DEF Along
          <6> QED BY <6>1
        <5> HIDE DEF g, row, pairs
        <5> QED BY <5>1, <5>2, <5>3 DEF Bijection, Injection, Surjection, IsInjective
      <4>2. Cardinality(pairs) = Cardinality(row)
        <5> HIDE DEF g, row, pairs
        <5> QED BY <3>2, <4>1, FS_Bijection DEF ExistsBijection
      <4>3. along[a] = Cardinality(row)
        BY <3>1
      <4> HIDE DEF row, pairs
      <4> QED BY <3>2, <4>2, <4>3, FS_CardinalityType
    <3>5. In(T) = pairs \cup In(U) /\ pairs \cap In(U) = {}
      BY <3>1
    <3>6. Cardinality(pairs \cup In(U)) = Cardinality(pairs) + Cardinality(In(U)) - Cardinality({})
      <4> HIDE DEF pairs, In, U
      <4> QED BY <1>1, <3>1, <3>2, <3>5, FS_Union
    <3>7. SumFunctionOnSet(along, U) = Cardinality(In(U)) /\ Cardinality(In(U)) \in Nat
      BY <1>1, <3>1
    <3> HIDE DEF pairs, In, U, a
    <3>8. Cardinality({}) = 0
      BY FS_EmptySet
    <3>9. SumFunctionOnSet(along, T) = Cardinality(In(T))
      BY <3>3, <3>4, <3>5, <3>6, <3>7, <3>8
    <3> QED BY <3>9
  <2> QED BY <2>1, <2>2
<1>3. A \in G
  <2> HIDE DEF G
  <2> QED BY <1>2, SetInduction
<1>4. In(A) = R
  OBVIOUS
<1> QED BY <1>1, <1>3, <1>4

\* One may sum over the members, or over what names them one by one.
LEMMA SumNamed ==
  ASSUME NEW A, IsFiniteSet(A), NEW B, NEW g \in Bijection(A, B), NEW fun, NEW gun,
         \A a \in A : fun[a] \in Nat /\ gun[g[a]] = fun[a]
  PROVE  SumFunctionOnSet(gun, B) = SumFunctionOnSet(fun, A) /\ IsFiniteSet(B)
<1> DEFINE To(T) == {g[a] : a \in T}
           G == {T \in SUBSET A : SumFunctionOnSet(gun, To(T)) = SumFunctionOnSet(fun, T)}
<1>1. /\ IsFiniteSet(B) /\ To(A) = B /\ \A T \in SUBSET A : To(T) \in SUBSET B
      /\ \A a \in A : g[a] \in B
      /\ \A a, b \in A : g[a] = g[b] => a = b
  <2>1. \A a \in A : g[a] \in B
    BY DEF Bijection, Injection
  <2>2. To(A) = B
    BY <2>1 DEF Bijection, Surjection
  <2>3. IsFiniteSet(B)
    BY FS_Bijection DEF ExistsBijection
  <2>4. \A a, b \in A : g[a] = g[b] => a = b
    BY DEF Bijection, Injection, IsInjective
  <2> QED BY <2>1, <2>2, <2>3, <2>4
<1>2. ASSUME NEW T \in SUBSET A, \A U \in SUBSET T : U # T => U \in G PROVE T \in G
  <2>1. CASE T = {}
    <3>1. To(T) = {}
      BY <2>1
    <3> QED BY <2>1, <3>1, SumEmpty
  <2>2. CASE T # {}
    <3> DEFINE a == FirstOf(T)
               U == T \ {a}
    <3>1. a \in T /\ U \in G /\ U \in SUBSET A
      BY <1>2, <2>2, FirstIn
    <3>2. To(T) \ {g[a]} = To(U) /\ g[a] \in To(T)
      BY <1>1, <3>1
    <3>3. IsFiniteSet(T) /\ IsFiniteSet(To(T)) /\ \A b \in To(T) : gun[b] \in Nat
      <4>1. \A b \in To(T) : gun[b] \in Nat
        OBVIOUS
      <4>2. To(T) \in SUBSET B /\ T \in SUBSET A
        BY <1>1
      <4> HIDE DEF To
      <4> QED BY <1>1, <4>1, <4>2, FS_Subset
    <3>4. SumFunctionOnSet(fun, T) = fun[a] + SumFunctionOnSet(fun, U)
      BY <2>2, <3>3, SumStep
    <3>5. SumFunctionOnSet(gun, To(U)) = SumFunctionOnSet(fun, U) /\ gun[g[a]] = fun[a]
      BY <3>1
    <3> HIDE DEF To, a, U
    <3>6. SumFunctionOnSet(gun, To(T)) = gun[g[a]] + SumFunctionOnSet(gun, To(T) \ {g[a]})
      BY <3>2, <3>3, SumTake
    <3>7. SumFunctionOnSet(gun, To(T)) = SumFunctionOnSet(fun, T)
      BY <3>2, <3>4, <3>5, <3>6
    <3> QED BY <3>7
  <2> QED BY <2>1, <2>2
<1>3. A \in G
  <2> HIDE DEF G
  <2> QED BY <1>2, SetInduction
<1> QED BY <1>1, <1>3

LEMMA SumCount ==
  ASSUME NEW S, IsFiniteSet(S), NEW P, P \subseteq S, NEW fun, \A x \in S : fun[x] = IF x \in P THEN 1 ELSE 0
  PROVE  SumFunctionOnSet(fun, S) = Cardinality(P) /\ Cardinality(P) \in Nat
<1> DEFINE one == [x \in S |-> 1]
           R == {<<x, x>> : x \in P}
           along == [x \in S |-> Cardinality(Along(R, S, x))]
           g == [x \in P |-> <<x, x>>]
<1>1. IsFiniteSet(P) /\ Cardinality(P) \in Nat
  BY FS_Subset, FS_CardinalityType
<1>2. \A x \in S : fun[x] = along[x]
  <2> TAKE x \in S
  <2>1. CASE x \in P
    <3>1. Along(R, S, x) = {x}
      BY <2>1 DEF Along
    <3>2. Cardinality({x}) = 1
      BY FS_Singleton
    <3> QED BY <2>1, <3>1, <3>2
  <2>2. CASE x \notin P
    <3>1. Along(R, S, x) = {}
      BY <2>2 DEF Along
    <3> QED BY <2>2, <3>1, FS_EmptySet
  <2> QED BY <2>1, <2>2
<1>3. SumFunctionOnSet(along, S) = Cardinality(R)
  <2>1. R \subseteq S \X S /\ \A x \in S : along[x] = Cardinality(Along(R, S, x))
    OBVIOUS
  <2> HIDE DEF R, along
  <2> QED BY <2>1, SumPairs
<1>4. Cardinality(R) = Cardinality(P)
  <2>1. g \in [P -> R] /\ (\A x, y \in P : g[x] = g[y] => x = y) /\ \A p \in R : \E x \in P : g[x] = p
    OBVIOUS
  <2> HIDE DEF g, R
  <2>2. g \in Bijection(P, R)
    BY <2>1 DEF Bijection, Injection, Surjection, IsInjective
  <2> QED BY <1>1, <2>2, FS_Bijection DEF ExistsBijection
<1>5. SumFunctionOnSet(fun, S) = SumFunctionOnSet(along, S)
  <2> HIDE DEF along
  <2> QED BY <1>2, SumSame
<1> QED BY <1>1, <1>3, <1>4, <1>5

\* Pairs can be counted from either side.
LEMMA SumSwap ==
  ASSUME NEW A, NEW B, IsFiniteSet(A), IsFiniteSet(B), NEW R, R \subseteq A \X B,
         NEW along, \A a \in A : along[a] = Cardinality(Along(R, B, a)),
         NEW across, \A b \in B : across[b] = Cardinality(Across(R, A, b))
  PROVE  SumFunctionOnSet(along, A) = Cardinality(R) /\ SumFunctionOnSet(across, B) = Cardinality(R)
<1> DEFINE Q == {<<p[2], p[1]>> : p \in R}
           g == [p \in R |-> <<p[2], p[1]>>]
<1>1. SumFunctionOnSet(along, A) = Cardinality(R) /\ IsFiniteSet(R)
  BY SumPairs
<1>2. Q \subseteq B \X A /\ \A a \in A, b \in B : <<b, a>> \in Q <=> <<a, b>> \in R
  <2>1. \A p \in R : p = <<p[1], p[2]>> /\ p[1] \in A /\ p[2] \in B
    OBVIOUS
  <2> QED BY <2>1
<1>3. SumFunctionOnSet(across, B) = Cardinality(Q)
  <2>1. \A b \in B : Along(Q, A, b) = Across(R, A, b)
    BY <1>2 DEF Along, Across
  <2>2. \A b \in B : across[b] = Cardinality(Along(Q, A, b))
    BY <2>1
  <2> HIDE DEF Q
  <2> QED BY <1>2, <2>2, SumPairs
<1>4. g \in Bijection(R, Q)
  <2>1. g \in [R -> Q]
    OBVIOUS
  <2>2. \A p, q \in R : g[p] = g[q] => p = q
    OBVIOUS
  <2>3. \A q \in Q : \E p \in R : g[p] = q
    OBVIOUS
  <2> HIDE DEF g, Q
  <2> QED BY <2>1, <2>2, <2>3 DEF Bijection, Injection, Surjection, IsInjective
<1>5. Cardinality(R) = Cardinality(Q)
  <2> HIDE DEF g, Q
  <2> QED BY <1>1, <1>4, FS_Bijection DEF ExistsBijection
<1> QED BY <1>1, <1>3, <1>5

\* g names the members of B one by one: parts that match have the same size.
LEMMA CountNamed ==
  ASSUME NEW A, IsFiniteSet(A), NEW B, NEW g \in Bijection(A, B),
         NEW P, P \subseteq A, NEW Q, Q \subseteq B, \A a \in A : a \in P <=> g[a] \in Q
  PROVE  Cardinality(P) = Cardinality(Q) /\ IsFiniteSet(Q) /\ Cardinality(P) \in Nat
<1> DEFINE h == [a \in P |-> g[a]]
<1>1. h \in Bijection(P, Q)
  <2>1. /\ \A a \in A : g[a] \in B
        /\ \A a, b \in A : g[a] = g[b] => a = b
        /\ \A b \in B : \E a \in A : g[a] = b
    BY DEF Bijection, Injection, Surjection, IsInjective
  <2>2. h \in [P -> Q] /\ (\A a, b \in P : h[a] = h[b] => a = b) /\ \A b \in Q : \E a \in P : h[a] = b
    BY <2>1
  <2> HIDE DEF h
  <2> QED BY <2>2 DEF Bijection, Injection, Surjection, IsInjective
<1>2. IsFiniteSet(P) /\ Cardinality(P) \in Nat
  BY FS_Subset, FS_CardinalityType
<1> HIDE DEF h
<1> QED BY <1>1, <1>2, FS_Bijection DEF ExistsBijection

----------------------------------------------------------------------------
(* Totals, lists and chips, by the days they count                          *)

\* The days of A that have a status of T.
DaysAt(A, dates, S, T) == {x \in A \X dates : S[x] \in T}

\* The working halves of half days of leave that nothing backs.
BareHalves(A, dates, S, R) == {x \in A \X dates : S[x] = "half_leave" /\ DayWeight(S[x], R[x]).absent = 1}

LEMMA WeightIs ==
  ASSUME NEW st, NEW r
  PROVE  /\ DayWeight(st, r).present \in {0, 1, 2} /\ DayWeight(st, r).expected \in {0, 1, 2}
         /\ st = "half_leave" => (DayWeight(st, r).present = 0 <=> DayWeight(st, r).absent = 1)
         /\ DayWeight(st, r).expected =
              DayWeight(st, r).present
              + (IF st = "absent" THEN 2 ELSE IF st = "half_leave" /\ DayWeight(st, r).present = 0 THEN 1
                 ELSE IF st = "no_record" THEN 2 ELSE 0)
<1>1. CASE CountsAsPresent(st)
  BY <1>1 DEF DayWeight, CountsAsPresent
<1>2. CASE ~CountsAsPresent(st) /\ st = "half_leave"
  BY <1>2 DEF DayWeight, CountsAsPresent
<1>3. CASE ~CountsAsPresent(st) /\ st \in {"absent", "no_record"}
  BY <1>3 DEF DayWeight, CountsAsPresent
<1>4. CASE ~CountsAsPresent(st) /\ st \notin {"absent", "no_record", "half_leave"}
  BY <1>4 DEF DayWeight, CountsAsPresent
<1> QED BY <1>1, <1>2, <1>3, <1>4

\* The totals of one employee, by the days that are counted.
SummaryCounts(R, S, c, e, dates) ==
  LET s == Summary(R, S, c, e, dates)
      N(T) == Cardinality(Along(DaysAt({e}, dates, S, T), dates, e))
      H == Cardinality(Along(BareHalves({e}, dates, S, R), dates, e))
  IN /\ s.present \in Nat /\ s.expected \in Nat
     /\ H \in Nat /\ \A T : N(T) \in Nat
     /\ s.noRecord = N({"no_record"}) /\ s.absent = 2 * N({"absent"}) + H
     /\ s.unverified = N({"absent_unverified", "unverified"}) /\ s.conflicts = N({"leave_conflict"})
     /\ s.expected = s.present + s.absent + 2 * s.noRecord

LEMMA SummaryIs ==
  ASSUME NEW R, NEW S, NEW c, NEW e, NEW dates, IsFiniteSet(dates)
  PROVE  SummaryCounts(R, S, c, e, dates)
<1> DEFINE s == Summary(R, S, c, e, dates)
           DaysIn(T) == {d \in dates : S[<<e, d>>] \in T}
           Weight(d) == DayWeight(S[<<e, d>>], R[<<e, d>>])
           HalfAbsent == {d \in DaysIn({"half_leave"}) : Weight(d).present = 0}
           present == [d \in dates |-> Weight(d).present]
           expected == [d \in dates |-> Weight(d).expected]
<1>1. /\ s.present = SumFunctionOnSet(present, dates) /\ s.expected = SumFunctionOnSet(expected, dates)
      /\ s.noRecord = Cardinality(DaysIn({"no_record"}))
      /\ s.absent = 2 * Cardinality(DaysIn({"absent"})) + Cardinality(HalfAbsent)
      /\ s.unverified = Cardinality(DaysIn({"absent_unverified", "unverified"}))
      /\ s.conflicts = Cardinality(DaysIn({"leave_conflict"}))
  BY DEF Summary, SumFunction
<1>2. \A T : Along(DaysAt({e}, dates, S, T), dates, e) = DaysIn(T)
  BY DEF Along, DaysAt
<1>3. Along(BareHalves({e}, dates, S, R), dates, e) = HalfAbsent
  BY WeightIs DEF Along, BareHalves
<1>4. (\A T : Cardinality(DaysIn(T)) \in Nat) /\ Cardinality(HalfAbsent) \in Nat
  <2>1. HalfAbsent \in SUBSET dates /\ \A T : DaysIn(T) \in SUBSET dates
    OBVIOUS
  <2> HIDE DEF HalfAbsent, DaysIn
  <2> QED BY <2>1, FS_Subset, FS_CardinalityType
<1>5. \A d \in dates : present[d] \in Nat /\ expected[d] \in Nat
  BY WeightIs
<1> DEFINE In(P) == [d \in dates |-> IF d \in P THEN 1 ELSE 0]
           absent == In(DaysIn({"absent"}))
           half == In(HalfAbsent)
           none == In(DaysIn({"no_record"}))
           f1 == [d \in dates |-> absent[d] + absent[d]]
           f2 == [d \in dates |-> f1[d] + half[d]]
           f3 == [d \in dates |-> none[d] + none[d]]
           f4 == [d \in dates |-> f2[d] + f3[d]]
<1>6. /\ \A d \in dates : absent[d] \in Nat /\ half[d] \in Nat /\ none[d] \in Nat
      /\ \A d \in dates : expected[d] = present[d] + f4[d]
  <2>1. ASSUME NEW d \in dates PROVE expected[d] = present[d] + f4[d] /\ absent[d] \in Nat /\ half[d] \in Nat /\ none[d] \in Nat
    <3>1. absent[d] = IF S[<<e, d>>] = "absent" THEN 1 ELSE 0
      OBVIOUS
    <3>2. half[d] = IF S[<<e, d>>] = "half_leave" /\ Weight(d).present = 0 THEN 1 ELSE 0
      OBVIOUS
    <3>3. none[d] = IF S[<<e, d>>] = "no_record" THEN 1 ELSE 0
      OBVIOUS
    <3>4. f4[d] = (absent[d] + absent[d] + half[d]) + (none[d] + none[d])
      <4> HIDE DEF absent, half, none
      <4> QED OBVIOUS
    <3>5. expected[d] = Weight(d).expected /\ present[d] = Weight(d).present /\ present[d] \in Nat
      BY WeightIs
    <3> HIDE DEF absent, half, none, f4, expected, present
    <3> QED BY <3>1, <3>2, <3>3, <3>4, <3>5, WeightIs
  <2> QED BY <2>1
<1>7. /\ SumFunctionOnSet(absent, dates) = Cardinality(DaysIn({"absent"}))
      /\ SumFunctionOnSet(half, dates) = Cardinality(HalfAbsent)
      /\ SumFunctionOnSet(none, dates) = Cardinality(DaysIn({"no_record"}))
  <2>1. ASSUME NEW P, P \subseteq dates PROVE SumFunctionOnSet(In(P), dates) = Cardinality(P)
    <3>1. \A d \in dates : In(P)[d] = IF d \in P THEN 1 ELSE 0
      OBVIOUS
    <3> HIDE DEF In
    <3> QED BY <2>1, <3>1, SumCount
  <2>2. HalfAbsent \subseteq dates /\ \A T : DaysIn(T) \subseteq dates
    OBVIOUS
  <2> HIDE DEF In, HalfAbsent, DaysIn
  <2> QED BY <2>1, <2>2
<1> HIDE DEF absent, half, none, expected, present
<1>8. SumFunctionOnSet(f1, dates) = SumFunctionOnSet(absent, dates) + SumFunctionOnSet(absent, dates)
      /\ \A d \in dates : f1[d] \in Nat
  <2>1. \A d \in dates : f1[d] = absent[d] + absent[d] /\ f1[d] \in Nat
    BY <1>6
  <2> HIDE DEF f1
  <2> QED BY <1>6, <2>1, SumPlus
<1>9. SumFunctionOnSet(f2, dates) = SumFunctionOnSet(f1, dates) + SumFunctionOnSet(half, dates)
      /\ \A d \in dates : f2[d] \in Nat
  <2> HIDE DEF f1
  <2>1. \A d \in dates : f2[d] = f1[d] + half[d] /\ f2[d] \in Nat
    BY <1>6, <1>8
  <2> HIDE DEF f2
  <2> QED BY <1>6, <1>8, <2>1, SumPlus
<1>10. SumFunctionOnSet(f3, dates) = SumFunctionOnSet(none, dates) + SumFunctionOnSet(none, dates)
       /\ \A d \in dates : f3[d] \in Nat
  <2>1. \A d \in dates : f3[d] = none[d] + none[d] /\ f3[d] \in Nat
    BY <1>6
  <2> HIDE DEF f3
  <2> QED BY <1>6, <2>1, SumPlus
<1>11. SumFunctionOnSet(f4, dates) = SumFunctionOnSet(f2, dates) + SumFunctionOnSet(f3, dates)
       /\ \A d \in dates : f4[d] \in Nat
  <2> HIDE DEF f2, f3
  <2>1. \A d \in dates : f4[d] = f2[d] + f3[d] /\ f4[d] \in Nat
    BY <1>9, <1>10
  <2> HIDE DEF f4
  <2> QED BY <1>9, <1>10, <2>1, SumPlus
<1> HIDE DEF f1, f2, f3, f4
<1>12. SumFunctionOnSet(expected, dates) = SumFunctionOnSet(present, dates) + SumFunctionOnSet(f4, dates)
  BY <1>5, <1>6, <1>11, SumPlus
<1>13. SumFunctionOnSet(expected, dates) \in Nat /\ SumFunctionOnSet(present, dates) \in Nat
  BY <1>5, SumType
<1>14. s.expected = s.present + s.absent + 2 * s.noRecord
  <2> HIDE DEF s, DaysIn, HalfAbsent
  <2> QED BY <1>1, <1>4, <1>7, <1>8, <1>9, <1>10, <1>11, <1>12, <1>13
<1> HIDE DEF s, DaysIn, HalfAbsent
<1>15. \A T : Cardinality(Along(DaysAt({e}, dates, S, T), dates, e)) = Cardinality(DaysIn(T))
  BY <1>2
<1>16. Cardinality(Along(BareHalves({e}, dates, S, R), dates, e)) = Cardinality(HalfAbsent)
  BY <1>3
<1> QED BY <1>1, <1>4, <1>13, <1>14, <1>15, <1>16 DEF s, SummaryCounts

\* The totals over A, by the days that are counted.
TotalsCount(t, R, S, dates, A) ==
  LET N(T) == Cardinality(DaysAt(A, dates, S, T))
      H == Cardinality(BareHalves(A, dates, S, R))
  IN /\ H \in Nat /\ \A T : N(T) \in Nat
     /\ t.noRecord = N({"no_record"}) /\ t.absent = 2 * N({"absent"}) + H
     /\ t.unverified = N({"absent_unverified", "unverified"}) /\ t.conflicts = N({"leave_conflict"})
     /\ t.expected = t.present + t.absent + 2 * t.noRecord

\* What holds of the totals of each employee holds of their sums; days are
\* counted one by one.
LEMMA TotalsIs ==
  ASSUME NEW R, NEW S, NEW c, NEW everyone, IsFiniteSet(everyone), NEW dates, IsFiniteSet(dates), NEW exclude,
         NEW A, A = {e \in everyone : exclude => ~Summary(R, S, c, e, dates).neverPunched}
  PROVE  TotalsCount(Totals(R, S, c, everyone, dates, exclude), R, S, dates, A)
<1> DEFINE t == Totals(R, S, c, everyone, dates, exclude)
           sum(e) == Summary(R, S, c, e, dates)
           present == [e \in A |-> sum(e).present]
           expected == [e \in A |-> sum(e).expected]
           noRecord == [e \in A |-> sum(e).noRecord]
           absent == [e \in A |-> sum(e).absent]
           unverified == [e \in A |-> sum(e).unverified]
           conflicts == [e \in A |-> sum(e).conflicts]
           N(T) == Cardinality(DaysAt(A, dates, S, T))
           Each(T) == [e \in A |-> Cardinality(Along(DaysAt(A, dates, S, T), dates, e))]
           H == Cardinality(BareHalves(A, dates, S, R))
           half == [e \in A |-> Cardinality(Along(BareHalves(A, dates, S, R), dates, e))]
           twice == [e \in A |-> Each({"absent"})[e] + Each({"absent"})[e]]
<1>1. IsFiniteSet(A)
  BY FS_Subset
<1>2. /\ t.present = SumFunctionOnSet(present, A) /\ t.expected = SumFunctionOnSet(expected, A)
      /\ t.noRecord = SumFunctionOnSet(noRecord, A) /\ t.absent = SumFunctionOnSet(absent, A)
      /\ t.unverified = SumFunctionOnSet(unverified, A) /\ t.conflicts = SumFunctionOnSet(conflicts, A)
  BY DEF Totals, SumFunction
<1>3. ASSUME NEW e \in A
      PROVE  /\ \A T : Along(DaysAt(A, dates, S, T), dates, e) = Along(DaysAt({e}, dates, S, T), dates, e)
             /\ Along(BareHalves(A, dates, S, R), dates, e) = Along(BareHalves({e}, dates, S, R), dates, e)
  BY DEF Along, DaysAt, BareHalves
<1>4. ASSUME NEW e \in A
      PROVE  /\ present[e] \in Nat /\ expected[e] \in Nat /\ half[e] \in Nat
             /\ Each({"absent"})[e] \in Nat /\ noRecord[e] \in Nat
             /\ noRecord[e] = Each({"no_record"})[e] /\ absent[e] = twice[e] + half[e]
             /\ unverified[e] = Each({"absent_unverified", "unverified"})[e]
             /\ conflicts[e] = Each({"leave_conflict"})[e]
             /\ expected[e] = present[e] + absent[e] + (noRecord[e] + noRecord[e])
  <2> DEFINE n(T) == Cardinality(Along(DaysAt({e}, dates, S, T), dates, e))
             h == Cardinality(Along(BareHalves({e}, dates, S, R), dates, e))
  <2>1. /\ sum(e).present \in Nat /\ sum(e).expected \in Nat
        /\ h \in Nat /\ \A T : n(T) \in Nat
        /\ sum(e).noRecord = n({"no_record"}) /\ sum(e).absent = 2 * n({"absent"}) + h
        /\ sum(e).unverified = n({"absent_unverified", "unverified"}) /\ sum(e).conflicts = n({"leave_conflict"})
        /\ sum(e).expected = sum(e).present + sum(e).absent + 2 * sum(e).noRecord
    <3> HIDE DEF sum
    <3>1. SummaryCounts(R, S, c, e, dates)
      BY SummaryIs
    <3> QED BY <3>1 DEF sum, SummaryCounts
  <2>2. half[e] = h /\ \A T : Each(T)[e] = n(T)
    BY <1>3
  <2>3. /\ present[e] = sum(e).present /\ expected[e] = sum(e).expected /\ noRecord[e] = sum(e).noRecord
        /\ absent[e] = sum(e).absent /\ unverified[e] = sum(e).unverified /\ conflicts[e] = sum(e).conflicts
        /\ twice[e] = Each({"absent"})[e] + Each({"absent"})[e]
    OBVIOUS
  <2> HIDE DEF n, h, sum, half, Each, present, expected, noRecord, absent, unverified, conflicts, twice
  <2> QED BY <2>1, <2>2, <2>3
<1>5. /\ \A T : SumFunctionOnSet(Each(T), A) = N(T) /\ N(T) \in Nat
      /\ SumFunctionOnSet(half, A) = H /\ H \in Nat
  <2>1. \A T : DaysAt(A, dates, S, T) \subseteq A \X dates
    BY DEF DaysAt
  <2>2. BareHalves(A, dates, S, R) \subseteq A \X dates
    BY DEF BareHalves
  <2>3. ASSUME NEW T PROVE SumFunctionOnSet(Each(T), A) = N(T) /\ N(T) \in Nat
    <3> DEFINE along == Each(T)
    <3>1. \A e \in A : along[e] = Cardinality(Along(DaysAt(A, dates, S, T), dates, e))
      OBVIOUS
    <3> HIDE DEF along
    <3> QED BY <1>1, <2>1, <3>1, SumPairs, FS_CardinalityType DEF along
  <2>4. SumFunctionOnSet(half, A) = H /\ H \in Nat
    <3>1. \A e \in A : half[e] = Cardinality(Along(BareHalves(A, dates, S, R), dates, e))
      OBVIOUS
    <3>2. DOMAIN half = A
      OBVIOUS
    <3> HIDE DEF half
    <3> DEFINE B == BareHalves(A, dates, S, R)
    <3>3. B \subseteq A \X dates /\ \A e \in A : half[e] = Cardinality(Along(B, dates, e))
      BY <2>2, <3>1
    <3> HIDE DEF B
    <3>4. SumFunctionOnSet(half, A) = Cardinality(B) /\ IsFiniteSet(B)
      BY <1>1, <3>3, SumPairs
    <3> QED BY <3>4, FS_CardinalityType DEF B
  <2> HIDE DEF Each, half, N, H
  <2> QED BY <2>3, <2>4
<1>6. SumFunctionOnSet(twice, A) = N({"absent"}) + N({"absent"}) /\ \A e \in A : twice[e] \in Nat
  <2> DEFINE one == Each({"absent"})
  <2>1. \A e \in A : one[e] \in Nat /\ twice[e] = one[e] + one[e] /\ twice[e] \in Nat
    <3>1. \A e \in A : one[e] \in Nat
      BY <1>4
    <3> HIDE DEF Each
    <3> QED BY <3>1
  <2>2. SumFunctionOnSet(one, A) = N({"absent"})
    BY <1>5
  <2> HIDE DEF one, twice, N
  <2> QED BY <1>1, <2>1, <2>2, SumPlus
<1>7. SumFunctionOnSet(absent, A) = SumFunctionOnSet(twice, A) + SumFunctionOnSet(half, A)
      /\ \A e \in A : absent[e] \in Nat
  <2>1. \A e \in A : half[e] \in Nat /\ twice[e] \in Nat /\ absent[e] = twice[e] + half[e] /\ absent[e] \in Nat
    <3>1. \A e \in A : half[e] \in Nat /\ absent[e] = twice[e] + half[e]
      BY <1>4
    <3> HIDE DEF half, twice, absent
    <3> QED BY <1>6, <3>1
  <2> HIDE DEF half, twice, absent
  <2> QED BY <1>1, <2>1, SumPlus
<1>8. /\ SumFunctionOnSet(noRecord, A) = N({"no_record"})
      /\ SumFunctionOnSet(unverified, A) = N({"absent_unverified", "unverified"})
      /\ SumFunctionOnSet(conflicts, A) = N({"leave_conflict"})
  <2> DEFINE f == Each({"no_record"})
             g == Each({"absent_unverified", "unverified"})
             k == Each({"leave_conflict"})
  <2>1. \A e \in A : noRecord[e] = f[e] /\ unverified[e] = g[e] /\ conflicts[e] = k[e]
    BY <1>4
  <2>2. /\ SumFunctionOnSet(f, A) = N({"no_record"})
        /\ SumFunctionOnSet(g, A) = N({"absent_unverified", "unverified"})
        /\ SumFunctionOnSet(k, A) = N({"leave_conflict"})
    BY <1>5
  <2> HIDE DEF f, g, k, noRecord, unverified, conflicts, N
  <2>3. /\ SumFunctionOnSet(noRecord, A) = SumFunctionOnSet(f, A)
        /\ SumFunctionOnSet(unverified, A) = SumFunctionOnSet(g, A)
        /\ SumFunctionOnSet(conflicts, A) = SumFunctionOnSet(k, A)
    BY <1>1, <2>1, SumSame
  <2> QED BY <2>2, <2>3
<1>9. SumFunctionOnSet(expected, A) = SumFunctionOnSet(present, A) + SumFunctionOnSet(absent, A)
        + (SumFunctionOnSet(noRecord, A) + SumFunctionOnSet(noRecord, A))
  <2> DEFINE f == [e \in A |-> noRecord[e] + noRecord[e]]
             g == [e \in A |-> present[e] + absent[e]]
  <2>1. \A e \in A : /\ noRecord[e] \in Nat /\ present[e] \in Nat /\ absent[e] \in Nat
                     /\ expected[e] = present[e] + absent[e] + (noRecord[e] + noRecord[e])
    BY <1>4, <1>7
  <2> HIDE DEF present, absent, noRecord, expected
  <2>2. \A e \in A : /\ f[e] = noRecord[e] + noRecord[e] /\ f[e] \in Nat
                     /\ g[e] = present[e] + absent[e] /\ g[e] \in Nat
    BY <2>1
  <2>3. \A e \in A : expected[e] = g[e] + f[e]
    BY <2>1, <2>2
  <2> HIDE DEF f, g
  <2>4. SumFunctionOnSet(f, A) = SumFunctionOnSet(noRecord, A) + SumFunctionOnSet(noRecord, A)
    BY <1>1, <2>1, <2>2, SumPlus
  <2>5. SumFunctionOnSet(g, A) = SumFunctionOnSet(present, A) + SumFunctionOnSet(absent, A)
    BY <1>1, <2>1, <2>2, SumPlus
  <2>6. SumFunctionOnSet(expected, A) = SumFunctionOnSet(g, A) + SumFunctionOnSet(f, A)
    BY <1>1, <2>2, <2>3, SumPlus
  <2> QED BY <2>4, <2>5, <2>6
<1>10. SumFunctionOnSet(noRecord, A) \in Nat /\ SumFunctionOnSet(present, A) \in Nat
       /\ SumFunctionOnSet(absent, A) \in Nat
  <2>1. \A e \in A : noRecord[e] \in Nat /\ present[e] \in Nat /\ absent[e] \in Nat
    BY <1>4, <1>7
  <2> HIDE DEF present, absent, noRecord
  <2> QED BY <1>1, <2>1, SumType
<1>11. N({"absent"}) \in Nat /\ H \in Nat /\ \A T : N(T) \in Nat
  BY <1>5
<1> HIDE DEF t, N, H, present, expected, noRecord, absent, unverified, conflicts, twice, half
<1>12. /\ t.noRecord = N({"no_record"}) /\ t.absent = 2 * N({"absent"}) + H
       /\ t.unverified = N({"absent_unverified", "unverified"}) /\ t.conflicts = N({"leave_conflict"})
       /\ t.expected = t.present + t.absent + 2 * t.noRecord
  BY <1>2, <1>5, <1>6, <1>7, <1>8, <1>9, <1>10, <1>11
<1> QED BY <1>11, <1>12 DEF t, N, H, TotalsCount

\* The entries of a type are the days D.
EntriesAre(entries, type, D) == {x \in entries : x[1] = type} = {<<type, x>> : x \in D}

LEMMA ChipIs ==
  ASSUME NEW entries, NEW type, NEW c, Selectable(type, c), NEW D, IsFiniteSet(D),
         EntriesAre(entries, type, D)
  PROVE  ChipCount(entries, type, c) = Cardinality(D)
<1> DEFINE B == {<<type, x>> : x \in D}
           g == [x \in D |-> <<type, x>>]
<1>1. g \in Bijection(D, B)
  <2>1. g \in [D -> B] /\ (\A x, y \in D : g[x] = g[y] => x = y) /\ \A p \in B : \E x \in D : g[x] = p
    OBVIOUS
  <2> HIDE DEF g, B
  <2> QED BY <2>1 DEF Bijection, Injection, Surjection, IsInjective
<1>2. Cardinality(B) = Cardinality(D)
  <2> HIDE DEF g, B
  <2> QED BY <1>1, FS_Bijection DEF ExistsBijection
<1>3. ChipCount(entries, type, c) = Cardinality({x \in entries : x[1] = type})
  BY DEF ChipCount
<1> HIDE DEF B
<1>4. Cardinality({x \in entries : x[1] = type}) = Cardinality(B)
  BY DEF B, EntriesAre
<1> QED BY <1>2, <1>3, <1>4

LEMMA EntriesOf ==
  ASSUME NEW R, NEW S, NEW c, NEW seen, NEW dates, NEW never
  PROVE  /\ EntriesAre(Entries(R, S, c, seen, dates, never), "no_record", DaysAt(seen \ never, dates, S, {"no_record", "absent"}))
         /\ EntriesAre(Entries(R, S, c, seen, dates, never), "leave_conflict", DaysAt(seen, dates, S, {"leave_conflict"}))
         /\ EntriesAre(Entries(R, S, c, seen, dates, never), "unverified_day",
                       DaysAt(seen, dates, S, {"absent_unverified", "unverified"}))
<1> DEFINE entries == Entries(R, S, c, seen, dates, never)
           Types(x) ==
             (IF S[x] \in {"no_record", "absent"} /\ x[1] \notin never THEN {"no_record"} ELSE {})
             \cup ({S[x]} \cap {"missing_checkout", "leave_conflict"})
             \cup (IF S[x] \in {"absent_unverified", "unverified"} THEN {"unverified_day"} ELSE {})
             \cup (IF c.leaveLoaded /\ R[x].leave /\ PunchCount(R[x]) > 0 THEN {"unmatched_leave"} ELSE {})
<1>1. \A p : p \in entries <=> \E x \in seen \X dates : \E type \in Types(x) : p = <<type, x>>
  BY DEF Entries
<1> HIDE DEF entries
<1>2. \A x : "no_record" \in Types(x) <=> S[x] \in {"no_record", "absent"} /\ x[1] \notin never
  OBVIOUS
<1>3. \A x : "leave_conflict" \in Types(x) <=> S[x] = "leave_conflict"
  OBVIOUS
<1>4. \A x : "unverified_day" \in Types(x) <=> S[x] \in {"absent_unverified", "unverified"}
  OBVIOUS
<1> HIDE DEF Types
<1>5. ASSUME NEW type PROVE {x \in entries : x[1] = type} = {<<type, x>> : x \in {y \in seen \X dates : type \in Types(y)}}
  BY <1>1
<1>6. /\ {y \in seen \X dates : "no_record" \in Types(y)} = DaysAt(seen \ never, dates, S, {"no_record", "absent"})
      /\ {y \in seen \X dates : "leave_conflict" \in Types(y)} = DaysAt(seen, dates, S, {"leave_conflict"})
      /\ {y \in seen \X dates : "unverified_day" \in Types(y)} = DaysAt(seen, dates, S, {"absent_unverified", "unverified"})
  BY <1>2, <1>3, <1>4 DEF DaysAt
<1> QED BY <1>5, <1>6 DEF entries, EntriesAre

LEMMA StatusType ==
  ASSUME NEW r, NEW c, NEW day
  PROVE  ClassifyDay(r, c, day) \in Statuses
<1>1. PunchStatus(r, c) \in Statuses
  BY DEF PunchStatus, Statuses
<1>2. ClassifyLegacy(r, c) \in Statuses
  BY <1>1 DEF ClassifyLegacy, Statuses
<1>3. ClassifyBackendLegacy(r, c, day) \in Statuses \cup {"none"}
  BY DEF ClassifyBackendLegacy, Statuses
<1>4. ClassifyOverlay(r, c) \in Statuses
  BY <1>1 DEF ClassifyOverlay, WorkingUnpunched, Statuses
<1> QED BY <1>2, <1>3, <1>4 DEF ClassifyDay

LEMMA RecordType ==
  ASSUME RecordsTypeInv, NEW x \in Rows
  PROVE  RecordOf(x) \in Record(Days)
<1> DEFINE row == load.rows[x]
           cell == IF row = NoRow THEN NoCell ELSE load.cells[x]
<1>1. x[2] \in Days
  BY DEF Rows
<1>2. row # NoRow => row.checkIn \in BOOLEAN /\ row.checkOut \in BOOLEAN /\ row.flag \in BOOLEAN
  BY SwipesAssumption DEF RecordsTypeInv, LoadType
<1>3. cell # NoCell => cell.kind \in Kinds /\ cell.half \in BOOLEAN /\ cell.zoho \in {"yes", "no", "none"}
  <2>1. cell # NoCell => cell \in Cell
    BY DEF RecordsTypeInv, LoadType
  <2> QED BY <2>1 DEF Cell
<1> HIDE DEF row, cell
<1>4. RecordOf(x) =
        [date |-> x[2], checkIn |-> row # NoRow /\ row.checkIn, checkOut |-> row # NoRow /\ row.checkOut,
         flag |-> row # NoRow /\ row.flag,
         kind |-> IF Carried(x) /\ cell = NoCell THEN "not_employed"
                  ELSE IF cell = NoCell THEN NoKind ELSE cell.kind,
         half |-> cell # NoCell /\ cell.half, zoho |-> IF cell = NoCell THEN "none" ELSE cell.zoho,
         holiday |-> row # NoRow /\ x[2] \in Holidays, leave |-> row # NoRow /\ x \in Leaves]
  BY DEF RecordOf, row, cell
<1>5. (IF Carried(x) /\ cell = NoCell THEN "not_employed"
       ELSE IF cell = NoCell THEN NoKind ELSE cell.kind) \in Kinds \cup {NoKind}
  BY <1>3 DEF Kinds
<1>6. (IF cell = NoCell THEN "none" ELSE cell.zoho) \in {"yes", "no", "none"}
  BY <1>3
<1>7. /\ (row # NoRow /\ row.checkIn) \in BOOLEAN /\ (row # NoRow /\ row.checkOut) \in BOOLEAN
      /\ (row # NoRow /\ row.flag) \in BOOLEAN /\ (cell # NoCell /\ cell.half) \in BOOLEAN
      /\ (row # NoRow /\ x[2] \in Holidays) \in BOOLEAN /\ (row # NoRow /\ x \in Leaves) \in BOOLEAN
  BY <1>2, <1>3
<1> QED BY <1>1, <1>4, <1>5, <1>6, <1>7 DEF Record

\* A conflict with a leave is of somebody with a row.
LEMMA ConflictIsSeen ==
  ASSUME NEW x \in Rows, NEW day, PageContext.leaveActive, ClassifyDay(RecordOf(x), PageContext, day) = "leave_conflict"
  PROVE  x[1] \in Seen
<1>1. ClassifyOverlay(RecordOf(x), PageContext) = "leave_conflict"
  BY DEF ClassifyDay
<1>2. RecordOf(x).kind = "leave"
  BY <1>1 DEF ClassifyOverlay, PunchStatus, WorkingUnpunched
<1>3. load.rows[x] # NoRow
  BY <1>2 DEF RecordOf, NoKind
<1> QED BY <1>3 DEF Seen

LEMMA ListsHold == RecordsTypeInv => ListsAgree
<1> SUFFICES ASSUME RecordsTypeInv,
                    NEW told \in {[x \in Rows |-> NoBackend], [x \in Rows |-> Verdict(x)]}
             PROVE  LET R == [x \in Rows |-> RecordOf(x)]
                        c == PageContext
                        S == StatusOf(R, told, c)
                        never == {e \in Employees : Summary(R, S, c, e, Days).neverPunched}
                        all == Totals(R, S, c, Employees, Days, FALSE)
                        rated == Totals(R, S, c, Seen, Days, TRUE)
                        entries == Entries(R, S, c, Seen, Days, never)
                    IN /\ R \in [Rows -> Record(Days)] /\ S \in [Rows -> Statuses]
                       /\ all.expected = all.present + all.absent + 2 * all.noRecord
                       /\ rated.absent + 2 * rated.noRecord =
                            2 * ChipCount(entries, "no_record", c)
                            + Cardinality({x \in (Seen \ never) \X Days : S[x] = "half_leave" /\ DayWeight(S[x], R[x]).absent = 1})
                       /\ \A panel \in QualityPanel(R, S, c, Employees, Days) :
                            /\ panel.conflicts = all.conflicts /\ panel.unverified = all.unverified
                            /\ panel.conflicts = ChipCount(entries, "leave_conflict", c)
                       /\ \A panel \in QualityPanel(R, S, c, Seen, Days) :
                            panel.unverified = ChipCount(entries, "unverified_day", c)
  BY DEF ListsAgree
<1> DEFINE R == [x \in Rows |-> RecordOf(x)]
           c == PageContext
           S == StatusOf(R, told, c)
           never == {e \in Employees : Summary(R, S, c, e, Days).neverPunched}
           all == Totals(R, S, c, Employees, Days, FALSE)
           rated == Totals(R, S, c, Seen, Days, TRUE)
           entries == Entries(R, S, c, Seen, Days, never)
           unverified == {"absent_unverified", "unverified"}
<1>1. R \in [Rows -> Record(Days)] /\ S \in [Rows -> Statuses]
  BY RecordType, StatusType DEF StatusOf
<1>2. ASSUME NEW x \in Rows, c.leaveActive, S[x] = "leave_conflict" PROVE x[1] \in Seen
  <2>1. S[x] = ClassifyDay(RecordOf(x), c, told[x])
    BY DEF StatusOf
  <2> QED BY <1>2, <2>1, ConflictIsSeen
<1> HIDE DEF R, S, c
<1>3. Seen \in SUBSET Employees /\ IsFiniteSet(Seen) /\ IsFiniteSet(Employees) /\ IsFiniteSet(Days)
  <2>1. Seen \in SUBSET Employees
    BY DEF Seen, Rows
  <2> QED BY <2>1, EmployeesAssumption, FS_Subset
<1>4. /\ all.expected = all.present + all.absent + 2 * all.noRecord
      /\ all.unverified = Cardinality(DaysAt(Employees, Days, S, unverified))
      /\ all.conflicts = Cardinality(DaysAt(Employees, Days, S, {"leave_conflict"}))
  <2>1. Employees = {e \in Employees : FALSE => ~Summary(R, S, c, e, Days).neverPunched}
    OBVIOUS
  <2> HIDE DEF all
  <2>2. TotalsCount(all, R, S, Days, Employees)
    <3>1. TotalsCount(Totals(R, S, c, Employees, Days, FALSE), R, S, Days, Employees)
      BY <1>3, <2>1, TotalsIs
    <3> QED BY <3>1 DEF all
  <2> QED BY <2>2 DEF TotalsCount
<1> DEFINE A == Seen \ never
           N(T) == Cardinality(DaysAt(A, Days, S, T))
           H == Cardinality(BareHalves(A, Days, S, R))
<1>5. /\ H \in Nat /\ N({"absent"}) \in Nat /\ N({"no_record"}) \in Nat
      /\ rated.noRecord = N({"no_record"}) /\ rated.absent = 2 * N({"absent"}) + H
  <2>1. A = {e \in Seen : TRUE => ~Summary(R, S, c, e, Days).neverPunched}
    BY <1>3
  <2> HIDE DEF A, rated
  <2>2. TotalsCount(rated, R, S, Days, A)
    <3>1. TotalsCount(Totals(R, S, c, Seen, Days, TRUE), R, S, Days, A)
      BY <1>3, <2>1, TotalsIs
    <3> QED BY <3>1 DEF rated
  <2> QED BY <2>2 DEF TotalsCount
<1>6. IsFiniteSet(A) /\ \A B \in SUBSET Employees : \A T : IsFiniteSet(DaysAt(B, Days, S, T))
  <2>1. A \in SUBSET Employees
    BY <1>3
  <2>2. \A B \in SUBSET Employees : \A T : DaysAt(B, Days, S, T) \in SUBSET Rows
    BY DEF DaysAt, Rows
  <2> HIDE DEF A
  <2> QED BY <1>3, <2>1, <2>2, FS_Subset, RowsFinite
<1>7. ChipCount(entries, "no_record", c) = N({"no_record"}) + N({"absent"})
  <2>1. EntriesAre(entries, "no_record", DaysAt(A, Days, S, {"no_record", "absent"}))
    BY EntriesOf
  <2>2. Selectable("no_record", c)
    BY DEF Selectable
  <2>3. A \in SUBSET Employees
    BY <1>3
  <2> HIDE DEF A, entries
  <2>4. ChipCount(entries, "no_record", c) = Cardinality(DaysAt(A, Days, S, {"no_record", "absent"}))
    BY <1>6, <2>1, <2>2, <2>3, ChipIs
  <2>5. /\ DaysAt(A, Days, S, {"no_record", "absent"}) = DaysAt(A, Days, S, {"no_record"}) \cup DaysAt(A, Days, S, {"absent"})
        /\ DaysAt(A, Days, S, {"no_record"}) \cap DaysAt(A, Days, S, {"absent"}) = {}
    BY DEF DaysAt
  <2>6. Cardinality(DaysAt(A, Days, S, {"no_record"}) \cup DaysAt(A, Days, S, {"absent"}))
          = N({"no_record"}) + N({"absent"}) - Cardinality({})
    <3>1. IsFiniteSet(DaysAt(A, Days, S, {"no_record"})) /\ IsFiniteSet(DaysAt(A, Days, S, {"absent"}))
      BY <1>6, <2>3
    <3> QED BY <2>5, <3>1, FS_Union
  <2>7. Cardinality({}) = 0
    BY FS_EmptySet
  <2>8. Cardinality(DaysAt(A, Days, S, {"no_record", "absent"}))
          = Cardinality(DaysAt(A, Days, S, {"no_record"}) \cup DaysAt(A, Days, S, {"absent"}))
    BY <2>5, Zenon
  <2>9. ChipCount(entries, "no_record", c) = N({"no_record"}) + N({"absent"}) - Cardinality({})
    BY <2>4, <2>6, <2>8, Zenon
  <2> HIDE DEF N
  <2> QED BY <1>5, <2>7, <2>9
<1>8. ASSUME NEW panel \in QualityPanel(R, S, c, Employees, Days)
      PROVE  /\ panel.conflicts = all.conflicts /\ panel.unverified = all.unverified
             /\ panel.conflicts = ChipCount(entries, "leave_conflict", c)
  <2>1. c.leaveActive /\ panel = LeaveQuality(R, S, c, Employees, Days)
    BY <1>8 DEF QualityPanel
  <2>2. /\ panel.conflicts = Cardinality(DaysAt(Employees, Days, S, {"leave_conflict"}))
        /\ panel.unverified = Cardinality(DaysAt(Employees, Days, S, unverified))
    BY <2>1 DEF LeaveQuality, DaysAt
  <2>3. DaysAt(Employees, Days, S, {"leave_conflict"}) = DaysAt(Seen, Days, S, {"leave_conflict"})
    BY <1>2, <1>3, <2>1 DEF DaysAt, Rows
  <2>4. EntriesAre(entries, "leave_conflict", DaysAt(Seen, Days, S, {"leave_conflict"}))
    BY EntriesOf
  <2>5. Selectable("leave_conflict", c)
    BY <2>1 DEF Selectable
  <2> HIDE DEF entries
  <2>6. ChipCount(entries, "leave_conflict", c) = Cardinality(DaysAt(Seen, Days, S, {"leave_conflict"}))
    BY <1>3, <1>6, <2>4, <2>5, ChipIs
  <2> HIDE DEF all
  <2> QED BY <1>4, <2>2, <2>3, <2>6
<1>9. ASSUME NEW panel \in QualityPanel(R, S, c, Seen, Days)
      PROVE  panel.unverified = ChipCount(entries, "unverified_day", c)
  <2>1. c.leaveActive /\ panel = LeaveQuality(R, S, c, Seen, Days)
    BY <1>9 DEF QualityPanel
  <2>2. panel.unverified = Cardinality(DaysAt(Seen, Days, S, unverified))
    BY <2>1 DEF LeaveQuality, DaysAt
  <2>3. EntriesAre(entries, "unverified_day", DaysAt(Seen, Days, S, unverified))
    BY EntriesOf
  <2>4. Selectable("unverified_day", c)
    BY <2>1 DEF Selectable
  <2> HIDE DEF entries, unverified
  <2>5. ChipCount(entries, "unverified_day", c) = Cardinality(DaysAt(Seen, Days, S, unverified))
    BY <1>3, <1>6, <2>3, <2>4, ChipIs
  <2> QED BY <2>2, <2>5
<1>10. rated.absent + 2 * rated.noRecord =
         2 * ChipCount(entries, "no_record", c)
         + Cardinality({x \in (Seen \ never) \X Days : S[x] = "half_leave" /\ DayWeight(S[x], R[x]).absent = 1})
  <2>1. H = Cardinality({x \in (Seen \ never) \X Days : S[x] = "half_leave" /\ DayWeight(S[x], R[x]).absent = 1})
    BY DEF BareHalves
  <2> HIDE DEF H, N, rated, entries, never
  <2> QED BY <1>5, <1>7, <2>1
<1> HIDE DEF never, all, rated, entries
<1> QED BY <1>1, <1>4, <1>8, <1>9, <1>10 DEF R, S, c, never, all, rated, entries

----------------------------------------------------------------------------
(* The figures of the metrics endpoint                                      *)
(*                                                                         *)
(* Every figure is a sum over the employees in the figures; records are     *)
(* named one by one by employee, date or team, and pairs of an employee and *)
(* a date are counted from either side.                                     *)

\* What holds of what the endpoint loads.
LoadedFine(D) ==
  /\ IsFiniteSet(DOMAIN D.team) /\ IsFiniteSet(D.dates) /\ D.dates \subseteq Nat
  /\ D.today \in Nat /\ D.through \in Nat
  /\ \A e \in DOMAIN D.team, d \in D.dates :
       D.verdict[<<e, d>>].status \in CountedStatuses => d \notin D.off /\ d \in D.punched /\ d <= D.today

\* The past working days, and those of an employee with a status of T.
Past(D) == {d \in WorkingDates(D) : d < D.today}
DaysWith(D, e, T) == {d \in Past(D) : D.verdict[<<e, d>>].status \in T}

LEMMA PastFinite ==
  ASSUME NEW D, LoadedFine(D)
  PROVE  /\ IsFiniteSet(Past(D)) /\ IsFiniteSet(WorkingDates(D)) /\ Past(D) \subseteq WorkingDates(D)
         /\ WorkingDates(D) \subseteq D.dates
         /\ \A e, T : IsFiniteSet(DaysWith(D, e, T)) /\ Cardinality(DaysWith(D, e, T)) \in Nat
<1>1. /\ Past(D) \in SUBSET D.dates /\ WorkingDates(D) \in SUBSET D.dates /\ Past(D) \subseteq WorkingDates(D)
      /\ \A e, T : DaysWith(D, e, T) \in SUBSET D.dates
  BY DEF Past, WorkingDates, DaysWith
<1>2. IsFiniteSet(D.dates)
  BY DEF LoadedFine
<1> QED BY <1>1, <1>2, FS_Subset, FS_CardinalityType

\* The figures of an employee, by the days counted.
EmployeeSays(f, D, e) ==
  /\ f.id = e /\ f.team = D.team[e] /\ f.days = [d \in D.dates |-> D.verdict[<<e, d>>]]
  /\ f.present = Cardinality(DaysWith(D, e, {"present"})) /\ f.on_leave = Cardinality(DaysWith(D, e, {"on_leave"}))
  /\ f.absent = Cardinality(DaysWith(D, e, {"absent"})) /\ f.unverified = Cardinality(DaysWith(D, e, {"unverified"}))
  /\ f.present \in Nat /\ f.on_leave \in Nat /\ f.absent \in Nat /\ f.unverified \in Nat /\ f.missing \in Nat
  /\ f.no_record = Cardinality(DaysWith(D, e, {"absent", "unverified"}))
  /\ f.no_record = f.absent + f.unverified /\ f.never_punched \in BOOLEAN /\ f.expected \in Nat

LEMMA EmployeeIs ==
  ASSUME NEW D, LoadedFine(D), NEW e \in DOMAIN D.team
  PROVE  EmployeeSays(EmployeeFigures(D, e), D, e)
<1> DEFINE f == EmployeeFigures(D, e)
           StatusOn(d) == D.verdict[<<e, d>>].status
           counted == {d \in D.dates : Counts(StatusOn(d), d, D)}
           DaysIn(T) == {d \in counted : StatusOn(d) \in T}
           missing == {d \in D.dates : StatusOn(d) = "present" /\ D.verdict[<<e, d>>].missing}
<1>1. /\ f.id = e /\ f.team = D.team[e] /\ f.days = [d \in D.dates |-> D.verdict[<<e, d>>]]
      /\ f.present = Cardinality(DaysIn({"present"})) /\ f.on_leave = Cardinality(DaysIn({"on_leave"}))
      /\ f.absent = Cardinality(DaysIn({"absent"})) /\ f.unverified = Cardinality(DaysIn({"unverified"}))
      /\ f.no_record = Cardinality(DaysIn({"absent", "unverified"})) /\ f.missing = Cardinality(missing)
      /\ f.never_punched \in BOOLEAN /\ f.expected = Cardinality(counted)
  BY DEF EmployeeFigures
<1>2. \A T \in SUBSET CountedStatuses : DaysIn(T) = DaysWith(D, e, T)
  BY DEF DaysWith, Past, WorkingDates, Counts, LoadedFine
<1>3. /\ {"present"} \in SUBSET CountedStatuses /\ {"on_leave"} \in SUBSET CountedStatuses
      /\ {"absent"} \in SUBSET CountedStatuses /\ {"unverified"} \in SUBSET CountedStatuses
      /\ {"absent", "unverified"} \in SUBSET CountedStatuses
  BY DEF CountedStatuses
<1>4. Cardinality(missing) \in Nat
  <2>1. missing \in SUBSET D.dates /\ IsFiniteSet(D.dates)
    BY DEF LoadedFine
  <2> HIDE DEF missing
  <2> QED BY <2>1, FS_Subset, FS_CardinalityType
<1>11. Cardinality(counted) \in Nat
  <2>1. counted \in SUBSET D.dates /\ IsFiniteSet(D.dates)
    BY DEF LoadedFine
  <2> HIDE DEF counted
  <2> QED BY <2>1, FS_Subset, FS_CardinalityType
<1>5. Cardinality(DaysWith(D, e, {"absent", "unverified"}))
        = Cardinality(DaysWith(D, e, {"absent"})) + Cardinality(DaysWith(D, e, {"unverified"}))
  <2> DEFINE P == DaysWith(D, e, {"absent"})
             Q == DaysWith(D, e, {"unverified"})
  <2>1. DaysWith(D, e, {"absent", "unverified"}) = P \cup Q /\ P \cap Q = {}
    BY DEF DaysWith
  <2>2. IsFiniteSet(P) /\ IsFiniteSet(Q) /\ Cardinality(P) \in Nat /\ Cardinality(Q) \in Nat
    BY PastFinite
  <2> HIDE DEF P, Q
  <2>3. Cardinality(P \cup Q) = Cardinality(P) + Cardinality(Q) - Cardinality({}) /\ Cardinality({}) = 0
    BY <2>1, <2>2, FS_Union, FS_EmptySet
  <2>4. Cardinality(P \cup Q) = Cardinality(P) + Cardinality(Q)
    BY <2>2, <2>3
  <2>5. Cardinality(DaysWith(D, e, {"absent", "unverified"})) = Cardinality(P \cup Q)
    BY <2>1, Zenon
  <2> QED BY <2>4, <2>5 DEF P, Q
<1> DEFINE N(T) == Cardinality(DaysWith(D, e, T))
<1>6. \A T \in SUBSET CountedStatuses : Cardinality(DaysIn(T)) = N(T)
  BY <1>2
<1>7. \A T : N(T) \in Nat
  BY PastFinite
<1> HIDE DEF f, DaysIn, missing, counted
<1>8. /\ f.present = N({"present"}) /\ f.on_leave = N({"on_leave"}) /\ f.absent = N({"absent"})
      /\ f.unverified = N({"unverified"}) /\ f.no_record = N({"absent", "unverified"})
  BY <1>1, <1>3, <1>6, Zenon
<1>9. f.no_record = f.absent + f.unverified
  BY <1>5, <1>8
<1> HIDE DEF N
<1>10. f.present \in Nat /\ f.on_leave \in Nat /\ f.absent \in Nat /\ f.unverified \in Nat /\ f.missing \in Nat
  BY <1>1, <1>4, <1>7, <1>8
<1> QED BY <1>1, <1>8, <1>9, <1>10, <1>11 DEF f, N, EmployeeSays

\* Who is in the figures, and the figures of A.
Included(D, exclude) == {e \in DOMAIN D.team : exclude => ~EmployeeFigures(D, e).never_punched}
FiguresOf(D, A) == {EmployeeFigures(D, e) : e \in A}

GroupSays(g, F) ==
  /\ g.headcount = Cardinality(F) /\ g.present_days = SumFunction([f \in F |-> f.present])
  /\ g.on_leave_days = SumFunction([f \in F |-> f.on_leave])
  /\ g.absent_days = SumFunction([f \in F |-> f.absent])
  /\ g.unverified_days = SumFunction([f \in F |-> f.unverified])
  /\ g.missing_checkouts = SumFunction([f \in F |-> f.missing])
  /\ g.no_punch_in_period = Cardinality({f \in F : f.never_punched})
  /\ g.attendance_rate = Rate(SumFunction([f \in F |-> f.present]), SumFunction([f \in F |-> f.expected]),
                              SumFunction([f \in F |-> f.on_leave]))

LEMMA GroupIs ==
  ASSUME NEW F, NEW n, NEW m
  PROVE  GroupSays(GroupFigures(F, n, m), F)
BY DEF GroupFigures, GroupSays

\* Of the figures of A the pages get.
AdaptedSays(a, D, A) ==
  /\ a.employees = {AdaptedEmployee(EmployeeFigures(D, e)) : e \in A}
  /\ a.daily = {AdaptedDay(DayFigures(D, FiguresOf(D, A), d)) : d \in WorkingDates(D)}
  /\ a.teams = {AdaptedTeam(TeamFigures(D, FiguresOf(D, A), t)) : t \in {D.team[e] : e \in A}}
  /\ \E g : /\ GroupSays(g, FiguresOf(D, A))
            /\ a.headcount = g.headcount /\ a.presentDays = g.present_days /\ a.onLeaveDays = g.on_leave_days
            /\ a.absentDays = g.absent_days /\ a.unverifiedDays = g.unverified_days
            /\ a.missingCheckouts = g.missing_checkouts /\ a.neverPunchedCount = g.no_punch_in_period
            /\ a.attendanceRate = g.attendance_rate

LEMMA AdaptedIs ==
  ASSUME NEW D, LoadedFine(D), NEW exclude
  PROVE  AdaptedSays(Adapted(BuildMetrics(D, exclude)), D, Included(D, exclude))
<1> DEFINE A == Included(D, exclude)
           F == FiguresOf(D, A)
           m == BuildMetrics(D, exclude)
           a == Adapted(m)
           every == {EmployeeFigures(D, e) : e \in DOMAIN D.team}
           provisional == {d \in WorkingDates(D) \cap D.punched : d > D.through}
<1>1. F = {f \in every : exclude => ~f.never_punched}
  BY DEF Included, FiguresOf
<1>2. /\ m.summary = GroupFigures(F, Cardinality(provisional), NoDataDays(D)) /\ m.employees = F
      /\ m.daily = {DayFigures(D, F, d) : d \in WorkingDates(D)}
      /\ m.teams = {TeamFigures(D, F, t) : t \in {f.team : f \in F}}
  <2> HIDE DEF F
  <2> QED BY <1>1, Zenon DEF BuildMetrics
<1>3. a.employees = {AdaptedEmployee(EmployeeFigures(D, e)) : e \in A}
  <2>1. a.employees = {AdaptedEmployee(f) : f \in F}
    BY <1>2, Zenon DEF Adapted
  <2> QED BY <2>1 DEF FiguresOf
<1>4. a.daily = {AdaptedDay(DayFigures(D, F, d)) : d \in WorkingDates(D)}
  <2>1. a.daily = {AdaptedDay(f) : f \in {DayFigures(D, F, d) : d \in WorkingDates(D)}}
    BY <1>2, Zenon DEF Adapted
  <2> QED BY <2>1
<1>5. a.teams = {AdaptedTeam(TeamFigures(D, F, t)) : t \in {D.team[e] : e \in A}}
  <2>1. a.teams = {AdaptedTeam(f) : f \in {TeamFigures(D, F, t) : t \in {f.team : f \in F}}}
    BY <1>2, Zenon DEF Adapted
  <2>2. {f.team : f \in F} = {D.team[e] : e \in A}
    <3>1. \A e \in A : EmployeeFigures(D, e).team = D.team[e]
      <4>1. ASSUME NEW e \in A PROVE EmployeeSays(EmployeeFigures(D, e), D, e)
        BY EmployeeIs DEF Included
      <4> QED BY <4>1 DEF EmployeeSays
    <3> QED BY <3>1 DEF FiguresOf
  <2> HIDE DEF F, A
  <2> QED BY <2>1, <2>2
<1> DEFINE g == GroupFigures(F, Cardinality(provisional), NoDataDays(D))
<1>6. GroupSays(g, F)
  <2> HIDE DEF F, provisional
  <2> QED BY GroupIs
<1>7. /\ a.headcount = m.summary.headcount /\ a.presentDays = m.summary.present_days
      /\ a.onLeaveDays = m.summary.on_leave_days
      /\ a.absentDays = m.summary.absent_days /\ a.unverifiedDays = m.summary.unverified_days
      /\ a.missingCheckouts = m.summary.missing_checkouts /\ a.neverPunchedCount = m.summary.no_punch_in_period
      /\ a.attendanceRate = m.summary.attendance_rate
  <2> HIDE DEF m
  <2> QED BY DEF Adapted
<1>8. m.summary = g
  BY <1>2
<1> HIDE DEF a, m, g, A, provisional
<1>9. \E h : /\ GroupSays(h, FiguresOf(D, A))
             /\ a.headcount = h.headcount /\ a.presentDays = h.present_days /\ a.onLeaveDays = h.on_leave_days
             /\ a.absentDays = h.absent_days /\ a.unverifiedDays = h.unverified_days
             /\ a.missingCheckouts = h.missing_checkouts /\ a.neverPunchedCount = h.no_punch_in_period
             /\ a.attendanceRate = h.attendance_rate
  BY <1>6, <1>7, <1>8, Zenon
<1> QED BY <1>3, <1>4, <1>5, <1>9, Zenon DEF AdaptedSays, a, m, A

\* What names the members of A one by one names those of a part.
LEMMA PartNamed ==
  ASSUME NEW A, NEW B, NEW g \in Bijection(A, B), NEW P, P \subseteq A, NEW Q, Q \subseteq B,
         \A a \in A : a \in P <=> g[a] \in Q
  PROVE  [a \in P |-> g[a]] \in Bijection(P, Q)
<1> DEFINE h == [a \in P |-> g[a]]
<1>1. /\ \A a \in A : g[a] \in B
      /\ \A a, b \in A : g[a] = g[b] => a = b
      /\ \A b \in B : \E a \in A : g[a] = b
  BY DEF Bijection, Injection, Surjection, IsInjective
<1>2. h \in [P -> Q] /\ (\A a, b \in P : h[a] = h[b] => a = b) /\ \A b \in Q : \E a \in P : h[a] = b
  BY <1>1
<1> HIDE DEF h
<1>3. h \in Bijection(P, Q)
  BY <1>2 DEF Bijection, Injection, Surjection, IsInjective
<1> QED BY <1>3 DEF h

\* The sum over the named members of a part.
LEMMA SumOver ==
  ASSUME NEW A, IsFiniteSet(A), NEW B, NEW g \in Bijection(A, B), NEW P, P \subseteq A, NEW Q, Q \subseteq B,
         \A a \in A : a \in P <=> g[a] \in Q,
         NEW fun, NEW gun, \A a \in P : fun[a] \in Nat /\ gun[g[a]] = fun[a]
  PROVE  SumFunctionOnSet(gun, Q) = SumFunctionOnSet(fun, P)
<1> DEFINE h == [a \in P |-> g[a]]
<1>1. h \in Bijection(P, Q)
  BY PartNamed
<1>2. \A a \in P : fun[a] \in Nat /\ gun[h[a]] = fun[a]
  OBVIOUS
<1>3. IsFiniteSet(P)
  BY FS_Subset
<1> HIDE DEF h
<1>4. SumFunctionOnSet(gun, Q) = SumFunctionOnSet(fun, P) /\ IsFiniteSet(Q)
  BY <1>1, <1>2, <1>3, SumNamed
<1> QED BY <1>4

LEMMA ImageNamed ==
  ASSUME NEW A, NEW g, g = [a \in A |-> g[a]], NEW B, B = {g[a] : a \in A}, \A a, b \in A : g[a] = g[b] => a = b
  PROVE  g \in Bijection(A, B)
<1>1. g \in [A -> B] /\ \A b \in B : \E a \in A : g[a] = b
  OBVIOUS
<1> QED BY <1>1 DEF Bijection, Injection, Surjection, IsInjective

\* The records of the employees of A are named by the employees.
FiguresNames(D, A) == [e \in A |-> EmployeeFigures(D, e)]
AdaptedNames(D, A) == [e \in A |-> AdaptedEmployee(EmployeeFigures(D, e))]

AdaptedEmployeeSays(f, D, e) ==
  LET g == EmployeeFigures(D, e) IN
  /\ f.id = e /\ f.team = D.team[e] /\ f.days = [d \in D.dates |-> D.verdict[<<e, d>>]]
  /\ f.present = g.present /\ f.leave = g.on_leave /\ f.absent = g.absent /\ f.unverifiedCount = g.unverified
  /\ f.missing = g.missing /\ f.noRecord = g.no_record /\ f.neverPunched = g.never_punched
  /\ f.expected = g.expected

LEMMA AdaptedEmployeeIs ==
  ASSUME NEW D, LoadedFine(D), NEW e \in DOMAIN D.team
  PROVE  AdaptedEmployeeSays(AdaptedEmployee(EmployeeFigures(D, e)), D, e)
<1>1. EmployeeSays(EmployeeFigures(D, e), D, e)
  BY EmployeeIs
<1> QED BY <1>1 DEF EmployeeSays, AdaptedEmployee, AdaptedEmployeeSays

LEMMA EmployeesNamed ==
  ASSUME NEW D, LoadedFine(D), NEW A, A \subseteq DOMAIN D.team, NEW a, AdaptedSays(a, D, A)
  PROVE  /\ IsFiniteSet(A)
         /\ FiguresNames(D, A) \in Bijection(A, FiguresOf(D, A))
         /\ AdaptedNames(D, A) \in Bijection(A, a.employees)
         /\ \A e \in A : /\ FiguresNames(D, A)[e] = EmployeeFigures(D, e)
                         /\ AdaptedNames(D, A)[e] = AdaptedEmployee(EmployeeFigures(D, e))
                         /\ EmployeeSays(FiguresNames(D, A)[e], D, e)
                         /\ AdaptedEmployeeSays(AdaptedNames(D, A)[e], D, e)
<1> DEFINE g == FiguresNames(D, A)
           h == AdaptedNames(D, A)
<1>1. \A e \in A : /\ g[e] = EmployeeFigures(D, e) /\ h[e] = AdaptedEmployee(EmployeeFigures(D, e))
  BY DEF FiguresNames, AdaptedNames
<1>2. \A e \in A : EmployeeSays(g[e], D, e) /\ AdaptedEmployeeSays(h[e], D, e)
  BY <1>1, EmployeeIs, AdaptedEmployeeIs
<1>3. \A e \in A : g[e].id = e /\ h[e].id = e
  <2> HIDE DEF g, h
  <2> QED BY <1>2 DEF EmployeeSays, AdaptedEmployeeSays
<1>4. /\ g = [e \in A |-> g[e]] /\ h = [e \in A |-> h[e]]
      /\ FiguresOf(D, A) = {g[e] : e \in A} /\ a.employees = {h[e] : e \in A}
  BY <1>1 DEF FiguresNames, AdaptedNames, FiguresOf, AdaptedSays
<1>5. IsFiniteSet(A)
  BY FS_Subset DEF LoadedFine
<1> HIDE DEF g, h
<1>6. \A e, k \in A : (g[e] = g[k] => e = k) /\ (h[e] = h[k] => e = k)
  BY <1>3
<1>7. g \in Bijection(A, FiguresOf(D, A)) /\ h \in Bijection(A, a.employees)
  BY <1>4, <1>6, ImageNamed
<1> QED BY <1>1, <1>2, <1>5, <1>7 DEF g, h

\* One field of the figures of each employee, to be added up over a part of A.
Own(D, A, field) == [e \in A |-> EmployeeFigures(D, e)[field]]
SumOf(D, A, field, P) == SumFunctionOnSet(Own(D, A, field), P)

FiguresSums(Q, D, A, P) ==
  /\ SumFunction([f \in Q |-> f.present]) = SumOf(D, A, "present", P)
  /\ SumFunction([f \in Q |-> f.on_leave]) = SumOf(D, A, "on_leave", P)
  /\ SumFunction([f \in Q |-> f.absent]) = SumOf(D, A, "absent", P)
  /\ SumFunction([f \in Q |-> f.unverified]) = SumOf(D, A, "unverified", P)
  /\ SumFunction([f \in Q |-> f.missing]) = SumOf(D, A, "missing", P)
  /\ SumFunction([f \in Q |-> f.expected]) = SumOf(D, A, "expected", P)
  /\ Cardinality(Q) = Cardinality(P)

\* As the pages read them.
AdaptedSums(Q, D, A, P) ==
  /\ SumFunction([f \in Q |-> f.present]) = SumOf(D, A, "present", P)
  /\ SumFunction([f \in Q |-> f.noRecord]) = SumOf(D, A, "no_record", P)
  /\ SumFunction([f \in Q |-> f.missing]) = SumOf(D, A, "missing", P)
  /\ SumFunction([f \in Q |-> f.expected]) = SumOf(D, A, "expected", P)
  /\ SumFunction([f \in Q |-> f.leave]) = SumOf(D, A, "on_leave", P)
  /\ Cardinality(Q) = Cardinality(P)

Fields == {"present", "on_leave", "absent", "unverified", "missing", "no_record", "expected"}

LEMMA OwnIs ==
  ASSUME NEW D, LoadedFine(D), NEW A, A \subseteq DOMAIN D.team, NEW e \in A
  PROVE  /\ \A field \in Fields : Own(D, A, field)[e] \in Nat
         /\ Own(D, A, "present")[e] = EmployeeFigures(D, e).present
         /\ Own(D, A, "on_leave")[e] = EmployeeFigures(D, e).on_leave
         /\ Own(D, A, "absent")[e] = EmployeeFigures(D, e).absent
         /\ Own(D, A, "unverified")[e] = EmployeeFigures(D, e).unverified
         /\ Own(D, A, "missing")[e] = EmployeeFigures(D, e).missing
         /\ Own(D, A, "no_record")[e] = EmployeeFigures(D, e).no_record
         /\ Own(D, A, "expected")[e] = EmployeeFigures(D, e).expected
         /\ Own(D, A, "no_record")[e] = Own(D, A, "absent")[e] + Own(D, A, "unverified")[e]
<1>1. EmployeeSays(EmployeeFigures(D, e), D, e)
  BY EmployeeIs
<1> DEFINE g == EmployeeFigures(D, e)
<1>2. \A field : Own(D, A, field)[e] = g[field]
  BY DEF Own
<1> HIDE DEF g
<1>3. EmployeeSays(g, D, e)
  BY <1>1 DEF g
<1>4. /\ \A field \in Fields : g[field] \in Nat
      /\ g.no_record = g.absent + g.unverified
  BY <1>3 DEF EmployeeSays, Fields
<1> QED BY <1>2, <1>4 DEF g

LEMMA SumOfType ==
  ASSUME NEW D, LoadedFine(D), NEW A, A \subseteq DOMAIN D.team, NEW P, P \subseteq A
  PROVE  \A field \in Fields : SumOf(D, A, field, P) \in Nat
<1> TAKE field \in Fields
<1>1. IsFiniteSet(P)
  BY FS_Subset DEF LoadedFine
<1>2. \A e \in P : Own(D, A, field)[e] \in Nat
  BY OwnIs
<1> QED BY <1>1, <1>2, SumType DEF SumOf

FieldOf(Q, k) == [f \in Q |-> f[k]]

LEMMA FieldSum ==
  ASSUME NEW A, IsFiniteSet(A), NEW B, NEW g \in Bijection(A, B), NEW P, P \subseteq A, NEW Q, Q \subseteq B,
         \A a \in A : a \in P <=> g[a] \in Q, NEW fun, NEW k, \A a \in P : fun[a] \in Nat /\ g[a][k] = fun[a]
  PROVE  SumFunction(FieldOf(Q, k)) = SumFunctionOnSet(fun, P)
<1> DEFINE gun == FieldOf(Q, k)
<1>1. SumFunction(gun) = SumFunctionOnSet(gun, Q) /\ \A a \in P : fun[a] \in Nat /\ gun[g[a]] = fun[a]
  BY DEF SumFunction, FieldOf
<1> HIDE DEF gun
<1>2. SumFunctionOnSet(gun, Q) = SumFunctionOnSet(fun, P)
  BY <1>1, SumOver
<1> QED BY <1>1, <1>2 DEF gun

LEMMA FieldSums ==
  ASSUME NEW D, LoadedFine(D), NEW A, A \subseteq DOMAIN D.team, NEW a, AdaptedSays(a, D, A), NEW P, P \subseteq A,
         NEW Q, Q \subseteq FiguresOf(D, A), \A e \in A : e \in P <=> EmployeeFigures(D, e) \in Q
  PROVE  FiguresSums(Q, D, A, P)
<1> DEFINE g == FiguresNames(D, A)
<1>1. /\ IsFiniteSet(A) /\ g \in Bijection(A, FiguresOf(D, A))
      /\ \A e \in A : g[e] = EmployeeFigures(D, e)
  BY EmployeesNamed
<1> HIDE DEF g
<1>2. \A e \in A : e \in P <=> g[e] \in Q
  BY <1>1
<1>3. Cardinality(P) = Cardinality(Q)
  BY <1>1, <1>2, CountNamed
<1>4. \A e \in P : /\ \A field \in Fields : Own(D, A, field)[e] \in Nat
                   /\ g[e] \in Q
                   /\ Own(D, A, "present")[e] = g[e].present /\ Own(D, A, "on_leave")[e] = g[e].on_leave
                   /\ Own(D, A, "absent")[e] = g[e].absent /\ Own(D, A, "unverified")[e] = g[e].unverified
                   /\ Own(D, A, "missing")[e] = g[e].missing /\ Own(D, A, "expected")[e] = g[e].expected
  BY <1>1, <1>2, OwnIs
<1>5. /\ "present" \in Fields /\ "on_leave" \in Fields /\ "absent" \in Fields /\ "unverified" \in Fields
      /\ "missing" \in Fields /\ "expected" \in Fields
  BY DEF Fields
<1>6. SumFunction([f \in Q |-> f.present]) = SumOf(D, A, "present", P)
  <2>1. \A e \in P : Own(D, A, "present")[e] \in Nat /\ g[e]["present"] = Own(D, A, "present")[e]
    BY <1>4, <1>5
  <2>2. SumFunction(FieldOf(Q, "present")) = SumFunctionOnSet(Own(D, A, "present"), P)
    BY <1>1, <1>2, <2>1, FieldSum
  <2> QED BY <2>2 DEF SumOf, FieldOf
<1>7. SumFunction([f \in Q |-> f.on_leave]) = SumOf(D, A, "on_leave", P)
  <2>1. \A e \in P : Own(D, A, "on_leave")[e] \in Nat /\ g[e]["on_leave"] = Own(D, A, "on_leave")[e]
    BY <1>4, <1>5
  <2>2. SumFunction(FieldOf(Q, "on_leave")) = SumFunctionOnSet(Own(D, A, "on_leave"), P)
    BY <1>1, <1>2, <2>1, FieldSum
  <2> QED BY <2>2 DEF SumOf, FieldOf
<1>8. SumFunction([f \in Q |-> f.absent]) = SumOf(D, A, "absent", P)
  <2>1. \A e \in P : Own(D, A, "absent")[e] \in Nat /\ g[e]["absent"] = Own(D, A, "absent")[e]
    BY <1>4, <1>5
  <2>2. SumFunction(FieldOf(Q, "absent")) = SumFunctionOnSet(Own(D, A, "absent"), P)
    BY <1>1, <1>2, <2>1, FieldSum
  <2> QED BY <2>2 DEF SumOf, FieldOf
<1>9. SumFunction([f \in Q |-> f.unverified]) = SumOf(D, A, "unverified", P)
  <2>1. \A e \in P : Own(D, A, "unverified")[e] \in Nat /\ g[e]["unverified"] = Own(D, A, "unverified")[e]
    BY <1>4, <1>5
  <2>2. SumFunction(FieldOf(Q, "unverified")) = SumFunctionOnSet(Own(D, A, "unverified"), P)
    BY <1>1, <1>2, <2>1, FieldSum
  <2> QED BY <2>2 DEF SumOf, FieldOf
<1>10. SumFunction([f \in Q |-> f.missing]) = SumOf(D, A, "missing", P)
  <2>1. \A e \in P : Own(D, A, "missing")[e] \in Nat /\ g[e]["missing"] = Own(D, A, "missing")[e]
    BY <1>4, <1>5
  <2>2. SumFunction(FieldOf(Q, "missing")) = SumFunctionOnSet(Own(D, A, "missing"), P)
    BY <1>1, <1>2, <2>1, FieldSum
  <2> QED BY <2>2 DEF SumOf, FieldOf
<1>11. SumFunction([f \in Q |-> f.expected]) = SumOf(D, A, "expected", P)
  <2>1. \A e \in P : Own(D, A, "expected")[e] \in Nat /\ g[e]["expected"] = Own(D, A, "expected")[e]
    BY <1>4, <1>5
  <2>2. SumFunction(FieldOf(Q, "expected")) = SumFunctionOnSet(Own(D, A, "expected"), P)
    BY <1>1, <1>2, <2>1, FieldSum
  <2> QED BY <2>2 DEF SumOf, FieldOf
<1> QED BY <1>3, <1>6, <1>7, <1>8, <1>9, <1>10, <1>11, Zenon DEF FiguresSums

LEMMA AdaptedFieldSums ==
  ASSUME NEW D, LoadedFine(D), NEW A, A \subseteq DOMAIN D.team, NEW a, AdaptedSays(a, D, A), NEW P, P \subseteq A,
         NEW Q, Q \subseteq a.employees, \A e \in A : e \in P <=> AdaptedEmployee(EmployeeFigures(D, e)) \in Q
  PROVE  AdaptedSums(Q, D, A, P)
<1> DEFINE g == AdaptedNames(D, A)
<1>1. /\ IsFiniteSet(A) /\ g \in Bijection(A, a.employees)
      /\ \A e \in A : g[e] = AdaptedEmployee(EmployeeFigures(D, e)) /\ AdaptedEmployeeSays(g[e], D, e)
  BY EmployeesNamed
<1> HIDE DEF g
<1>2. \A e \in A : e \in P <=> g[e] \in Q
  BY <1>1
<1>3. Cardinality(P) = Cardinality(Q)
  <2>1. IsFiniteSet(A) /\ g \in Bijection(A, a.employees)
    BY <1>1
  <2> QED BY <2>1, <1>2, CountNamed
<1>4. \A e \in P : /\ \A field \in Fields : Own(D, A, field)[e] \in Nat
                   /\ g[e] \in Q
                   /\ Own(D, A, "present")[e] = g[e].present /\ Own(D, A, "no_record")[e] = g[e].noRecord
                   /\ Own(D, A, "missing")[e] = g[e].missing /\ Own(D, A, "expected")[e] = g[e].expected
                   /\ Own(D, A, "on_leave")[e] = g[e].leave
  <2> TAKE e \in P
  <2>1. AdaptedEmployeeSays(g[e], D, e) /\ g[e] \in Q
    BY <1>1, <1>2
  <2>2. /\ \A field \in Fields : Own(D, A, field)[e] \in Nat
        /\ Own(D, A, "present")[e] = EmployeeFigures(D, e).present
        /\ Own(D, A, "on_leave")[e] = EmployeeFigures(D, e).on_leave
        /\ Own(D, A, "missing")[e] = EmployeeFigures(D, e).missing
        /\ Own(D, A, "no_record")[e] = EmployeeFigures(D, e).no_record
        /\ Own(D, A, "expected")[e] = EmployeeFigures(D, e).expected
    BY OwnIs
  <2> QED BY <2>1, <2>2, Zenon DEF AdaptedEmployeeSays
<1>5. /\ "present" \in Fields /\ "no_record" \in Fields /\ "missing" \in Fields
      /\ "expected" \in Fields /\ "on_leave" \in Fields
  BY DEF Fields
<1>6. SumFunction([f \in Q |-> f.present]) = SumOf(D, A, "present", P)
  <2>1. \A e \in P : Own(D, A, "present")[e] \in Nat /\ g[e]["present"] = Own(D, A, "present")[e]
    BY <1>4, <1>5
  <2>2. SumFunction(FieldOf(Q, "present")) = SumFunctionOnSet(Own(D, A, "present"), P)
    BY <1>1, <1>2, <2>1, FieldSum
  <2> QED BY <2>2 DEF SumOf, FieldOf
<1>7. SumFunction([f \in Q |-> f.noRecord]) = SumOf(D, A, "no_record", P)
  <2>1. \A e \in P : Own(D, A, "no_record")[e] \in Nat /\ g[e]["noRecord"] = Own(D, A, "no_record")[e]
    BY <1>4, <1>5
  <2>2. SumFunction(FieldOf(Q, "noRecord")) = SumFunctionOnSet(Own(D, A, "no_record"), P)
    BY <1>1, <1>2, <2>1, FieldSum
  <2> QED BY <2>2 DEF SumOf, FieldOf
<1>8. SumFunction([f \in Q |-> f.missing]) = SumOf(D, A, "missing", P)
  <2>1. \A e \in P : Own(D, A, "missing")[e] \in Nat /\ g[e]["missing"] = Own(D, A, "missing")[e]
    BY <1>4, <1>5
  <2>2. SumFunction(FieldOf(Q, "missing")) = SumFunctionOnSet(Own(D, A, "missing"), P)
    BY <1>1, <1>2, <2>1, FieldSum
  <2> QED BY <2>2 DEF SumOf, FieldOf
<1>9. SumFunction([f \in Q |-> f.expected]) = SumOf(D, A, "expected", P)
  <2>1. \A e \in P : Own(D, A, "expected")[e] \in Nat /\ g[e]["expected"] = Own(D, A, "expected")[e]
    BY <1>4, <1>5
  <2>2. SumFunction(FieldOf(Q, "expected")) = SumFunctionOnSet(Own(D, A, "expected"), P)
    BY <1>1, <1>2, <2>1, FieldSum
  <2> QED BY <2>2 DEF SumOf, FieldOf
<1>10. SumFunction([f \in Q |-> f.leave]) = SumOf(D, A, "on_leave", P)
  <2>1. \A e \in P : Own(D, A, "on_leave")[e] \in Nat /\ g[e]["leave"] = Own(D, A, "on_leave")[e]
    BY <1>4, <1>5
  <2>2. SumFunction(FieldOf(Q, "leave")) = SumFunctionOnSet(Own(D, A, "on_leave"), P)
    BY <1>1, <1>2, <2>1, FieldSum
  <2> QED BY <2>2 DEF SumOf, FieldOf
<1> QED BY <1>3, <1>6, <1>7, <1>8, <1>9, <1>10, Zenon DEF AdaptedSums

\* Who of M has a status on a day, and the past days on which somebody has it.
Having(D, M, d, s) == {e \in M : D.verdict[<<e, d>>].status = s}
DaysHaving(D, e, s) == DaysWith(D, e, {s})
PastWith(D, M, s) == {x \in M \X Past(D) : D.verdict[x].status = s}

DaySays(f, D, M, d) ==
  /\ f.date = d
  /\ f.present = Cardinality(Having(D, M, d, "present")) /\ f.on_leave = Cardinality(Having(D, M, d, "on_leave"))
  /\ f.absent = Cardinality(Having(D, M, d, "absent")) /\ f.unverified = Cardinality(Having(D, M, d, "unverified"))
  /\ f.rate # NoRate => \E e \in M : D.verdict[<<e, d>>].status \in CountedStatuses

LEMMA DayIs ==
  ASSUME NEW D, LoadedFine(D), NEW A, A \subseteq DOMAIN D.team, NEW a, AdaptedSays(a, D, A), NEW M, M \subseteq A,
         NEW F, F \subseteq FiguresOf(D, A), \A e \in A : e \in M <=> EmployeeFigures(D, e) \in F, NEW d \in D.dates
  PROVE  DaySays(DayFigures(D, F, d), D, M, d)
<1> DEFINE g == FiguresNames(D, A)
           f == DayFigures(D, F, d)
           N(s) == Cardinality({h \in F : h.days[d].status = s})
<1>1. /\ IsFiniteSet(A) /\ g \in Bijection(A, FiguresOf(D, A))
      /\ \A e \in A : g[e] = EmployeeFigures(D, e) /\ EmployeeSays(g[e], D, e)
  BY EmployeesNamed
<1> HIDE DEF g
<1>2. \A e \in A : e \in M <=> g[e] \in F
  BY <1>1
<1>3. ASSUME NEW s PROVE Cardinality(Having(D, M, d, s)) = N(s) /\ Cardinality(Having(D, M, d, s)) \in Nat
  <2> DEFINE P == Having(D, M, d, s)
             Q == {h \in F : h.days[d].status = s}
  <2>1. ASSUME NEW e \in A PROVE g[e].days[d] = D.verdict[<<e, d>>]
    <3>1. g[e].days = [b \in D.dates |-> D.verdict[<<e, b>>]]
      BY <1>1, Zenon DEF EmployeeSays
    <3> QED BY <3>1, Zenon
  <2>2. P \subseteq A /\ Q \subseteq FiguresOf(D, A) /\ \A e \in A : e \in P <=> g[e] \in Q
    BY <1>2, <2>1 DEF Having
  <2> HIDE DEF P, Q
  <2>3. Cardinality(P) = Cardinality(Q) /\ Cardinality(P) \in Nat
    <3>1. IsFiniteSet(A) /\ g \in Bijection(A, FiguresOf(D, A))
      BY <1>1
    <3> QED BY <3>1, <2>2, CountNamed
  <2> QED BY <2>3 DEF P, Q
<1>4. /\ f.date = d /\ f.present = N("present") /\ f.on_leave = N("on_leave") /\ f.absent = N("absent")
      /\ f.unverified = N("unverified")
      /\ f.rate = Rate(N("present"), N("present") + N("on_leave") + N("absent") + N("unverified"), N("on_leave"))
  BY DEF DayFigures
<1> HIDE DEF f, N
<1>5. ASSUME f.rate # NoRate PROVE \E e \in M : D.verdict[<<e, d>>].status \in CountedStatuses
  <2> SUFFICES ASSUME \A s \in CountedStatuses : Having(D, M, d, s) = {} PROVE FALSE
    BY DEF Having
  <2>1. \A s \in CountedStatuses : N(s) = 0
    BY <1>3, FS_EmptySet
  <2>2. N("present") = 0 /\ N("on_leave") = 0 /\ N("absent") = 0 /\ N("unverified") = 0
    BY <2>1 DEF CountedStatuses
  <2> QED BY <1>4, <1>5, <2>2 DEF Rate
<1>6. DaySays(f, D, M, d)
  BY <1>3, <1>4, <1>5, Zenon DEF DaySays
<1> QED BY <1>6 DEF f

\* The days of the chart are named by their dates.
DayNames(D, A) == [d \in WorkingDates(D) |-> AdaptedDay(DayFigures(D, FiguresOf(D, A), d))]

LEMMA DaysNamed ==
  ASSUME NEW D, LoadedFine(D), NEW A, A \subseteq DOMAIN D.team, NEW a, AdaptedSays(a, D, A)
  PROVE  /\ DayNames(D, A) \in Bijection(WorkingDates(D), a.daily)
         /\ \A d \in WorkingDates(D) :
              /\ DayNames(D, A)[d].date = d
              /\ DayNames(D, A)[d].present = Cardinality(Having(D, A, d, "present"))
              /\ DayNames(D, A)[d].leave = Cardinality(Having(D, A, d, "on_leave"))
              /\ DayNames(D, A)[d].absent = Cardinality(Having(D, A, d, "absent"))
              /\ DayNames(D, A)[d].unverified = Cardinality(Having(D, A, d, "unverified"))
<1> DEFINE g == DayNames(D, A)
<1>1. ASSUME NEW d \in WorkingDates(D)
      PROVE  /\ g[d].date = d
             /\ g[d].present = Cardinality(Having(D, A, d, "present"))
             /\ g[d].leave = Cardinality(Having(D, A, d, "on_leave"))
             /\ g[d].absent = Cardinality(Having(D, A, d, "absent"))
             /\ g[d].unverified = Cardinality(Having(D, A, d, "unverified"))
  <2> DEFINE f == DayFigures(D, FiguresOf(D, A), d)
  <2>1. DaySays(f, D, A, d)
    <3>1. d \in D.dates /\ \A e \in A : EmployeeFigures(D, e) \in FiguresOf(D, A)
      BY DEF WorkingDates, FiguresOf
    <3> QED BY <3>1, DayIs
  <2>2. g[d] = AdaptedDay(f)
    BY DEF DayNames
  <2> HIDE DEF f, g
  <2> QED BY <2>1, <2>2 DEF DaySays, AdaptedDay
<1>2. g = [d \in WorkingDates(D) |-> g[d]] /\ a.daily = {g[d] : d \in WorkingDates(D)}
  BY DEF DayNames, AdaptedSays
<1> HIDE DEF g
<1>3. \A d, b \in WorkingDates(D) : g[d] = g[b] => d = b
  BY <1>1
<1>4. g \in Bijection(WorkingDates(D), a.daily)
  BY <1>2, <1>3, ImageNamed
<1> QED BY <1>1, <1>4 DEF g

\* Field k of a day counts who has status s on it, a field of an employee on how many days.
DayCounts(D, A, k, s) == \A d \in Past(D) : DayNames(D, A)[d][k] = Cardinality(Having(D, A, d, s))
PastDays(D, A, Q) == \A d \in WorkingDates(D) : d \in Past(D) <=> DayNames(D, A)[d] \in Q
EmployeeCounts(D, A, field, s) == \A e \in A : Own(D, A, field)[e] = Cardinality(DaysHaving(D, e, s))

\* The past days add up to what the employees add up to.
LEMMA ChartSum ==
  ASSUME NEW D, LoadedFine(D), NEW A, A \subseteq DOMAIN D.team, NEW a, AdaptedSays(a, D, A),
         NEW Q, Q \subseteq a.daily, PastDays(D, A, Q),
         NEW k, NEW field, NEW s,
         DayCounts(D, A, k, s), EmployeeCounts(D, A, field, s)
  PROVE  /\ SumFunction(FieldOf(Q, k)) = Cardinality(PastWith(D, A, s))
         /\ SumOf(D, A, field, A) = Cardinality(PastWith(D, A, s))
<1> DEFINE R == PastWith(D, A, s)
           across == [d \in Past(D) |-> Cardinality(Having(D, A, d, s))]
           g == DayNames(D, A)
<1>1. /\ IsFiniteSet(A) /\ IsFiniteSet(Past(D)) /\ IsFiniteSet(WorkingDates(D)) /\ Past(D) \subseteq WorkingDates(D)
      /\ g \in Bijection(WorkingDates(D), a.daily)
  BY EmployeesNamed, PastFinite, DaysNamed
<1>2. R \subseteq A \X Past(D)
  BY DEF PastWith
<1>3. \A d \in Past(D) : Having(D, A, d, s) = Across(R, A, d)
  BY DEF Having, Across, PastWith
<1>4. \A e \in A : DaysHaving(D, e, s) = Along(R, Past(D), e)
  BY DEF DaysHaving, DaysWith, Along, PastWith
<1>5. \A e \in A : Own(D, A, field)[e] = Cardinality(Along(R, Past(D), e))
  BY <1>4 DEF EmployeeCounts
<1>6. \A d \in Past(D) : across[d] = Cardinality(Across(R, A, d)) /\ across[d] \in Nat /\ g[d][k] = across[d]
  <2>1. \A d \in Past(D) : Cardinality(Having(D, A, d, s)) \in Nat
    <3>1. \A d : Having(D, A, d, s) \in SUBSET A
      BY DEF Having
    <3> QED BY <1>1, <3>1, FS_Subset, FS_CardinalityType
  <2> QED BY <1>3, <2>1 DEF DayCounts
<1> HIDE DEF R, across, g
<1>7. SumFunctionOnSet(Own(D, A, field), A) = Cardinality(R) /\ SumFunctionOnSet(across, Past(D)) = Cardinality(R)
  BY <1>1, <1>2, <1>5, <1>6, SumSwap
<1>8. \A d \in WorkingDates(D) : d \in Past(D) <=> g[d] \in Q
  BY DEF g, PastDays
<1>9. SumFunction(FieldOf(Q, k)) = SumFunctionOnSet(across, Past(D))
  BY <1>1, <1>6, <1>8, FieldSum
<1> QED BY <1>7, <1>9 DEF SumOf, R

LEMMA ChartSums ==
  ASSUME NEW D, LoadedFine(D), NEW A, A \subseteq DOMAIN D.team, NEW a, AdaptedSays(a, D, A),
         NEW c, c.weekend \subseteq D.off, NEW chart, chart = {f \in ChartDays(a, c) : f.date < D.today}
  PROVE  /\ SumFunction([f \in chart |-> f.present]) = a.presentDays
         /\ SumFunction([f \in chart |-> f.leave]) = a.onLeaveDays
         /\ SumFunction([f \in chart |-> f.absent]) = a.absentDays
         /\ SumFunction([f \in chart |-> f.unverified]) = a.unverifiedDays
<1> DEFINE g == DayNames(D, A)
<1>1. /\ \A d \in WorkingDates(D) : /\ g[d] \in a.daily /\ g[d].date = d
                                    /\ g[d].present = Cardinality(Having(D, A, d, "present"))
                                    /\ g[d].leave = Cardinality(Having(D, A, d, "on_leave"))
                                    /\ g[d].absent = Cardinality(Having(D, A, d, "absent"))
                                    /\ g[d].unverified = Cardinality(Having(D, A, d, "unverified"))
      /\ Past(D) \subseteq WorkingDates(D)
  BY DaysNamed, PastFinite DEF Bijection, Injection
<1>2. chart \subseteq a.daily /\ PastDays(D, A, chart)
  <2>1. chart \subseteq a.daily /\ \A d \in WorkingDates(D) : d \in Past(D) <=> g[d] \in chart
    <3> HIDE DEF g
    <3> QED BY <1>1 DEF ChartDays, IsWeekend, Past, WorkingDates
  <2> QED BY <2>1 DEF PastDays
<1>3. ASSUME NEW e \in A
      PROVE  /\ Own(D, A, "present")[e] = Cardinality(DaysHaving(D, e, "present"))
             /\ Own(D, A, "on_leave")[e] = Cardinality(DaysHaving(D, e, "on_leave"))
             /\ Own(D, A, "absent")[e] = Cardinality(DaysHaving(D, e, "absent"))
             /\ Own(D, A, "unverified")[e] = Cardinality(DaysHaving(D, e, "unverified"))
  <2>1. EmployeeSays(EmployeeFigures(D, e), D, e)
    BY EmployeeIs
  <2> DEFINE f == EmployeeFigures(D, e)
  <2>2. /\ f.present = Cardinality(DaysHaving(D, e, "present"))
        /\ f.on_leave = Cardinality(DaysHaving(D, e, "on_leave"))
        /\ f.absent = Cardinality(DaysHaving(D, e, "absent"))
        /\ f.unverified = Cardinality(DaysHaving(D, e, "unverified"))
    BY <2>1, Zenon DEF EmployeeSays, DaysHaving
  <2> HIDE DEF f
  <2>3. /\ Own(D, A, "present")[e] = f.present /\ Own(D, A, "on_leave")[e] = f.on_leave
        /\ Own(D, A, "absent")[e] = f.absent /\ Own(D, A, "unverified")[e] = f.unverified
    BY OwnIs DEF f
  <2> QED BY <2>2, <2>3
<1>4. FiguresSums(FiguresOf(D, A), D, A, A)
  <2>1. \A e \in A : EmployeeFigures(D, e) \in FiguresOf(D, A)
    BY DEF FiguresOf
  <2> QED BY <2>1, FieldSums
<1>5. PICK h : /\ GroupSays(h, FiguresOf(D, A))
               /\ a.presentDays = h.present_days /\ a.onLeaveDays = h.on_leave_days
               /\ a.absentDays = h.absent_days /\ a.unverifiedDays = h.unverified_days
  BY Zenon DEF AdaptedSays
<1>6. /\ a.presentDays = SumOf(D, A, "present", A) /\ a.onLeaveDays = SumOf(D, A, "on_leave", A)
      /\ a.absentDays = SumOf(D, A, "absent", A) /\ a.unverifiedDays = SumOf(D, A, "unverified", A)
  BY <1>4, <1>5, Zenon DEF FiguresSums, GroupSays
<1>7. /\ \A d \in Past(D) : g[d]["present"] = Cardinality(Having(D, A, d, "present"))
      /\ \A d \in Past(D) : g[d]["leave"] = Cardinality(Having(D, A, d, "on_leave"))
      /\ \A d \in Past(D) : g[d]["absent"] = Cardinality(Having(D, A, d, "absent"))
      /\ \A d \in Past(D) : g[d]["unverified"] = Cardinality(Having(D, A, d, "unverified"))
  BY <1>1
<1> HIDE DEF g
<1>8. SumFunction(FieldOf(chart, "present")) = Cardinality(PastWith(D, A, "present"))
       /\ SumOf(D, A, "present", A) = Cardinality(PastWith(D, A, "present"))
  <2>1. DayCounts(D, A, "present", "present") /\ EmployeeCounts(D, A, "present", "present")
    BY <1>3, <1>7, Zenon DEF g, DayCounts, EmployeeCounts
  <2> QED BY <1>2, <2>1, ChartSum
<1>9. SumFunction(FieldOf(chart, "leave")) = Cardinality(PastWith(D, A, "on_leave"))
       /\ SumOf(D, A, "on_leave", A) = Cardinality(PastWith(D, A, "on_leave"))
  <2>1. DayCounts(D, A, "leave", "on_leave") /\ EmployeeCounts(D, A, "on_leave", "on_leave")
    BY <1>3, <1>7, Zenon DEF g, DayCounts, EmployeeCounts
  <2> QED BY <1>2, <2>1, ChartSum
<1>10. SumFunction(FieldOf(chart, "absent")) = Cardinality(PastWith(D, A, "absent"))
       /\ SumOf(D, A, "absent", A) = Cardinality(PastWith(D, A, "absent"))
  <2>1. DayCounts(D, A, "absent", "absent") /\ EmployeeCounts(D, A, "absent", "absent")
    BY <1>3, <1>7, Zenon DEF g, DayCounts, EmployeeCounts
  <2> QED BY <1>2, <2>1, ChartSum
<1>11. SumFunction(FieldOf(chart, "unverified")) = Cardinality(PastWith(D, A, "unverified"))
       /\ SumOf(D, A, "unverified", A) = Cardinality(PastWith(D, A, "unverified"))
  <2>1. DayCounts(D, A, "unverified", "unverified") /\ EmployeeCounts(D, A, "unverified", "unverified")
    BY <1>3, <1>7, Zenon DEF g, DayCounts, EmployeeCounts
  <2> QED BY <1>2, <2>1, ChartSum
<1>12. /\ FieldOf(chart, "present") = [f \in chart |-> f.present]
       /\ FieldOf(chart, "leave") = [f \in chart |-> f.leave]
       /\ FieldOf(chart, "absent") = [f \in chart |-> f.absent]
       /\ FieldOf(chart, "unverified") = [f \in chart |-> f.unverified]
  BY DEF FieldOf
<1> QED BY <1>6, <1>8, <1>9, <1>10, <1>11, <1>12, Zenon

\* The cards, by the sums over A.
CardsSay(a, D, A) ==
  /\ a.headcount = Cardinality(A) /\ a.absentDays = SumOf(D, A, "absent", A)
  /\ a.unverifiedDays = SumOf(D, A, "unverified", A) /\ a.missingCheckouts = SumOf(D, A, "missing", A)
  /\ a.neverPunchedCount = Cardinality({e \in A : EmployeeFigures(D, e).never_punched})
  /\ a.attendanceRate = Rate(SumOf(D, A, "present", A), SumOf(D, A, "expected", A), SumOf(D, A, "on_leave", A))

LEMMA CardsAre ==
  ASSUME NEW D, LoadedFine(D), NEW A, A \subseteq DOMAIN D.team, NEW a, AdaptedSays(a, D, A)
  PROVE  CardsSay(a, D, A)
<1>1. FiguresSums(FiguresOf(D, A), D, A, A)
  <2>1. \A e \in A : EmployeeFigures(D, e) \in FiguresOf(D, A)
    BY DEF FiguresOf
  <2> QED BY <2>1, FieldSums
<1>2. PICK h : /\ GroupSays(h, FiguresOf(D, A))
               /\ a.headcount = h.headcount
               /\ a.absentDays = h.absent_days /\ a.unverifiedDays = h.unverified_days
               /\ a.missingCheckouts = h.missing_checkouts /\ a.neverPunchedCount = h.no_punch_in_period
               /\ a.attendanceRate = h.attendance_rate
  BY Zenon DEF AdaptedSays
<1>3. Cardinality({f \in FiguresOf(D, A) : f.never_punched}) = Cardinality({e \in A : EmployeeFigures(D, e).never_punched})
  <2> DEFINE Q == {f \in FiguresOf(D, A) : f.never_punched}
             P == {e \in A : EmployeeFigures(D, e).never_punched}
  <2>1. P \subseteq A /\ Q \subseteq FiguresOf(D, A) /\ \A e \in A : e \in P <=> EmployeeFigures(D, e) \in Q
    BY DEF FiguresOf
  <2> HIDE DEF P, Q
  <2>2. FiguresSums(Q, D, A, P)
    BY <2>1, FieldSums
  <2> QED BY <2>2 DEF FiguresSums, P, Q
<1> QED BY <1>1, <1>2, <1>3, Zenon DEF FiguresSums, GroupSays, CardsSay

\* The two lists of employees make up everybody.
LEMMA ListsSum ==
  ASSUME NEW D, LoadedFine(D), NEW A, A \subseteq DOMAIN D.team, NEW a, AdaptedSays(a, D, A)
  PROVE  /\ SumFunction([f \in Main(a) \cup NoPunches(a) |-> EmployeeRow(f).missing]) = a.missingCheckouts
         /\ Cardinality(NoPunches(a)) = a.neverPunchedCount
         /\ a.attendanceRate = Rate(SumFunction([f \in Main(a) \cup NoPunches(a) |-> EmployeeRow(f).present]),
                                    SumFunction([f \in Main(a) \cup NoPunches(a) |-> EmployeeRow(f).expected]),
                                    SumFunction([f \in Main(a) \cup NoPunches(a) |-> EmployeeRow(f).leave]))
<1>1. /\ a.missingCheckouts = SumOf(D, A, "missing", A)
      /\ a.attendanceRate = Rate(SumOf(D, A, "present", A), SumOf(D, A, "expected", A), SumOf(D, A, "on_leave", A))
      /\ a.neverPunchedCount = Cardinality({e \in A : EmployeeFigures(D, e).never_punched})
  BY CardsAre DEF CardsSay
<1>2. \A e \in A : /\ AdaptedEmployee(EmployeeFigures(D, e)) \in a.employees
                   /\ AdaptedEmployee(EmployeeFigures(D, e)).neverPunched = EmployeeFigures(D, e).never_punched
  BY DEF AdaptedSays, AdaptedEmployee
<1>3. /\ SumFunction([f \in a.employees |-> f.missing]) = SumOf(D, A, "missing", A)
      /\ SumFunction([f \in a.employees |-> f.present]) = SumOf(D, A, "present", A)
      /\ SumFunction([f \in a.employees |-> f.expected]) = SumOf(D, A, "expected", A)
      /\ SumFunction([f \in a.employees |-> f.leave]) = SumOf(D, A, "on_leave", A)
  <2>1. AdaptedSums(a.employees, D, A, A)
    <3> DEFINE Q == a.employees
    <3>1. Q \subseteq a.employees /\ \A e \in A : e \in A <=> AdaptedEmployee(EmployeeFigures(D, e)) \in Q
      BY <1>2
    <3> HIDE DEF Q
    <3>2. AdaptedSums(Q, D, A, A)
      BY <3>1, AdaptedFieldSums
    <3> QED BY <3>2 DEF Q
  <2> QED BY <2>1, Zenon DEF AdaptedSums
<1>4. /\ [f \in Main(a) \cup NoPunches(a) |-> EmployeeRow(f).missing] = [f \in a.employees |-> f.missing]
      /\ [f \in Main(a) \cup NoPunches(a) |-> EmployeeRow(f).present] = [f \in a.employees |-> f.present]
      /\ [f \in Main(a) \cup NoPunches(a) |-> EmployeeRow(f).expected] = [f \in a.employees |-> f.expected]
      /\ [f \in Main(a) \cup NoPunches(a) |-> EmployeeRow(f).leave] = [f \in a.employees |-> f.leave]
  <2>1. Main(a) \cup NoPunches(a) = a.employees
    BY DEF Main, NoPunches
  <2>2. \A f : /\ EmployeeRow(f).missing = f.missing /\ EmployeeRow(f).present = f.present
               /\ EmployeeRow(f).expected = f.expected /\ EmployeeRow(f).leave = f.leave
    BY DEF EmployeeRow
  <2> QED BY <2>1, <2>2
<1>5. Cardinality(NoPunches(a)) = Cardinality({e \in A : EmployeeFigures(D, e).never_punched})
  <2> DEFINE Q == NoPunches(a)
             P == {e \in A : EmployeeFigures(D, e).never_punched}
  <2>1. P \subseteq A /\ Q \subseteq a.employees /\ \A e \in A : e \in P <=> AdaptedEmployee(EmployeeFigures(D, e)) \in Q
    BY <1>2 DEF NoPunches
  <2> HIDE DEF P, Q
  <2>2. AdaptedSums(Q, D, A, P)
    BY <2>1, AdaptedFieldSums
  <2> QED BY <2>2 DEF AdaptedSums, P, Q
<1> QED BY <1>1, <1>3, <1>4, <1>5, Zenon

\* Days without a record are absent or unverified ones.
LEMMA NoRecordSum ==
  ASSUME NEW D, LoadedFine(D), NEW A, A \subseteq DOMAIN D.team, NEW P, P \subseteq A
  PROVE  /\ SumOf(D, A, "no_record", P) = SumOf(D, A, "absent", P) + SumOf(D, A, "unverified", P)
         /\ SumOf(D, A, "no_record", P) \in Nat
<1> DEFINE f == Own(D, A, "absent")
           g == Own(D, A, "unverified")
           h == Own(D, A, "no_record")
<1>1. "absent" \in Fields /\ "unverified" \in Fields /\ "no_record" \in Fields
  BY DEF Fields
<1>2. \A e \in P : f[e] \in Nat /\ g[e] \in Nat /\ h[e] = f[e] + g[e]
  BY <1>1, OwnIs
<1>3. IsFiniteSet(P)
  BY FS_Subset DEF LoadedFine
<1> HIDE DEF f, g, h
<1>4. SumFunctionOnSet(h, P) = SumFunctionOnSet(f, P) + SumFunctionOnSet(g, P)
  BY <1>2, <1>3, SumPlus
<1> QED BY <1>1, <1>4, SumOfType DEF SumOf, f, g, h

\* "Most absent days" and the group without punches hold every day without a record.
LEMMA AbsencesListed ==
  ASSUME NEW D, LoadedFine(D), NEW A, A \subseteq DOMAIN D.team, NEW a, AdaptedSays(a, D, A)
  PROVE  SumFunction([f \in MostNoRecord(a) |-> EmployeeRow(f).noRecord])
           + SumFunction([f \in NoPunches(a) |-> EmployeeRow(f).noRecord]) = a.absentDays + a.unverifiedDays
<1> DEFINE own == Own(D, A, "no_record")
           M == {e \in A : ~EmployeeFigures(D, e).never_punched /\ own[e] > 0}
           N == {e \in A : EmployeeFigures(D, e).never_punched}
<1>1. \A e \in A : AdaptedEmployee(EmployeeFigures(D, e)) \in a.employees
  BY DEF AdaptedSays
<1>2. ASSUME NEW e \in A
      PROVE  LET f == AdaptedEmployee(EmployeeFigures(D, e)) IN
             f.neverPunched = EmployeeFigures(D, e).never_punched /\ f.noRecord = own[e] /\ own[e] \in Nat
  <2>1. "no_record" \in Fields
    BY DEF Fields
  <2> QED BY <2>1, OwnIs DEF AdaptedEmployee
<1> HIDE DEF own
<1>3. SumFunction([f \in MostNoRecord(a) |-> f.noRecord]) = SumOf(D, A, "no_record", M)
  <2> DEFINE Q == MostNoRecord(a)
  <2>1. M \subseteq A /\ Q \subseteq a.employees /\ \A e \in A : e \in M <=> AdaptedEmployee(EmployeeFigures(D, e)) \in Q
    BY <1>1, <1>2 DEF MostNoRecord
  <2> HIDE DEF M, Q
  <2>2. AdaptedSums(Q, D, A, M)
    BY <2>1, AdaptedFieldSums
  <2> QED BY <2>2, Zenon DEF AdaptedSums, Q
<1>4. SumFunction([f \in NoPunches(a) |-> f.noRecord]) = SumOf(D, A, "no_record", N)
  <2> DEFINE Q == NoPunches(a)
  <2>1. N \subseteq A /\ Q \subseteq a.employees /\ \A e \in A : e \in N <=> AdaptedEmployee(EmployeeFigures(D, e)) \in Q
    BY <1>1, <1>2 DEF NoPunches
  <2> HIDE DEF N, Q
  <2>2. AdaptedSums(Q, D, A, N)
    BY <2>1, AdaptedFieldSums
  <2> QED BY <2>2, Zenon DEF AdaptedSums, Q
<1>5. SumOf(D, A, "no_record", A) = SumOf(D, A, "no_record", M) + SumOf(D, A, "no_record", N)
  <2> DEFINE most == [e \in A |-> IF e \in M THEN own[e] ELSE 0]
             rest == [e \in A |-> IF e \in N THEN own[e] ELSE 0]
  <2>1. \A e \in A : /\ own[e] \in Nat /\ most[e] = (IF e \in M THEN own[e] ELSE 0)
                     /\ rest[e] = (IF e \in N THEN own[e] ELSE 0)
    BY <1>2
  <2>2. \A e \in A : most[e] \in Nat /\ rest[e] \in Nat /\ own[e] = most[e] + rest[e]
    BY <2>1
  <2>3. IsFiniteSet(A) /\ M \subseteq A /\ N \subseteq A
    BY FS_Subset DEF LoadedFine
  <2> HIDE DEF most, rest, M, N
  <2>4. SumFunctionOnSet(own, A) = SumFunctionOnSet(most, A) + SumFunctionOnSet(rest, A)
    BY <2>2, <2>3, SumPlus
  <2>5. SumFunctionOnSet(most, A) = SumFunctionOnSet(own, M) /\ SumFunctionOnSet(rest, A) = SumFunctionOnSet(own, N)
    BY <2>1, <2>3, SumPart
  <2> QED BY <2>4, <2>5 DEF SumOf, own
<1>6. SumOf(D, A, "no_record", A) = SumOf(D, A, "absent", A) + SumOf(D, A, "unverified", A)
  BY NoRecordSum
<1>7. a.absentDays = SumOf(D, A, "absent", A) /\ a.unverifiedDays = SumOf(D, A, "unverified", A)
  <2>1. CardsSay(a, D, A)
    BY CardsAre
  <2> QED BY <2>1, Zenon DEF CardsSay
<1>8. \A Q : [f \in Q |-> EmployeeRow(f).noRecord] = [f \in Q |-> f.noRecord]
  BY DEF EmployeeRow
<1> HIDE DEF M, N
<1>9. /\ SumFunction([f \in MostNoRecord(a) |-> EmployeeRow(f).noRecord]) = SumOf(D, A, "no_record", M)
      /\ SumFunction([f \in NoPunches(a) |-> EmployeeRow(f).noRecord]) = SumOf(D, A, "no_record", N)
  BY <1>3, <1>4, <1>8, Zenon
<1> QED BY <1>5, <1>6, <1>7, <1>9, Zenon

TeamSays(t, a) ==
  LET members == {f \in a.employees : f.team = t.team} IN
  /\ TeamRow(t).headcount = TeamHeadcount(a, t.team)
  /\ TeamRow(t).rate = Rate(SumFunction([f \in members |-> MemberRow(f).present]),
                           SumFunction([f \in members |-> MemberRow(f).expected]),
                           SumFunction([f \in members |-> MemberRow(f).leave]))

\* A team's figures are those of its members, as the pages list them.
LEMMA TeamAddsUp ==
  ASSUME NEW D, LoadedFine(D), NEW A, A \subseteq DOMAIN D.team, NEW a, AdaptedSays(a, D, A), NEW t \in a.teams
  PROVE  TeamSays(t, a)
<1>1. PICK k \in {D.team[e] : e \in A} : t = AdaptedTeam(TeamFigures(D, FiguresOf(D, A), k))
  BY DEF AdaptedSays
<1> DEFINE M == {e \in A : D.team[e] = k}
           F == {f \in FiguresOf(D, A) : f.team = k}
           Q == {f \in a.employees : f.team = k}
           daily == {DayFigures(D, F, d) : d \in WorkingDates(D)}
           n == Cardinality({f \in daily : f.date > D.through /\ f.rate # NoRate})
           g == GroupFigures(F, n, NoDataDays(D))
<1>2. t.team = k /\ TeamRow(t).headcount = g.headcount /\ TeamRow(t).rate = g.attendance_rate
  <2> HIDE DEF n, F
  <2>1. TeamFigures(D, FiguresOf(D, A), k).team = k /\ TeamFigures(D, FiguresOf(D, A), k).group = g
    BY Zenon DEF TeamFigures, F, n
  <2> HIDE DEF g
  <2>2. t.team = k /\ t.headcount = g.headcount /\ t.rate = g.attendance_rate
    BY <1>1, <2>1 DEF AdaptedTeam
  <2> QED BY <2>2 DEF TeamRow
<1>3. M \subseteq A /\ F \subseteq FiguresOf(D, A) /\ \A e \in A : e \in M <=> EmployeeFigures(D, e) \in F
  <2>1. ASSUME NEW e \in A PROVE EmployeeFigures(D, e).team = D.team[e] /\ EmployeeFigures(D, e) \in FiguresOf(D, A)
    <3>1. EmployeeSays(EmployeeFigures(D, e), D, e)
      BY EmployeeIs
    <3> QED BY <3>1, Zenon DEF EmployeeSays, FiguresOf
  <2> QED BY <2>1
<1>4. Q \subseteq a.employees /\ \A e \in A : e \in M <=> AdaptedEmployee(EmployeeFigures(D, e)) \in Q
  <2>1. ASSUME NEW e \in A
        PROVE  /\ AdaptedEmployee(EmployeeFigures(D, e)).team = D.team[e]
               /\ AdaptedEmployee(EmployeeFigures(D, e)) \in a.employees
    <3>1. AdaptedEmployeeSays(AdaptedEmployee(EmployeeFigures(D, e)), D, e)
      BY AdaptedEmployeeIs
    <3> QED BY <3>1 DEF AdaptedEmployeeSays, AdaptedSays
  <2> QED BY <2>1
<1> HIDE DEF M, F, Q, n
<1>5. FiguresSums(F, D, A, M) /\ AdaptedSums(Q, D, A, M)
  BY <1>3, <1>4, FieldSums, AdaptedFieldSums
<1>6. GroupSays(g, F)
  BY GroupIs
<1> HIDE DEF g
<1>7. /\ TeamRow(t).headcount = Cardinality(Q)
      /\ TeamRow(t).rate = Rate(SumFunction([f \in Q |-> f.present]), SumFunction([f \in Q |-> f.expected]),
                               SumFunction([f \in Q |-> f.leave]))
  BY <1>2, <1>5, <1>6, Zenon DEF FiguresSums, AdaptedSums, GroupSays
<1>8. TeamHeadcount(a, k) = Cardinality(Q)
  BY DEF TeamHeadcount, Q
<1>9. /\ [f \in Q |-> MemberRow(f).present] = [f \in Q |-> f.present]
      /\ [f \in Q |-> MemberRow(f).expected] = [f \in Q |-> f.expected]
      /\ [f \in Q |-> MemberRow(f).leave] = [f \in Q |-> f.leave]
  BY DEF MemberRow
<1>10. /\ TeamRow(t).headcount = TeamHeadcount(a, t.team)
       /\ TeamRow(t).rate = Rate(SumFunction([f \in Q |-> MemberRow(f).present]),
                                SumFunction([f \in Q |-> MemberRow(f).expected]),
                                SumFunction([f \in Q |-> MemberRow(f).leave]))
  BY <1>2, <1>7, <1>8, <1>9, Zenon
<1>11. Q = {f \in a.employees : f.team = t.team}
  BY <1>2 DEF Q
<1> QED BY <1>10, <1>11, Zenon DEF TeamSays

\* Everybody is in one team.
LEMMA TeamsHoldAll ==
  ASSUME NEW D, LoadedFine(D), NEW A, A \subseteq DOMAIN D.team, NEW a, AdaptedSays(a, D, A)
  PROVE  SumFunction([t \in a.teams |-> t.headcount]) = a.headcount
<1> DEFINE T == {D.team[e] : e \in A}
           team == [e \in A |-> D.team[e]]
           g == [k \in T |-> AdaptedTeam(TeamFigures(D, FiguresOf(D, A), k))]
           R == {<<D.team[e], e>> : e \in A}
           along == [k \in T |-> Cardinality(Along(R, A, k))]
           pair == [e \in A |-> <<D.team[e], e>>]
           gun == [t \in a.teams |-> t.headcount]
<1>1. IsFiniteSet(A) /\ IsFiniteSet(T)
  <2>1. IsFiniteSet(A)
    BY FS_Subset DEF LoadedFine
  <2>2. team \in [A -> T] /\ \A k \in T : \E e \in A : team[e] = k
    OBVIOUS
  <2> HIDE DEF team, T
  <2>3. team \in Surjection(A, T)
    BY <2>2 DEF Surjection
  <2> QED BY <2>1, <2>3, FS_Surjection
<1>2. ASSUME NEW k \in T PROVE g[k].team = k /\ g[k] \in a.teams
  <2>1. TeamFigures(D, FiguresOf(D, A), k).team = k
    BY DEF TeamFigures
  <2>2. g[k] = AdaptedTeam(TeamFigures(D, FiguresOf(D, A), k))
    OBVIOUS
  <2>3. g[k].team = k
    <3> HIDE DEF g
    <3> QED BY <2>1, <2>2 DEF AdaptedTeam
  <2> QED BY <2>2, <2>3 DEF AdaptedSays
<1>3. g \in Bijection(T, a.teams)
  <2>1. g = [k \in T |-> g[k]] /\ a.teams = {g[k] : k \in T}
    BY DEF AdaptedSays
  <2> HIDE DEF g, T
  <2>2. \A k, l \in T : g[k] = g[l] => k = l
    BY <1>2
  <2> QED BY <2>1, <2>2, ImageNamed
<1>4. ASSUME NEW k \in T PROVE along[k] \in Nat /\ gun[g[k]] = along[k]
  <2>1. TeamSays(g[k], a)
    BY <1>2, TeamAddsUp
  <2>2. gun[g[k]] = g[k].headcount
    BY <1>2
  <2> DEFINE M == {e \in A : D.team[e] = k}
             Q == {f \in a.employees : f.team = k}
  <2>3. g[k].headcount = Cardinality(Q)
    <3> HIDE DEF g
    <3>1. TeamHeadcount(a, k) = TeamRow(g[k]).headcount
      BY <1>2, <2>1, Zenon DEF TeamSays
    <3> QED BY <3>1 DEF TeamHeadcount, TeamRow
  <2>4. Q \subseteq a.employees /\ M \subseteq A /\ \A e \in A : e \in M <=> AdaptedEmployee(EmployeeFigures(D, e)) \in Q
    <3>1. ASSUME NEW e \in A
          PROVE  /\ AdaptedEmployee(EmployeeFigures(D, e)).team = D.team[e]
                 /\ AdaptedEmployee(EmployeeFigures(D, e)) \in a.employees
      <4>1. AdaptedEmployeeSays(AdaptedEmployee(EmployeeFigures(D, e)), D, e)
        BY AdaptedEmployeeIs
      <4> QED BY <4>1 DEF AdaptedEmployeeSays, AdaptedSays
    <3> QED BY <3>1
  <2>5. Along(R, A, k) = M
    BY DEF Along
  <2> HIDE DEF Q
  <2>6. Cardinality(Q) = Cardinality(M)
    <3> HIDE DEF M
    <3>1. AdaptedSums(Q, D, A, M)
      BY <2>4, AdaptedFieldSums
    <3> QED BY <3>1, Zenon DEF AdaptedSums
  <2>7. Cardinality(M) \in Nat
    <3> HIDE DEF M
    <3> QED BY <1>1, <2>4, FS_Subset, FS_CardinalityType
  <2>8. along[k] = Cardinality(M)
    BY <2>5
  <2> HIDE DEF M, along, gun, g
  <2> QED BY <2>2, <2>3, <2>6, <2>7, <2>8
<1>5. SumFunctionOnSet(along, T) = Cardinality(R) /\ IsFiniteSet(R)
  <2>1. R \subseteq T \X A /\ \A k \in T : along[k] = Cardinality(Along(R, A, k))
    OBVIOUS
  <2> HIDE DEF R, along, T
  <2> QED BY <1>1, <2>1, SumPairs
<1>6. Cardinality(R) = Cardinality(A)
  <2>1. pair \in [A -> R] /\ (\A e, b \in A : pair[e] = pair[b] => e = b) /\ \A p \in R : \E e \in A : pair[e] = p
    OBVIOUS
  <2> HIDE DEF pair, R
  <2>2. pair \in Bijection(A, R)
    BY <2>1 DEF Bijection, Injection, Surjection, IsInjective
  <2> QED BY <1>1, <2>2, FS_Bijection DEF ExistsBijection
<1>7. SumFunctionOnSet(gun, a.teams) = SumFunctionOnSet(along, T)
  <2> HIDE DEF gun, along, T, g
  <2> QED BY <1>1, <1>3, <1>4, SumNamed
<1>8. SumFunction(gun) = SumFunctionOnSet(gun, a.teams)
  BY DEF SumFunction
<1>9. a.headcount = Cardinality(A)
  BY CardsAre DEF CardsSay
<1> HIDE DEF gun, along, T, R
<1>10. SumFunction(gun) = a.headcount
  BY <1>5, <1>6, <1>7, <1>8, <1>9, Zenon
<1> QED BY <1>10 DEF gun

----------------------------------------------------------------------------
(* What the pages show of the tables                                        *)

\* What the endpoint loads of the tables.
LEMMA VerdictIs ==
  ASSUME NEW x \in Rows
  PROVE  LoadAll.verdict[x] = ServerDay(TableRecord(x), PageContext, PunchDates, Through, x \in Exempt)
BY DEF LoadAll

LEMMA LoadAllFine == RecordsTypeInv => LoadedFine(LoadAll)
<1> SUFFICES ASSUME RecordsTypeInv PROVE LoadedFine(LoadAll)
  OBVIOUS
<1> DEFINE D == LoadAll
<1>1. /\ D.team = Team /\ D.dates = Days /\ D.today = Today /\ D.through = Through
      /\ D.off = Weekend \cup Holidays /\ D.punched = PunchDates
  BY DEF LoadAll
<1>2. Through \in Nat
  <2> DEFINE dates == {y[2] : y \in Calendared}
  <2>1. dates \subseteq Days /\ Through = Most(dates)
    BY DEF Calendared, Rows, Through
  <2> HIDE DEF dates
  <2>2. Most(dates) \in dates \cup {0}
    BY <2>1, MostIs
  <2>3. dates \subseteq Nat
    BY <2>1, DaysAssumption
  <2>4. Most(dates) \in Nat
    <3>1. Most(dates) \in dates \/ Most(dates) = 0
      BY <2>2
    <3>2. 0 \in Nat
      OBVIOUS
    <3> QED BY <2>3, <3>1, <3>2, Zenon
  <2> QED BY <2>1, <2>4
<1>3. ASSUME NEW e \in Employees, NEW d \in Days, D.verdict[<<e, d>>].status \in CountedStatuses
      PROVE  d \notin D.off /\ d \in D.punched /\ d <= D.today
  <2> DEFINE x == <<e, d>>
             r == TableRecord(x)
  <2>1. D.verdict[x] = ServerDay(r, PageContext, PunchDates, Through, x \in Exempt)
    <3>1. x \in Rows
      BY DEF Rows
    <3> QED BY <3>1, VerdictIs
  <2>2. r.date = d /\ r.holiday = (d \in Holidays)
    BY DEF TableRecord
  <2>3. PageContext.weekend = Weekend /\ PageContext.today = Today
    BY DEF PageContext
  <2> HIDE DEF r, D
  <2>4. ServerStatus(r, PageContext, PunchDates, Through) \in CountedStatuses
    <3>1. D.verdict[x].status = IF x \in Exempt THEN "wfh_exempt" ELSE ServerStatus(r, PageContext, PunchDates, Through)
      BY <2>1 DEF ServerDay
    <3> QED BY <1>3, <3>1 DEF CountedStatuses
  <2>5. ~IsWeekend(d, PageContext) /\ d \notin Holidays /\ ~(d > Today) /\ d \in PunchDates
    BY <2>2, <2>3, <2>4 DEF ServerStatus, CountedStatuses
  <2>6. d \in Nat /\ Today \in Nat
    BY DaysAssumption
  <2> QED BY <1>1, <2>3, <2>5, <2>6 DEF IsWeekend
<1> HIDE DEF D
<1>4. LoadedFine(D)
  <2>1. DOMAIN D.team = Employees /\ IsFiniteSet(Employees) /\ IsFiniteSet(Days) /\ Days \subseteq Nat
        /\ Today \in Nat
    BY <1>1, TeamAssumption, EmployeesAssumption, DaysAssumption
  <2>2. IsFiniteSet(DOMAIN D.team)
    BY <2>1
  <2>3. IsFiniteSet(D.dates)
    BY <1>1, <2>1
  <2> QED BY <1>1, <1>2, <1>3, <2>1, <2>2, <2>3 DEF LoadedFine
<1> QED BY <1>4 DEF D

\* The verdict on a day that reaches classifyDay.
LEMMA BackendDayIs ==
  ASSUME NEW D, LoadedFine(D), NEW A, A \subseteq DOMAIN D.team, NEW a, AdaptedSays(a, D, A),
         NEW e \in A, NEW d \in D.dates
  PROVE  BackendDay(a, e, d) = D.verdict[<<e, d>>]
<1>1. \A f \in a.employees : f.id = e => f = AdaptedEmployee(EmployeeFigures(D, e))
  <2> SUFFICES ASSUME NEW k \in A, AdaptedEmployee(EmployeeFigures(D, k)).id = e PROVE k = e
    BY DEF AdaptedSays
  <2>1. AdaptedEmployeeSays(AdaptedEmployee(EmployeeFigures(D, k)), D, k)
    BY AdaptedEmployeeIs
  <2> QED BY <2>1 DEF AdaptedEmployeeSays
<1> DEFINE f == AdaptedEmployee(EmployeeFigures(D, e))
<1>2. AdaptedEmployeeSays(f, D, e) /\ f \in a.employees
  BY AdaptedEmployeeIs DEF AdaptedSays
<1> HIDE DEF f
<1>3. f.id = e /\ f.days = [b \in D.dates |-> D.verdict[<<e, b>>]]
  BY <1>2, Zenon DEF AdaptedEmployeeSays
<1>4. (CHOOSE g \in a.employees : g.id = e) = f
  BY <1>1, <1>2, <1>3 DEF f
<1>5. BackendDay(a, e, d) = f.days[d]
  BY <1>2, <1>3, <1>4, Zenon DEF BackendDay
<1>6. f.days[d] = D.verdict[<<e, d>>]
  BY <1>3, Zenon
<1> QED BY <1>5, <1>6

\* Status st shows verdict v on date d.
ToldSays(st, v, d, punched) ==
  /\ st \in {"present", "missing_checkout"} <=> v.status = "present"
  /\ st = "leave" <=> v.status = "on_leave"
  /\ st \in {"absent", "absent_unverified"} <=> v.status \in {"absent", "unverified"}
  /\ st \in {"no_record", "absent"} /\ d \in punched <=> v.status = "absent"

\* Without a leave report a past day gets the status the verdict stands for.
LEMMA ToldStatus ==
  ASSUME NEW r, NEW c, ~c.leaveActive, NEW t, t.date \in Nat, c.today \in Nat, t.date < c.today, NEW punched, NEW through,
         NEW v, v = ServerDay(t, c, punched, through, FALSE)
  PROVE  ToldSays(ClassifyDay(r, c, v), v, t.date, punched)
<1> DEFINE st == ClassifyDay(r, c, v)
           told == ClassifyBackendLegacy(r, c, v)
<1>1. v.status = ServerStatus(t, c, punched, through)
  BY DEF ServerDay
<1>2. v.status # "pending"
  <2>1. ~(t.date > c.today) /\ t.date # c.today
    OBVIOUS
  <2> QED BY <1>1, <2>1 DEF ServerStatus
<1>3. v.status \in {"non_working", "no_data", "present", "on_leave", "absent", "unverified"}
  BY <1>1, <1>2 DEF ServerStatus
<1>4. /\ v.status = "no_data" => t.date \notin punched
      /\ v.status = "absent" => t.date \in punched
  BY <1>1 DEF ServerStatus
<1>5. ~v.progress
  <2>1. t.date # c.today
    OBVIOUS
  <2> QED BY <2>1, Zenon DEF ServerDay
<1>6. st = told
  <2>1. told # "none"
    BY <1>3, <1>5 DEF ClassifyBackendLegacy
  <2> QED BY <2>1 DEF ClassifyDay
<1>7. /\ v.status = "non_working" => told \in {"weekend", "holiday"}
      /\ v.status = "no_data" => told = "no_record"
      /\ v.status = "present" => told \in {"missing_checkout", "present"}
      /\ v.status = "on_leave" => told = "leave"
      /\ v.status = "absent" => told = "absent"
      /\ v.status = "unverified" => told = "absent_unverified"
  BY <1>5 DEF ClassifyBackendLegacy
<1> HIDE DEF st, told
<1>8. /\ st \in {"present", "missing_checkout"} <=> v.status = "present"
      /\ st = "leave" <=> v.status = "on_leave"
      /\ st \in {"absent", "absent_unverified"} <=> v.status \in {"absent", "unverified"}
      /\ st \in {"no_record", "absent"} /\ t.date \in punched <=> v.status = "absent"
  BY <1>3, <1>4, <1>6, <1>7
<1> QED BY <1>8 DEF st, ToldSays

\* The statuses of the days under the verdicts told with the figures a.
ToldDays(a) == [x \in Rows |-> BackendDay(a, x[1], x[2])]
Records == [x \in Rows |-> RecordOf(x)]
Shown(a) == StatusOf(Records, ToldDays(a), PageContext)

\* What an employee's drawer and the entries of Exceptions count, without a leave report.
DrawerSays(f, S, entries) ==
  LET drawer == Drawer(f, S)
      DaysIn(T) == Cardinality({d \in Days : d < Today /\ drawer.days[d] \in T})
  IN /\ DaysIn({"present", "missing_checkout"}) = drawer.present
     /\ DaysIn({"leave"}) = EmployeeRow(f).leave
     /\ DaysIn({"absent", "absent_unverified"}) = drawer.noRecord
     /\ ~f.neverPunched /\ f.id \in Seen =>
          Cardinality({x \in entries : x[1] = "no_record" /\ x[2][1] = f.id
                                         /\ x[2][2] < Today /\ x[2][2] \in PunchDates}) = f.absent

\* On the days of an employee whom no plan exempts.
LEMMA ShownSays ==
  ASSUME RecordsTypeInv, ~PageContext.leaveActive, NEW A, A \subseteq Employees, NEW a, AdaptedSays(a, LoadAll, A),
         NEW e \in A, NEW d \in Days, <<e, d>> \notin Exempt, d < Today
  PROVE  ToldSays(Shown(a)[<<e, d>>], LoadAll.verdict[<<e, d>>], d, PunchDates)
<1> DEFINE x == <<e, d>>
           v == LoadAll.verdict[x]
           st == Shown(a)[x]
           t == TableRecord(x)
           r == RecordOf(x)
           c == PageContext
<1>1. x \in Rows /\ e \in DOMAIN LoadAll.team /\ d \in LoadAll.dates /\ A \subseteq DOMAIN LoadAll.team
  BY TeamAssumption DEF Rows, LoadAll
<1>2. v = ServerDay(t, c, PunchDates, Through, FALSE)
  <2>1. v = ServerDay(t, c, PunchDates, Through, x \in Exempt)
    BY <1>1, VerdictIs
  <2>2. (x \in Exempt) = FALSE
    OBVIOUS
  <2> HIDE DEF v, t, c, x
  <2> QED BY <2>1, <2>2, Zenon
<1>3. BackendDay(a, e, d) = v
  <2>1. LoadedFine(LoadAll)
    BY LoadAllFine
  <2> QED BY <1>1, <2>1, BackendDayIs
<1>4. st = ClassifyDay(r, c, v)
  <2>1. ToldDays(a)[x] = BackendDay(a, e, d) /\ Records[x] = r
    BY <1>1 DEF ToldDays, Records
  <2>2. st = ClassifyDay(Records[x], c, ToldDays(a)[x])
    <3>1. DOMAIN Records = Rows
      BY DEF Records
    <3>2. Shown(a) = [y \in Rows |-> ClassifyDay(Records[y], c, ToldDays(a)[y])]
      BY <3>1 DEF Shown, StatusOf
    <3> HIDE DEF x, c
    <3> QED BY <1>1, <3>2, Zenon
  <2> QED BY <1>3, <2>1, <2>2, Zenon
<1>5. t.date = d /\ c.today = Today /\ d \in Nat /\ Today \in Nat
  BY DaysAssumption DEF TableRecord, PageContext
<1> HIDE DEF t, r, c, v, st
<1>6. ToldSays(st, v, t.date, PunchDates)
  <2>1. ~c.leaveActive /\ t.date \in Nat /\ c.today \in Nat /\ t.date < c.today
    BY <1>5 DEF c
  <2>2. ToldSays(ClassifyDay(r, c, v), v, t.date, PunchDates)
    BY <1>2, <2>1, ToldStatus
  <2> QED BY <1>4, <2>2
<1> QED BY <1>5, <1>6 DEF v, st

LEMMA DrawerCounts ==
  ASSUME RecordsTypeInv, ~PageContext.leaveActive, NEW A, A \subseteq Employees, NEW a, AdaptedSays(a, LoadAll, A),
         NEW f \in Main(a) \cup NoPunches(a), \A d \in Days : <<f.id, d>> \notin Exempt,
         NEW never, never = {g.id : g \in NoPunches(a)}
  PROVE  DrawerSays(f, Shown(a), Entries(Records, Shown(a), PageContext, Seen, Days, never))
<1> DEFINE D == LoadAll
           S == Shown(a)
           c == PageContext
           entries == Entries(Records, S, c, Seen, Days, never)
           drawer == Drawer(f, S)
           e == f.id
           DaysIn(T) == {d \in Days : d < Today /\ drawer.days[d] \in T}
<1>1. LoadedFine(D) /\ A \subseteq DOMAIN D.team /\ D.dates = Days /\ D.today = Today
  <2>1. A \subseteq DOMAIN D.team /\ D.dates = Days /\ D.today = Today
    BY TeamAssumption DEF LoadAll
  <2> HIDE DEF D
  <2> QED BY <2>1, LoadAllFine DEF D
<1> HIDE DEF D
<1>2. \A k \in A : AdaptedEmployeeSays(AdaptedEmployee(EmployeeFigures(D, k)), D, k)
  BY <1>1, AdaptedEmployeeIs
<1>3. a.employees = {AdaptedEmployee(EmployeeFigures(D, k)) : k \in A}
  BY DEF AdaptedSays, D
<1>4. e \in A /\ f = AdaptedEmployee(EmployeeFigures(D, e)) /\ AdaptedEmployeeSays(f, D, e)
  <2>1. PICK k \in A : f = AdaptedEmployee(EmployeeFigures(D, k))
    BY <1>3 DEF Main, NoPunches
  <2>2. AdaptedEmployeeSays(f, D, k)
    BY <1>2, <2>1
  <2>3. f.id = k
    BY <2>2 DEF AdaptedEmployeeSays
  <2> QED BY <2>1, <2>2, <2>3
<1>5. EmployeeSays(EmployeeFigures(D, e), D, e)
  BY <1>1, <1>4, EmployeeIs
<1>6. /\ f.present = Cardinality(DaysWith(D, e, {"present"})) /\ f.leave = Cardinality(DaysWith(D, e, {"on_leave"}))
      /\ f.noRecord = Cardinality(DaysWith(D, e, {"absent", "unverified"}))
      /\ f.absent = Cardinality(DaysWith(D, e, {"absent"}))
  <2> HIDE DEF e
  <2> QED BY <1>4, <1>5, Zenon DEF EmployeeSays, AdaptedEmployeeSays
<1>7. /\ drawer.present = f.present /\ drawer.noRecord = f.noRecord /\ EmployeeRow(f).leave = f.leave
      /\ \A d \in Days : drawer.days[d] = S[<<e, d>>]
  <2>1. DOMAIN f.days = Days
    <3>1. f.days = [d \in D.dates |-> D.verdict[<<e, d>>]]
      BY <1>4, Zenon DEF AdaptedEmployeeSays
    <3> QED BY <1>1, <3>1
  <2> HIDE DEF S, e
  <2> QED BY <2>1 DEF Drawer, EmployeeRow, e
<1>8. ASSUME NEW d \in Days, d < Today
      PROVE  LET v == D.verdict[<<e, d>>]
                 st == S[<<e, d>>]
             IN /\ st \in {"present", "missing_checkout"} <=> v.status = "present"
                /\ st = "leave" <=> v.status = "on_leave"
                /\ st \in {"absent", "absent_unverified"} <=> v.status \in {"absent", "unverified"}
                /\ st \in {"no_record", "absent"} /\ d \in PunchDates <=> v.status = "absent"
  <2>1. <<e, d>> \notin Exempt
    OBVIOUS
  <2> HIDE DEF e
  <2>2. ToldSays(S[<<e, d>>], D.verdict[<<e, d>>], d, PunchDates)
    BY <1>4, <1>8, <2>1, ShownSays DEF D
  <2> HIDE DEF S
  <2> QED BY <2>2 DEF ToldSays
<1>9. \A T \in SUBSET CountedStatuses :
        {d \in Days : d < Today /\ D.verdict[<<e, d>>].status \in T} = DaysWith(D, e, T)
  <2> HIDE DEF e
  <2> SUFFICES ASSUME NEW T \in SUBSET CountedStatuses, NEW d \in Days, d < Today, D.verdict[<<e, d>>].status \in T
               PROVE  d \in WorkingDates(D)
    BY <1>1 DEF DaysWith, Past, WorkingDates
  <2>1. D.verdict[<<e, d>>].status \in CountedStatuses /\ e \in DOMAIN D.team /\ d \in D.dates
    BY <1>1, <1>4
  <2>2. d \notin D.off /\ d <= D.today
    BY <1>1, <2>1 DEF LoadedFine
  <2> QED BY <2>1, <2>2 DEF WorkingDates
<1>10. /\ {"present"} \in SUBSET CountedStatuses /\ {"on_leave"} \in SUBSET CountedStatuses
       /\ {"absent", "unverified"} \in SUBSET CountedStatuses /\ {"absent"} \in SUBSET CountedStatuses
  BY DEF CountedStatuses
<1> HIDE DEF S, drawer, entries, e
<1>11. /\ DaysIn({"present", "missing_checkout"}) = {d \in Days : d < Today /\ D.verdict[<<e, d>>].status \in {"present"}}
       /\ DaysIn({"leave"}) = {d \in Days : d < Today /\ D.verdict[<<e, d>>].status \in {"on_leave"}}
       /\ DaysIn({"absent", "absent_unverified"})
            = {d \in Days : d < Today /\ D.verdict[<<e, d>>].status \in {"absent", "unverified"}}
  BY <1>7, <1>8
<1>12. /\ DaysIn({"present", "missing_checkout"}) = DaysWith(D, e, {"present"})
       /\ DaysIn({"leave"}) = DaysWith(D, e, {"on_leave"})
       /\ DaysIn({"absent", "absent_unverified"}) = DaysWith(D, e, {"absent", "unverified"})
  BY <1>9, <1>10, <1>11, Zenon
<1>13. ASSUME ~f.neverPunched, e \in Seen
       PROVE  Cardinality({x \in entries : x[1] = "no_record" /\ x[2][1] = e /\ x[2][2] < Today /\ x[2][2] \in PunchDates})
                = f.absent
  <2> DEFINE P == DaysWith(D, e, {"absent"})
             Q == {x \in entries : x[1] = "no_record" /\ x[2][1] = e /\ x[2][2] < Today /\ x[2][2] \in PunchDates}
             h == [d \in P |-> <<"no_record", <<e, d>>>>]
  <2>1. e \notin never
    <3>1. ASSUME NEW g \in NoPunches(a), g.id = e PROVE FALSE
      <4>1. PICK k \in A : g = AdaptedEmployee(EmployeeFigures(D, k))
        BY <1>3 DEF NoPunches
      <4>2. g.id = k
        BY <1>2, <4>1 DEF AdaptedEmployeeSays
      <4>3. g = f
        BY <1>4, <3>1, <4>1, <4>2
      <4> QED BY <1>13, <4>3 DEF NoPunches
    <3> QED BY <3>1
  <2>2. EntriesAre(entries, "no_record", DaysAt(Seen \ never, Days, S, {"no_record", "absent"}))
    BY EntriesOf DEF entries
  <2>3. \A d \in Days : <<"no_record", <<e, d>>>> \in Q <=>
          d < Today /\ d \in PunchDates /\ S[<<e, d>>] \in {"no_record", "absent"}
    BY <1>13, <2>1, <2>2 DEF EntriesAre, DaysAt
  <2>4. \A x \in Q : x = <<"no_record", <<e, x[2][2]>>>> /\ x[2][2] \in Days
    BY <2>2 DEF EntriesAre, DaysAt
  <2>5. P = {d \in Days : d < Today /\ D.verdict[<<e, d>>].status = "absent"}
    BY <1>9, <1>10
  <2>6. \A d \in Days : d \in P <=> <<"no_record", <<e, d>>>> \in Q
    BY <1>8, <2>3, <2>5
  <2>7. IsFiniteSet(P) /\ P \subseteq Days
    <3>1. P \subseteq Days
      BY <2>5
    <3> HIDE DEF P
    <3> QED BY <3>1, EmployeesAssumption, FS_Subset
  <2> HIDE DEF P, Q
  <2>8. h \in [P -> Q] /\ (\A b, d \in P : h[b] = h[d] => b = d) /\ \A x \in Q : \E d \in P : h[d] = x
    <3>1. \A d \in P : h[d] = <<"no_record", <<e, d>>>> /\ h[d] \in Q
      BY <2>6, <2>7
    <3>2. \A x \in Q : x[2][2] \in P
      BY <2>4, <2>6
    <3> QED BY <2>4, <3>1, <3>2
  <2> HIDE DEF h
  <2>9. h \in Bijection(P, Q)
    BY <2>8 DEF Bijection, Injection, Surjection, IsInjective
  <2>10. Cardinality(P) = Cardinality(Q)
    BY <2>7, <2>9, FS_Bijection DEF ExistsBijection
  <2> QED BY <1>6, <2>10 DEF P, Q
<1>14. /\ Cardinality(DaysIn({"present", "missing_checkout"})) = drawer.present
       /\ Cardinality(DaysIn({"leave"})) = EmployeeRow(f).leave
       /\ Cardinality(DaysIn({"absent", "absent_unverified"})) = drawer.noRecord
  BY <1>6, <1>7, <1>12, Zenon
<1> QED BY <1>13, <1>14 DEF DrawerSays, drawer, entries, S, e

LEMMA FiguresHold == RecordsTypeInv => FiguresAgree
<1> SUFFICES ASSUME RecordsTypeInv, NEW excluded \in BOOLEAN
             PROVE  LET a == Adapted(BuildMetrics(LoadAll, excluded))
                        c == PageContext
                        cards == Cards(a)
                        listed == Main(a) \cup NoPunches(a)
                        chart == {f \in ChartDays(a, c) : f.date < Today}
                        NoRecord(who) == SumFunction([f \in who |-> EmployeeRow(f).noRecord])
                        R == [x \in Rows |-> RecordOf(x)]
                        S == StatusOf(R, [x \in Rows |-> BackendDay(a, x[1], x[2])], c)
                        entries == Entries(R, S, c, Seen, Days, {f.id : f \in NoPunches(a)})
                        DaysIn(f, T) == Cardinality({d \in Days : d < Today /\ Drawer(f, S).days[d] \in T})
                    IN /\ R \in [Rows -> Record(Days)] /\ S \in [Rows -> Statuses]
                       /\ SumFunction([f \in chart |-> f.present]) = a.presentDays
                       /\ SumFunction([f \in chart |-> f.leave]) = cards.leave
                       /\ SumFunction([f \in chart |-> f.absent]) = cards.absent
                       /\ SumFunction([f \in chart |-> f.unverified]) = cards.unverified
                       /\ SumFunction([f \in listed |-> EmployeeRow(f).missing]) = cards.missing
                       /\ Cardinality(NoPunches(a)) = cards.noPunches
                       /\ cards.rate = Rate(SumFunction([f \in listed |-> EmployeeRow(f).present]),
                                            SumFunction([f \in listed |-> EmployeeRow(f).expected]),
                                            SumFunction([f \in listed |-> EmployeeRow(f).leave]))
                       /\ SumFunction([t \in a.teams |-> TeamRow(t).headcount]) = cards.headcount
                       /\ \A t \in a.teams :
                            LET members == {f \in a.employees : f.team = t.team} IN
                            /\ TeamRow(t).headcount = TeamHeadcount(a, t.team)
                            /\ TeamRow(t).rate = Rate(SumFunction([f \in members |-> MemberRow(f).present]),
                                                     SumFunction([f \in members |-> MemberRow(f).expected]),
                                                     SumFunction([f \in members |-> MemberRow(f).leave]))
                       /\ NoRecord(MostNoRecord(a)) + NoRecord(NoPunches(a)) = cards.absent + cards.unverified
                       /\ ~c.leaveActive =>
                            \A f \in listed : (\A d \in Days : <<f.id, d>> \notin Exempt) =>
                              LET drawer == Drawer(f, S) IN
                              /\ DaysIn(f, {"present", "missing_checkout"}) = drawer.present
                              /\ DaysIn(f, {"leave"}) = EmployeeRow(f).leave
                              /\ DaysIn(f, {"absent", "absent_unverified"}) = drawer.noRecord
                              /\ f \in Main(a) /\ f.id \in Seen =>
                                   Cardinality({x \in entries : x[1] = "no_record" /\ x[2][1] = f.id
                                                                  /\ x[2][2] < Today
                                                                  /\ x[2][2] \in PunchDates}) = f.absent
  BY Zenon DEF FiguresAgree
<1> DEFINE a == Adapted(BuildMetrics(LoadAll, excluded))
           c == PageContext
           A == Included(LoadAll, excluded)
           cards == Cards(a)
           listed == Main(a) \cup NoPunches(a)
           chart == {f \in ChartDays(a, c) : f.date < Today}
           NoRecord(who) == SumFunction([f \in who |-> EmployeeRow(f).noRecord])
           R == [x \in Rows |-> RecordOf(x)]
           S == StatusOf(R, [x \in Rows |-> BackendDay(a, x[1], x[2])], c)
           never == {f.id : f \in NoPunches(a)}
           entries == Entries(R, S, c, Seen, Days, never)
           DaysIn(f, T) == Cardinality({d \in Days : d < Today /\ Drawer(f, S).days[d] \in T})
<1>1. /\ LoadedFine(LoadAll) /\ A \subseteq DOMAIN LoadAll.team /\ A \subseteq Employees
      /\ c.weekend \subseteq LoadAll.off /\ LoadAll.today = Today
  <2>1. LoadedFine(LoadAll)
    BY LoadAllFine
  <2>2. A \subseteq DOMAIN LoadAll.team
    BY DEF Included
  <2>3. LoadAll.team = Team /\ LoadAll.today = Today /\ LoadAll.off = Weekend \cup Holidays /\ c.weekend = Weekend
    BY DEF LoadAll, PageContext
  <2> HIDE DEF A, c
  <2> QED BY <2>1, <2>2, <2>3, TeamAssumption
<1>2. AdaptedSays(a, LoadAll, A)
  BY <1>1, AdaptedIs
<1>3. R = Records /\ S = Shown(a)
  BY DEF Records, Shown, ToldDays
<1>4. R \in [Rows -> Record(Days)] /\ S \in [Rows -> Statuses]
  <2>1. R \in [Rows -> Record(Days)]
    BY RecordType
  <2>2. S = [x \in Rows |-> ClassifyDay(R[x], c, BackendDay(a, x[1], x[2]))]
    BY DEF StatusOf
  <2> HIDE DEF R, S, c, a
  <2> QED BY <2>1, <2>2, StatusType
<1> HIDE DEF a, A, R, S
<1>5. /\ cards.leave = a.onLeaveDays /\ cards.absent = a.absentDays /\ cards.unverified = a.unverifiedDays
      /\ cards.missing = a.missingCheckouts /\ cards.noPunches = a.neverPunchedCount /\ cards.headcount = a.headcount
      /\ cards.rate = a.attendanceRate
  BY DEF Cards
<1> HIDE DEF c, cards
<1>6. /\ SumFunction([f \in chart |-> f.present]) = a.presentDays
      /\ SumFunction([f \in chart |-> f.leave]) = cards.leave
      /\ SumFunction([f \in chart |-> f.absent]) = cards.absent
      /\ SumFunction([f \in chart |-> f.unverified]) = cards.unverified
  <2>1. chart = {f \in ChartDays(a, c) : f.date < LoadAll.today}
    BY <1>1
  <2> HIDE DEF chart
  <2>2. /\ SumFunction([f \in chart |-> f.present]) = a.presentDays
        /\ SumFunction([f \in chart |-> f.leave]) = a.onLeaveDays
        /\ SumFunction([f \in chart |-> f.absent]) = a.absentDays
        /\ SumFunction([f \in chart |-> f.unverified]) = a.unverifiedDays
    BY <1>1, <1>2, <2>1, ChartSums
  <2> QED BY <1>5, <2>2, Zenon
<1>7. /\ SumFunction([f \in listed |-> EmployeeRow(f).missing]) = cards.missing
      /\ Cardinality(NoPunches(a)) = cards.noPunches
      /\ cards.rate = Rate(SumFunction([f \in listed |-> EmployeeRow(f).present]),
                           SumFunction([f \in listed |-> EmployeeRow(f).expected]),
                           SumFunction([f \in listed |-> EmployeeRow(f).leave]))
  <2>1. /\ SumFunction([f \in Main(a) \cup NoPunches(a) |-> EmployeeRow(f).missing]) = a.missingCheckouts
        /\ Cardinality(NoPunches(a)) = a.neverPunchedCount
        /\ a.attendanceRate = Rate(SumFunction([f \in Main(a) \cup NoPunches(a) |-> EmployeeRow(f).present]),
                                   SumFunction([f \in Main(a) \cup NoPunches(a) |-> EmployeeRow(f).expected]),
                                   SumFunction([f \in Main(a) \cup NoPunches(a) |-> EmployeeRow(f).leave]))
    BY <1>1, <1>2, ListsSum
  <2> QED BY <1>5, <2>1, Zenon
<1>8. SumFunction([t \in a.teams |-> TeamRow(t).headcount]) = cards.headcount
  <2>1. SumFunction([t \in a.teams |-> t.headcount]) = a.headcount
    BY <1>1, <1>2, TeamsHoldAll
  <2>2. [t \in a.teams |-> TeamRow(t).headcount] = [t \in a.teams |-> t.headcount]
    BY DEF TeamRow
  <2> QED BY <1>5, <2>1, <2>2, Zenon
<1>9. ASSUME NEW t \in a.teams PROVE TeamSays(t, a)
  BY <1>1, <1>2, TeamAddsUp
<1>10. NoRecord(MostNoRecord(a)) + NoRecord(NoPunches(a)) = cards.absent + cards.unverified
  <2>1. NoRecord(MostNoRecord(a)) + NoRecord(NoPunches(a)) = a.absentDays + a.unverifiedDays
    BY <1>1, <1>2, AbsencesListed
  <2> QED BY <1>5, <2>1, Zenon
<1>11. ASSUME ~c.leaveActive, NEW f \in listed, \A d \in Days : <<f.id, d>> \notin Exempt
       PROVE  DrawerSays(f, S, entries)
  <2>1. DrawerSays(f, Shown(a), Entries(Records, Shown(a), PageContext, Seen, Days, never))
    <3> DEFINE none == never
    <3>1. none = {g.id : g \in NoPunches(a)}
      OBVIOUS
    <3> HIDE DEF none, never
    <3>2. DrawerSays(f, Shown(a), Entries(Records, Shown(a), PageContext, Seen, Days, none))
      BY <1>1, <1>2, <1>11, <3>1, DrawerCounts DEF c
    <3> QED BY <3>2 DEF none
  <2> HIDE DEF never
  <2> QED BY <1>3, <2>1, Zenon DEF c
<1>12. ASSUME ~c.leaveActive, NEW f \in listed, \A d \in Days : <<f.id, d>> \notin Exempt
       PROVE  LET drawer == Drawer(f, S) IN
              /\ DaysIn(f, {"present", "missing_checkout"}) = drawer.present
              /\ DaysIn(f, {"leave"}) = EmployeeRow(f).leave
              /\ DaysIn(f, {"absent", "absent_unverified"}) = drawer.noRecord
              /\ f \in Main(a) /\ f.id \in Seen =>
                   Cardinality({x \in entries : x[1] = "no_record" /\ x[2][1] = f.id
                                                  /\ x[2][2] < Today /\ x[2][2] \in PunchDates}) = f.absent
  <2>1. DrawerSays(f, S, entries)
    BY <1>11, <1>12
  <2>2. f \in Main(a) => ~f.neverPunched
    BY DEF Main
  <2> HIDE DEF entries, listed
  <2> QED BY <2>1, <2>2, Zenon DEF DrawerSays
<1> HIDE DEF chart, listed, entries, NoRecord, DaysIn
<1>13. \A t \in a.teams :
         LET members == {f \in a.employees : f.team = t.team} IN
         /\ TeamRow(t).headcount = TeamHeadcount(a, t.team)
         /\ TeamRow(t).rate = Rate(SumFunction([f \in members |-> MemberRow(f).present]),
                                  SumFunction([f \in members |-> MemberRow(f).expected]),
                                  SumFunction([f \in members |-> MemberRow(f).leave]))
  BY <1>9, Zenon DEF TeamSays
<1> QED BY <1>4, <1>6, <1>7, <1>8, <1>10, <1>12, <1>13, Zenon
  DEF a, c, cards, listed, chart, NoRecord, R, S, entries, DaysIn

\* What the pages count from one load, and show of one answer of the metrics
\* endpoint: totals, Data health and Exceptions count the same days; charts,
\* lists, cards and the headcounts and rates of teams add up to one another, for
\* every roster, calendar and content of the tables.  The drawer and Exceptions
\* beside the answer's figures: without a leave report, for employees without an
\* exempted day, on the days somebody swiped.
THEOREM ViewsAlwaysAgree == RecordsSpec => []ViewsAgree
<1>1. RecordsTypeInv => ViewsAgree
  BY ListsHold, FiguresHold DEF ViewsAgree
<1> QED BY <1>1, RecordsInitTyped, RecordsTypes, PTL DEF RecordsSpec
----------------------------------------------------------------------------
(* The controls and the answers                                            *)

\* Records that agree but for the month and the day.
LEMMA MonthAndDay ==
  ASSUME NEW f \in FilterStates, NEW g \in FilterStates,
         g.range = f.range, g.shift = f.shift, g.teams = f.teams, g.nopunch = f.nopunch, g.view = f.view
  PROVE  g = [f EXCEPT !.month = g.month, !.day = g.day]
  BY DEF FilterStates

\* What a request changes of a roster.
LEMMA RosterNames ==
  ASSUME NEW r \in Rosters, NEW d \in Dates \cup {None}, NEW T \in SUBSET Teams,
         NEW s \in RosterStatuses
  PROVE  [r EXCEPT !.date = d, !.teams = T, !.status = s] \in Rosters
  BY DEF Rosters

LEMMA RosterCancels ==
  ASSUME NEW r \in Rosters, NEW k \in {None} \cup RosterKeys
  PROVE  [r EXCEPT !.late = k] \in Rosters
  BY DEF Rosters

LEMMA RosterAsks ==
  ASSUME NEW r \in Rosters, NEW k \in {None} \cup RosterKeys, NEW l \in BOOLEAN, NEW e \in BOOLEAN
  PROVE  [r EXCEPT !.late = k, !.loading = l, !.error = e] \in Rosters
  BY DEF Rosters

LEMMA RosterMoves ==
  ASSUME NEW r \in Rosters, NEW d \in Dates \cup {None}
  PROVE  [r EXCEPT !.start = d] \in Rosters
  BY DEF Rosters

LEMMA RosterEnds ==
  ASSUME NEW r \in Rosters, NEW k \in RosterKeys, NEW l \in BOOLEAN
  PROVE  [r EXCEPT !.shown = k, !.loading = l] \in Rosters
  BY DEF Rosters

LEMMA RosterErrs ==
  ASSUME NEW r \in Rosters, NEW e \in BOOLEAN, NEW l \in BOOLEAN
  PROVE  [r EXCEPT !.error = e, !.loading = l] \in Rosters
  BY DEF Rosters

LEMMA RosterErr ==
  ASSUME NEW r \in Rosters, NEW e \in BOOLEAN
  PROVE  [r EXCEPT !.error = e] \in Rosters
  BY DEF Rosters

LEMMA RosterOpens ==
  ASSUME NEW r \in Rosters, NEW o \in BOOLEAN, NEW d \in Dates \cup {None}, NEW T \in SUBSET Teams
  PROVE  [r EXCEPT !.open = o, !.start = d, !.teams = T] \in Rosters
  BY DEF Rosters

LEMMA RosterClosed == Closed \in Rosters
  BY StatusesAssumption DEF Rosters, Closed

\* Without a month there are no days.
LEMMA NoMonthNoDates == \A r : RangeDates(None, r) = {}
  <1>1. \A d \in Dates : MonthOf[d] \in Months
    BY CalendarAssumption
  <1>2. None \notin Months
    BY NoneAssumption
  <1> QED BY <1>1, <1>2 DEF RangeDates

USE CalendarAssumption, ShiftsAssumption, NoneAssumption, LinksAssumption, PagesAssumption

----------------------------------------------------------------------------
(* The filters and their query string *)

\* The latest of a set of months is one of them.
LEMMA LatestIn ==
  ASSUME NEW S \in SUBSET Months, S # {}
  PROVE  LatestOf(S) \in S /\ \A y \in S : y <= LatestOf(S)
  BY DEF LatestOf

\* There is a default month exactly if some month has records.
LEMMA DefaultIn ==
  ASSUME NEW have \in SUBSET Months
  PROVE  /\ have # {} => DefaultMonth(have) \in have
         /\ have = {} => DefaultMonth(have) = None
  <1>1. CASE have = {}
    BY <1>1 DEF DefaultMonth
  <1>2. CASE have # {}
    BY <1>2, LatestIn DEF DefaultMonth
  <1> QED BY <1>1, <1>2

\* The filters of any query string: what is left after the checks.
Valid(f, have) ==
  /\ f \in FilterStates
  /\ f.month \in have \/ (have = {} /\ f.month = None)
  /\ f.day # None => f.day \in RangeDates(f.month, f.range)

LEMMA ParseValid ==
  ASSUME NEW have \in SUBSET Months, NEW p \in Params
  PROVE  Valid(ParseFilters(p, have), have)
  <1> DEFINE f == ParseFilters(p, have)
  <1>1. f.month \in have \/ (have = {} /\ f.month = None)
    BY DefaultIn DEF ParseFilters
  <1>2. f.range \in Ranges
    BY DEF ParseFilters, Ranges
  <1>3. f.day # None => f.day \in RangeDates(f.month, f.range)
    BY DEF ParseFilters
  <1>4. f.day \in Dates \cup {None}
    BY <1>3 DEF RangeDates
  <1>5. f.shift \in Shifts /\ f.nopunch \in BOOLEAN /\ f.view \in Views
    BY DEF ParseFilters, Params, Views
  <1>6. f.teams \in {None} \cup ((SUBSET Teams) \ {{}})
    <2>1. p.teams \in {None} \cup SUBSET Teams
      BY DEF Params
    <2>2. f.teams = IF p.teams = {} THEN None ELSE p.teams
      BY DEF ParseFilters
    <2> QED BY <2>1, <2>2
  <1>7. f = [month |-> f.month, range |-> f.range, day |-> f.day, shift |-> f.shift,
             teams |-> f.teams, nopunch |-> f.nopunch, view |-> f.view]
    BY DEF ParseFilters
  <1>8. f \in FilterStates
    <2> HIDE DEF f
    <2> QED BY <1>1, <1>2, <1>4, <1>5, <1>6, <1>7 DEF FilterStates
  <1> QED BY <1>1, <1>3, <1>8 DEF Valid

\* What a control asks for, with a choice of teams that may be empty.
Askable(f, have) ==
  /\ f \in [month : Months \cup {None}, range : Ranges, day : Dates \cup {None}, shift : Shifts,
            teams : {None} \cup SUBSET Teams, nopunch : BOOLEAN, view : Views]
  /\ f.month \in have \/ (have = {} /\ f.month = None)
  /\ f.day # None => f.day \in RangeDates(f.month, f.range)

\* No choice of teams stands for all of them.
Chosen(f) == [f EXCEPT !.teams = IF @ = {} THEN None ELSE @]

\* The query string of filters, with the view.
Written(f, have) ==
  [SerializeFilters(f, have) EXCEPT !.view = IF f.view = "list" THEN None ELSE f.view]

LEMMA WrittenType ==
  ASSUME NEW have \in SUBSET Months, NEW f, Askable(f, have)
  PROVE  Written(f, have) \in Params /\ SerializeFilters(f, have) \in Params
  BY DEF Written, SerializeFilters, Params, Askable, Ranges, Views

\* Filters written to a query string and read back are the same filters.
LEMMA RoundTrip ==
  ASSUME NEW have \in SUBSET Months, NEW f, Askable(f, have)
  PROVE  ParseFilters(Written(f, have), have) = Chosen(f)
  <1> DEFINE p == Written(f, have)
             g == ParseFilters(p, have)
  <1>1. p = [month |-> IF f.month = DefaultMonth(have) THEN None ELSE f.month,
             range |-> IF f.range = "whole" THEN None ELSE f.range,
             day |-> f.day, shift |-> IF f.shift = "all" THEN None ELSE f.shift,
             teams |-> f.teams, nopunch |-> f.nopunch,
             view |-> IF f.view = "list" THEN None ELSE f.view]
    BY DEF Written, SerializeFilters
  <1> HIDE DEF p
  <1>2. g.month = f.month
    BY <1>1, DefaultIn DEF ParseFilters, Askable
  <1>3. g.range = f.range
    BY <1>1 DEF ParseFilters, Askable, Ranges
  <1>4. g.day = f.day
    <2>1. g.day = IF p.day \in RangeDates(g.month, g.range) THEN p.day ELSE None
      BY DEF ParseFilters
    <2> QED BY <2>1, <1>1, <1>2, <1>3 DEF Askable
  <1>5. g.shift = f.shift
    BY <1>1 DEF ParseFilters, Askable
  <1>6. g.teams = (IF f.teams = {} THEN None ELSE f.teams) /\ g.nopunch = f.nopunch
    BY <1>1 DEF ParseFilters, Askable
  <1>7. g.view = f.view
    BY <1>1 DEF ParseFilters, Askable, Views
  <1>8. g = [month |-> g.month, range |-> g.range, day |-> g.day, shift |-> g.shift,
             teams |-> g.teams, nopunch |-> g.nopunch, view |-> g.view]
    BY DEF ParseFilters
  <1> HIDE DEF g
  <1>9. Chosen(f) = [month |-> f.month, range |-> f.range, day |-> f.day, shift |-> f.shift,
                     teams |-> IF f.teams = {} THEN None ELSE f.teams,
                     nopunch |-> f.nopunch, view |-> f.view]
    BY DEF Chosen, Askable
  <1>10. g = Chosen(f)
    BY <1>2, <1>3, <1>4, <1>5, <1>6, <1>7, <1>8, <1>9
  <1> QED BY <1>10 DEF g, p

LEMMA NoParamsFields ==
  /\ NoParams = [month |-> NoParams.month, range |-> NoParams.range, day |-> NoParams.day,
                 shift |-> NoParams.shift, teams |-> NoParams.teams,
                 nopunch |-> NoParams.nopunch, view |-> NoParams.view]
  /\ NoParams.month = None /\ NoParams.range = None /\ NoParams.day = None /\ NoParams.shift = None
  /\ NoParams.teams = None /\ NoParams.nopunch = FALSE /\ NoParams.view = None
  BY DEF NoParams

\* The query string that names a view and nothing else.
Bare(v) == [NoParams EXCEPT !.view = IF v = "list" THEN None ELSE v]

\* The filters of the page without a query string, but for the view.
StartFilters(have, view) ==
  [month |-> DefaultMonth(have), range |-> "whole", day |-> None, shift |-> "all",
   teams |-> None, nopunch |-> FALSE, view |-> view]

LEMMA StartAskable ==
  ASSUME NEW have \in SUBSET Months, NEW v \in Views
  PROVE  /\ Askable(StartFilters(have, v), have) /\ Chosen(StartFilters(have, v)) = StartFilters(have, v)
         /\ Written(StartFilters(have, v), have) = Bare(v)
  <1>1. Askable(StartFilters(have, v), have)
    BY DefaultIn DEF StartFilters, Askable, Ranges
  <1>2. Chosen(StartFilters(have, v)) = StartFilters(have, v)
    <2>1. None # {}
      OBVIOUS
    <2> QED BY <2>1 DEF Chosen, StartFilters
  <1>3. Written(StartFilters(have, v), have) = Bare(v)
    BY DEF Written, SerializeFilters, StartFilters, NoParams, Bare
  <1> QED BY <1>1, <1>2, <1>3

\* Valid filters are among those a control may ask for, and name their teams.
LEMMA ValidAskable ==
  ASSUME NEW have \in SUBSET Months, NEW f, Valid(f, have)
  PROVE  Askable(f, have) /\ Chosen(f) = f
  <1>1. Askable(f, have)
    BY DEF Valid, Askable, FilterStates
  <1>2. f.teams # {}
    BY DEF Valid, FilterStates
  <1>3. Chosen(f) = f
    BY <1>2 DEF Chosen, Valid, FilterStates
  <1> QED BY <1>1, <1>3

\* A month and a range always have days.
LEMMA RangeNotEmpty ==
  ASSUME NEW m \in Months, NEW r \in Ranges
  PROVE  RangeDates(m, r) # {}
  <1>1. PICK h \in {"h1", "h2"} : r \in {"whole", h}
    BY DEF Ranges
  <1>2. PICK d \in Dates : MonthOf[d] = m /\ HalfOf[d] = h
    OBVIOUS
  <1> QED BY <1>1, <1>2 DEF RangeDates

LEMMA KeyTyped ==
  ASSUME NEW have \in SUBSET Months, NEW f, Valid(f, have)
  PROVE  MetricsKey(f) \in MetricsKeys
  <1>1. RangeDates(f.month, f.range) \in SUBSET Dates
    BY DEF RangeDates
  <1> QED BY <1>1 DEF MetricsKey, MetricsKeys, Valid, FilterStates

LEMMA KeyNotNone ==
  ASSUME NEW have \in SUBSET Months, NEW f, Valid(f, have)
  PROVE  MetricsKey(f) # None
  <1>1. MetricsKey(f) \in MetricsKeys
    BY KeyTyped
  <1> QED BY <1>1, KeysAssumption, Zenon

----------------------------------------------------------------------------
(* What a control does *)

Located == months \subseteq Months /\ page \in Pages /\ url \in Params

LEMMA FiltersValid ==
  ASSUME Located
  PROVE  Valid(filters, months) /\ Askable(filters, months) /\ Chosen(filters) = filters
  BY ParseValid, ValidAskable DEF Located, filters

\* Filters are asked for, on this page or on another, and that is what they
\* become.
Asks(f) ==
  /\ Askable(f, months)
  /\ \E p \in Pages : Go(p, Written(f, months))

LEMMA AskedFor ==
  ASSUME Located, NEW f, Asks(f)
  PROVE  /\ filters' = Chosen(f) /\ months' = months
         /\ \E p \in Pages, u \in Params : Go(p, u)
  <1>1. PICK p \in Pages : Go(p, Written(f, months))
    BY DEF Asks
  <1>2. url' = Written(f, months) /\ months' = months
    BY <1>1 DEF Go
  <1>3. filters' = ParseFilters(url', months')
    BY DEF filters
  <1>4. filters' = Chosen(f)
    BY <1>2, <1>3, RoundTrip DEF Asks, Located
  <1> QED BY <1>1, <1>2, <1>4, WrittenType DEF Asks, Located

\* update writes the filters it is asked for if the month stays or is given
\* with a range.
LEMMA UpdateKeeps ==
  ASSUME NEW f, NEW want, NEW given \in BOOLEAN, NEW have, given \/ want.month = f.month
  PROVE  Update(f, want, given, have) = Written(want, have)
  BY DEF Update, Written

\* With teams named or all of them, exactly what is asked for comes.
LEMMA Changed ==
  ASSUME Located, NEW f, Asks(f), f.teams # {}
  PROVE  filters' = f /\ months' = months /\ \E p \in Pages, u \in Params : Go(p, u)
  <1>1. Chosen(f) = f
    BY DEF Chosen, Asks, Askable
  <1> QED BY <1>1, AskedFor

BoardStep == Board!Next \/ UNCHANGED <<filters, months>>
Moves == BoardStep /\ months' = months /\ \E p \in Pages, u \in Params : Go(p, u)
Stays == UNCHANGED <<months, page, url, hook>>

\* The calendar of FilterBoard is that of Filters.
LEMMA SameCalendar ==
  /\ Board!Ranges = Ranges /\ Board!Views = Views
  /\ \A m, r : Board!RangeDates(m, r) = RangeDates(m, r)
  BY DEF Board!Ranges, Ranges, Board!Views, Views, Board!RangeDates, RangeDates

LEMMA BoardFields ==
  ASSUME Located
  PROVE  /\ filters.teams # {} /\ filters \in FilterStates /\ filters.view \in Views
         /\ filters.month \in months \/ (months = {} /\ filters.month = None)
  BY FiltersValid DEF Valid, FilterStates

LEMMA MonthMoves ==
  ASSUME Located, NEW m \in months, ChooseMonth(m)
  PROVE  Moves
  <1> DEFINE want == [filters EXCEPT !.month = m, !.day = None]
             f == [filters EXCEPT !.month = m, !.range = "whole", !.day = None]
  <1>1. m \in Months /\ m # None
    BY DEF Located
  <1>2. want.month = m /\ m # filters.month
    BY BoardFields DEF FilterStates, ChooseMonth
  <1>3. Update(filters, want, FALSE, months) = Written(f, months)
    <2>1. WholeMonth(want) = f
      BY BoardFields DEF WholeMonth, FilterStates
    <2>2. want.month # filters.month
      BY <1>2
    <2> HIDE DEF want, f
    <2> QED BY <2>1, <2>2 DEF Update, Written
  <1>4. Askable(f, months) /\ f.teams # {}
    BY <1>1, BoardFields DEF Askable, FilterStates, Ranges
  <1>5. Asks(f)
    <2>1. Go(page, Written(f, months))
      BY <1>3 DEF ChooseMonth, Ask
    <2> QED BY <2>1, <1>4 DEF Asks, Located
  <1>6. filters' = f /\ months' = months /\ \E p \in Pages, u \in Params : Go(p, u)
    BY <1>4, <1>5, Changed
  <1>7. Board!Month(m)
    BY <1>6 DEF Board!Month, Board!Set, ChooseMonth
  <1> QED BY <1>6, <1>7 DEF Moves, BoardStep, Board!Next

\* A control that keeps the month, or gives one with a range, asks for what it
\* names.
LEMMA AskKeeps ==
  ASSUME Located, NEW want, NEW given \in BOOLEAN, given \/ want.month = filters.month,
         Askable(want, months), NEW p \in Pages, AskOn(p, want, given)
  PROVE  Asks(want)
  BY UpdateKeeps DEF Asks, AskOn

LEMMA RangeMoves ==
  ASSUME Located, NEW r \in Ranges, ChooseRange(r)
  PROVE  Moves
  <1> DEFINE f == [filters EXCEPT !.range = r, !.day = None]
  <1>1. Askable(f, months) /\ f.teams # {}
    BY BoardFields DEF Askable, FilterStates, Located
  <1>2. AskOn(page, f, TRUE)
    BY DEF ChooseRange, Ask, AskOn
  <1>3. Asks(f)
    BY <1>1, <1>2, AskKeeps DEF Located
  <1>4. filters' = f /\ months' = months /\ \E p \in Pages, u \in Params : Go(p, u)
    BY <1>1, <1>3, Changed
  <1>5. Board!Range(r)
    BY <1>4 DEF Board!Range, Board!Set
  <1> QED BY <1>4, <1>5, SameCalendar DEF Moves, BoardStep, Board!Next

\* A day of the month and range, on this page or another.
LEMMA DayMoves ==
  ASSUME Located, NEW d \in {None} \cup RangeDates(filters.month, filters.range),
         NEW p \in Pages, AskOn(p, [filters EXCEPT !.day = d], FALSE)
  PROVE  Moves
  <1> DEFINE f == [filters EXCEPT !.day = d]
  <1>1. d \in Dates \cup {None}
    BY DEF RangeDates
  <1>2. Askable(f, months) /\ f.teams # {} /\ f.month = filters.month
    BY <1>1, BoardFields DEF Askable, FilterStates, Located
  <1>3. Asks(f)
    BY <1>2, AskKeeps
  <1>4. filters' = f /\ months' = months /\ \E q \in Pages, u \in Params : Go(q, u)
    BY <1>2, <1>3, Changed
  <1>5. Board!Day(d)
    BY <1>4, SameCalendar DEF Board!Day, Board!Set
  <1> QED BY <1>1, <1>4, <1>5 DEF Moves, BoardStep, Board!Next

LEMMA ShiftMoves ==
  ASSUME Located, NEW s \in Shifts, ChooseShift(s)
  PROVE  Moves
  <1> DEFINE f == [filters EXCEPT !.shift = s]
  <1>1. Askable(f, months) /\ f.teams # {} /\ f.month = filters.month
    BY FiltersValid, BoardFields DEF Askable, FilterStates, Located
  <1>2. AskOn(page, f, FALSE)
    BY DEF ChooseShift, Ask, AskOn
  <1>3. Asks(f)
    BY <1>1, <1>2, AskKeeps DEF Located
  <1>4. filters' = f /\ months' = months /\ \E p \in Pages, u \in Params : Go(p, u)
    BY <1>1, <1>3, Changed
  <1>5. Board!Shift(s)
    BY <1>4 DEF Board!Shift, Board!Set
  <1> QED BY <1>4, <1>5 DEF Moves, BoardStep, Board!Next

LEMMA NoPunchMoves ==
  ASSUME Located, ToggleNoPunch
  PROVE  Moves
  <1> DEFINE f == [filters EXCEPT !.nopunch = ~filters.nopunch]
  <1>1. filters.nopunch \in BOOLEAN
    BY BoardFields DEF FilterStates
  <1>2. Askable(f, months) /\ f.teams # {} /\ f.month = filters.month
    BY <1>1, FiltersValid, BoardFields DEF Askable, FilterStates, Located
  <1>3. AskOn(page, f, FALSE)
    BY DEF ToggleNoPunch, Ask, AskOn
  <1>4. Asks(f)
    BY <1>2, <1>3, AskKeeps DEF Located
  <1>5. filters' = f /\ months' = months /\ \E p \in Pages, u \in Params : Go(p, u)
    BY <1>2, <1>4, Changed
  <1>6. Board!NoPunch
    BY <1>5 DEF Board!NoPunch, Board!Set
  <1> QED BY <1>5, <1>6 DEF Moves, BoardStep, Board!Next

\* A choice of teams, possibly empty: then all of them.
LEMMA TeamsMove ==
  ASSUME Located, NEW T \in {None} \cup SUBSET Teams,
         Ask([filters EXCEPT !.teams = T], FALSE)
  PROVE  Moves
  <1> DEFINE f == [filters EXCEPT !.teams = T]
             U == IF T = {} THEN None ELSE T
  <1>1. Askable(f, months) /\ f.month = filters.month
    BY FiltersValid, BoardFields DEF Askable, FilterStates, Located
  <1>2. AskOn(page, f, FALSE)
    BY DEF Ask, AskOn
  <1>3. Asks(f)
    BY <1>1, <1>2, AskKeeps DEF Located
  <1>4. filters' = Chosen(f) /\ months' = months /\ \E p \in Pages, u \in Params : Go(p, u)
    BY <1>3, AskedFor
  <1>5. Chosen(f) = [filters EXCEPT !.teams = U]
    BY BoardFields DEF Chosen, FilterStates
  <1>6. U \in {None} \cup ((SUBSET Teams) \ {{}})
    OBVIOUS
  <1>7. Board!TeamsTo(U)
    BY <1>4, <1>5, <1>6 DEF Board!TeamsTo, Board!Set
  <1> QED BY <1>4, <1>6, <1>7 DEF Moves, BoardStep, Board!Next

LEMMA ToggleMoves ==
  ASSUME Located, NEW t \in Teams, ToggleTeam(t)
  PROVE  Moves
  <1> DEFINE old == IF filters.teams = None THEN Teams ELSE filters.teams
             next == IF t \in old THEN old \ {t} ELSE old \cup {t}
             T == IF next = Teams THEN None ELSE next
  <1>1. old \in SUBSET Teams
    BY BoardFields DEF FilterStates
  <1>2. next \in SUBSET Teams
    BY <1>1
  <1>3. Toggled(filters, t) = IF next = {} THEN filters ELSE [filters EXCEPT !.teams = T]
    BY DEF Toggled
  <1>4. Toggled(filters, t) = [filters EXCEPT !.teams = T]
    BY <1>3 DEF ToggleTeam
  <1>5. T \in {None} \cup SUBSET Teams
    BY <1>2
  <1> HIDE DEF T
  <1>6. Ask([filters EXCEPT !.teams = T], FALSE)
    BY <1>4 DEF ToggleTeam
  <1> QED BY <1>5, <1>6, TeamsMove

LEMMA ClearMoves ==
  ASSUME Located, AllTeams \/ ClearTeams
  PROVE  Moves
  <1>1. CASE AllTeams
    BY <1>1, TeamsMove DEF AllTeams
  <1>2. CASE ClearTeams /\ filters.teams # None
    <2>1. PICK t \in filters.teams : Ask([filters EXCEPT !.teams = {t}], FALSE)
      BY <1>2 DEF ClearTeams
    <2>2. {t} \in SUBSET Teams
      BY <1>2, BoardFields DEF FilterStates
    <2> QED BY <2>1, <2>2, TeamsMove
  <1> QED BY <1>1, <1>2 DEF ClearTeams

LEMMA ViewMoves ==
  ASSUME Located, NEW v \in Views, ChooseView(v)
  PROVE  Moves
  <1> DEFINE f == [filters EXCEPT !.view = v]
  <1>1. Askable(f, months) /\ f.teams # {} /\ f.month = filters.month
    BY FiltersValid, BoardFields DEF Askable, FilterStates, Located
  <1>2. AskOn(page, f, FALSE)
    BY DEF ChooseView, Ask, AskOn
  <1>3. Asks(f)
    BY <1>1, <1>2, AskKeeps DEF Located
  <1>4. filters' = f /\ months' = months /\ \E p \in Pages, u \in Params : Go(p, u)
    BY <1>1, <1>3, Changed
  <1>5. Board!View(v)
    BY <1>4 DEF Board!View, Board!Set
  <1> QED BY <1>4, <1>5, SameCalendar DEF Moves, BoardStep, Board!Next

\* Controls that ask for the filters in force.
LEMMA SameMoves ==
  ASSUME Located, NEW given \in BOOLEAN, NEW p \in Pages, AskOn(p, filters, given)
  PROVE  Moves
  <1>1. Asks(filters)
    BY FiltersValid, AskKeeps DEF Located
  <1>2. filters' = filters /\ months' = months /\ \E q \in Pages, u \in Params : Go(q, u)
    BY <1>1, BoardFields, Changed
  <1> QED BY <1>2 DEF Moves, BoardStep

LEMMA OpenDayMoves ==
  ASSUME Located, NEW d \in Dates, OpenDay(d)
  PROVE  Moves
  <1>1. d \in {None} \cup RangeDates(filters.month, filters.range)
    <2>1. d \in ScopeDates(filters)
      BY DEF OpenDay
    <2>2. filters.day # None => filters.day \in RangeDates(filters.month, filters.range)
      BY FiltersValid DEF Valid
    <2> QED BY <2>1, <2>2 DEF ScopeDates
  <1>2. AskOn("employees", [filters EXCEPT !.day = d], FALSE)
    BY DEF OpenDay
  <1> QED BY <1>1, <1>2, DayMoves

LEMMA OpenDateMoves ==
  ASSUME Located, NEW d \in Dates, OpenDate(d)
  PROVE  Moves
  <1> DEFINE f == [filters EXCEPT !.month = MonthOf[d], !.range = HalfOf[d], !.day = d]
  <1>1. MonthOf[d] \in months /\ HalfOf[d] \in Ranges
    BY DEF OpenDate, Ranges
  <1>2. d \in RangeDates(MonthOf[d], HalfOf[d])
    BY DEF RangeDates
  <1>3. Askable(f, months) /\ f.teams # {}
    BY <1>1, <1>2, BoardFields DEF Askable, FilterStates, Located
  <1>4. AskOn("overview", f, TRUE)
    BY DEF OpenDate
  <1>5. Asks(f)
    BY <1>3, <1>4, AskKeeps
  <1>6. filters' = f /\ months' = months /\ \E p \in Pages, u \in Params : Go(p, u)
    BY <1>3, <1>5, Changed
  <1>7. Board!Jump(d)
    BY <1>6 DEF Board!Jump, Board!Set
  <1> QED BY <1>1, <1>6, <1>7 DEF Moves, BoardStep, Board!Next

\* The page starts again with a view.
LEMMA StartMoves ==
  ASSUME Located, NEW v \in {"list", filters.view}, NEW p \in Pages,
         Go(p, Bare(v))
  PROVE  Moves
  <1> DEFINE f == StartFilters(months, v)
  <1>1. v \in Views
    BY BoardFields DEF Views
  <1>2. Asks(f) /\ f.teams # {}
    BY <1>1, StartAskable DEF Asks, StartFilters, Located
  <1>3. filters' = f /\ months' = months /\ \E q \in Pages, u \in Params : Go(q, u)
    BY <1>2, Changed
  <1>4. Board!Start(v) = f
    BY DEF Board!Start, StartFilters, Board!DefaultMonth, DefaultMonth, Board!LatestOf, LatestOf
  <1>5. Board!Set(Board!Start(v))
    BY <1>3, <1>4 DEF Board!Set
  <1>6. Board!Fresh
    BY <1>5 DEF Board!Fresh
  <1> QED BY <1>3, <1>6 DEF Moves, BoardStep, Board!Next

LEMMA ResetMoves ==
  ASSUME Located, Reset
  PROVE  Moves
  <1> DEFINE want == [NoParams EXCEPT !.shift = "all", !.view = filters.view]
             v == filters.view
  <1>1. want = [month |-> None, range |-> None, day |-> None, shift |-> "all",
                teams |-> None, nopunch |-> NoParams.nopunch, view |-> v]
    <2>1. PICK n : /\ NoParams = [month |-> None, range |-> None, day |-> None, shift |-> None,
                                 teams |-> None, nopunch |-> n, view |-> None]
                   /\ n = NoParams.nopunch
      BY NoParamsFields
    <2> DEFINE r == [NoParams EXCEPT !.shift = "all"]
    <2>2. r = [month |-> None, range |-> None, day |-> None, shift |-> "all",
               teams |-> None, nopunch |-> n, view |-> None]
      BY <2>1
    <2>3. want = [r EXCEPT !.view = v]
      OBVIOUS
    <2> HIDE DEF r, want, v
    <2>4. want = [month |-> None, range |-> None, day |-> None, shift |-> "all",
                  teams |-> None, nopunch |-> n, view |-> v]
      BY <2>2, <2>3
    <2> QED BY <2>1, <2>4
  <1>2. Update(filters, want, TRUE, months) = Written(want, months)
    <2> HIDE DEF want
    <2> QED BY DEF Update, Written
  <1>3. Written(want, months) = Bare(v)
    <2> HIDE DEF want
    <2>1. SerializeFilters(want, months) = NoParams
      <3>1. SerializeFilters(want, months)
              = [month |-> None, range |-> None, day |-> None, shift |-> None,
                 teams |-> None, nopunch |-> NoParams.nopunch, view |-> None]
        BY <1>1 DEF SerializeFilters
      <3> QED BY <3>1, NoParamsFields
    <2>2. want.view = v
      BY <1>1
    <2> HIDE DEF v
    <2> QED BY <2>1, <2>2 DEF Written, Bare
  <1>4. Go(page, Update(filters, want, TRUE, months))
    BY DEF Reset, Ask
  <1>5. Go(page, Bare(v))
    <2> DEFINE u == Update(filters, want, TRUE, months)
    <2>1. u = Bare(v)
      BY <1>2, <1>3
    <2>2. Go(page, u)
      BY <1>4
    <2> HIDE DEF u, want, v
    <2> QED BY <2>1, <2>2, Zenon
  <1> QED BY <1>5, StartMoves DEF Located

LEMMA LinkMoves ==
  ASSUME Located, NEW p \in Pages, FollowLink(p)
  PROVE  Moves
  <1>1. NoParams = [NoParams EXCEPT !.view = None]
    BY NoParamsFields
  <1>2. Go(p, Bare("list"))
    BY <1>1 DEF FollowLink, Bare
  <1> QED BY <1>2, StartMoves

LEMMA TabMoves ==
  ASSUME Located, NEW p \in Pages, SwitchTab(p)
  PROVE  Moves
  <1> DEFINE f == [filters EXCEPT !.view = "list"]
  <1>1. Askable(f, months) /\ f.teams # {} /\ f.view = "list"
    BY FiltersValid, BoardFields DEF Askable, FilterStates, Located, Views
  <1>2. SerializeFilters(f, months) = SerializeFilters(filters, months)
    BY BoardFields DEF SerializeFilters, FilterStates
  <1>3. [SerializeFilters(f, months) EXCEPT !.view = None] = SerializeFilters(f, months)
    BY DEF SerializeFilters
  <1>4. Written(f, months) = SerializeFilters(filters, months)
    <2> HIDE DEF f
    <2> QED BY <1>1, <1>2, <1>3 DEF Written
  <1>5. Asks(f)
    BY <1>1, <1>4 DEF Asks, SwitchTab
  <1>6. filters' = f /\ months' = months /\ \E q \in Pages, u \in Params : Go(q, u)
    BY <1>1, <1>5, Changed
  <1>7. Board!View("list")
    BY <1>6 DEF Board!View, Board!Set
  <1>8. "list" \in Board!Views
    BY DEF Board!Views
  <1> QED BY <1>6, <1>7, <1>8 DEF Moves, BoardStep, Board!Next

\* Every control moves to filters that FilterBoard allows, or is one of a saved
\* group or of the roster.
LEMMA ControlKinds ==
  ASSUME Located, Control
  PROVE  \/ Moves
         \/ \E g \in Groups : SaveGroup(g) \/ DeleteGroup(g)
         \/ \E d \in Dates \cup {None} : PickRosterDate(d)
         \/ \E T \in SUBSET Teams : PickRosterTeams(T)
         \/ \E s \in RosterStatuses : PickRosterStatus(s)
  <1>1. \/ \E m \in months : ChooseMonth(m)
        \/ \E r \in Ranges : ChooseRange(r)
        \/ \E d \in Dates \cup {None} : ChooseDay(d)
        => Moves
    <2>1. ASSUME NEW d \in Dates \cup {None}, ChooseDay(d) PROVE Moves
      BY <2>1, DayMoves DEF ChooseDay, Ask, AskOn, Located
    <2> QED BY <2>1, MonthMoves, RangeMoves
  <1>2. \/ \E d \in Dates : OpenDay(d) \/ OpenDate(d)
        \/ \E s \in Shifts : ChooseShift(s)
        \/ \E t \in Teams : ToggleTeam(t)
        => Moves
    BY OpenDayMoves, OpenDateMoves, ShiftMoves, ToggleMoves
  <1>3. AllTeams \/ ClearTeams \/ ToggleNoPunch \/ Reset => Moves
    BY ClearMoves, NoPunchMoves, ResetMoves
  <1>4. ResetEmpty \/ OpenEmployee => Moves
    BY SameMoves DEF ResetEmpty, OpenEmployee, Ask, AskOn, Located
  <1>5. \/ \E v \in Views : ChooseView(v)
        \/ \E p \in Pages : SwitchTab(p) \/ FollowLink(p)
        => Moves
    BY ViewMoves, TabMoves, LinkMoves
  <1>6. ASSUME NEW g \in Groups, UseGroup(g) PROVE Moves
    <2>1. groups[g] \cap Teams \in SUBSET Teams
      OBVIOUS
    <2> QED BY <1>6, <2>1, TeamsMove DEF UseGroup
  <1> QED BY <1>1, <1>2, <1>3, <1>4, <1>5, <1>6 DEF Control

LEMMA ControlMoves ==
  ASSUME Located, Control
  PROVE  Moves \/ Stays
  <1>1. \/ \E g \in Groups : SaveGroup(g) \/ DeleteGroup(g)
        \/ \E d \in Dates \cup {None} : PickRosterDate(d)
        \/ \E T \in SUBSET Teams : PickRosterTeams(T)
        \/ \E s \in RosterStatuses : PickRosterStatus(s)
        => Stays
    BY DEF SaveGroup, DeleteGroup, PickRosterDate, PickRosterTeams, PickRosterStatus, PickRoster,
           Stays, hook
  <1> QED BY <1>1, ControlKinds

\* New records: the filters stay, or the default month they show moves on.
LEMMA ReloadMoves ==
  ASSUME Located, NEW m \in Months, Reload({m})
  PROVE  BoardStep
  <1> DEFINE new == months \cup {m}
             f == filters
             g == ParseFilters(url, new)
  <1>1. months' = new /\ url' = url /\ filters' = g /\ new \in SUBSET Months
    BY DEF Reload, filters, Located
  <1>2. CASE m \in months
    <2>1. new = months
      BY <1>2
    <2> QED BY <1>1, <2>1 DEF BoardStep, filters
  <1>3. CASE m \notin months
    <2>1. CASE g.month = f.month
      <3>1. g = f
        BY <2>1 DEF ParseFilters, filters
      <3> QED BY <1>1, <1>3, <3>1 DEF BoardStep, Board!Next, Board!Arrive
    <2>2. CASE g.month # f.month
      <3>1. f.month = DefaultMonth(months) /\ g.month = m
        <4>1. url.month \notin months
          BY <2>2 DEF ParseFilters, filters
        <4>2. f.month = DefaultMonth(months)
          BY <4>1 DEF ParseFilters, filters
        <4>3. CASE url.month = m
          BY <4>2, <4>3 DEF ParseFilters
        <4>4. CASE url.month # m
          <5>1. g.month = DefaultMonth(new)
            BY <4>1, <4>4 DEF ParseFilters
          <5>2. DefaultMonth(new) \in {m, DefaultMonth(months)}
            <6>1. CASE ThisMonth \in new
              BY <6>1 DEF DefaultMonth
            <6>2. CASE ThisMonth \notin new /\ months = {}
              BY <6>2, <1>1, DefaultIn
            <6>3. CASE ThisMonth \notin new /\ months # {}
              <7>1. DefaultMonth(new) = LatestOf(new) /\ DefaultMonth(months) = LatestOf(months)
                BY <6>3 DEF DefaultMonth
              <7>2. LatestOf(new) \in new /\ \A y \in new : y <= LatestOf(new)
                BY <1>1, <6>3, LatestIn
              <7>3. LatestOf(months) \in months /\ \A y \in months : y <= LatestOf(months)
                BY <6>3, LatestIn DEF Located
              <7>4. CASE LatestOf(new) = m
                BY <7>1, <7>4
              <7>5. CASE LatestOf(new) # m
                <8>1. LatestOf(new) \in months
                  BY <7>2, <7>5
                <8>2. LatestOf(new) <= LatestOf(months) /\ LatestOf(months) <= LatestOf(new)
                  BY <7>2, <7>3, <8>1
                <8>3. LatestOf(new) \in Nat /\ LatestOf(months) \in Nat
                  BY <7>3, <8>1 DEF Located
                <8>4. LatestOf(new) = LatestOf(months)
                  BY <8>2, <8>3
                <8> QED BY <7>1, <8>4
              <7> QED BY <7>4, <7>5
            <6> QED BY <6>1, <6>2, <6>3
          <5> QED BY <2>2, <4>2, <5>1, <5>2
        <4> QED BY <4>2, <4>3, <4>4
      <3>2. g.day \in Dates \cup {None}
        BY <1>1, ParseValid DEF Located, Valid, FilterStates
      <3>3. g = [f EXCEPT !.month = m, !.day = g.day]
        <4>1. f \in FilterStates /\ g \in FilterStates
          BY <1>1, ParseValid DEF Located, Valid, filters
        <4>2. /\ g.range = f.range /\ g.shift = f.shift /\ g.teams = f.teams
              /\ g.nopunch = f.nopunch /\ g.view = f.view
          BY DEF ParseFilters, filters
        <4> HIDE DEF f, g
        <4>3. g = [f EXCEPT !.month = g.month, !.day = g.day]
          BY <4>1, <4>2, MonthAndDay
        <4> QED BY <3>1, <4>3
      <3>4. Board!DefaultMonth(months) = DefaultMonth(months)
        BY DEF Board!DefaultMonth, DefaultMonth, Board!LatestOf, LatestOf
      <3>5. \E d \in Dates \cup {None} : filters' = [filters EXCEPT !.month = m, !.day = d]
        BY <1>1, <3>2, <3>3
      <3>6. Board!Arrive(m)
        BY <1>1, <1>3, <3>1, <3>4, <3>5 DEF Board!Arrive
      <3> QED BY <3>6 DEF BoardStep, Board!Next
    <2> QED BY <2>1, <2>2
  <1> QED BY <1>2, <1>3

----------------------------------------------------------------------------
(* Types *)

LEMMA TypeLocated ==
  ASSUME LocationOK
  PROVE  Located
  BY DEF LocationOK, Located

LEMMA TypeInit ==
  ASSUME Init
  PROVE  LocationOK
  BY DEF Init, LocationOK

LEMMA EditType ==
  ASSUME edits \in 0..MaxEdits, Edit
  PROVE  edits' \in 0..MaxEdits
  BY DEF Edit

LEMMA ControlTyped ==
  ASSUME LocationOK, Control
  PROVE  LocationOK'
  <1>1. CASE Moves
    <2>1. PICK p \in Pages, u \in Params : Go(p, u)
      BY <1>1 DEF Moves
    <2> QED BY <2>1, EditType DEF Go, LocationOK
  <1>2. CASE Stays
    <2>1. groups' \in [Groups -> {None} \cup SavedEarlier \cup SUBSET Teams] /\ edits' \in 0..MaxEdits
      <3>1. ASSUME NEW g \in Groups, SaveGroup(g)
            PROVE  groups' \in [Groups -> {None} \cup SavedEarlier \cup SUBSET Teams]
                   /\ edits' \in 0..MaxEdits
        <4>1. filters.teams = None \/ filters.teams \in SUBSET Teams
          BY TypeLocated, BoardFields DEF FilterStates
        <4> QED BY <3>1, <4>1, EditType DEF SaveGroup, LocationOK
      <3>2. ASSUME NEW g \in Groups, DeleteGroup(g)
            PROVE  groups' \in [Groups -> {None} \cup SavedEarlier \cup SUBSET Teams]
                   /\ edits' \in 0..MaxEdits
        BY <3>2, EditType DEF DeleteGroup, LocationOK
      <3>3. ASSUME NEW d, NEW T, NEW s, PickRoster(d, T, s)
            PROVE  groups' = groups /\ edits' \in 0..MaxEdits
        BY <3>3, EditType DEF PickRoster, LocationOK
      <3>4. ASSUME NEW p, NEW u, Go(p, u)
            PROVE  groups' = groups /\ edits' \in 0..MaxEdits
        BY <3>4, EditType DEF Go, LocationOK
      <3> QED BY <3>1, <3>2, <3>3, <3>4
            DEF Control, PickRosterDate, PickRosterTeams, PickRosterStatus, LocationOK, ChooseMonth, ChooseRange, ChooseDay,
                ChooseShift, ToggleNoPunch, AllTeams, ClearTeams, ToggleTeam, UseGroup, Reset,
                ResetEmpty, ChooseView, OpenDay, OpenEmployee, OpenDate, SwitchTab, FollowLink,
                Ask, AskOn
    <2> QED BY <1>2, <2>1 DEF Stays, LocationOK
  <1> QED BY <1>1, <1>2, ControlMoves, TypeLocated

\* An answer leaves the location and the records alone.
LEMMA AnswersStay ==
  ASSUME Answers
  PROVE  UNCHANGED <<months, page, url, groups, edits>>
  BY DEF Answers, Answer, AnswerFails, RosterAnswer, RosterFails, RosterLate, ExportFails

LEMMA ReloadTyped ==
  ASSUME LocationOK, NEW more \in SUBSET Months, Reload(more)
  PROVE  LocationOK'
  BY EditType DEF LocationOK, Reload

LEMMA LocationCorrect == Spec => []LocationOK
  <1>1. Init => LocationOK
    BY TypeInit
  <1>2. LocationOK /\ [Next]_vars => LocationOK'
    <2> SUFFICES ASSUME LocationOK, [Next]_vars PROVE LocationOK'
      OBVIOUS
    <2>1. CASE Control
      BY <2>1, ControlTyped
    <2>2. CASE Answers
      BY <2>2, AnswersStay DEF LocationOK
    <2>3. CASE (\E m \in Months : Reload({m})) \/ Reload({})
      <3>1. \A m \in Months : {m} \in SUBSET Months
        OBVIOUS
      <3> QED BY <2>3, <3>1, ReloadTyped
    <2>4. CASE UNCHANGED vars
      BY <2>4 DEF vars, LocationOK
    <2> QED BY <2>1, <2>2, <2>3, <2>4 DEF Next
  <1> QED BY <1>1, <1>2, PTL DEF Spec

----------------------------------------------------------------------------
(* The figures *)

\* The request in force is for the filters in force, and without one the figures
\* are theirs; without months nothing is asked or shown.
HookInv ==
  /\ asked \in {None, MetricsKey(filters)}
  /\ asked = None /\ metrics # None => metrics = MetricsKey(filters)
  /\ months = {} => asked = None /\ metrics = None

\* A scope has days exactly if some month has records.
LEMMA ScopeHasDays ==
  ASSUME Located
  PROVE  RangeDates(filters.month, filters.range) = {} <=> months = {}
  <1>1. filters.month \in months \/ (months = {} /\ filters.month = None)
    BY BoardFields
  <1>2. filters.range \in Ranges
    BY BoardFields DEF FilterStates
  <1>3. CASE months = {}
    BY <1>1, <1>3, NoMonthNoDates
  <1>4. CASE months # {}
    BY <1>1, <1>2, <1>4, RangeNotEmpty DEF Located
  <1> QED BY <1>3, <1>4

LEMMA GoHook ==
  ASSUME LocationOK, LocationOK', HookInv, NEW p, NEW u, Go(p, u)
  PROVE  HookInv'
  <1> DEFINE f == ParseFilters(u, months)
  <1>1. filters' = f /\ months' = months
    BY DEF Go, filters
  <1>2. Refetch(f)
    BY DEF Go
  <1>3. Located /\ Located'
    BY DEF LocationOK, Located
  <1>4. RangeDates(f.month, f.range) = {} <=> months = {}
    <2>1. Valid(f, months)
      BY <1>3, ParseValid DEF Located, Go
    <2>2. f.month \in months \/ (months = {} /\ f.month = None)
      BY <2>1 DEF Valid
    <2>3. f.range \in Ranges
      BY <2>1 DEF Valid, FilterStates
    <2> HIDE DEF f
    <2> QED BY <2>2, <2>3, <1>3, NoMonthNoDates, RangeNotEmpty DEF Located
  <1> HIDE DEF f
  <1>5. CASE MetricsKey(f) = MetricsKey(filters)
    BY <1>1, <1>2, <1>5 DEF HookInv, Refetch, hook
  <1>6. CASE MetricsKey(f) # MetricsKey(filters)
    <2>1. /\ asked' = IF months = {} THEN None ELSE MetricsKey(f)
          /\ metrics' = metrics
      BY <1>2, <1>4, <1>6 DEF Refetch
    <2>2. MetricsKey(f) # None
      <3>1. Valid(f, months)
        BY <1>3, ParseValid DEF Located, Go, f
      <3> QED BY <3>1, <1>3, KeyNotNone DEF Located
    <2> QED BY <1>1, <2>1, <2>2 DEF HookInv
  <1> QED BY <1>5, <1>6

LEMMA ControlHook ==
  ASSUME LocationOK, HookInv, Control
  PROVE  HookInv'
  <1>1. LocationOK'
    BY ControlTyped
  <1>2. CASE Moves
    BY <1>1, <1>2, GoHook DEF Moves
  <1>3. CASE Stays
    BY <1>3 DEF Stays, HookInv, hook, filters
  <1> QED BY <1>2, <1>3, ControlMoves, TypeLocated

LEMMA AnswersHook ==
  ASSUME LocationOK, HookInv, Answers
  PROVE  HookInv'
  <1>1. filters' = filters /\ months' = months
    BY AnswersStay DEF filters
  <1>2. MetricsKey(filters) # None
    BY TypeLocated, FiltersValid, KeyNotNone DEF Located
  <1> DEFINE key == MetricsKey(filters)
  <1>3. MetricsKey(filters') = key
    BY <1>1
  <1>4. ASSUME NEW k \in {asked, late}, Answer(k) PROVE HookInv'
    <2>1. /\ asked' = IF k = asked THEN None ELSE asked
          /\ metrics' = IF k = asked THEN k ELSE metrics
          /\ k # None
      BY <1>4 DEF Answer, Accepted
    <2> HIDE DEF key
    <2>2. asked \in {None, key} /\ (asked = None /\ metrics # None => metrics = key)
      BY DEF HookInv, key
    <2>3. asked' \in {None, key} /\ (asked' = None /\ metrics' # None => metrics' = key)
      BY <2>1, <2>2
    <2>4. months = {} => asked' = None /\ metrics' = None
      BY <2>1 DEF HookInv
    <2> QED BY <1>1, <1>3, <2>3, <2>4 DEF HookInv
  <1>5. CASE AnswerFails
    BY <1>1, <1>3, <1>5 DEF AnswerFails, HookInv
  <1>6. CASE RosterAnswer \/ RosterFails \/ RosterLate \/ ExportFails
    <2>1. UNCHANGED hook
      BY <1>6 DEF RosterAnswer, RosterFails, RosterLate, ExportFails
    <2> QED BY <1>1, <1>3, <2>1 DEF hook, HookInv
  <1> QED BY <1>4, <1>5, <1>6 DEF Answers

\* The figures start afresh, for the filters of the location.
LEMMA AskedAfresh ==
  ASSUME Located, metrics = None,
         asked = IF RangeDates(filters.month, filters.range) = {} THEN None ELSE MetricsKey(filters)
  PROVE  HookInv
  <1>1. MetricsKey(filters) # None
    BY FiltersValid, KeyNotNone DEF Located
  <1> QED BY <1>1, ScopeHasDays DEF HookInv

LEMMA ReloadHook ==
  ASSUME LocationOK, NEW more \in SUBSET Months, Reload(more)
  PROVE  HookInv'
  <1> DEFINE f == ParseFilters(url, months \cup more)
  <1>1. LocationOK'
    BY ReloadTyped
  <1>2. filters' = f /\ metrics' = None
        /\ asked' = IF RangeDates(f.month, f.range) = {} THEN None ELSE MetricsKey(f)
    BY DEF Reload, filters
  <1>3. Valid(f, months')
    BY ParseValid DEF LocationOK, Reload
  <1>4. months' \in SUBSET Months
    BY <1>1 DEF LocationOK
  <1>5. MetricsKey(f) # None
    BY <1>3, <1>4, KeyNotNone
  <1> HIDE DEF f
  <1>6. months' = {} => RangeDates(f.month, f.range) = {}
    BY <1>3, NoMonthNoDates DEF Valid
  <1> QED BY <1>2, <1>5, <1>6 DEF HookInv

LEMMA HookInit ==
  ASSUME Init
  PROVE  HookInv
  BY TypeInit, TypeLocated, AskedAfresh DEF Init

\* The figures on the page never stay under filters they are not of
\* (useDashboardMetrics.js): once no request is in flight they are those of the
\* filters in force, or there are none.
THEOREM FiguresAreOfScope == Spec => []FiguresOfScope
  <1>1. Init => HookInv
    BY HookInit
  <1>2. LocationOK /\ HookInv /\ [Next]_vars => HookInv'
    <2> SUFFICES ASSUME LocationOK, HookInv, [Next]_vars PROVE HookInv'
      OBVIOUS
    <2>1. CASE Control
      BY <2>1, ControlHook
    <2>2. CASE Answers
      BY <2>2, AnswersHook
    <2>3. CASE (\E m \in Months : Reload({m})) \/ Reload({})
      <3>1. \A m \in Months : {m} \in SUBSET Months
        OBVIOUS
      <3> QED BY <2>3, <3>1, ReloadHook
    <2>4. CASE UNCHANGED vars
      BY <2>4 DEF vars, HookInv, filters
    <2> QED BY <2>1, <2>2, <2>3, <2>4 DEF Next
  <1>3. HookInv => FiguresOfScope
    BY DEF HookInv, FiguresOfScope
  <1> QED BY <1>1, <1>2, <1>3, LocationCorrect, PTL DEF Spec

----------------------------------------------------------------------------
(* The roster *)

\* A roster that asks, has failed, or shows what it names.
RosterFine(r) ==
  /\ r \in Rosters
  /\ r.open /\ r.date # None /\ ~r.loading /\ ~r.error => r.shown = RosterKey(r)

LEMMA PickFine ==
  ASSUME NEW r, RosterFine(r), NEW d \in Dates \cup {None}, NEW T \in SUBSET Teams,
         NEW s \in RosterStatuses
  PROVE  RosterFine(Pick(r, d, T, s))
  <1> DEFINE gone == IF r.loading /\ r.date # None THEN RosterKey(r) ELSE r.late
             named == [r EXCEPT !.date = d, !.teams = T, !.status = s]
  <1>1. gone \in {None} \cup RosterKeys
    BY DEF RosterFine, Rosters, RosterKey, RosterKeys
  <1>2. Pick(r, d, T, s)
        = IF named = r THEN r
          ELSE IF d = None THEN [named EXCEPT !.late = gone]
          ELSE [named EXCEPT !.late = gone, !.loading = TRUE, !.error = FALSE]
    BY DEF Pick
  <1>3. named \in Rosters
    BY RosterNames DEF RosterFine
  <1>4. named.date = d
    BY DEF RosterFine, Rosters
  <1> HIDE DEF gone, named
  <1>5. CASE named = r
    BY <1>2, <1>5
  <1>6. CASE named # r /\ d = None
    <2> DEFINE q == [named EXCEPT !.late = gone]
    <2>1. Pick(r, d, T, s) = q
      BY <1>2, <1>6
    <2>2. q \in Rosters
      BY <1>1, <1>3, RosterCancels
    <2>3. q.date = None
      BY <1>3, <1>4, <1>6 DEF Rosters
    <2> HIDE DEF q
    <2> QED BY <2>1, <2>2, <2>3 DEF RosterFine
  <1>7. CASE named # r /\ d # None
    <2> DEFINE yes == TRUE
               no == FALSE
               q == [named EXCEPT !.late = gone, !.loading = yes, !.error = no]
    <2>1. Pick(r, d, T, s) = q
      BY <1>2, <1>7
    <2>2. yes \in BOOLEAN /\ no \in BOOLEAN
      OBVIOUS
    <2> HIDE DEF yes, no
    <2>3. q \in Rosters
      BY <1>1, <1>3, <2>2, RosterAsks
    <2>4. q.loading = yes
      BY <1>3 DEF Rosters
    <2> HIDE DEF q
    <2> QED BY <2>1, <2>3, <2>4 DEF RosterFine, yes
  <1> QED BY <1>5, <1>6, <1>7

\* The default date is a day of the figures or of the scope.
LEMMA DefaultDateType ==
  ASSUME NEW f \in FilterStates, NEW figures
  PROVE  DefaultDate(f, figures) \in Dates \cup {None}
  <1> DEFINE have == IF figures = None THEN {} ELSE DaysOf(figures) \cap WithData
             days == IF have # {} THEN have ELSE ScopeDates(f)
  <1>1. have \in SUBSET Dates
    OBVIOUS
  <1>2. ScopeDates(f) \in SUBSET Dates
    BY DEF ScopeDates, RangeDates, FilterStates
  <1>3. days \in SUBSET Dates
    BY <1>1, <1>2
  <1>4. DefaultDate(f, figures) = IF days = {} THEN None ELSE LatestOf(days)
    BY DEF DefaultDate
  <1> HIDE DEF days
  <1>5. days # {} => LatestOf(days) \in days
    BY <1>3, DatesAssumption DEF LatestOf
  <1> QED BY <1>3, <1>4, <1>5

LEMMA ClosedFine == RosterFine(Closed)
  <1>1. Closed.open = FALSE
    BY DEF Closed
  <1> QED BY <1>1, RosterClosed DEF RosterFine

LEMMA FollowFine ==
  ASSUME NEW r, RosterFine(r), NEW p, NEW f \in FilterStates, NEW figures
  PROVE  RosterFine(Follow(r, p, f, figures))
  <1> DEFINE date == DefaultDate(f, figures)
             teams == IF f.teams = None THEN {} ELSE f.teams
  <1>1. date \in Dates \cup {None} /\ teams \in SUBSET Teams
    <2>1. f.teams \in {None} \cup SUBSET Teams
      BY DEF FilterStates
    <2> QED BY <2>1, DefaultDateType
  <1> HIDE DEF date, teams
  <1>2. CASE p # "employees" \/ f.view # "roster"
    BY <1>2, ClosedFine DEF Follow
  <1>3. CASE ~(p # "employees" \/ f.view # "roster") /\ ~r.open
    <2> DEFINE yes == TRUE
               opened == [Closed EXCEPT !.open = yes, !.start = date, !.teams = teams]
    <2>1. Follow(r, p, f, figures) = Pick(opened, date, opened.teams, opened.status)
      BY <1>3 DEF Follow, date, teams
    <2>2. yes \in BOOLEAN
      OBVIOUS
    <2> HIDE DEF yes
    <2>3. opened \in Rosters
      BY <1>1, <2>2, RosterClosed, RosterOpens
    <2>4. opened.date = None
      <3>1. Closed.date = None
        BY DEF Closed
      <3> QED BY <3>1, RosterClosed DEF Rosters
    <2> HIDE DEF opened
    <2>5. RosterFine(opened)
      BY <2>3, <2>4 DEF RosterFine
    <2>6. opened.teams \in SUBSET Teams /\ opened.status \in RosterStatuses
      BY <2>3 DEF Rosters
    <2>7. RosterFine(Pick(opened, date, opened.teams, opened.status))
      BY <1>1, <2>5, <2>6, PickFine, Zenon
    <2> QED BY <2>1, <2>7, Zenon
  <1>4. CASE ~(p # "employees" \/ f.view # "roster") /\ r.open /\ date # r.start
    <2> DEFINE moved == [r EXCEPT !.start = date]
    <2>1. Follow(r, p, f, figures) = Pick(moved, date, r.teams, r.status)
      BY <1>4 DEF Follow, date
    <2>2. moved \in Rosters
      BY <1>1, RosterMoves DEF RosterFine
    <2>3. /\ moved.open = r.open /\ moved.date = r.date /\ moved.teams = r.teams
          /\ moved.status = r.status
          /\ moved.loading = r.loading /\ moved.error = r.error /\ moved.shown = r.shown
      BY DEF RosterFine, Rosters
    <2> HIDE DEF moved
    <2>4. RosterFine(moved)
      BY <2>2, <2>3 DEF RosterFine, RosterKey
    <2>5. r.teams \in SUBSET Teams /\ r.status \in RosterStatuses
      BY DEF RosterFine, Rosters
    <2> QED BY <1>1, <2>1, <2>4, <2>5, PickFine
  <1>5. CASE ~(p # "employees" \/ f.view # "roster") /\ r.open /\ date = r.start
    BY <1>5 DEF Follow, date
  <1> QED BY <1>2, <1>3, <1>4, <1>5

LEMMA AnswersFine ==
  ASSUME LocationOK, RosterFine(roster), Answers
  PROVE  RosterFine(roster')
  <1>1. filters \in FilterStates
    BY TypeLocated, BoardFields
  <1>2. ASSUME NEW k, Answer(k) PROVE RosterFine(roster')
    BY <1>1, <1>2, FollowFine DEF Answer
  <1>3. CASE AnswerFails
    BY <1>1, <1>3, FollowFine DEF AnswerFails
  <1>4. roster \in Rosters /\ RosterKey(roster) \in RosterKeys
    BY DEF RosterFine, Rosters, RosterKey, RosterKeys
  <1>5. CASE RosterAnswer
    <2> DEFINE no == FALSE
    <2>1. roster' = [roster EXCEPT !.shown = RosterKey(roster), !.loading = no]
      BY <1>5 DEF RosterAnswer
    <2>2. no \in BOOLEAN
      OBVIOUS
    <2> HIDE DEF no
    <2>3. roster' \in Rosters
      BY <1>4, <2>1, <2>2, RosterEnds
    <2>4. /\ roster'.shown = RosterKey(roster) /\ roster'.date = roster.date
          /\ roster'.teams = roster.teams /\ roster'.status = roster.status
      BY <1>4, <2>1 DEF Rosters
    <2> QED BY <2>3, <2>4 DEF RosterFine, RosterKey
  <1>6. CASE RosterFails
    <2> DEFINE yes == TRUE
               no == FALSE
    <2>1. roster' = [roster EXCEPT !.error = yes, !.loading = no]
      BY <1>6 DEF RosterFails
    <2>2. yes \in BOOLEAN /\ no \in BOOLEAN
      OBVIOUS
    <2> HIDE DEF yes, no
    <2>3. roster' \in Rosters
      BY <1>4, <2>1, <2>2, RosterErrs
    <2>4. roster'.error = yes
      BY <1>4, <2>1 DEF Rosters
    <2> QED BY <2>3, <2>4 DEF RosterFine, yes
  <1>7. CASE RosterLate
    <2>1. roster' = [roster EXCEPT !.late = None]
      BY <1>7 DEF RosterLate, LateRows
    <2>2. roster' \in Rosters
      BY <1>4, <2>1, RosterCancels
    <2>3. /\ roster'.open = roster.open /\ roster'.date = roster.date /\ roster'.teams = roster.teams
          /\ roster'.status = roster.status
          /\ roster'.loading = roster.loading /\ roster'.error = roster.error
          /\ roster'.shown = roster.shown
      BY <1>4, <2>1 DEF Rosters
    <2> QED BY <2>2, <2>3 DEF RosterFine, RosterKey
  <1>8. CASE ExportFails
    <2> DEFINE yes == TRUE
    <2>1. roster' = [roster EXCEPT !.error = yes]
      BY <1>8 DEF ExportFails
    <2>2. yes \in BOOLEAN
      OBVIOUS
    <2> HIDE DEF yes
    <2>3. roster' \in Rosters
      BY <1>4, <2>1, <2>2, RosterErr
    <2>4. roster'.error = yes
      BY <1>4, <2>1 DEF Rosters
    <2> QED BY <2>3, <2>4 DEF RosterFine, yes
  <1> QED BY <1>2, <1>3, <1>5, <1>6, <1>7, <1>8 DEF Answers

LEMMA ControlFine ==
  ASSUME LocationOK, RosterFine(roster), Control
  PROVE  RosterFine(roster')
  <1>1. ASSUME NEW p \in Pages, NEW u \in Params, Go(p, u) PROVE RosterFine(roster')
    <2>1. ParseFilters(u, months) \in FilterStates
      BY ParseValid DEF LocationOK, Valid
    <2> QED BY <1>1, <2>1, FollowFine DEF Go
  <1>2. CASE Moves
    BY <1>1, <1>2 DEF Moves
  <1>3. /\ roster.date \in Dates \cup {None} /\ roster.teams \in SUBSET Teams
        /\ roster.status \in RosterStatuses
    BY DEF RosterFine, Rosters
  <1>4. ASSUME NEW d \in Dates \cup {None}, PickRosterDate(d) PROVE RosterFine(roster')
    BY <1>3, <1>4, PickFine DEF PickRosterDate, PickRoster
  <1>5. ASSUME NEW T \in SUBSET Teams, PickRosterTeams(T) PROVE RosterFine(roster')
    BY <1>3, <1>5, PickFine DEF PickRosterTeams, PickRoster
  <1>6. ASSUME NEW g \in Groups, SaveGroup(g) \/ DeleteGroup(g) PROVE RosterFine(roster')
    BY <1>6 DEF SaveGroup, DeleteGroup
  <1>7. ASSUME NEW s \in RosterStatuses, PickRosterStatus(s) PROVE RosterFine(roster')
    BY <1>3, <1>7, PickFine DEF PickRosterStatus, PickRoster
  <1> QED BY <1>2, <1>4, <1>5, <1>6, <1>7, ControlKinds, TypeLocated

LEMMA RosterStaysFine == Spec => []RosterFine(roster)
  <1>1. Init => RosterFine(roster)
    <2> SUFFICES ASSUME Init PROVE RosterFine(roster)
      OBVIOUS
    <2>1. filters \in FilterStates
      BY TypeInit, TypeLocated, BoardFields
    <2> QED BY <2>1, ClosedFine, FollowFine DEF Init
  <1>2. LocationOK /\ RosterFine(roster) /\ [Next]_vars => RosterFine(roster)'
    <2> SUFFICES ASSUME LocationOK, RosterFine(roster), [Next]_vars PROVE RosterFine(roster')
      OBVIOUS
    <2>1. CASE Control
      BY <2>1, ControlFine
    <2>2. CASE Answers
      BY <2>2, AnswersFine
    <2>3. ASSUME NEW more \in SUBSET Months, Reload(more) PROVE RosterFine(roster')
      <3>1. ParseFilters(url, months \cup more) \in FilterStates
        BY ParseValid DEF LocationOK, Valid
      <3> QED BY <2>3, <3>1, ClosedFine, FollowFine DEF Reload
    <2>4. \A m \in Months : {m} \in SUBSET Months
      OBVIOUS
    <2>5. CASE UNCHANGED vars
      BY <2>5 DEF vars
    <2> QED BY <2>1, <2>2, <2>3, <2>4, <2>5 DEF Next
  <1> QED BY <1>1, <1>2, LocationCorrect, PTL DEF Spec

\* The roster of Employees.jsx shows the rows of the date, the teams and the
\* status it names once it is neither loading nor reporting an error, however
\* late the answers to superseded requests come.
THEOREM RosterAnswersRequest == Spec => []RosterOfRequest
  <1>1. RosterFine(roster) => RosterOfRequest
    BY DEF RosterFine, RosterOfRequest
  <1> QED BY <1>1, RosterStaysFine, PTL

----------------------------------------------------------------------------
(* Types *)

\* What a new location asks the hook for is a scope, or nothing.
LEMMA GoTyped ==
  ASSUME LocationOK, HookOK, NEW p, NEW u \in Params, Go(p, u)
  PROVE  HookOK'
  <1> DEFINE f == ParseFilters(u, months)
  <1>1. MetricsKey(f) \in MetricsKeys
    BY ParseValid, KeyTyped DEF LocationOK
  <1>2. /\ metrics' = metrics
        /\ asked' \in {asked, None, MetricsKey(f)}
        /\ late' \in {asked, late}
    BY DEF Go, Refetch, hook
  <1> HIDE DEF f
  <1> QED BY <1>1, <1>2 DEF HookOK

LEMMA AnswersTyped ==
  ASSUME HookOK, Answers
  PROVE  HookOK'
  <1>1. ASSUME NEW k \in {asked, late}, Answer(k) PROVE HookOK'
    BY <1>1 DEF Answer, HookOK
  <1>2. CASE AnswerFails
    BY <1>2 DEF AnswerFails, HookOK
  <1>3. CASE RosterAnswer \/ RosterFails \/ RosterLate \/ ExportFails
    BY <1>3 DEF RosterAnswer, RosterFails, RosterLate, ExportFails, hook, HookOK
  <1> QED BY <1>1, <1>2, <1>3 DEF Answers

LEMMA AfreshTyped ==
  ASSUME NEW more \in SUBSET Months, LocationOK, Reload(more)
  PROVE  HookOK'
  <1> DEFINE f == ParseFilters(url, months \cup more)
  <1>1. MetricsKey(f) \in MetricsKeys
    BY ParseValid, KeyTyped DEF LocationOK
  <1>2. metrics' = None /\ late' = None /\ asked' \in {None, MetricsKey(f)}
    BY DEF Reload
  <1> HIDE DEF f
  <1> QED BY <1>1, <1>2 DEF HookOK

LEMMA HookCorrect == Spec => []HookOK
  <1>1. Init => HookOK
    <2> SUFFICES ASSUME Init PROVE HookOK
      OBVIOUS
    <2>1. Located
      BY TypeInit, TypeLocated
    <2>2. MetricsKey(filters) \in MetricsKeys
      BY <2>1, FiltersValid, KeyTyped DEF Located
    <2>3. metrics = None /\ late = None /\ asked \in {None, MetricsKey(filters)}
      BY DEF Init
    <2> QED BY <2>2, <2>3 DEF HookOK
  <1>2. LocationOK /\ HookOK /\ [Next]_vars => HookOK'
    <2> SUFFICES ASSUME LocationOK, HookOK, [Next]_vars PROVE HookOK'
      OBVIOUS
    <2>1. CASE Control
      <3>1. CASE Moves
        BY <3>1, GoTyped DEF Moves
      <3>2. CASE Stays
        BY <3>2 DEF Stays, hook, HookOK
      <3> QED BY <2>1, <3>1, <3>2, ControlMoves, TypeLocated
    <2>2. CASE Answers
      BY <2>2, AnswersTyped
    <2>3. CASE (\E m \in Months : Reload({m})) \/ Reload({})
      <3>1. \A m \in Months : {m} \in SUBSET Months
        OBVIOUS
      <3> QED BY <2>3, <3>1, AfreshTyped
    <2>4. CASE UNCHANGED vars
      BY <2>4 DEF vars, HookOK
    <2> QED BY <2>1, <2>2, <2>3, <2>4 DEF Next
  <1> QED BY <1>1, <1>2, LocationCorrect, PTL DEF Spec

\* The location is one the router knows and the query string one the controls
\* write, the saved groups hold teams (Dashboard.jsx, FilterBar.jsx); what the
\* hook asked for and shows are scopes (useDashboardMetrics.js); the roster
\* names, asks for and shows days, teams and statuses there are (Employees.jsx).
THEOREM TypeCorrect == Spec => []TypeOK
  <1>1. LocationOK /\ HookOK /\ RosterFine(roster) => TypeOK
    BY DEF RosterFine, TypeOK
  <1> QED BY <1>1, LocationCorrect, HookCorrect, RosterStaysFine, PTL

----------------------------------------------------------------------------
(* The filters keep the promises of FilterBoard *)

LEMMA SameStates == Board!FilterStates = FilterStates
  BY SameCalendar DEF Board!FilterStates, FilterStates

\* Whatever the query string leaves out and the data drops, each control of the
\* dashboard (FilterBar.jsx, Teams.jsx, Employees.jsx, Dashboard.jsx) changes the
\* filters as FilterBoard says, and nothing else changes them.
THEOREM ImplementsFilterBoard == Spec => ImplementsBoard
  <1>1. Init => Board!Init
    <2> SUFFICES ASSUME Init PROVE Board!Init
      OBVIOUS
    <2>1. Located
      BY TypeInit, TypeLocated
    <2>2. filters \in FilterStates /\ (filters.month \in months \/ (months = {} /\ filters.month = None))
      BY <2>1, BoardFields
    <2> QED BY <2>1, <2>2, SameStates DEF Board!Init, Located
  <1>2. LocationOK /\ [Next]_vars => [Board!Next]_<<filters, months>>
    <2> SUFFICES ASSUME LocationOK, [Next]_vars PROVE BoardStep
      BY DEF BoardStep
    <2>1. CASE Control
      <3>1. CASE Moves
        BY <3>1 DEF Moves
      <3>2. CASE Stays
        BY <3>2 DEF Stays, BoardStep, filters
      <3> QED BY <2>1, <3>1, <3>2, ControlMoves, TypeLocated
    <2>2. CASE Answers
      BY <2>2, AnswersStay DEF BoardStep, filters
    <2>3. ASSUME NEW m \in Months, Reload({m}) PROVE BoardStep
      BY <2>3, ReloadMoves, TypeLocated
    <2>4. CASE Reload({})
      BY <2>4 DEF Reload, BoardStep, filters
    <2>5. CASE UNCHANGED vars
      BY <2>5 DEF vars, BoardStep, filters
    <2> QED BY <2>1, <2>2, <2>3, <2>4, <2>5 DEF Next
  <1> QED BY <1>1, <1>2, LocationCorrect, PTL DEF Spec, ImplementsBoard, Board!Spec
=============================================================================
