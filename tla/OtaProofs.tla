----------------------------- MODULE OtaProofs ------------------------------
(***************************************************************************)
(* Theorems about Ota for every flash layout whose slots start on a sector *)
(* boundary and any number of images: under any failures as long as at     *)
(* most one task updates and none confirms, and without failures when one  *)
(* updates, one confirms and the two take turns.                           *)
(***************************************************************************)
EXTENDS Ota, TLAPS

-----------------------------------------------------------------------------
(* Arithmetic of sectors.                                                  *)

\* Division by the sector size leaves a remainder below it.
LEMMA DivFacts ==
  ASSUME NEW S \in Nat \ {0}, NEW a \in Nat
  PROVE  /\ a \div S \in Nat
         /\ a % S \in 0 .. S - 1
         /\ a = S * (a \div S) + (a % S)
OBVIOUS

\* A product is strictly below another only if a factor is.
LEMMA FactorLess ==
  ASSUME NEW S \in Nat \ {0}, NEW p \in Nat, NEW q \in Nat, S * p < S * q
  PROVE  p < q
OBVIOUS

\* A multiple of the sector size stays one when another is added.
LEMMA MultipleSum ==
  ASSUME NEW S \in Nat \ {0}, NEW a \in Nat, NEW b \in Nat, a % S = 0, b % S = 0
  PROVE  (a + b) % S = 0
<1>. DEFINE p == a \div S
            q == b \div S
            c == a + b
            r == c \div S
<1>1. p \in Nat /\ a = S * p
  BY DivFacts
<1>2. q \in Nat /\ b = S * q
  BY DivFacts
<1>3. c = S * (p + q) /\ c \in Nat
  BY <1>1, <1>2
<1>. HIDE DEF c
<1>4. r \in Nat /\ c % S \in 0 .. S - 1 /\ c = S * r + (c % S)
  BY <1>3, DivFacts
<1>. HIDE DEF p, q, r
<1>5. S * ((p + q) - r) = c % S
  BY <1>1, <1>2, <1>3, <1>4
<1>6. (p + q) - r = 0 \/ (p + q) - r >= 1 \/ (p + q) - r <= -1
  BY <1>1, <1>2, <1>4
<1>7. c % S = 0
  BY <1>1, <1>2, <1>3, <1>4, <1>5, <1>6
<1>. QED BY <1>7 DEF c

\* Units on the two sides of a sector boundary are in different sectors.
LEMMA SectorBoundary ==
  ASSUME NEW x \in Nat, x % SectorSize = 0,
         NEW a \in Nat, a < x, NEW b \in Nat, x <= b
  PROVE  Sector(a) < Sector(b)
<1>. DEFINE S == SectorSize
            p == a \div S
            q == x \div S
            r == b \div S
<1>0. S \in Nat \ {0}
  BY OtaAssumption
<1>1. p \in Nat /\ q \in Nat /\ r \in Nat
  BY <1>0, DivFacts
<1>2. S * p <= a /\ x = S * q /\ b < S * (r + 1)
  <2>1. a = S * p + (a % S) /\ a % S \in 0 .. S - 1
    BY <1>0, DivFacts
  <2>2. x = S * q + (x % S)
    BY <1>0, DivFacts
  <2>3. b = S * r + (b % S) /\ b % S \in 0 .. S - 1
    BY <1>0, DivFacts
  <2>4. S * p \in Nat /\ S * q \in Nat /\ S * r \in Nat /\ S * (r + 1) = S * r + S
    BY <1>0, <1>1
  <2>. QED BY <1>0, <1>1, <2>1, <2>2, <2>3, <2>4
<1>3. p < q
  <2>1. S * p < S * q
    BY <1>0, <1>1, <1>2
  <2>. QED BY <1>0, <1>1, <2>1, FactorLess
<1>4. q < r + 1
  <2>1. S * q < S * (r + 1)
    BY <1>0, <1>1, <1>2
  <2>. QED BY <1>0, <1>1, <2>1, FactorLess
<1>. QED
  BY <1>1, <1>3, <1>4 DEF Sector

-----------------------------------------------------------------------------
(* Types.                                                                  *)

\* The live copy, if there is one, is a copy of the table, and it is valid.
LEMMA ActiveIdType ==
  ASSUME NEW zero \in Table, NEW one \in Table
  PROVE  /\ ActiveId(zero, one) \in TableIds \cup {None}
         /\ ActiveId(zero, one) = Zero => zero.valid
         /\ ActiveId(zero, one) = One => one.valid
         /\ ActiveId(zero, one) = None <=> ~zero.valid /\ ~one.valid
<1>1. zero.age \in Nat /\ one.age \in Nat /\ zero.valid \in BOOLEAN /\ one.valid \in BOOLEAN
  BY DEF Table
<1>2. Zero # One /\ None # Zero /\ None # One
  BY OtaAssumption DEF TableIds
<1>3. CASE zero.valid /\ (one.valid => zero.age >= one.age)
  <2>1. ActiveId(zero, one) = Zero
    BY <1>1, <1>3 DEF ActiveId
  <2>. QED BY <1>2, <1>3, <2>1 DEF TableIds
<1>4. CASE one.valid /\ (zero.valid => one.age > zero.age)
  <2>1. ActiveId(zero, one) = One
    BY <1>1, <1>4 DEF ActiveId
  <2>. QED BY <1>2, <1>4, <2>1 DEF TableIds
<1>5. CASE ~zero.valid /\ ~one.valid
  <2>1. ActiveId(zero, one) = None
    BY <1>1, <1>5 DEF ActiveId
  <2>. QED BY <1>2, <1>5, <2>1 DEF TableIds
<1>. QED BY <1>1, <1>3, <1>4, <1>5

\* The tables the code computes are tables, and a torn one is too.
LEMMA TableType ==
  /\ TornTable \in Table
  /\ \A t \in Table, n \in Nat : WithSlotSwapped(t, n) \in Table
  /\ \A t \in Table : WithBootConfirmed(t) \in Table
<1>1. TornTable \in Table
  BY DEF TornTable, Table, Slots
<1>2. ASSUME NEW t \in Table, NEW n \in Nat PROVE WithSlotSwapped(t, n) \in Table
  <2>1. 1 - t.active \in Slots /\ t.age + 1 \in Nat
    BY DEF Table, Slots
  <2>. QED BY <2>1 DEF Table, WithSlotSwapped
<1>3. ASSUME NEW t \in Table PROVE WithBootConfirmed(t) \in Table
  <2>1. t.age + 1 \in Nat
    BY DEF Table
  <2>. QED BY <2>1 DEF Table, WithBootConfirmed
<1>. QED BY <1>1, <1>2, <1>3

\* NOR operations leave units of flash.
LEMMA FlashType ==
  ASSUME cell \in [Addr -> Images \cup {Blank, Junk}], NEW a \in Nat, NEW n \in Int
  PROVE  /\ EraseFlash(a, n) \in [Addr -> Images \cup {Blank, Junk}]
         /\ \A cut : SpoilFlash(a, n, cut) \in [Addr -> Images \cup {Blank, Junk}]
         /\ \A img \in Images : ProgramFlash(a, n, img) \in [Addr -> Images \cup {Blank, Junk}]
BY DEF EraseFlash, SpoilFlash, ProgramFlash, Programmed

LEMMA LayoutFacts ==
  /\ \A s \in Slots : Start[s] \in Nat /\ MaxLen[s] \in Nat /\ Start[s] + MaxLen[s] <= FlashLen
  /\ SectorSize \in Nat \ {0} /\ FlashLen \in Nat
  /\ Zero \in TableIds /\ One \in TableIds /\ Zero # One /\ None \notin TableIds
  /\ \A t \in Table : Spare(t) \in Slots /\ Spare(t) # t.active /\ t.active \in Slots
  /\ \A id \in TableIds : Other(id) \in TableIds /\ Other(id) # id
BY OtaAssumption DEF Slots, TableIds, Table, Spare, Other

\* The type invariant holds of every instance of the module: concurrent
\* updaters, confirm_boot and unaligned slots included.
THEOREM TypeCorrect == Spec => []TypeOK
<1>1. Init => TypeOK
  <2>. SUFFICES ASSUME Init PROVE TypeOK
    OBVIOUS
  <2>1. PICK len \in 1 .. MaxLen[0] :
          /\ copy = [id \in TableIds |->
                       IF id = Zero
                       THEN [valid |-> TRUE, age |-> 0, active |-> 0, len |-> len, pending |-> FALSE]
                       ELSE TornTable]
          /\ cell = [x \in Addr |-> IF x \in SlotUnits(0, len) THEN Factory ELSE Junk]
    BY DEF Init
  <2>2. copy \in [TableIds -> Table]
    BY <2>1, TableType, LayoutFacts DEF Table, Slots
  <2>3. cell \in [Addr -> Images \cup {Blank, Junk}]
    BY <2>1, OtaAssumption
  <2>4. NoSession \in Session /\ NoJob \in [id : TableIds, table : Table]
    BY OtaAssumption, TableType DEF NoSession, NoJob, Session, TableIds
  <2>. QED BY <2>2, <2>3, <2>4, TableType DEF Init, TypeOK, Slots
<1>2. TypeOK /\ [Next]_vars => TypeOK'
  <2>. SUFFICES ASSUME TypeOK, [Next]_vars PROVE TypeOK'
    OBVIOUS
  <2>a. /\ copy[Zero] \in Table /\ copy[One] \in Table
        /\ NoSession \in Session /\ NoJob \in [id : TableIds, table : Table]
    BY OtaAssumption, TableType DEF NoSession, NoJob, Session, TypeOK, TableIds
  <2>1. ASSUME NEW u \in Updaters, BeginReadZero(u) PROVE TypeOK'
    BY <2>1, <2>a DEF BeginReadZero, TypeOK, Goto, Tasks
  <2>2. ASSUME NEW u \in Updaters, BeginReadOne(u) PROVE TypeOK'
    <3>. DEFINE id    == ActiveId(seen[u], copy[One])
                table == IF id = Zero THEN seen[u] ELSE copy[One]
    <3>1. u \in Tasks /\ seen[u] \in Table
      BY DEF Tasks, TypeOK
    <3>2. id \in TableIds \cup {None} /\ table \in Table
      BY <2>a, <3>1, ActiveIdType
    <3>3. ota' \in [Updaters -> Session]
      <4>1. CASE ota' = ota
        BY <4>1 DEF TypeOK
      <4>2. CASE id # None /\ \E img \in Images :
                   ota' = [ota EXCEPT ![u] = [id |-> id, table |-> table, img |-> img,
                                              erased |-> 0, written |-> 0]]
        BY <3>2, <4>2 DEF Session, TypeOK
      <4>. QED BY <2>2, <4>1, <4>2 DEF BeginReadOne
    <3>4. pc' \in [Tasks -> {"idle", "begin", "open", "write", "confirm", "erase_table", "write_table"}]
      BY <2>2, <3>1 DEF BeginReadOne, TypeOK, Goto
    <3>5. seen' \in [Tasks -> Table]
      BY <2>2, TableType DEF BeginReadOne, TypeOK
    <3>. QED BY <2>2, <3>3, <3>4, <3>5 DEF BeginReadOne, TypeOK
  <2>3. ASSUME NEW u \in Updaters, Abandon(u) PROVE TypeOK'
    BY <2>3, <2>a DEF Abandon, TypeOK, Goto, Tasks
  <2>4. ASSUME NEW u \in Updaters, NEW n \in 1 .. FlashLen, WriteErase(u, n) PROVE TypeOK'
    <3>. DEFINE end  == ota[u].written + n
                from == Target(u) + ota[u].erased
                more == Wanted(u, end) - ota[u].erased
    <3>1. /\ u \in Tasks /\ ota[u] \in Session /\ end \in Nat
          /\ Target(u) \in Nat /\ Capacity(u) \in Nat /\ FlashLen \in Nat
      <4>1. u \in Tasks /\ ota[u] \in Session
        BY DEF Tasks, TypeOK
      <4>. QED BY <4>1, LayoutFacts DEF Session, Target, Capacity
    <3>2. Wanted(u, end) \in Nat
      <4>1. ((end + SectorSize - 1) \div SectorSize) \in Nat
        BY <3>1, LayoutFacts, DivFacts
      <4>2. ((end + SectorSize - 1) \div SectorSize) * SectorSize \in Nat
        BY <4>1, LayoutFacts
      <4>. QED BY <3>1, <4>2 DEF Wanted
    <3>3. from \in Nat /\ more \in Int
      BY <3>1, <3>2 DEF Session
    <3>4. cell' \in [Addr -> Images \cup {Blank, Junk}]
      BY <2>4, <3>3, FlashType DEF WriteErase, TypeOK
    <3>5. ota' \in [Updaters -> Session]
      <4>1. [ota EXCEPT ![u].erased = Wanted(u, end)] \in [Updaters -> Session]
        BY <3>1, <3>2 DEF TypeOK, Session
      <4>. QED BY <2>4, <4>1 DEF WriteErase, TypeOK
    <3>6. chunk' \in [Updaters -> Nat]
      BY <2>4, <3>1 DEF WriteErase, TypeOK
    <3>7. pc' \in [Tasks -> {"idle", "begin", "open", "write", "confirm", "erase_table", "write_table"}]
      BY <2>4, <3>1 DEF WriteErase, TypeOK, Goto
    <3>. QED BY <2>4, <3>4, <3>5, <3>6, <3>7 DEF WriteErase, TypeOK
  <2>5. ASSUME NEW u \in Updaters, WriteProgram(u) PROVE TypeOK'
    <3>1. u \in Tasks /\ ota[u] \in Session /\ chunk[u] \in Nat
      BY DEF Tasks, TypeOK
    <3>2. Target(u) + ota[u].written \in Nat /\ ota[u].img \in Images
      BY <3>1, LayoutFacts DEF Session, Target
    <3>3. cell' \in [Addr -> Images \cup {Blank, Junk}]
      BY <2>5, <3>1, <3>2, FlashType DEF WriteProgram, TypeOK
    <3>4. ota' \in [Updaters -> Session]
      <4>1. [ota EXCEPT ![u].written = @ + chunk[u]] \in [Updaters -> Session]
        BY <3>1 DEF TypeOK, Session
      <4>. QED BY <2>5, <4>1 DEF WriteProgram, TypeOK
    <3>5. pc' \in [Tasks -> {"idle", "begin", "open", "write", "confirm", "erase_table", "write_table"}]
      BY <2>5, <3>1 DEF WriteProgram, TypeOK, Goto
    <3>. QED BY <2>5, <3>1, <3>3, <3>4, <3>5 DEF WriteProgram, TypeOK
  <2>6. ASSUME NEW u \in Updaters, Commit(u) PROVE TypeOK'
    <3>1. u \in Tasks /\ ota[u] \in Session
      BY DEF Tasks, TypeOK
    <3>2. [id |-> Other(ota[u].id), table |-> WithSlotSwapped(ota[u].table, ota[u].written)]
            \in [id : TableIds, table : Table]
      BY <3>1, LayoutFacts, TableType DEF Session
    <3>3. job' \in [Tasks -> [id : TableIds, table : Table]]
      BY <2>6, <3>2 DEF Commit, TypeOK
    <3>. QED BY <2>6, <2>a, <3>1, <3>3 DEF Commit, TypeOK, Goto
  <2>7. ASSUME NEW c \in Confirmers, ConfirmReadZero(c) PROVE TypeOK'
    BY <2>7, <2>a DEF ConfirmReadZero, TypeOK, Goto, Tasks
  <2>8. ASSUME NEW c \in Confirmers, ConfirmReadOne(c) PROVE TypeOK'
    <3>. DEFINE id    == ActiveId(seen[c], copy[One])
                table == IF id = Zero THEN seen[c] ELSE copy[One]
    <3>1. c \in Tasks /\ seen[c] \in Table
      BY DEF Tasks, TypeOK
    <3>2. id \in TableIds \cup {None} /\ table \in Table
      BY <2>a, <3>1, ActiveIdType
    <3>3. job' \in [Tasks -> [id : TableIds, table : Table]]
      <4>1. CASE job' = job
        BY <4>1 DEF TypeOK
      <4>2. CASE id # None /\ job' = [job EXCEPT ![c] = [id |-> id, table |-> WithBootConfirmed(table)]]
        BY <3>2, <4>2, TableType DEF TypeOK
      <4>. QED BY <2>8, <4>1, <4>2 DEF ConfirmReadOne
    <3>4. pc' \in [Tasks -> {"idle", "begin", "open", "write", "confirm", "erase_table", "write_table"}]
      BY <2>8, <3>1 DEF ConfirmReadOne, TypeOK, Goto
    <3>5. seen' \in [Tasks -> Table]
      BY <2>8, TableType DEF ConfirmReadOne, TypeOK
    <3>. QED BY <2>8, <3>3, <3>4, <3>5 DEF ConfirmReadOne, TypeOK
  <2>9. ASSUME NEW p \in Tasks, EraseTable(p) PROVE TypeOK'
    <3>1. ota' \in [Updaters -> Session]
      BY <2>9, <2>a DEF EraseTable, TypeOK, EndSession
    <3>2. copy' \in [TableIds -> Table]
      BY <2>9, TableType DEF EraseTable, TypeOK
    <3>3. job' \in [Tasks -> [id : TableIds, table : Table]]
      BY <2>9, <2>a DEF EraseTable, TypeOK
    <3>. QED BY <2>9, <3>1, <3>2, <3>3 DEF EraseTable, TypeOK, Goto
  <2>10. ASSUME NEW p \in Tasks, WriteTable(p) PROVE TypeOK'
    <3>1. ota' \in [Updaters -> Session]
      BY <2>10, <2>a DEF WriteTable, TypeOK, EndSession
    <3>2. copy' \in [TableIds -> Table]
      BY <2>10, TableType DEF WriteTable, TypeOK
    <3>3. job' \in [Tasks -> [id : TableIds, table : Table]]
      BY <2>10, <2>a DEF WriteTable, TypeOK
    <3>. QED BY <2>10, <3>1, <3>2, <3>3 DEF WriteTable, TypeOK, Goto
  <2>11. CASE Reboot
    <3>1. Live \in TableIds \cup {None}
      BY <2>a, ActiveIdType DEF Live
    <3>2. copy' \in [TableIds -> Table] /\ running' \in Slots \cup {None}
      <4>1. CASE Live = None
        BY <2>11, <4>1 DEF Reboot, TypeOK
      <4>2. CASE Live # None
        <5>1. copy[Live] \in Table
          BY <3>1, <4>2 DEF TypeOK
        <5>2. PICK mark \in {copy[Live].pending, TRUE} :
                copy' = [copy EXCEPT ![Live].pending = mark]
          BY <2>11, <4>2 DEF Reboot
        <5>3. mark \in BOOLEAN
          BY <5>1 DEF Table
        <5>4. copy' \in [TableIds -> Table]
          BY <5>1, <5>2, <5>3 DEF TypeOK, Table
        <5>. QED BY <2>11, <4>2, <5>1, <5>4 DEF Reboot, Table
      <4>. QED BY <4>1, <4>2
    <3>. QED BY <2>11, <2>a, <3>2, TableType DEF Reboot, TypeOK
  <2>12. CASE UNCHANGED vars
    BY <2>12 DEF vars, TypeOK
  <2>. QED
    BY <2>1, <2>2, <2>3, <2>4, <2>5, <2>6, <2>7, <2>8, <2>9, <2>10, <2>11, <2>12
    DEF Next, UpdaterStep, ConfirmerStep
<1>. QED
  BY <1>1, <1>2, PTL DEF Spec

-----------------------------------------------------------------------------
(* The board always boots a whole image.                                   *)

\* Erasing inside slot s clears nothing of the other slot, and nothing below
\* a sector boundary it starts from.
LEMMA EraseStaysInside ==
  ASSUME AlignedSlots, NEW s \in Slots, NEW a \in Nat, NEW n \in Nat,
         Start[s] <= a, a + n <= Start[s] + MaxLen[s]
  PROVE  /\ \A x \in SlotUnits(1 - s, MaxLen[1 - s]) : x \notin Erased(a, n)
         /\ a % SectorSize = 0 => \A x \in Nat : x < a => x \notin Erased(a, n)
<1>. DEFINE t == 1 - s
<1>1. /\ t \in Slots /\ Start[s] \in Nat /\ Start[t] \in Nat /\ MaxLen[s] \in Nat /\ MaxLen[t] \in Nat
      /\ Start[s] % SectorSize = 0 /\ Start[t] % SectorSize = 0
      /\ Start[s] + MaxLen[s] <= Start[t] \/ Start[t] + MaxLen[t] <= Start[s]
  BY LayoutFacts DEF AlignedSlots, Slots
<1>2. ASSUME NEW x \in SlotUnits(t, MaxLen[t]), x \in Erased(a, n) PROVE FALSE
  <2>1. PICK y \in a .. a + n - 1 : Sector(x) = Sector(y)
    BY <1>2 DEF Erased
  <2>2. x \in Nat /\ y \in Nat /\ Start[t] <= x /\ x < Start[t] + MaxLen[t]
        /\ Start[s] <= y /\ y < Start[s] + MaxLen[s]
    BY <1>1 DEF SlotUnits
  <2>3. Sector(x) \in Nat /\ Sector(y) \in Nat
    BY <2>2, LayoutFacts, DivFacts DEF Sector
  <2>4. CASE Start[s] + MaxLen[s] <= Start[t]
    <3>1. Sector(y) < Sector(x)
      <4>1. y < Start[t]
        BY <1>1, <2>2, <2>4
      <4>. QED BY <1>1, <2>2, <4>1, SectorBoundary
    <3>. QED BY <2>1, <2>3, <3>1
  <2>5. CASE Start[t] + MaxLen[t] <= Start[s]
    <3>1. Sector(x) < Sector(y)
      <4>1. x < Start[s]
        BY <1>1, <2>2, <2>5
      <4>. QED BY <1>1, <2>2, <4>1, SectorBoundary
    <3>. QED BY <2>1, <2>3, <3>1
  <2>. QED BY <1>1, <2>4, <2>5
<1>3. ASSUME a % SectorSize = 0, NEW x \in Nat, x < a, x \in Erased(a, n) PROVE FALSE
  <2>1. PICK y \in a .. a + n - 1 : Sector(x) = Sector(y)
    BY <1>3 DEF Erased
  <2>2. y \in Nat /\ a <= y
    OBVIOUS
  <2>3. Sector(x) < Sector(y)
    BY <1>3, <2>2, SectorBoundary
  <2>4. Sector(x) \in Nat /\ Sector(y) \in Nat
    BY <1>3, <2>2, LayoutFacts, DivFacts DEF Sector
  <2>. QED BY <2>1, <2>3, <2>4
<1>. QED BY <1>2, <1>3

\* Rounding up to a whole sector, clamped to the slot: erase_through covers
\* the end it was asked for, stays in the slot and stops on a boundary.
LEMMA WantedFacts ==
  ASSUME NEW u \in Updaters, NEW end \in Nat, Capacity(u) \in Nat, end <= Capacity(u)
  PROVE  /\ Wanted(u, end) \in Nat
         /\ end <= Wanted(u, end)
         /\ Wanted(u, end) <= Capacity(u)
         /\ Wanted(u, end) = Capacity(u) \/ Wanted(u, end) % SectorSize = 0
<1>. DEFINE S == SectorSize
            a == end + S - 1
            q == a \div S
            up == q * S
<1>1. S \in Nat \ {0} /\ a \in Nat
  BY LayoutFacts
<1>2. q \in Nat /\ a % S \in 0 .. S - 1 /\ a = S * q + (a % S)
  BY <1>1, DivFacts
<1>3. S * q \in Nat /\ up = S * q
  BY <1>1, <1>2
<1>4. end <= up
  BY <1>1, <1>2, <1>3
<1>5. up % S = 0
  <2>1. up \in Nat /\ up % S \in 0 .. S - 1 /\ up = S * (up \div S) + (up % S) /\ up \div S \in Nat
    BY <1>1, <1>3, DivFacts
  <2>2. S * (q - (up \div S)) = up % S
    BY <1>1, <1>2, <1>3, <2>1
  <2>3. q - (up \div S) = 0 \/ q - (up \div S) >= 1 \/ q - (up \div S) <= -1
    BY <1>2, <2>1
  <2>. QED BY <1>1, <1>2, <2>1, <2>2, <2>3
<1>6. Wanted(u, end) = IF up < Capacity(u) THEN up ELSE Capacity(u)
  BY DEF Wanted
<1>. HIDE DEF q, a, up
<1>. QED BY <1>3, <1>4, <1>5, <1>6

\* The live table is chosen as soon as one copy is valid and younger or alone.
LEMMA LiveFacts ==
  ASSUME TypeOK, LiveImage
  PROVE  /\ Live \in TableIds /\ Live # None /\ copy[Live] \in Table /\ copy[Live].valid
         /\ Other(Live) \in TableIds /\ copy[Other(Live)] \in Table
         /\ copy[Live].len \in Nat /\ copy[Live].active \in Slots /\ MaxLen[copy[Live].active] \in Nat
<1>1. copy[Zero] \in Table /\ copy[One] \in Table
  BY LayoutFacts DEF TypeOK
<1>2. Live \in TableIds
  BY DEF LiveImage
<1>3. Live = Zero \/ Live = One
  BY <1>2 DEF TableIds
<1>. QED BY <1>1, <1>2, <1>3, LayoutFacts, ActiveIdType DEF Live, TypeOK, Table

\* Whatever image the next reset boots, it still boots after the step.
SameBoot == \A i \in Images : Holds(copy[Live], i) => Holds(copy[Live], i)'

\* A step that changes neither the tables nor the active slot leaves the
\* live image as it is.
LEMMA LiveKept ==
  ASSUME TypeOK, LiveImage, copy' = copy,
         \A x \in SlotUnits(copy[Live].active, MaxLen[copy[Live].active]) : cell'[x] = cell[x]
  PROVE  LiveImage' /\ Live' = Live /\ SameBoot
<1>1. Live' = Live
  BY DEF Live
<1>2. PICK i \in Images : Holds(copy[Live], i)
  BY DEF LiveImage
<1>3. copy[Live].len <= MaxLen[copy[Live].active]
      /\ copy[Live].len \in Nat /\ copy[Live].active \in Slots /\ MaxLen[copy[Live].active] \in Nat
  BY LiveFacts DEF LiveImage
<1>4. SlotUnits(copy[Live].active, copy[Live].len)
        \subseteq SlotUnits(copy[Live].active, MaxLen[copy[Live].active])
  BY <1>3, LayoutFacts DEF SlotUnits
<1>5. SameBoot
  BY <1>1, <1>4 DEF Holds, SameBoot
<1>. QED BY <1>1, <1>2, <1>5 DEF LiveImage, SameBoot

\* The factory board satisfies the invariant.
LEMMA OtaInvInit == Init /\ TypeOK => OtaInv
<1>. SUFFICES ASSUME Init, TypeOK PROVE OtaInv
  OBVIOUS
<1>1. PICK len \in 1 .. MaxLen[0] :
        /\ copy = [id \in TableIds |->
                     IF id = Zero
                     THEN [valid |-> TRUE, age |-> 0, active |-> 0, len |-> len, pending |-> FALSE]
                     ELSE TornTable]
        /\ cell = [x \in Addr |-> IF x \in SlotUnits(0, len) THEN Factory ELSE Junk]
  BY DEF Init
<1>2. copy[Zero].valid /\ ~copy[One].valid /\ copy[Zero].active = 0 /\ copy[Zero].len = len
  BY <1>1, LayoutFacts DEF TornTable
<1>3. Live = Zero
  BY <1>2 DEF Live, ActiveId
<1>4. SlotUnits(0, len) \subseteq Addr
  BY <1>1, LayoutFacts DEF SlotUnits, Addr, Slots
<1>5. Holds(copy[Live], Factory)
  BY <1>1, <1>2, <1>3, <1>4 DEF Holds
<1>6. LiveImage
  BY <1>1, <1>2, <1>3, <1>5, LayoutFacts, OtaAssumption DEF LiveImage
<1>7. \A u \in Updaters : pc[u] = "idle"
  BY DEF Init, Tasks
<1>. QED BY <1>6, <1>7 DEF OtaInv, SessionInv, ProgressInv, Writing

\* What the invariant says of a session, with the types its arithmetic needs.
LEMMA SessionFacts ==
  ASSUME OtaInv, NEW u \in Updaters, pc[u] \in Writing
  PROVE  /\ ota[u] \in Session /\ ota[u].id = Live /\ ota[u].table = copy[Live]
         /\ ota[u].written \in Nat /\ ota[u].erased \in Nat /\ ota[u].img \in Images
         /\ Target(u) \in Nat /\ Capacity(u) \in Nat
         /\ Spare(ota[u].table) \in Slots /\ copy[Live].active = 1 - Spare(ota[u].table)
         /\ Target(u) = Start[Spare(ota[u].table)] /\ Capacity(u) = MaxLen[Spare(ota[u].table)]
         /\ Target(u) + Capacity(u) <= FlashLen
<1>1. ota[u] \in Session /\ ota[u].id = Live /\ ota[u].table = copy[Live]
  BY DEF OtaInv, SessionInv, TypeOK
<1>2. copy[Live].active \in Slots
  BY LiveFacts DEF OtaInv
<1>3. Spare(ota[u].table) \in Slots /\ copy[Live].active = 1 - Spare(ota[u].table)
  BY <1>1, <1>2 DEF Spare, Slots
<1>. QED BY <1>1, <1>3, LayoutFacts DEF Session, Target, Capacity

\* The invariant is unchanged by a step that keeps tables and flash.
LEMMA QuietStep ==
  ASSUME OtaInv, copy' = copy, cell' = cell
  PROVE  LiveImage' /\ Live' = Live /\ SameBoot
BY LiveKept DEF OtaInv

\* The step leaves the slot the live table names as it is.
LiveSlotSpared ==
  \A x \in SlotUnits(copy[Live].active, MaxLen[copy[Live].active]) : cell'[x] = cell[x]

LEMMA WriteEraseInv ==
  ASSUME OtaInv, TypeOK', OneUpdater, AlignedSlots,
         NEW u \in Updaters, NEW n \in 1 .. FlashLen, WriteErase(u, n)
  PROVE  OtaInv' /\ SameBoot /\ LiveSlotSpared
<1>. DEFINE end  == ota[u].written + n
            from == Target(u) + ota[u].erased
            more == Wanted(u, end) - ota[u].erased
            s    == Spare(ota[u].table)
<1>1. pc[u] = "open" /\ end <= Capacity(u) /\ copy' = copy
  BY DEF WriteErase, At
<1>2. /\ ota[u] \in Session /\ ota[u].id = Live /\ ota[u].table = copy[Live]
      /\ ota[u].written \in Nat /\ ota[u].erased \in Nat /\ ota[u].img \in Images
      /\ Target(u) \in Nat /\ Capacity(u) \in Nat /\ n \in Nat /\ end \in Nat
      /\ s \in Slots /\ copy[Live].active = 1 - s
      /\ Target(u) = Start[s] /\ Capacity(u) = MaxLen[s]
      /\ Target(u) + Capacity(u) <= FlashLen
  BY <1>1, SessionFacts, LayoutFacts DEF Writing
<1>3. /\ ota[u].written <= ota[u].erased
      /\ ota[u].erased <= Capacity(u)
      /\ ota[u].erased = Capacity(u) \/ ota[u].erased % SectorSize = 0
      /\ \A x \in Target(u) .. Target(u) + ota[u].written - 1 : cell[x] = ota[u].img
      /\ \A x \in Target(u) + ota[u].written .. Target(u) + ota[u].erased - 1 :
           cell[x] \in {Blank, ota[u].img}
  BY <1>1 DEF OtaInv, SessionInv, Writing
<1>4. u \in Tasks /\ \A v \in Updaters : v = u
  BY DEF Tasks, OneUpdater
<1>5. CASE end <= ota[u].erased /\ cell' = cell /\ ota' = ota
           /\ chunk' = [chunk EXCEPT ![u] = n] /\ Goto(u, "write")
  <2>1. LiveImage' /\ Live' = Live /\ SameBoot /\ LiveSlotSpared
    BY <1>1, <1>5, QuietStep DEF LiveSlotSpared
  <2>2. pc'[u] = "write" /\ chunk'[u] = n
    BY <1>4, <1>5 DEF OtaInv, TypeOK, Goto
  <2>3. Target(u)' = Target(u) /\ Capacity(u)' = Capacity(u)
    BY <1>5 DEF Target, Capacity
  <2>4. SessionInv(u)'
    BY <1>1, <1>2, <1>3, <1>5, <2>1, <2>3 DEF SessionInv
  <2>5. ProgressInv(u)'
    BY <1>5, <2>2 DEF ProgressInv
  <2>. QED BY <1>4, <2>1, <2>4, <2>5 DEF OtaInv
<1>6. ASSUME end > ota[u].erased
      PROVE  /\ from \in Nat /\ more \in Nat /\ Wanted(u, end) \in Nat
             /\ end <= Wanted(u, end) /\ Wanted(u, end) <= Capacity(u)
             /\ Wanted(u, end) = Capacity(u) \/ Wanted(u, end) % SectorSize = 0
             /\ \A x \in SlotUnits(1 - s, MaxLen[1 - s]) : x \notin Erased(from, more)
             /\ \A x \in Nat : x < from => x \notin Erased(from, more)
  <2>1. /\ Wanted(u, end) \in Nat /\ end <= Wanted(u, end) /\ Wanted(u, end) <= Capacity(u)
        /\ Wanted(u, end) = Capacity(u) \/ Wanted(u, end) % SectorSize = 0
    BY <1>1, <1>2, WantedFacts
  <2>2. from \in Nat /\ more \in Nat /\ Start[s] <= from /\ from + more <= Start[s] + MaxLen[s]
    BY <1>2, <1>6, <2>1
  <2>3. ota[u].erased % SectorSize = 0 /\ Start[s] % SectorSize = 0
    BY <1>1, <1>2, <1>3, <1>6 DEF AlignedSlots
  <2>4. from % SectorSize = 0
    BY <1>2, <2>3, LayoutFacts, MultipleSum
  <2>. QED BY <1>2, <2>1, <2>2, <2>4, EraseStaysInside
<1>7. CASE end > ota[u].erased /\ cell' = EraseFlash(from, more)
           /\ ota' = [ota EXCEPT ![u].erased = Wanted(u, end)]
           /\ chunk' = [chunk EXCEPT ![u] = n] /\ Goto(u, "write")
  <2>1. ota'[u] = [ota[u] EXCEPT !.erased = Wanted(u, end)] /\ pc'[u] = "write" /\ chunk'[u] = n
    BY <1>4, <1>7 DEF OtaInv, TypeOK, Goto
  <2>2. /\ ota'[u].id = ota[u].id /\ ota'[u].table = ota[u].table /\ ota'[u].img = ota[u].img
        /\ ota'[u].written = ota[u].written /\ ota'[u].erased = Wanted(u, end)
    BY <1>2, <2>1 DEF Session
  <2>3. Target(u)' = Target(u) /\ Capacity(u)' = Capacity(u)
    BY <2>2 DEF Target, Capacity
  <2>4. \A x \in Addr : cell'[x] = IF x \in Erased(from, more) THEN Blank ELSE cell[x]
    BY <1>7 DEF EraseFlash
  <2>5. LiveImage' /\ Live' = Live /\ SameBoot /\ LiveSlotSpared
    <3>1. SlotUnits(1 - s, MaxLen[1 - s]) \subseteq Addr
      BY <1>2, LayoutFacts DEF SlotUnits, Addr, Slots
    <3>2. \A x \in SlotUnits(copy[Live].active, MaxLen[copy[Live].active]) : cell'[x] = cell[x]
      BY <1>2, <1>6, <1>7, <2>4, <3>1
    <3>. QED BY <1>1, <3>2, LiveKept DEF OtaInv, LiveSlotSpared
  <2>6. \A x \in Target(u) .. Target(u) + ota[u].erased - 1 : cell'[x] = cell[x]
    <3>. SUFFICES ASSUME NEW x \in Target(u) .. Target(u) + ota[u].erased - 1
                  PROVE  cell'[x] = cell[x]
      OBVIOUS
    <3>1. x \in Nat /\ x < from /\ x \in Addr
      BY <1>2, <1>3, LayoutFacts DEF Addr
    <3>. QED BY <1>6, <1>7, <2>4, <3>1
  <2>7. \A x \in from .. Target(u) + Wanted(u, end) - 1 : cell'[x] = Blank
    <3>. SUFFICES ASSUME NEW x \in from .. Target(u) + Wanted(u, end) - 1
                  PROVE  cell'[x] = Blank
      OBVIOUS
    <3>1. x \in Addr /\ x \in from .. from + more - 1
      BY <1>2, <1>3, <1>6, <1>7, LayoutFacts DEF Addr
    <3>2. x \in Erased(from, more)
      BY <3>1 DEF Erased
    <3>. QED BY <2>4, <3>1, <3>2
  <2>8. \A x \in Target(u) .. Target(u) + ota[u].written - 1 : cell'[x] = ota[u].img
    BY <1>2, <1>3, <2>6
  <2>9. \A x \in Target(u) + ota[u].written .. Target(u) + Wanted(u, end) - 1 :
          cell'[x] \in {Blank, ota[u].img}
    <3>. SUFFICES ASSUME NEW x \in Target(u) + ota[u].written .. Target(u) + Wanted(u, end) - 1
                  PROVE  cell'[x] \in {Blank, ota[u].img}
      OBVIOUS
    <3>1. CASE x < from
      BY <1>2, <1>3, <2>6, <3>1
    <3>2. CASE x >= from
      BY <1>2, <1>6, <1>7, <2>7, <3>2
    <3>. QED BY <1>2, <3>1, <3>2
  <2>10. SessionInv(u)'
    BY <1>1, <1>2, <1>6, <1>7, <2>2, <2>3, <2>5, <2>8, <2>9 DEF SessionInv
  <2>11. ProgressInv(u)'
    BY <1>2, <1>6, <1>7, <2>1, <2>2 DEF ProgressInv
  <2>. QED BY <1>4, <2>5, <2>10, <2>11 DEF OtaInv
<1>8. CASE end > ota[u].erased /\ (\E cut \in 0 .. FlashLen : cell' = SpoilFlash(from, more, cut))
           /\ UNCHANGED <<pc, ota, chunk>>
  <2>1. PICK cut \in 0 .. FlashLen : cell' = SpoilFlash(from, more, cut)
    BY <1>8
  <2>2. \A x \in Addr : x \notin Erased(from, more) => cell'[x] = cell[x]
    BY <2>1 DEF SpoilFlash
  <2>3. LiveImage' /\ Live' = Live /\ SameBoot /\ LiveSlotSpared
    <3>1. SlotUnits(1 - s, MaxLen[1 - s]) \subseteq Addr
      BY <1>2, LayoutFacts DEF SlotUnits, Addr, Slots
    <3>2. \A x \in SlotUnits(copy[Live].active, MaxLen[copy[Live].active]) : cell'[x] = cell[x]
      BY <1>2, <1>6, <1>8, <2>2, <3>1
    <3>. QED BY <1>1, <3>2, LiveKept DEF OtaInv, LiveSlotSpared
  <2>4. \A x \in Target(u) .. Target(u) + ota[u].erased - 1 : cell'[x] = cell[x]
    <3>. SUFFICES ASSUME NEW x \in Target(u) .. Target(u) + ota[u].erased - 1
                  PROVE  cell'[x] = cell[x]
      OBVIOUS
    <3>1. x \in Nat /\ x < from /\ x \in Addr
      BY <1>2, <1>3, LayoutFacts DEF Addr
    <3>. QED BY <1>6, <1>8, <2>2, <3>1
  <2>5. Target(u)' = Target(u) /\ Capacity(u)' = Capacity(u)
    BY <1>8 DEF Target, Capacity
  <2>6. /\ \A x \in Target(u) .. Target(u) + ota[u].written - 1 : cell'[x] = ota[u].img
        /\ \A x \in Target(u) + ota[u].written .. Target(u) + ota[u].erased - 1 :
             cell'[x] \in {Blank, ota[u].img}
    BY <1>2, <1>3, <2>4
  <2>7. SessionInv(u)'
    BY <1>1, <1>2, <1>3, <1>8, <2>3, <2>5, <2>6 DEF SessionInv
  <2>8. ProgressInv(u)'
    BY <1>1, <1>8 DEF ProgressInv
  <2>. QED BY <1>4, <2>3, <2>7, <2>8 DEF OtaInv
<1>. QED BY <1>5, <1>7, <1>8 DEF WriteErase

\* flash::write, complete or cut short after k units, extends the image.
LEMMA WriteProgramInv ==
  ASSUME OtaInv, TypeOK', OneUpdater, AlignedSlots, NEW u \in Updaters, WriteProgram(u)
  PROVE  OtaInv' /\ SameBoot /\ LiveSlotSpared
<1>. DEFINE at == Target(u) + ota[u].written
            s  == Spare(ota[u].table)
<1>1. pc[u] = "write" /\ copy' = copy /\ u \in Tasks /\ pc'[u] = "open"
  BY DEF WriteProgram, At, Goto, Tasks, OtaInv, TypeOK
<1>2. /\ ota[u] \in Session /\ ota[u].id = Live /\ ota[u].table = copy[Live]
      /\ ota[u].written \in Nat /\ ota[u].erased \in Nat /\ ota[u].img \in Images
      /\ Target(u) \in Nat /\ Capacity(u) \in Nat
      /\ s \in Slots /\ copy[Live].active = 1 - s
      /\ Target(u) = Start[s] /\ Capacity(u) = MaxLen[s]
      /\ Target(u) + Capacity(u) <= FlashLen
  BY <1>1, SessionFacts DEF Writing
<1>3. /\ ota[u].written <= ota[u].erased
      /\ ota[u].erased <= Capacity(u)
      /\ ota[u].erased = Capacity(u) \/ ota[u].erased % SectorSize = 0
      /\ \A x \in Target(u) .. Target(u) + ota[u].written - 1 : cell[x] = ota[u].img
      /\ \A x \in Target(u) + ota[u].written .. Target(u) + ota[u].erased - 1 :
           cell[x] \in {Blank, ota[u].img}
      /\ ota[u].written + chunk[u] <= ota[u].erased /\ chunk[u] \in Nat
  BY <1>1 DEF OtaInv, SessionInv, ProgressInv, Writing, TypeOK
<1>4. \A v \in Updaters : v = u
  BY DEF OneUpdater
<1>5. PICK k \in 0 .. chunk[u] :
        /\ cell' = ProgramFlash(at, k, ota[u].img)
        /\ \/ k = chunk[u] /\ ota' = [ota EXCEPT ![u].written = @ + chunk[u]]
           \/ ota' = ota
  BY <1>3 DEF WriteProgram
<1>6. \A x \in Addr : cell'[x] = IF x \in at .. at + k - 1
                                 THEN Programmed(cell[x], ota[u].img) ELSE cell[x]
  BY <1>5 DEF ProgramFlash
<1>7. \A x \in Target(u) .. Target(u) + ota[u].erased - 1 : x \in Addr
  BY <1>2, <1>3, LayoutFacts DEF Addr
<1>8. LiveImage' /\ Live' = Live /\ SameBoot /\ LiveSlotSpared
  <2>1. \A x \in SlotUnits(1 - s, MaxLen[1 - s]) : x \in Addr /\ x \notin at .. at + k - 1
    <3>1. /\ 1 - s \in Slots /\ Start[s] \in Nat /\ Start[1 - s] \in Nat
          /\ MaxLen[s] \in Nat /\ MaxLen[1 - s] \in Nat /\ FlashLen \in Nat
          /\ Start[1 - s] + MaxLen[1 - s] <= FlashLen
          /\ Start[s] + MaxLen[s] <= Start[1 - s] \/ Start[1 - s] + MaxLen[1 - s] <= Start[s]
      BY <1>2, LayoutFacts DEF AlignedSlots, Slots
    <3>2. Start[s] <= at /\ at + k <= Start[s] + MaxLen[s] /\ at \in Nat /\ k \in Nat
      BY <1>2, <1>3
    <3>. QED BY <3>1, <3>2 DEF SlotUnits, Addr
  <2>2. \A x \in SlotUnits(copy[Live].active, MaxLen[copy[Live].active]) : cell'[x] = cell[x]
    BY <1>2, <1>6, <2>1
  <2>. QED BY <1>1, <2>2, LiveKept DEF OtaInv, LiveSlotSpared
<1>9. \A x \in Target(u) .. at + k - 1 : cell'[x] = ota[u].img
  <2>. SUFFICES ASSUME NEW x \in Target(u) .. at + k - 1 PROVE cell'[x] = ota[u].img
    OBVIOUS
  <2>1. x \in Addr
    BY <1>2, <1>3, <1>7
  <2>2. CASE x < at
    BY <1>2, <1>3, <1>6, <2>1, <2>2
  <2>3. CASE x >= at
    <3>1. cell[x] \in {Blank, ota[u].img} /\ x \in at .. at + k - 1
      BY <1>2, <1>3, <2>3
    <3>. QED BY <1>6, <2>1, <3>1 DEF Programmed
  <2>. QED BY <1>2, <2>2, <2>3
<1>10. \A x \in at .. Target(u) + ota[u].erased - 1 : cell'[x] \in {Blank, ota[u].img}
  <2>. SUFFICES ASSUME NEW x \in at .. Target(u) + ota[u].erased - 1
                PROVE  cell'[x] \in {Blank, ota[u].img}
    OBVIOUS
  <2>1. x \in Addr /\ cell[x] \in {Blank, ota[u].img}
    BY <1>2, <1>3, <1>7
  <2>. QED BY <1>6, <2>1 DEF Programmed
<1>11. CASE k = chunk[u] /\ ota' = [ota EXCEPT ![u].written = @ + chunk[u]]
  <2>1. ota'[u] = [ota[u] EXCEPT !.written = @ + chunk[u]]
    BY <1>11 DEF OtaInv, TypeOK
  <2>2. /\ ota'[u].id = ota[u].id /\ ota'[u].table = ota[u].table /\ ota'[u].img = ota[u].img
        /\ ota'[u].written = ota[u].written + chunk[u] /\ ota'[u].erased = ota[u].erased
    BY <1>2, <2>1 DEF Session
  <2>3. Target(u)' = Target(u) /\ Capacity(u)' = Capacity(u)
    BY <2>2 DEF Target, Capacity
  <2>4. \A x \in Target(u) .. Target(u) + ota'[u].written - 1 : cell'[x] = ota[u].img
    BY <1>2, <1>3, <1>9, <1>11, <2>2
  <2>5. \A x \in Target(u) + ota'[u].written .. Target(u) + ota[u].erased - 1 :
          cell'[x] \in {Blank, ota[u].img}
    BY <1>2, <1>3, <1>10, <2>2
  <2>6. SessionInv(u)'
    BY <1>1, <1>2, <1>3, <1>8, <2>2, <2>3, <2>4, <2>5 DEF SessionInv
  <2>. QED BY <1>1, <1>4, <1>8, <2>6 DEF OtaInv, ProgressInv
<1>12. CASE ota' = ota
  <2>1. Target(u)' = Target(u) /\ Capacity(u)' = Capacity(u)
    BY <1>12 DEF Target, Capacity
  <2>2. \A x \in Target(u) .. Target(u) + ota[u].written - 1 : cell'[x] = ota[u].img
    BY <1>2, <1>3, <1>9
  <2>3. SessionInv(u)'
    BY <1>1, <1>2, <1>3, <1>8, <1>10, <1>12, <2>1, <2>2 DEF SessionInv
  <2>. QED BY <1>1, <1>4, <1>8, <2>3 DEF OtaInv, ProgressInv
<1>. QED BY <1>5, <1>11, <1>12

\* Erasing the copy that is not live leaves the live one live.
LEMMA LiveAlone ==
  ASSUME TypeOK, LiveImage, NEW t \in Table, copy' = [copy EXCEPT ![Other(Live)] = t],
         ~t.valid, cell' = cell
  PROVE  LiveImage' /\ Live' = Live /\ SameBoot /\ copy'[Live] = copy[Live]
         /\ copy'[Other(Live)] = t
<1>1. /\ Live \in TableIds /\ copy[Live].valid /\ copy[Live] \in Table
      /\ Other(Live) \in TableIds /\ Other(Live) # Live
      /\ Zero \in TableIds /\ One \in TableIds /\ Zero # One
  BY LiveFacts, LayoutFacts
<1>2. copy'[Live] = copy[Live] /\ copy'[Other(Live)] = t
  BY <1>1 DEF TypeOK
<1>3. Live' = Live
  <2>1. CASE Live = Zero
    <3>1. ActiveId(copy'[Zero], copy'[One]) = Zero
      BY <1>1, <1>2, <2>1 DEF Other, ActiveId
    <3>. QED BY <2>1, <3>1 DEF Live
  <2>2. CASE Live = One
    <3>1. copy'[One] = copy[One] /\ copy'[Zero] = t
      BY <1>1, <1>2, <2>2 DEF Other
    <3>2. ActiveId(copy'[Zero], copy'[One]) = One
      BY <1>1, <2>2, <3>1 DEF ActiveId, Table
    <3>. QED BY <2>2, <3>2 DEF Live
  <2>. QED BY <1>1, <2>1, <2>2 DEF TableIds
<1>4. SameBoot
  BY <1>2, <1>3 DEF Holds, SameBoot
<1>. QED BY <1>1, <1>2, <1>3, <1>4 DEF LiveImage, SameBoot

\* A valid table older copies cannot outvote becomes the live one.
LEMMA YoungerWins ==
  ASSUME TypeOK, LiveImage, NEW t \in Table, copy' = [copy EXCEPT ![Other(Live)] = t],
         t.valid, t.age > copy[Live].age
  PROVE  Live' = Other(Live) /\ copy'[Live'] = t
<1>1. /\ Live \in TableIds /\ copy[Live].valid /\ copy[Live] \in Table
      /\ Other(Live) \in TableIds /\ Other(Live) # Live
      /\ Zero \in TableIds /\ One \in TableIds /\ Zero # One
  BY LiveFacts, LayoutFacts
<1>2. copy'[Live] = copy[Live] /\ copy'[Other(Live)] = t
  BY <1>1 DEF TypeOK
<1>3. t.age \in Nat /\ copy[Live].age \in Nat
  BY <1>1 DEF Table
<1>4. CASE Live = Zero
  <2>1. copy'[Zero] = copy[Zero] /\ copy'[One] = t /\ Other(Live) = One
    BY <1>1, <1>2, <1>4 DEF Other
  <2>2. ActiveId(copy'[Zero], copy'[One]) = One
    BY <1>1, <1>3, <1>4, <2>1 DEF ActiveId
  <2>. QED BY <2>1, <2>2 DEF Live
<1>5. CASE Live = One
  <2>1. copy'[One] = copy[One] /\ copy'[Zero] = t /\ Other(Live) = Zero
    BY <1>1, <1>2, <1>5 DEF Other
  <2>2. ActiveId(copy'[Zero], copy'[One]) = Zero
    BY <1>1, <1>3, <1>5, <2>1 DEF ActiveId
  <2>. QED BY <2>1, <2>2 DEF Live
<1>. QED BY <1>1, <1>4, <1>5 DEF TableIds

\* write_table's erase hits the copy that is not live.
LEMMA EraseTableInv ==
  ASSUME OtaInv, TypeOK', OneUpdater, NEW u \in Updaters, EraseTable(u)
  PROVE  OtaInv' /\ SameBoot
<1>1. pc[u] = "erase_table" /\ cell' = cell /\ u \in Tasks /\ \A v \in Updaters : v = u
  BY DEF EraseTable, At, Tasks, OneUpdater
<1>2. ota[u].id = Live /\ ota[u].table = copy[Live] /\ job[u].id = Other(Live)
  BY <1>1 DEF OtaInv, SessionInv, ProgressInv, Writing
<1>3. TornTable \in Table /\ ~TornTable.valid
  BY TableType DEF TornTable
<1>4. CASE copy' = [copy EXCEPT ![job[u].id] = TornTable] /\ Goto(u, "write_table")
           /\ UNCHANGED <<job, ota>>
  <2>1. LiveImage' /\ Live' = Live /\ SameBoot /\ copy'[Live] = copy[Live] /\ copy'[Other(Live)] = TornTable
    BY <1>1, <1>2, <1>3, <1>4, LiveAlone DEF OtaInv
  <2>2. pc'[u] = "write_table"
    BY <1>1, <1>4 DEF Goto, OtaInv, TypeOK
  <2>3. Target(u)' = Target(u) /\ Capacity(u)' = Capacity(u)
    BY <1>4 DEF Target, Capacity
  <2>4. SessionInv(u)'
    BY <1>1, <1>2, <1>4, <2>1, <2>2, <2>3 DEF OtaInv, SessionInv, Writing
  <2>5. ProgressInv(u)'
    BY <1>1, <1>2, <1>3, <1>4, <2>1, <2>2 DEF OtaInv, ProgressInv
  <2>. QED BY <1>1, <2>1, <2>4, <2>5 DEF OtaInv
<1>5. CASE copy' \in {copy, [copy EXCEPT ![job[u].id] = TornTable]} /\ Goto(u, "idle")
  <2>1. LiveImage' /\ SameBoot
    BY <1>1, <1>2, <1>3, <1>5, LiveAlone, QuietStep DEF OtaInv
  <2>2. pc'[u] = "idle"
    BY <1>1, <1>5 DEF Goto, OtaInv, TypeOK
  <2>. QED BY <1>1, <2>1, <2>2 DEF OtaInv, SessionInv, ProgressInv, Writing
<1>. QED BY <1>4, <1>5 DEF EraseTable

\* The table a commit publishes, once written, names the slot just filled.
LEMMA Published ==
  ASSUME OtaInv, NEW u \in Updaters, pc[u] = "write_table",
         copy' = [copy EXCEPT ![job[u].id] = job[u].table], cell' = cell,
         NEW img \in Images, ota[u].img = img
  PROVE  LiveImage' /\ Holds(copy[Live], img)'
<1>1. /\ ota[u] \in Session /\ ota[u].id = Live /\ ota[u].table = copy[Live]
      /\ ota[u].written \in Nat /\ ota[u].erased \in Nat
      /\ Target(u) \in Nat /\ Capacity(u) \in Nat
      /\ Target(u) = Start[Spare(copy[Live])] /\ Capacity(u) = MaxLen[Spare(copy[Live])]
  BY SessionFacts DEF Writing
<1>2. /\ ota[u].written > 0 /\ ota[u].written <= ota[u].erased /\ ota[u].erased <= Capacity(u)
      /\ job[u].id = Other(Live) /\ job[u].table = WithSlotSwapped(copy[Live], ota[u].written)
      /\ \A x \in Target(u) .. Target(u) + ota[u].written - 1 : cell[x] = img
  BY <1>1 DEF OtaInv, SessionInv, ProgressInv, Writing
<1>3. /\ copy[Live] \in Table /\ copy[Live].valid /\ copy[Live].age \in Nat
      /\ copy[Live].active \in Slots /\ Other(Live) \in TableIds
  BY LiveFacts DEF OtaInv, Table
<1>4. PICK t \in Table : t = WithSlotSwapped(copy[Live], ota[u].written)
  BY <1>1, <1>3, TableType
<1>5. /\ t.valid /\ t.age > copy[Live].age
      /\ t.active = Spare(copy[Live]) /\ t.len = ota[u].written
  <2>1. t = [copy[Live] EXCEPT !.active = 1 - @, !.len = ota[u].written, !.age = @ + 1]
    BY <1>4 DEF WithSlotSwapped
  <2>2. t.valid = copy[Live].valid /\ t.age = copy[Live].age + 1
        /\ t.active = 1 - copy[Live].active /\ t.len = ota[u].written
    BY <1>3, <2>1 DEF Table
  <2>. QED BY <1>3, <2>2 DEF Spare
<1>6. Live' = Other(Live) /\ copy'[Live'] = t
  <2>1. copy' = [copy EXCEPT ![Other(Live)] = t]
    BY <1>2, <1>4
  <2>. QED BY <1>5, <2>1, YoungerWins DEF OtaInv
<1>7. \A x \in SlotUnits(t.active, t.len) : cell'[x] = img
  BY <1>1, <1>2, <1>5 DEF SlotUnits
<1>8. Holds(copy[Live], img)'
  BY <1>6, <1>7 DEF Holds
<1>9. copy'[Live'].len \in 1 .. MaxLen[copy'[Live'].active]
  BY <1>1, <1>2, <1>5, <1>6
<1>. QED BY <1>3, <1>6, <1>8, <1>9 DEF LiveImage

\* Reading the tables, abandoning a session and preparing a commit.
LEMMA SessionStepInv ==
  ASSUME OtaInv, TypeOK', OneUpdater, NEW u \in Updaters,
         BeginReadZero(u) \/ BeginReadOne(u) \/ Abandon(u) \/ Commit(u)
  PROVE  OtaInv' /\ SameBoot
<1>1. copy' = copy /\ cell' = cell /\ u \in Tasks /\ \A v \in Updaters : v = u
  BY DEF BeginReadZero, BeginReadOne, Abandon, Commit, Tasks, OneUpdater
<1>2. LiveImage' /\ Live' = Live /\ SameBoot
  BY <1>1, QuietStep
<1>3. ASSUME pc'[u] = "idle" PROVE OtaInv' /\ SameBoot
  BY <1>1, <1>2, <1>3 DEF OtaInv, SessionInv, ProgressInv, Writing
<1>4. CASE BeginReadZero(u)
  <2>1. pc'[u] = "begin" /\ seen'[u] = copy[Zero]
    BY <1>1, <1>4 DEF BeginReadZero, Goto, OtaInv, TypeOK
  <2>. QED BY <1>1, <1>2, <2>1 DEF OtaInv, SessionInv, ProgressInv, Writing
<1>5. CASE BeginReadOne(u)
  <2>1. seen[u] = copy[Zero] /\ pc[u] = "begin"
    BY <1>5 DEF BeginReadOne, At, OtaInv, ProgressInv
  <2>2. ActiveId(seen[u], copy[One]) = Live
    BY <2>1 DEF Live
  <2>3. copy[Live] = IF Live = Zero THEN seen[u] ELSE copy[One]
    BY <2>1, LiveFacts DEF OtaInv, TableIds
  <2>4. CASE pc'[u] = "idle"
    BY <1>3, <2>4
  <2>5. ASSUME NEW img \in Images, Goto(u, "open"),
               ota' = [ota EXCEPT ![u] = [id |-> Live, table |-> copy[Live], img |-> img,
                                          erased |-> 0, written |-> 0]]
        PROVE  OtaInv' /\ SameBoot
    <3>1. pc'[u] = "open"
      BY <1>1, <2>5 DEF Goto, OtaInv, TypeOK
    <3>2. ota'[u] = [id |-> Live, table |-> copy[Live], img |-> img, erased |-> 0, written |-> 0]
      BY <2>5 DEF OtaInv, TypeOK
    <3>3. Target(u)' \in Nat /\ Capacity(u)' \in Nat
      <4>1. Spare(copy[Live]) \in Slots
        BY LiveFacts, LayoutFacts DEF OtaInv
      <4>. QED BY <3>2, <4>1, LayoutFacts DEF Target, Capacity
    <3>4. 0 % SectorSize = 0
      BY LayoutFacts
    <3>5. SessionInv(u)'
      BY <1>1, <1>2, <3>2, <3>3, <3>4 DEF SessionInv
    <3>6. ProgressInv(u)'
      BY <3>1 DEF ProgressInv
    <3>. QED BY <1>1, <1>2, <3>5, <3>6 DEF OtaInv
  <2>6. pc'[u] = "idle" \/ \E img \in Images :
          /\ Goto(u, "open")
          /\ ota' = [ota EXCEPT ![u] = [id |-> Live, table |-> copy[Live], img |-> img,
                                        erased |-> 0, written |-> 0]]
    BY <1>1, <1>5, <2>2, <2>3 DEF BeginReadOne, Goto, OtaInv, TypeOK
  <2>. QED BY <2>4, <2>5, <2>6
<1>6. CASE Abandon(u)
  BY <1>1, <1>3, <1>6 DEF Abandon, Goto, OtaInv, TypeOK
<1>7. CASE Commit(u)
  <2>1. pc[u] = "open" /\ ota[u].written \in Nat
    BY <1>7, SessionFacts DEF Commit, At, Writing
  <2>2. CASE ota[u].written = 0
    BY <1>1, <1>3, <1>7, <2>2 DEF Commit, Goto, OtaInv, TypeOK
  <2>3. CASE ota[u].written # 0
    <3>1. /\ pc'[u] = "erase_table" /\ ota' = ota
          /\ job'[u].id = Other(ota[u].id)
          /\ job'[u].table = WithSlotSwapped(ota[u].table, ota[u].written)
      BY <1>1, <1>7, <2>3 DEF Commit, Goto, OtaInv, TypeOK
    <3>2. Target(u)' = Target(u) /\ Capacity(u)' = Capacity(u)
      BY <3>1 DEF Target, Capacity
    <3>3. SessionInv(u)'
      BY <1>1, <1>2, <2>1, <3>1, <3>2 DEF OtaInv, SessionInv, Writing
    <3>4. ProgressInv(u)'
      BY <2>1, <2>3, <3>1 DEF ProgressInv
    <3>. QED BY <1>1, <1>2, <3>3, <3>4 DEF OtaInv
  <2>. QED BY <2>2, <2>3
<1>. QED BY <1>4, <1>5, <1>6, <1>7

\* write_table's write: either the new image boots or the old one still does.
LEMMA WriteTableInv ==
  ASSUME OtaInv, TypeOK', OneUpdater, NEW u \in Updaters, WriteTable(u),
         NEW img \in Images, ota[u].img = img
  PROVE  /\ OtaInv'
         /\ SameBoot \/ Holds(copy[Live], img)'
         /\ copy'[job[u].id] = job[u].table => Holds(copy[Live], img)'
<1>1. /\ pc[u] = "write_table" /\ cell' = cell /\ u \in Tasks /\ pc'[u] = "idle"
      /\ \A v \in Updaters : v = u
  BY DEF WriteTable, At, Goto, Tasks, OneUpdater, OtaInv, TypeOK
<1>2. job[u].id = Other(Live) /\ ~copy[Other(Live)].valid
  BY <1>1 DEF OtaInv, SessionInv, ProgressInv, Writing
<1>3. TornTable \in Table /\ ~TornTable.valid
  BY TableType DEF TornTable
<1>4. job[u].table.valid
  <2>1. job[u].table = WithSlotSwapped(copy[Live], ota[u].written)
    BY <1>1 DEF OtaInv, SessionInv, ProgressInv, Writing
  <2>2. copy[Live] \in Table /\ copy[Live].valid
    BY LiveFacts DEF OtaInv
  <2>3. job[u].table = [copy[Live] EXCEPT !.active = 1 - @, !.len = ota[u].written, !.age = @ + 1]
    BY <2>1 DEF WithSlotSwapped
  <2>. QED BY <2>2, <2>3 DEF Table
<1>5. CASE copy' = [copy EXCEPT ![job[u].id] = job[u].table]
  <2>1. LiveImage' /\ Holds(copy[Live], img)'
    BY <1>1, <1>5, Published
  <2>. QED BY <1>1, <2>1 DEF OtaInv, SessionInv, ProgressInv, Writing
<1>6. CASE copy' = [copy EXCEPT ![job[u].id] = TornTable]
  <2>1. LiveImage' /\ SameBoot /\ copy'[job[u].id] = TornTable
    BY <1>1, <1>2, <1>3, <1>6, LiveAlone DEF OtaInv
  <2>. QED BY <1>1, <1>3, <1>4, <2>1 DEF OtaInv, SessionInv, ProgressInv, Writing
<1>. QED BY <1>5, <1>6 DEF WriteTable

\* A reset only touches the live table's retry byte.
LEMMA RebootInv ==
  ASSUME OtaInv, TypeOK', Reboot
  PROVE  OtaInv' /\ SameBoot
<1>1. /\ Live \in TableIds /\ Live # None /\ copy[Live] \in Table
      /\ Zero \in TableIds /\ One \in TableIds /\ copy[Zero] \in Table /\ copy[One] \in Table
  BY LiveFacts, LayoutFacts DEF OtaInv, TypeOK
<1>2. PICK mark \in {copy[Live].pending, TRUE} : copy' = [copy EXCEPT ![Live].pending = mark]
  BY <1>1 DEF Reboot
<1>3. \A id \in TableIds :
        /\ copy'[id].valid = copy[id].valid /\ copy'[id].age = copy[id].age
        /\ copy'[id].len = copy[id].len /\ copy'[id].active = copy[id].active
  <2>. SUFFICES ASSUME NEW id \in TableIds
                PROVE  /\ copy'[id].valid = copy[id].valid /\ copy'[id].age = copy[id].age
                       /\ copy'[id].len = copy[id].len /\ copy'[id].active = copy[id].active
    OBVIOUS
  <2>1. copy[id] \in Table
    BY DEF OtaInv, TypeOK
  <2>2. copy'[id] = IF id = Live THEN [copy[id] EXCEPT !.pending = mark] ELSE copy[id]
    BY <1>2 DEF OtaInv, TypeOK
  <2>. QED BY <2>1, <2>2 DEF Table
<1>4. Live' = Live
  BY <1>1, <1>3 DEF Live, ActiveId
<1>5. SameBoot /\ LiveImage'
  <2>1. cell' = cell
    BY DEF Reboot
  <2>2. SameBoot
    BY <1>1, <1>3, <1>4, <2>1 DEF SameBoot, Holds
  <2>3. copy'[Live'].len \in 1 .. MaxLen[copy'[Live'].active]
    BY <1>1, <1>3, <1>4 DEF OtaInv, LiveImage
  <2>. QED BY <1>1, <1>4, <2>2, <2>3 DEF OtaInv, LiveImage, SameBoot
<1>6. \A u \in Updaters : pc'[u] = "idle"
  BY DEF Reboot, Tasks
<1>. QED BY <1>5, <1>6 DEF OtaInv, SessionInv, ProgressInv, Writing

\* A live slot holds one image only, so what it holds is what boots.
LEMMA BootImageIs ==
  TypeOK /\ LiveImage => \A img \in Images : Holds(copy[Live], img) => BootImage = img
<1>. SUFFICES ASSUME TypeOK, LiveImage, NEW img \in Images, Holds(copy[Live], img)
              PROVE  BootImage = img
  OBVIOUS
<1>1. /\ Live # None /\ copy[Live].len \in Nat /\ copy[Live].len > 0
      /\ Start[copy[Live].active] \in Nat
  BY LiveFacts, LayoutFacts DEF LiveImage
<1>2. Start[copy[Live].active] \in SlotUnits(copy[Live].active, copy[Live].len)
  BY <1>1 DEF SlotUnits
<1>3. \A i \in Images : Holds(copy[Live], i) => i = img
  BY <1>2 DEF Holds
<1>. QED BY <1>1, <1>3 DEF BootImage

\* The same after a step.
LEMMA BootImageIsNext ==
  (TypeOK /\ LiveImage => \A img \in Images : Holds(copy[Live], img) => BootImage = img)'
BY BootImageIs, PTL

\* A step that keeps the image that boots keeps BootImage.
LEMMA SameBootImage ==
  ASSUME OtaInv, OtaInv', SameBoot
  PROVE  BootImage' = BootImage /\ BootImage \in Images
<1>1. PICK i \in Images : Holds(copy[Live], i)
  BY DEF OtaInv, LiveImage
<1>2. BootImage = i
  BY <1>1, BootImageIs DEF OtaInv
<1>3. Holds(copy[Live], i)'
  BY <1>1 DEF SameBoot
<1>4. BootImage' = i
  BY <1>3, BootImageIsNext DEF OtaInv
<1>. QED BY <1>2, <1>4

\* Every step keeps the invariant, and keeps the image that boots unless it
\* is the last write of a commit.
LEMMA OtaStep ==
  ASSUME SoleUpdater, AlignedSlots, OtaInv, TypeOK', [Next]_vars
  PROVE  /\ OtaInv'
         /\ SameBoot \/ \E u \in Updaters : WriteTable(u)
<1>0. Tasks = Updaters /\ Confirmers = {}
  BY DEF Tasks, SoleUpdater, OneUpdater
<1>1. ASSUME NEW u \in Updaters, UpdaterStep(u) PROVE OtaInv' /\ SameBoot
  BY <1>1, SessionStepInv, WriteEraseInv, WriteProgramInv DEF UpdaterStep, SoleUpdater
<1>2. ASSUME NEW u \in Updaters, EraseTable(u) PROVE OtaInv' /\ SameBoot
  BY <1>2, EraseTableInv DEF SoleUpdater
<1>3. ASSUME NEW u \in Updaters, WriteTable(u) PROVE OtaInv'
  <2>1. ota[u].img \in Images
    BY DEF OtaInv, TypeOK, Session
  <2>. QED BY <1>3, <2>1, WriteTableInv DEF SoleUpdater
<1>4. CASE Reboot
  BY <1>4, RebootInv
<1>5. CASE UNCHANGED vars
  <2>1. LiveImage' /\ SameBoot
    BY <1>5, QuietStep DEF vars
  <2>2. \A u \in Updaters : SessionInv(u)' /\ ProgressInv(u)'
    <3>. SUFFICES ASSUME NEW u \in Updaters PROVE SessionInv(u)' /\ ProgressInv(u)'
      OBVIOUS
    <3>1. Live' = Live /\ Target(u)' = Target(u) /\ Capacity(u)' = Capacity(u)
      BY <1>5 DEF vars, Live, Target, Capacity
    <3>2. SessionInv(u) /\ ProgressInv(u)
      BY DEF OtaInv
    <3>3. SessionInv(u)'
      BY <1>5, <3>1, <3>2 DEF vars, SessionInv
    <3>4. ProgressInv(u)'
      BY <1>5, <3>2 DEF vars, ProgressInv
    <3>. QED BY <3>3, <3>4
  <2>. QED BY <2>1, <2>2 DEF OtaInv
<1>. QED BY <1>0, <1>1, <1>2, <1>3, <1>4, <1>5 DEF Next

\* The inductive invariant, for one updating task and slots that start on
\* sector boundaries.
THEOREM OtaInvariant == SoleUpdater /\ AlignedSlots => (Spec => []OtaInv)
<1>. SUFFICES ASSUME SoleUpdater, AlignedSlots PROVE Spec => []OtaInv
  OBVIOUS
<1>1. Init /\ TypeOK => OtaInv
  BY OtaInvInit
<1>2. OtaInv /\ TypeOK' /\ [Next]_vars => OtaInv'
  BY OtaStep
<1>3. Spec => []TypeOK
  BY TypeCorrect
<1>. QED BY <1>1, <1>2, <1>3, PTL DEF Spec

\* Wherever flash calls fail and the power is cut, a reset finds a valid
\* table that names a slot holding one whole image.
THEOREM AlwaysBootable == SoleUpdater /\ AlignedSlots => (Spec => []Bootable)
<1>. SUFFICES ASSUME SoleUpdater, AlignedSlots PROVE Spec => []Bootable
  OBVIOUS
<1>1. OtaInv => Bootable
  <2>. SUFFICES ASSUME OtaInv PROVE Bootable
    OBVIOUS
  <2>1. PICK i \in Images : Holds(copy[Live], i)
    BY DEF OtaInv, LiveImage
  <2>2. BootImage = i
    BY <2>1, BootImageIs DEF OtaInv
  <2>. QED BY <2>2, OtaAssumption DEF Bootable
<1>2. Spec => []OtaInv
  BY OtaInvariant
<1>. QED BY <1>1, <1>2, PTL

\* When commit has written its table, the next boot runs the image it was
\* given.
THEOREM CommitsLand == SoleUpdater /\ AlignedSlots => (Spec => CommitLands)
<1>. SUFFICES ASSUME SoleUpdater, AlignedSlots PROVE Spec => CommitLands
  OBVIOUS
<1>. DEFINE Lands == \A u \in Updaters :
                       pc[u] = "write_table" /\ copy'[job[u].id] = job[u].table
                         => BootImage' = ota[u].img
<1>1. OtaInv /\ OtaInv' /\ [Next]_vars => [Lands]_vars
  <2>. SUFFICES ASSUME OtaInv, OtaInv', [Next]_vars,
                       NEW u \in Updaters, pc[u] = "write_table",
                       copy'[job[u].id] = job[u].table
                PROVE  UNCHANGED vars \/ BootImage' = ota[u].img
    OBVIOUS
  <2>1. ota[u].img \in Images
    BY DEF OtaInv, TypeOK, Session
  <2>2. CASE WriteTable(u)
    <3>2. PICK img \in Images : ota[u].img = img
      BY <2>1
    <3>3. Holds(copy[Live], img)'
      BY <2>2, <3>2, WriteTableInv DEF OtaInv, SoleUpdater
    <3>. QED BY <3>2, <3>3, BootImageIsNext DEF OtaInv
  <2>3. CASE ~WriteTable(u) /\ ~UNCHANGED vars
    <3>1. ~copy[job[u].id].valid /\ job[u].table.valid /\ job[u].id \in TableIds
      <4>1. /\ job[u].id = Other(Live) /\ ~copy[Other(Live)].valid
            /\ job[u].table = WithSlotSwapped(copy[Live], ota[u].written)
        BY DEF OtaInv, SessionInv, ProgressInv, Writing
      <4>2. copy[Live] \in Table /\ copy[Live].valid /\ Other(Live) \in TableIds
        BY LiveFacts DEF OtaInv
      <4>3. job[u].table = [copy[Live] EXCEPT !.active = 1 - @, !.len = ota[u].written, !.age = @ + 1]
        BY <4>1 DEF WithSlotSwapped
      <4>. QED BY <4>1, <4>2, <4>3 DEF Table
    <3>2. copy'[job[u].id].valid
      BY <3>1
    <3>3. CASE copy' = copy
      BY <3>1, <3>2, <3>3
    <3>4. CASE Reboot
      <4>1. Live \in TableIds /\ Live # None /\ Live # job[u].id
        BY <3>1, LiveFacts DEF OtaInv
      <4>2. copy'[job[u].id] = copy[job[u].id]
        BY <3>1, <3>4, <4>1 DEF Reboot, OtaInv, TypeOK
      <4>. QED BY <3>1, <3>2, <4>2
    <3>5. /\ ~EraseTable(u) /\ Tasks = Updaters /\ Confirmers = {} /\ \A v \in Updaters : v = u
      BY DEF EraseTable, At, Tasks, SoleUpdater, OneUpdater
    <3>6. copy' = copy \/ Reboot
      BY <2>3, <3>5 DEF Next, UpdaterStep, BeginReadZero, BeginReadOne, Abandon, WriteErase,
                        WriteProgram, Commit
    <3>. QED BY <3>3, <3>4, <3>6
  <2>. QED BY <2>2, <2>3
<1>2. Spec => []OtaInv
  BY OtaInvariant
<1>. QED BY <1>1, <1>2, PTL DEF Spec, CommitLands

\* The update implements ABUpdate: the image that boots is replaced in one
\* step, by the image a session was given, and by nothing else.
THEOREM ImplementsABUpdate == SoleUpdater /\ AlignedSlots => (Spec => Implements)
<1>. SUFFICES ASSUME SoleUpdater, AlignedSlots PROVE Spec => Implements
  OBVIOUS
<1>. DEFINE offer == [u \in Updaters |-> Offer(u)]
<1>1. Init /\ OtaInv => AB!ABInit
  <2>. SUFFICES ASSUME Init, OtaInv PROVE AB!ABInit
    OBVIOUS
  <2>1. \A u \in Updaters : pc[u] = "idle"
    BY DEF Init, Tasks
  <2>2. offer = [u \in Updaters |-> None]
    BY <2>1 DEF Offer, Writing
  <2>3. PICK len \in 1 .. MaxLen[0] :
          /\ copy = [id \in TableIds |->
                       IF id = Zero
                       THEN [valid |-> TRUE, age |-> 0, active |-> 0, len |-> len, pending |-> FALSE]
                       ELSE TornTable]
          /\ cell = [x \in Addr |-> IF x \in SlotUnits(0, len) THEN Factory ELSE Junk]
    BY DEF Init
  <2>4. Live = Zero /\ copy[Zero].active = 0 /\ copy[Zero].len = len
    BY <2>3, LayoutFacts DEF TornTable, Live, ActiveId
  <2>5. SlotUnits(0, len) \subseteq Addr
    BY <2>3, LayoutFacts DEF SlotUnits, Addr, Slots
  <2>6. Holds(copy[Live], Factory)
    BY <2>3, <2>4, <2>5 DEF Holds
  <2>7. BootImage = Factory
    BY <2>6, BootImageIs, OtaAssumption DEF OtaInv
  <2>. QED BY <2>2, <2>7 DEF AB!ABInit
<1>2. OtaInv /\ OtaInv' /\ [Next]_vars => [AB!ABNext]_<<BootImage, offer>>
  <2>. SUFFICES ASSUME OtaInv, OtaInv', [Next]_vars
                PROVE  AB!ABNext \/ (BootImage' = BootImage /\ offer' = offer)
    OBVIOUS
  <2>0. /\ Tasks = Updaters /\ Confirmers = {} /\ \A u, v \in Updaters : v = u
        /\ pc \in [Updaters -> {"idle", "begin", "open", "write", "confirm",
                                "erase_table", "write_table"}]
        /\ ota \in [Updaters -> Session]
        /\ None \notin Images
    BY OtaAssumption DEF Tasks, SoleUpdater, OneUpdater, OtaInv, TypeOK
  <2>1. SameBoot \/ \E u \in Updaters : WriteTable(u)
    BY OtaStep DEF OtaInv
  <2>2. SameBoot => BootImage' = BootImage
    BY SameBootImage
  <2>3. ASSUME NEW u \in Updaters, pc'[u] = "idle", BootImage' = BootImage
        PROVE  AB!ABNext
    <3>1. offer' = [offer EXCEPT ![u] = None]
      BY <2>0, <2>3 DEF Offer, Writing
    <3>. QED BY <2>3, <3>1 DEF AB!ABNext, AB!Discard
  <2>4. ASSUME NEW u \in Updaters, pc[u] \in Writing, pc'[u] \in Writing,
               ota'[u].img = ota[u].img
        PROVE  offer' = offer
    BY <2>0, <2>4 DEF Offer
  <2>5. ASSUME NEW u \in Updaters, UpdaterStep(u), SameBoot
        PROVE  AB!ABNext \/ (BootImage' = BootImage /\ offer' = offer)
    <3>1. CASE BeginReadZero(u)
      <4>1. pc[u] = "idle" /\ pc'[u] = "begin"
        BY <2>0, <3>1 DEF BeginReadZero, At, Goto
      <4>2. offer' = offer
        BY <2>0, <4>1 DEF Offer, Writing
      <4>. QED BY <2>2, <2>5, <4>2
    <3>2. CASE BeginReadOne(u)
      <4>1. CASE pc'[u] = "idle"
        BY <2>2, <2>3, <2>5, <4>1
      <4>2. CASE pc'[u] # "idle"
        <5>1. PICK img \in Images : pc' = [pc EXCEPT ![u] = "open"] /\ ota'[u].img = img
          BY <2>0, <3>2, <4>2 DEF BeginReadOne, Goto
        <5>2. pc[u] = "begin" /\ pc'[u] = "open"
          BY <2>0, <3>2, <5>1 DEF BeginReadOne, At
        <5>3. offer[u] = None /\ offer' = [offer EXCEPT ![u] = img]
          BY <2>0, <5>1, <5>2 DEF Offer, Writing
        <5>. QED BY <2>2, <2>5, <5>1, <5>3 DEF AB!ABNext, AB!Stage
      <4>. QED BY <4>1, <4>2
    <3>3. CASE Abandon(u)
      <4>1. pc'[u] = "idle"
        BY <2>0, <3>3 DEF Abandon, Goto
      <4>. QED BY <2>2, <2>3, <2>5, <4>1
    <3>4. CASE \E n \in 1 .. FlashLen : WriteErase(u, n)
      <4>1. pc[u] = "open" /\ pc'[u] \in {"open", "write"} /\ ota'[u].img = ota[u].img
        BY <2>0, <3>4 DEF WriteErase, At, Goto, Session
      <4>. QED BY <2>2, <2>4, <2>5, <4>1 DEF Writing
    <3>5. CASE WriteProgram(u)
      <4>1. pc[u] = "write" /\ pc'[u] = "open" /\ ota'[u].img = ota[u].img
        BY <2>0, <3>5 DEF WriteProgram, At, Goto, Session
      <4>. QED BY <2>2, <2>4, <2>5, <4>1 DEF Writing
    <3>6. CASE Commit(u)
      <4>1. CASE pc'[u] = "idle"
        BY <2>2, <2>3, <2>5, <4>1
      <4>2. CASE pc'[u] # "idle"
        <5>1. pc[u] = "open" /\ pc'[u] = "erase_table" /\ ota' = ota
          BY <2>0, <3>6, <4>2 DEF Commit, At, Goto
        <5>. QED BY <2>2, <2>4, <2>5, <5>1 DEF Writing
      <4>. QED BY <4>1, <4>2
    <3>. QED BY <2>5, <3>1, <3>2, <3>3, <3>4, <3>5, <3>6 DEF UpdaterStep
  <2>6. ASSUME NEW u \in Updaters, EraseTable(u)
        PROVE  AB!ABNext \/ (BootImage' = BootImage /\ offer' = offer)
    <3>1. BootImage' = BootImage
      BY <2>2, <2>6, EraseTableInv DEF OtaInv, SoleUpdater
    <3>2. CASE pc'[u] = "idle"
      BY <2>3, <3>1, <3>2
    <3>3. CASE pc'[u] # "idle"
      <4>1. pc[u] = "erase_table" /\ pc'[u] = "write_table" /\ ota' = ota
        BY <2>0, <2>6, <3>3 DEF EraseTable, At, Goto
      <4>. QED BY <2>4, <3>1, <4>1 DEF Writing
    <3>. QED BY <3>2, <3>3
  <2>7. ASSUME NEW u \in Updaters, WriteTable(u) PROVE AB!ABNext
    <3>1. PICK img \in Images : ota[u].img = img
      BY <2>0 DEF Session
    <3>2. pc[u] = "write_table" /\ pc'[u] = "idle"
      BY <2>0, <2>7 DEF WriteTable, At, Goto
    <3>3. CASE SameBoot
      BY <2>2, <2>3, <3>2, <3>3
    <3>4. CASE Holds(copy[Live], img)'
      <4>1. BootImage' = img
        BY <3>4, BootImageIsNext DEF OtaInv
      <4>2. offer[u] = img /\ offer' = [offer EXCEPT ![u] = None]
        BY <2>0, <3>1, <3>2 DEF Offer, Writing
      <4>. QED BY <2>0, <4>1, <4>2 DEF AB!ABNext, AB!Install
    <3>. QED BY <2>7, <3>1, <3>3, <3>4, WriteTableInv DEF OtaInv, SoleUpdater
  <2>8. CASE Reboot
    <3>1. BootImage' = BootImage
      BY <2>2, <2>8, RebootInv DEF OtaInv
    <3>2. offer' = [u \in Updaters |-> None]
      BY <2>0, <2>8 DEF Reboot, Offer, Writing
    <3>. QED BY <3>1, <3>2 DEF AB!ABNext, AB!LoseAll
  <2>9. CASE UNCHANGED vars
    <3>1. offer' = offer
      BY <2>9 DEF vars, Offer
    <3>2. BootImage' = BootImage
      BY <2>9 DEF vars, BootImage, Live, Holds
    <3>. QED BY <3>1, <3>2
  <2>. QED BY <2>0, <2>1, <2>5, <2>6, <2>7, <2>8, <2>9, OtaStep DEF Next, OtaInv
<1>3. Spec => []OtaInv
  BY OtaInvariant
<1>. QED BY <1>1, <1>2, <1>3, PTL DEF Spec, Implements, AB!ABSpec

-----------------------------------------------------------------------------
(* What an update spares, and confirm_boot beside it.                      *)

\* An update touches no unit of the slot that the table it read calls active,
\* which is the one the board boots ("the running image is never touched").
THEOREM UpdateSparesOtherSlot == SoleUpdater /\ AlignedSlots => (Spec => OtherSlotSpared)
<1>. SUFFICES ASSUME SoleUpdater, AlignedSlots PROVE Spec => OtherSlotSpared
  OBVIOUS
<1>. DEFINE Spared == \A u \in Updaters :
                        cell' # cell /\ ota[u].table.valid =>
                          LET s == ota[u].table.active
                          IN \A x \in SlotUnits(s, MaxLen[s]) : cell'[x] = cell[x]
<1>1. OtaInv /\ TypeOK' /\ [Next]_vars => [Spared]_vars
  <2>. SUFFICES ASSUME OtaInv, TypeOK', [Next]_vars, NEW u \in Updaters, cell' # cell
                PROVE  \A x \in SlotUnits(ota[u].table.active, MaxLen[ota[u].table.active]) :
                         cell'[x] = cell[x]
    OBVIOUS
  <2>1. \A v \in Updaters : v = u
    BY DEF SoleUpdater, OneUpdater
  <2>2. WriteProgram(u) \/ \E n \in 1 .. FlashLen : WriteErase(u, n)
    BY <2>1 DEF Next, vars, UpdaterStep, ConfirmerStep, BeginReadZero, BeginReadOne, Abandon,
                Commit, ConfirmReadZero, ConfirmReadOne, EraseTable, WriteTable, Reboot
  <2>3. pc[u] \in Writing /\ ota[u].table = copy[Live]
    BY <2>2 DEF WriteProgram, WriteErase, At, Writing, OtaInv, SessionInv
  <2>4. LiveSlotSpared
    BY <2>2, WriteProgramInv, WriteEraseInv DEF SoleUpdater
  <2>. QED BY <2>3, <2>4 DEF LiveSlotSpared
<1>2. Spec => []OtaInv /\ []TypeOK
  BY OtaInvariant, TypeCorrect, PTL
<1>. QED BY <1>1, <1>2, PTL DEF Spec, OtherSlotSpared

\* Updates and confirm_boot take turns and flash calls do not fail.
TakingTurns ==
  /\ ~Faults /\ ~ConfirmDuring
  /\ OneUpdater /\ \A c, d \in Confirmers : c = d

\* Copy id is erased, and table, which outvotes the other one, is to go there.
Rewriting(id, table) ==
  /\ ~copy[id].valid
  /\ table.valid /\ ~table.pending
  /\ copy[Other(id)].valid => copy[Other(id)].age < table.age
  /\ table.len \in 1 .. MaxLen[table.active]
  /\ \E i \in Images : Holds(table, i)

\* What confirm_boot has worked out between its steps.
ConfirmInv(c) ==
  /\ pc[c] = "confirm" => seen[c] = copy[Zero]
  /\ pc[c] = "erase_table" =>
       job[c].id = Live /\ job[c].table = WithBootConfirmed(copy[Live])
  /\ pc[c] = "write_table" => Rewriting(job[c].id, job[c].table)

\* The board boots but while confirm_boot has its copy erased, and then no
\* update is on its way.
TurnsInv ==
  /\ TypeOK
  /\ (\A c \in Confirmers : pc[c] # "write_table") => LiveImage
  /\ \A u \in Updaters : SessionInv(u) /\ ProgressInv(u)
  /\ \A c \in Confirmers : ConfirmInv(c)
  /\ (\E c \in Confirmers : pc[c] # "idle") => \A u \in Updaters : pc[u] = "idle"

\* Between confirmations the invariant is that of an update.
LEMMA QuietTurns ==
  /\ TurnsInv /\ (\A c \in Confirmers : pc[c] = "idle") => OtaInv
  /\ OtaInv /\ (\A c \in Confirmers : pc[c] = "idle") => TurnsInv
BY DEF TurnsInv, OtaInv, ConfirmInv

\* The same after a step.
LEMMA QuietTurnsNext ==
  (OtaInv /\ (\A c \in Confirmers : pc[c] = "idle") => TurnsInv)'
BY QuietTurns, PTL

\* An update runs only while no confirmation does.
LEMMA UpdaterTurn ==
  ASSUME TakingTurns, AlignedSlots, TurnsInv, TypeOK', NEW u \in Updaters,
         UpdaterStep(u) \/ EraseTable(u) \/ WriteTable(u)
  PROVE  TurnsInv' /\ \A c \in Confirmers : pc[c] = "idle"
<1>1. pc[u] = "idle" => BeginReadZero(u)
  BY DEF UpdaterStep, EraseTable, WriteTable, BeginReadOne, Abandon, WriteErase, WriteProgram,
         Commit, At
<1>2. \A c \in Confirmers : pc[c] = "idle"
  <2>1. CASE pc[u] = "idle"
    BY <1>1, <2>1 DEF BeginReadZero, TakingTurns
  <2>2. CASE pc[u] # "idle"
    BY <2>2 DEF TurnsInv
  <2>. QED BY <2>1, <2>2
<1>3. OtaInv
  BY <1>2, QuietTurns
<1>4. \A c \in Confirmers : pc'[c] = pc[c]
  <2>1. \/ pc' = pc \/ Goto(u, "idle") \/ Goto(u, "begin") \/ Goto(u, "open")
        \/ Goto(u, "write") \/ Goto(u, "erase_table") \/ Goto(u, "write_table")
    BY DEF UpdaterStep, EraseTable, WriteTable, BeginReadZero, BeginReadOne, Abandon,
           WriteErase, WriteProgram, Commit
  <2>. QED BY <2>1, OtaAssumption DEF Goto, TurnsInv, TypeOK, Tasks
<1>5. OtaInv'
  <2>1. CASE UpdaterStep(u)
    BY <1>3, <2>1, SessionStepInv, WriteEraseInv, WriteProgramInv DEF UpdaterStep, TakingTurns
  <2>2. CASE EraseTable(u)
    BY <1>3, <2>2, EraseTableInv DEF TakingTurns
  <2>3. CASE WriteTable(u)
    <3>1. ota[u].img \in Images
      BY <1>3 DEF OtaInv, TypeOK, Session
    <3>. QED BY <1>3, <2>3, <3>1, WriteTableInv DEF TakingTurns
  <2>. QED BY <2>1, <2>2, <2>3
<1>. QED BY <1>2, <1>4, <1>5, QuietTurnsNext

\* A table that outvotes the other copy becomes the live one.
LEMMA OutvotesOther ==
  ASSUME NEW id \in TableIds, copy \in [TableIds -> Table], NEW t \in Table, t.valid,
         copy[Other(id)].valid => copy[Other(id)].age < t.age,
         copy' = [copy EXCEPT ![id] = t]
  PROVE  Live' = id /\ copy'[id] = t
<1>1. /\ Zero \in TableIds /\ One \in TableIds /\ Zero # One /\ copy'[id] = t
      /\ copy[Zero] \in Table /\ copy[One] \in Table
  BY LayoutFacts
<1>2. /\ t.age \in Nat /\ copy[Zero].age \in Nat /\ copy[One].age \in Nat
      /\ copy[Zero].valid \in BOOLEAN /\ copy[One].valid \in BOOLEAN
  BY <1>1 DEF Table
<1>3. CASE id = Zero
  <2>1. copy'[Zero] = t /\ copy'[One] = copy[One] /\ Other(id) = One
    BY <1>1, <1>3 DEF Other
  <2>2. ActiveId(copy'[Zero], copy'[One]) = Zero
    BY <1>1, <1>2, <2>1 DEF ActiveId
  <2>. QED BY <1>1, <1>3, <2>2 DEF Live
<1>4. CASE id = One
  <2>1. copy'[One] = t /\ copy'[Zero] = copy[Zero] /\ Other(id) = Zero
    BY <1>1, <1>4 DEF Other
  <2>2. ActiveId(copy'[Zero], copy'[One]) = One
    BY <1>1, <1>2, <2>1 DEF ActiveId
  <2>. QED BY <1>1, <1>4, <2>2 DEF Live
<1>. QED BY <1>3, <1>4 DEF TableIds

\* Who is live is no younger than a valid other copy.
LEMMA LiveOutvotes ==
  ASSUME TypeOK, LiveImage
  PROVE  copy[Other(Live)].valid => copy[Other(Live)].age <= copy[Live].age
<1>1. /\ Live \in TableIds /\ Zero # One
      /\ copy[Zero] \in Table /\ copy[One] \in Table
  BY LiveFacts, LayoutFacts DEF TypeOK
<1>2. /\ copy[Zero].age \in Nat /\ copy[One].age \in Nat
      /\ copy[Zero].valid \in BOOLEAN /\ copy[One].valid \in BOOLEAN
  BY <1>1 DEF Table
<1>3. CASE Live = Zero
  <2>1. Other(Live) = One
    BY <1>3 DEF Other
  <2>2. ActiveId(copy[Zero], copy[One]) = Zero
    BY <1>3 DEF Live
  <2>3. copy[One].valid => copy[One].age <= copy[Zero].age
    BY <1>1, <1>2, <2>2, OtaAssumption DEF ActiveId, TableIds
  <2>. QED BY <1>3, <2>1, <2>3
<1>4. CASE Live = One
  <2>1. Other(Live) = Zero
    BY <1>1, <1>4 DEF Other
  <2>2. ActiveId(copy[Zero], copy[One]) = One
    BY <1>4 DEF Live
  <2>3. copy[Zero].valid => copy[Zero].age <= copy[One].age
    BY <1>1, <1>2, <2>2, OtaAssumption DEF ActiveId, TableIds
  <2>. QED BY <1>4, <2>1, <2>3
<1>. QED BY <1>1, <1>3, <1>4 DEF TableIds

\* A confirmation rewrites the live table with its retry byte clear, and is
\* the only one to write meanwhile.
LEMMA ConfirmerTurn ==
  ASSUME TakingTurns, TurnsInv, TypeOK', NEW c \in Confirmers,
         ConfirmerStep(c) \/ EraseTable(c) \/ WriteTable(c)
  PROVE  TurnsInv'
<1>1. /\ cell' = cell /\ c \in Tasks /\ c \notin Updaters /\ \A d \in Confirmers : d = c
      /\ ota \in [Updaters -> Session] /\ copy \in [TableIds -> Table]
      /\ job[c].id \in TableIds /\ job[c].table \in Table
  BY OtaAssumption DEF ConfirmerStep, ConfirmReadZero, ConfirmReadOne, EraseTable, WriteTable,
                       Tasks, TakingTurns, TurnsInv, TypeOK
<1>2. \A u \in Updaters : pc[u] = "idle"
  <2>1. CASE pc[c] = "idle"
    BY <2>1 DEF ConfirmerStep, ConfirmReadZero, ConfirmReadOne, EraseTable, WriteTable, At,
                TakingTurns
  <2>2. CASE pc[c] # "idle"
    BY <2>2 DEF TurnsInv
  <2>. QED BY <2>1, <2>2
<1>3. ASSUME NEW label, Goto(c, label)
      PROVE  pc'[c] = label /\ \A u \in Updaters : pc'[u] = "idle"
  BY <1>1, <1>2, <1>3 DEF Goto, TurnsInv, TypeOK, Tasks
<1>4. ASSUME \A u \in Updaters : pc'[u] = "idle", ConfirmInv(c)',
             pc'[c] # "write_table" => LiveImage'
      PROVE  TurnsInv'
  BY <1>1, <1>4 DEF TurnsInv, SessionInv, ProgressInv, Writing
<1>5. CASE ConfirmReadZero(c)
  <2>1. pc[c] = "idle" /\ copy' = copy /\ seen'[c] = copy[Zero] /\ Goto(c, "confirm")
    BY <1>1, <1>5 DEF ConfirmReadZero, At, TurnsInv, TypeOK
  <2>2. LiveImage'
    BY <1>1, <2>1, LiveKept DEF TurnsInv
  <2>3. ConfirmInv(c)'
    BY <1>3, <2>1 DEF ConfirmInv
  <2>. QED BY <1>3, <1>4, <2>1, <2>2, <2>3
<1>6. CASE ConfirmReadOne(c)
  <2>1. pc[c] = "confirm" /\ copy' = copy /\ seen[c] = copy[Zero] /\ LiveImage
    BY <1>1, <1>6 DEF ConfirmReadOne, At, TurnsInv, ConfirmInv
  <2>2. LiveImage' /\ Live' = Live
    BY <1>1, <2>1, LiveKept DEF TurnsInv
  <2>3. ActiveId(seen[c], copy[One]) = Live /\ Live \in TableIds /\ Live # None
    BY <2>1, LiveFacts DEF Live, TurnsInv
  <2>4. copy[Live] = IF Live = Zero THEN seen[c] ELSE copy[One]
    BY <2>1, <2>3 DEF TableIds
  <2>5. CASE Goto(c, "idle")
    BY <1>3, <1>4, <2>2, <2>5 DEF ConfirmInv
  <2>6. CASE /\ Goto(c, "erase_table")
             /\ job' = [job EXCEPT ![c] = [id |-> Live, table |-> WithBootConfirmed(copy[Live])]]
    <3>1. job'[c].id = Live /\ job'[c].table = WithBootConfirmed(copy[Live])
      BY <1>1, <2>6 DEF TurnsInv, TypeOK
    <3>2. ConfirmInv(c)'
      BY <1>3, <2>1, <2>2, <2>6, <3>1 DEF ConfirmInv
    <3>. QED BY <1>3, <1>4, <2>2, <2>6, <3>2
  <2>. QED BY <1>6, <2>3, <2>4, <2>5, <2>6 DEF ConfirmReadOne
<1>7. CASE EraseTable(c)
  <2>1. /\ pc[c] = "erase_table" /\ LiveImage /\ job[c].id = Live
        /\ job[c].table = WithBootConfirmed(copy[Live])
    BY <1>1, <1>7 DEF EraseTable, At, TurnsInv, ConfirmInv
  <2>2. /\ copy' = [copy EXCEPT ![Live] = TornTable] /\ job' = job /\ Goto(c, "write_table")
    BY <1>7, <2>1 DEF EraseTable, TakingTurns
  <2>3. PICK t \in Table : t = WithBootConfirmed(copy[Live])
    BY <1>1, <2>1
  <2>4. /\ Live \in TableIds /\ Live # None /\ copy[Live] \in Table /\ copy[Live].valid
        /\ Other(Live) \in TableIds /\ Other(Live) # Live
    BY <2>1, LiveFacts, LayoutFacts DEF TurnsInv
  <2>5. /\ t.valid /\ ~t.pending /\ t.age = copy[Live].age + 1
        /\ t.active = copy[Live].active /\ t.len = copy[Live].len
    BY <2>3, <2>4 DEF WithBootConfirmed, Table
  <2>6. copy'[Live] = TornTable /\ copy'[Other(Live)] = copy[Other(Live)] /\ ~TornTable.valid
    BY <1>1, <2>2, <2>4 DEF TornTable
  <2>7. copy'[Other(Live)].valid => copy'[Other(Live)].age < t.age
    <3>1. copy[Other(Live)].valid => copy[Other(Live)].age <= copy[Live].age
      BY <2>1, LiveOutvotes DEF TurnsInv
    <3>2. copy[Other(Live)].age \in Nat /\ copy[Live].age \in Nat
      BY <1>1, <2>4 DEF Table
    <3>. QED BY <2>5, <2>6, <3>1, <3>2
  <2>8. \E i \in Images : \A x \in SlotUnits(t.active, t.len) : cell'[x] = i
    BY <1>1, <2>1, <2>5 DEF LiveImage, Holds
  <2>9. PICK id \in TableIds : id = Live
    BY <2>4
  <2>10. /\ ~copy'[id].valid /\ t.valid /\ ~t.pending
         /\ copy'[Other(id)].valid => copy'[Other(id)].age < t.age
         /\ t.len \in 1 .. MaxLen[t.active]
    BY <2>1, <2>5, <2>6, <2>7, <2>9 DEF LiveImage
  <2>11. job'[c].id = id /\ job'[c].table = t
    BY <2>1, <2>2, <2>3, <2>9
  <2>12. ConfirmInv(c)'
    <3>1. pc'[c] = "write_table"
      BY <1>3, <2>2
    <3>2. Rewriting(job[c].id, job[c].table)'
      BY <2>8, <2>10, <2>11 DEF Rewriting, Holds
    <3>. QED BY <3>1, <3>2 DEF ConfirmInv
  <2>. QED BY <1>3, <1>4, <2>2, <2>12
<1>8. CASE WriteTable(c)
  <2>1. /\ pc[c] = "write_table" /\ Rewriting(job[c].id, job[c].table) /\ Goto(c, "idle")
        /\ copy' = [copy EXCEPT ![job[c].id] = job[c].table]
    BY <1>1, <1>8 DEF WriteTable, At, TurnsInv, ConfirmInv, TakingTurns
  <2>2. Live' = job[c].id /\ copy'[job[c].id] = job[c].table
    BY <1>1, <2>1, OutvotesOther DEF Rewriting
  <2>3. LiveImage'
    BY <1>1, <2>1, <2>2 DEF LiveImage, Rewriting, Holds
  <2>. QED BY <1>3, <1>4, <2>1, <2>3 DEF ConfirmInv
<1>. QED BY <1>5, <1>6, <1>7, <1>8 DEF ConfirmerStep

LEMMA TurnsStep ==
  ASSUME TakingTurns, AlignedSlots, TurnsInv, TypeOK', [Next]_vars
  PROVE  TurnsInv'
<1>1. ASSUME NEW u \in Updaters, UpdaterStep(u) \/ EraseTable(u) \/ WriteTable(u)
      PROVE  TurnsInv'
  BY <1>1, UpdaterTurn
<1>2. ASSUME NEW c \in Confirmers, ConfirmerStep(c) \/ EraseTable(c) \/ WriteTable(c)
      PROVE  TurnsInv'
  BY <1>2, ConfirmerTurn
<1>3. CASE Reboot
  <2>1. \A p \in Tasks : pc[p] \in {"idle", "open"}
    BY <1>3 DEF Reboot, TakingTurns
  <2>2. OtaInv
    BY <2>1 DEF TurnsInv, OtaInv, Tasks
  <2>3. \A c \in Confirmers : pc'[c] = "idle"
    BY <1>3 DEF Reboot, Tasks
  <2>. QED BY <1>3, <2>2, <2>3, RebootInv, QuietTurnsNext
<1>4. CASE UNCHANGED vars
  <2>1. /\ copy' = copy /\ cell' = cell /\ pc' = pc /\ seen' = seen /\ ota' = ota
        /\ chunk' = chunk /\ job' = job
    BY <1>4 DEF vars
  <2>2. Live' = Live /\ (LiveImage' <=> LiveImage)
    BY <2>1 DEF Live, LiveImage, Holds
  <2>3. \A u \in Updaters : SessionInv(u)' /\ ProgressInv(u)'
    <3>1. \A u \in Updaters : SessionInv(u) /\ ProgressInv(u)
      BY DEF TurnsInv
    <3>2. \A u \in Updaters : SessionInv(u)'
      BY <2>1, <2>2, <3>1 DEF SessionInv, Target, Capacity
    <3>3. \A u \in Updaters : ProgressInv(u)'
      BY <2>1, <3>1 DEF ProgressInv
    <3>. QED BY <3>2, <3>3
  <2>4. \A c \in Confirmers : ConfirmInv(c)'
    BY <2>1, <2>2 DEF TurnsInv, ConfirmInv, Rewriting, Holds
  <2>. QED BY <2>1, <2>2, <2>3, <2>4 DEF TurnsInv
<1>. QED BY <1>1, <1>2, <1>3, <1>4 DEF Next, Tasks

LEMMA TurnsInvariant ==
  ASSUME TakingTurns, AlignedSlots PROVE Spec => []TurnsInv
<1>1. Init /\ TypeOK => TurnsInv
  <2>. SUFFICES ASSUME Init, TypeOK PROVE TurnsInv
    OBVIOUS
  <2>1. OtaInv
    BY OtaInvInit
  <2>2. \A c \in Confirmers : pc[c] = "idle"
    BY DEF Init, Tasks
  <2>. QED BY <2>1, <2>2, QuietTurns
<1>2. TurnsInv /\ TypeOK' /\ [Next]_vars => TurnsInv'
  BY TurnsStep
<1>3. Spec => []TypeOK
  BY TypeCorrect
<1>. QED BY <1>1, <1>2, <1>3, PTL DEF Spec

\* Where confirm_boot and updates take turns and flash calls do not fail, a
\* reset between operations finds a whole image: confirm_boot rewrites the live
\* copy in place, and leaves the board bootable when it is done.
THEOREM BootableBetween ==
  ASSUME TakingTurns, AlignedSlots PROVE Spec => []QuietBootable
<1>1. TurnsInv => QuietBootable
  <2>. SUFFICES ASSUME TurnsInv, \A p \in Tasks : pc[p] # "write_table" PROVE BootImage # None
    BY DEF QuietBootable
  <2>1. LiveImage /\ TypeOK
    BY DEF TurnsInv, Tasks
  <2>2. PICK i \in Images : Holds(copy[Live], i)
    BY <2>1 DEF LiveImage
  <2>3. BootImage = i
    BY <2>1, <2>2, BootImageIs
  <2>. QED BY <2>3, OtaAssumption
<1>. QED BY <1>1, TurnsInvariant, PTL

\* Once confirm_boot has written its table, that is the one the next boot reads,
\* and its retry byte is clear: no older copy undoes the confirmation.
THEOREM ConfirmationSticks ==
  ASSUME TakingTurns, AlignedSlots PROVE Spec => ConfirmSticks
<1>. DEFINE Sticks == \A c \in Confirmers :
                        pc[c] = "write_table" /\ copy'[job[c].id] = job[c].table
                          => Live' = job[c].id /\ ~copy'[job[c].id].pending
<1>1. TurnsInv /\ TypeOK' /\ [Next]_vars => [Sticks]_vars
  <2>. SUFFICES ASSUME TurnsInv, [Next]_vars, NEW c \in Confirmers, pc[c] = "write_table",
                       copy'[job[c].id] = job[c].table, ~UNCHANGED vars
                PROVE  Live' = job[c].id /\ ~copy'[job[c].id].pending
    OBVIOUS
  <2>1. /\ Rewriting(job[c].id, job[c].table) /\ \A u \in Updaters : pc[u] = "idle"
        /\ \A d \in Confirmers : d = c
        /\ job[c].id \in TableIds /\ job[c].table \in Table /\ copy \in [TableIds -> Table]
    BY DEF TurnsInv, ConfirmInv, TakingTurns, TypeOK, Tasks
  <2>2. copy' # copy
    BY <2>1 DEF Rewriting
  <2>3. WriteTable(c)
    <3>1. ~Reboot
      BY DEF Reboot, TakingTurns, Tasks
    <3>2. \A u \in Updaters : ~UpdaterStep(u) \/ copy' = copy
      BY DEF UpdaterStep, BeginReadZero, BeginReadOne, Abandon, WriteErase, WriteProgram, Commit
    <3>3. \A d \in Confirmers : ~ConfirmerStep(d) \/ copy' = copy
      BY DEF ConfirmerStep, ConfirmReadZero, ConfirmReadOne
    <3>4. \A p \in Tasks : ~EraseTable(p) /\ (WriteTable(p) => p = c)
      BY <2>1 DEF EraseTable, WriteTable, At, Tasks
    <3>. QED BY <2>2, <3>1, <3>2, <3>3, <3>4 DEF Next
  <2>4. copy' = [copy EXCEPT ![job[c].id] = job[c].table]
    BY <2>3 DEF WriteTable, TakingTurns
  <2>5. Live' = job[c].id
    BY <2>1, <2>4, OutvotesOther DEF Rewriting
  <2>. QED BY <2>1, <2>5 DEF Rewriting
<1>2. Spec => []TurnsInv /\ []TypeOK
  BY TurnsInvariant, TypeCorrect, PTL
<1>. QED BY <1>1, <1>2, PTL DEF Spec, ConfirmSticks
=============================================================================
