-------------------------------- MODULE Ota ---------------------------------
(***************************************************************************)
(* Over-the-air updates against the two firmware slots Boot2 knows about:  *)
(* bl616-pt (the partition table and its two copies), bl616-wifi/src/ota   *)
(* (Ota::begin, write, commit and confirm_boot) and flash (raw NOR flash). *)
(*                                                                         *)
(* A task that updates is a member of Updaters, a task that calls          *)
(* confirm_boot a member of Confirmers.  Each flash call is one step, so   *)
(* the tasks interleave between flash calls; a flash call may fail half    *)
(* way and the power may be cut between any two of them.  A cut in the     *)
(* middle of a call is a failed call followed by Reboot.                   *)
(*                                                                         *)
(* Flash is measured in units: SectorSize of them make an erase sector.    *)
(* A table is reduced to the fields the code changes or compares; valid    *)
(* says whether Table::parse accepts the bytes.                            *)
(***************************************************************************)
EXTENDS Integers, FiniteSets

CONSTANTS
  Updaters,       \* tasks that call Ota::begin, write and commit
  Confirmers,     \* tasks that call confirm_boot
  Images,         \* firmware images an application may install
  Factory,        \* the image the flashing tool put in slot 0
  Start, MaxLen,  \* slot -> first unit, length (Entry.start_address, max_len)
  SectorSize,     \* units in one erase sector
  FlashLen,       \* units of flash modelled
  MaxAge,         \* bound: nothing is begun once a table has this age
  Faults,         \* may flash calls fail and the power be cut mid-operation?
  ConfirmDuring,  \* may confirm_boot run while an Ota value is alive?
  Zero, One,      \* the two copies of the table
  Blank, Junk,    \* an erased unit, a unit holding no image's byte
  None            \* no table, no image, nothing running

Slots    == {0, 1}
TableIds == {Zero, One}
Tasks    == Updaters \cup Confirmers
Addr     == 0 .. FlashLen - 1

ASSUME OtaAssumption ==
  /\ Updaters \cap Confirmers = {}
  /\ SectorSize \in Nat \ {0}
  /\ FlashLen \in Nat
  /\ MaxAge \in Nat
  /\ Start \in [Slots -> Nat]
  /\ MaxLen \in [Slots -> Nat]
  /\ MaxLen[0] > 0
  /\ \A s \in Slots : Start[s] + MaxLen[s] <= FlashLen
  /\ Factory \in Images
  /\ Faults \in BOOLEAN /\ ConfirmDuring \in BOOLEAN
  /\ Zero # One /\ None \notin TableIds
  /\ Images \cap {Blank, Junk, None} = {}
  /\ Blank # Junk

VARIABLES
  copy,     \* the two table copies at 0xE000 and 0xF000
  cell,     \* the flash that holds the slots
  running,  \* the slot this boot was loaded from, None if nothing booted
  pc,       \* where each task is inside the operation it called
  seen,     \* copy Zero, as a task that is reading the tables saw it
  ota,      \* each task's Ota value
  chunk,    \* units of the write in progress
  job       \* the table a task is publishing, and to which copy

vars == <<copy, cell, running, pc, seen, ota, chunk, job>>

-----------------------------------------------------------------------------
(* The partition table (bl616-pt).                                         *)

Table == [valid : BOOLEAN, age : Nat, active : Slots, len : Nat, pending : BOOLEAN]

TornTable == [valid |-> FALSE, age |-> 0, active |-> 0, len |-> 0, pending |-> FALSE]

\* Mutant: publish over the copy the update was read from.
OtherSame(id) == id

Other(id) == IF id = Zero THEN One ELSE Zero

\* The entry's spare slot; one of length 0 is a slot the layout does not have.
\* Mutant: the complement is forgotten.
SpareActive(table) == table.active

Spare(table) == 1 - table.active

\* The higher age wins, a tie goes to copy Zero, an invalid copy never wins.
ActiveId(zero, one) ==
  CASE zero.valid /\ (one.valid => zero.age >= one.age) -> Zero
    [] one.valid /\ (zero.valid => one.age > zero.age)  -> One
    [] ~zero.valid /\ ~one.valid                         -> None

\* Mutant: the index is incremented without the mask.
SwappedUnmasked(table, len) ==
  [table EXCEPT !.active = @ + 1, !.len = len, !.age = @ + 1]

\* Mutant: the age is not bumped.
SwappedSameAge(table, len) == [table EXCEPT !.active = 1 - @, !.len = len]

WithSlotSwapped(table, len) ==
  [table EXCEPT !.active = 1 - @, !.len = len, !.age = @ + 1]

\* Mutant: the retry byte is left as it was.
ConfirmedStillPending(table) == [table EXCEPT !.age = @ + 1]

\* Mutant: built on the swap, so it also moves to the other slot.
ConfirmedSwapped(table) ==
  [table EXCEPT !.pending = FALSE, !.age = @ + 1, !.active = 1 - @]

WithBootConfirmed(table) == [table EXCEPT !.pending = FALSE, !.age = @ + 1]

Live == ActiveId(copy[Zero], copy[One])

-----------------------------------------------------------------------------
(* NOR flash: an erase takes whole sectors, a write only clears bits.      *)

Sector(a) == a \div SectorSize

\* The units an erase of n units from a clears.
Erased(a, n) == {x \in Addr : \E y \in a .. a + n - 1 : Sector(x) = Sector(y)}

Programmed(old, img) == IF old \in {Blank, img} THEN img ELSE Junk

EraseFlash(a, n) == [x \in Addr |-> IF x \in Erased(a, n) THEN Blank ELSE cell[x]]

\* An erase that failed: units below cut were lost, the others survived.
SpoilFlash(a, n, cut) ==
  [x \in Addr |-> IF x \in Erased(a, n) /\ x < cut THEN Junk ELSE cell[x]]

ProgramFlash(a, n, img) ==
  [x \in Addr |-> IF x \in a .. a + n - 1 THEN Programmed(cell[x], img) ELSE cell[x]]

-----------------------------------------------------------------------------
(* What a reset boots.                                                     *)

SlotUnits(s, len) == Start[s] .. Start[s] + len - 1

Holds(table, img) == \A x \in SlotUnits(table.active, table.len) : cell[x] = img

\* The image the next reset boots, None if it boots no whole image.
BootImage ==
  IF Live = None THEN None
  ELSE IF \E i \in Images : Holds(copy[Live], i)
       THEN CHOOSE i \in Images : Holds(copy[Live], i)
       ELSE None

-----------------------------------------------------------------------------

NoSession == [id |-> Zero, table |-> TornTable, img |-> Factory, erased |-> 0, written |-> 0]
NoJob     == [id |-> Zero, table |-> TornTable]

\* The flashing tool writes copy Zero only; the other copy is blank.
Init ==
  /\ \E len \in 1 .. MaxLen[0] :
       /\ copy = [id \in TableIds |->
                    IF id = Zero
                    THEN [valid |-> TRUE, age |-> 0, active |-> 0, len |-> len, pending |-> FALSE]
                    ELSE TornTable]
       /\ cell = [x \in Addr |-> IF x \in SlotUnits(0, len) THEN Factory ELSE Junk]
  /\ running = 0
  /\ pc = [p \in Tasks |-> "idle"]
  /\ seen = [p \in Tasks |-> TornTable]
  /\ ota = [u \in Updaters |-> NoSession]
  /\ chunk = [u \in Updaters |-> 0]
  /\ job = [p \in Tasks |-> NoJob]

Goto(p, label) == pc' = [pc EXCEPT ![p] = label]

\* Bound: publishing stops when a copy has reached MaxAge.
BelowMaxAge == \A id \in TableIds : copy[id].age < MaxAge

At(p, label) == running # None /\ pc[p] = label

(* Ota::begin: read copy Zero, then copy One, then pick the live table.    *)
(* A read that fails ends begin with an error and changes nothing: it is   *)
(* an update that was never begun.                                         *)

BeginReadZero(u) ==
  /\ At(u, "idle")
  /\ BelowMaxAge
  /\ ConfirmDuring \/ \A c \in Confirmers : pc[c] = "idle"
  /\ seen' = [seen EXCEPT ![u] = copy[Zero]]
  /\ Goto(u, "begin")
  /\ UNCHANGED <<copy, cell, running, ota, chunk, job>>

BeginReadOne(u) ==
  LET id    == ActiveId(seen[u], copy[One])
      table == IF id = Zero THEN seen[u] ELSE copy[One]
  IN
  /\ At(u, "begin")
  /\ IF id # None /\ MaxLen[Spare(table)] > 0
     THEN \E img \in Images :
            /\ ota' = [ota EXCEPT ![u] = [id |-> id, table |-> table, img |-> img,
                                          erased |-> 0, written |-> 0]]
            /\ Goto(u, "open")
     ELSE UNCHANGED ota /\ Goto(u, "idle")
  /\ seen' = [seen EXCEPT ![u] = TornTable]
  /\ UNCHANGED <<copy, cell, running, chunk, job>>

\* The caller drops the Ota value.
Abandon(u) ==
  /\ At(u, "open")
  /\ ota' = [ota EXCEPT ![u] = NoSession]
  /\ Goto(u, "idle")
  /\ UNCHANGED <<copy, cell, running, seen, chunk, job>>

(* Ota::write: bounds, erase_through, then flash::write.                   *)

Target(u)   == Start[Spare(ota[u].table)]
Capacity(u) == MaxLen[Spare(ota[u].table)]

\* Mutant: rounded down.
WantedDown(u, end) == (end \div SectorSize) * SectorSize

\* end rounded up to a whole sector, clamped to the slot.
Wanted(u, end) ==
  LET up == ((end + SectorSize - 1) \div SectorSize) * SectorSize
  IN IF up < Capacity(u) THEN up ELSE Capacity(u)

WriteErase(u, n) ==
  LET end  == ota[u].written + n
      from == Target(u) + ota[u].erased
      more == Wanted(u, end) - ota[u].erased
  IN
  /\ At(u, "open")
  /\ end <= Capacity(u)
  /\ \/ /\ end <= ota[u].erased
        /\ chunk' = [chunk EXCEPT ![u] = n]
        /\ Goto(u, "write")
        /\ UNCHANGED <<cell, ota>>
     \/ /\ end > ota[u].erased
        /\ cell' = EraseFlash(from, more)
        /\ ota' = [ota EXCEPT ![u].erased = Wanted(u, end)]
        /\ chunk' = [chunk EXCEPT ![u] = n]
        /\ Goto(u, "write")
     \/ /\ end > ota[u].erased
        /\ Faults
        /\ \E cut \in 0 .. FlashLen : cell' = SpoilFlash(from, more, cut)
        /\ UNCHANGED <<pc, ota, chunk>>
  /\ UNCHANGED <<copy, running, seen, job>>

\* flash::write: on failure the first k units may have been programmed.
WriteProgram(u) ==
  LET at == Target(u) + ota[u].written
  IN
  /\ At(u, "write")
  /\ \/ /\ cell' = ProgramFlash(at, chunk[u], ota[u].img)
        /\ ota' = [ota EXCEPT ![u].written = @ + chunk[u]]
     \/ /\ Faults
        /\ \E k \in 0 .. chunk[u] : cell' = ProgramFlash(at, k, ota[u].img)
        /\ UNCHANGED ota
  /\ chunk' = [chunk EXCEPT ![u] = 0]
  /\ Goto(u, "open")
  /\ UNCHANGED <<copy, running, seen, job>>

(* Ota::commit consumes the value; write_table follows.                    *)

Commit(u) ==
  /\ At(u, "open")
  /\ IF ota[u].written = 0
     THEN Goto(u, "idle") /\ ota' = [ota EXCEPT ![u] = NoSession] /\ UNCHANGED job
     ELSE /\ job' = [job EXCEPT ![u] = [id    |-> Other(ota[u].id),
                                        table |-> WithSlotSwapped(ota[u].table, ota[u].written)]]
          /\ Goto(u, "erase_table")
          /\ UNCHANGED ota
  /\ UNCHANGED <<copy, cell, running, seen, chunk>>

(* confirm_boot: read both copies, clear the retry byte, write_table over  *)
(* the copy it came from.                                                  *)

ConfirmReadZero(c) ==
  /\ At(c, "idle")
  /\ BelowMaxAge
  /\ ConfirmDuring \/ \A u \in Updaters : pc[u] = "idle"
  /\ seen' = [seen EXCEPT ![c] = copy[Zero]]
  /\ Goto(c, "confirm")
  /\ UNCHANGED <<copy, cell, running, ota, chunk, job>>

ConfirmReadOne(c) ==
  LET id    == ActiveId(seen[c], copy[One])
      table == IF id = Zero THEN seen[c] ELSE copy[One]
  IN
  /\ At(c, "confirm")
  /\ IF id # None /\ table.pending
     THEN /\ job' = [job EXCEPT ![c] = [id |-> id, table |-> WithBootConfirmed(table)]]
          /\ Goto(c, "erase_table")
     ELSE UNCHANGED job /\ Goto(c, "idle")
  /\ seen' = [seen EXCEPT ![c] = TornTable]
  /\ UNCHANGED <<copy, cell, running, ota, chunk>>

(* write_table: erase the sector, write the table into it.                 *)

EndSession(p) == ota' = [u \in Updaters |-> IF u = p THEN NoSession ELSE ota[u]]

EraseTable(p) ==
  /\ At(p, "erase_table")
  /\ \/ /\ copy' = [copy EXCEPT ![job[p].id] = TornTable]
        /\ Goto(p, "write_table")
        /\ UNCHANGED <<job, ota>>
     \/ /\ Faults
        /\ copy' \in {copy, [copy EXCEPT ![job[p].id] = TornTable]}
        /\ Goto(p, "idle")
        /\ job' = [job EXCEPT ![p] = NoJob]
        /\ EndSession(p)
  /\ UNCHANGED <<cell, running, seen, chunk>>

WriteTable(p) ==
  /\ At(p, "write_table")
  /\ \/ copy' = [copy EXCEPT ![job[p].id] = job[p].table]
     \/ Faults /\ copy' = [copy EXCEPT ![job[p].id] = TornTable]
  /\ Goto(p, "idle")
  /\ job' = [job EXCEPT ![p] = NoJob]
  /\ EndSession(p)
  /\ UNCHANGED <<cell, running, seen, chunk>>

(* Reset, ordered or by a power cut: RAM is lost, Boot2 loads the live     *)
(* slot and may count the attempt in its retry byte.                       *)
Reboot ==
  /\ Faults \/ \A p \in Tasks : pc[p] \in {"idle", "open"}
  /\ IF Live = None
     THEN running' = None /\ UNCHANGED copy
     ELSE /\ running' = copy[Live].active
          /\ \E mark \in {copy[Live].pending, TRUE} :
               copy' = [copy EXCEPT ![Live].pending = mark]
  /\ pc' = [p \in Tasks |-> "idle"]
  /\ seen' = [p \in Tasks |-> TornTable]
  /\ ota' = [u \in Updaters |-> NoSession]
  /\ chunk' = [u \in Updaters |-> 0]
  /\ job' = [p \in Tasks |-> NoJob]
  /\ UNCHANGED cell

UpdaterStep(u) ==
  \/ BeginReadZero(u) \/ BeginReadOne(u) \/ Abandon(u)
  \/ \E n \in 1 .. FlashLen : WriteErase(u, n)
  \/ WriteProgram(u) \/ Commit(u)

ConfirmerStep(c) == ConfirmReadZero(c) \/ ConfirmReadOne(c)

Next ==
  \/ \E u \in Updaters : UpdaterStep(u)
  \/ \E c \in Confirmers : ConfirmerStep(c)
  \/ \E p \in Tasks : EraseTable(p) \/ WriteTable(p)
  \/ Reboot

Spec == Init /\ [][Next]_vars

-----------------------------------------------------------------------------
(* Properties.                                                             *)

Session == [id : TableIds, table : Table, img : Images, erased : Nat, written : Nat]

\* Every variable keeps its type.
TypeOK ==
  /\ copy \in [TableIds -> Table]
  /\ cell \in [Addr -> Images \cup {Blank, Junk}]
  /\ running \in Slots \cup {None}
  /\ pc \in [Tasks -> {"idle", "begin", "open", "write", "confirm", "erase_table", "write_table"}]
  /\ seen \in [Tasks -> Table]
  /\ ota \in [Updaters -> Session]
  /\ chunk \in [Updaters -> Nat]
  /\ job \in [Tasks -> [id : TableIds, table : Table]]

\* Whatever fails and wherever the power is cut, a reset finds a valid table
\* and a whole image in the slot it names: "There is no state in between that
\* boots neither" (Ota::commit).
Bootable == BootImage # None

\* When commit has written its table, the next boot runs the image it was
\* given (the module doc's "the next boot runs it").
CommitLands ==
  [][\A u \in Updaters :
       pc[u] = "write_table" /\ copy'[job[u].id] = job[u].table
         => BootImage' = ota[u].img]_vars

\* An update touches no unit of the slot it is not writing, in particular
\* none of the slot the table it read calls active ("the running image is
\* never touched").
OtherSlotSpared ==
  [][\A u \in Updaters :
       cell' # cell /\ ota[u].table.valid =>
         LET s == ota[u].table.active
         IN \A x \in SlotUnits(s, MaxLen[s]) : cell'[x] = cell[x]]_vars

\* No step of a task changes the slot the running program was booted from and
\* executes from ("the running image is never touched").
RunningImageSpared ==
  [][running # None => \A x \in SlotUnits(running, MaxLen[running]) : cell'[x] = cell[x]]_vars

\* Once confirm_boot has written its table, that table is the one the next
\* boot reads and its retry byte is clear: the confirmation is not undone by
\* the older copy winning.
ConfirmSticks ==
  [][\A c \in Confirmers :
       pc[c] = "write_table" /\ copy'[job[c].id] = job[c].table
         => Live' = job[c].id /\ ~copy'[job[c].id].pending]_vars

\* Between operations a reset always finds a whole image: confirm_boot's
\* rewrite of the live copy in place leaves the board bootable when it is
\* not interrupted.
QuietBootable == (\A p \in Tasks : pc[p] # "write_table") => BootImage # None

\* Where a task holds an Ota value.
Writing == {"open", "write", "erase_table", "write_table"}

\* The update as a whole implements ABUpdate: boots is what a reset would
\* boot, and an updater's offer is the image of its Ota value.  Erasing,
\* writing, failing and resetting are invisible; only the last write of
\* commit replaces the image.
Offer(u) == IF pc[u] \in Writing THEN ota[u].img ELSE None

AB == INSTANCE ABUpdate WITH
        boots <- BootImage, offer <- [u \in Updaters |-> Offer(u)], NoImage <- None

Implements == AB!ABSpec

-----------------------------------------------------------------------------
(* The inductive invariant of a board with one updating task and slots     *)
(* that start on sector boundaries.                                        *)

\* At most one Ota value.
OneUpdater == \A u, v \in Updaters : u = v

\* And confirm_boot is not called.
SoleUpdater == Confirmers = {} /\ OneUpdater

\* Each slot starts a sector and the slots do not overlap.
AlignedSlots ==
  /\ \A s \in Slots : Start[s] % SectorSize = 0
  /\ Start[0] + MaxLen[0] <= Start[1] \/ Start[1] + MaxLen[1] <= Start[0]

\* A valid copy is live and its slot holds one whole image.
LiveImage ==
  /\ Live \in TableIds
  /\ copy[Live].len \in 1 .. MaxLen[copy[Live].active]
  /\ \E i \in Images : Holds(copy[Live], i)

\* An Ota value still describes the live table; its slot is erased a whole
\* number of sectors ahead and holds the image as far as it was written.
SessionInv(u) ==
  pc[u] \in Writing =>
    /\ ota[u].id = Live
    /\ ota[u].table = copy[Live]
    /\ ota[u].written <= ota[u].erased
    /\ ota[u].erased <= Capacity(u)
    /\ ota[u].erased = Capacity(u) \/ ota[u].erased % SectorSize = 0
    /\ \A x \in Target(u) .. Target(u) + ota[u].written - 1 : cell[x] = ota[u].img
    /\ \A x \in Target(u) + ota[u].written .. Target(u) + ota[u].erased - 1 :
         cell[x] \in {Blank, ota[u].img}

\* Between its steps an operation keeps what it has worked out.
ProgressInv(u) ==
  /\ pc[u] = "begin" => seen[u] = copy[Zero]
  /\ pc[u] = "write" => ota[u].written + chunk[u] <= ota[u].erased
  /\ pc[u] \in {"erase_table", "write_table"} =>
       /\ ota[u].written > 0
       /\ job[u].id = Other(ota[u].id)
       /\ job[u].table = WithSlotSwapped(ota[u].table, ota[u].written)
  /\ pc[u] = "write_table" => ~copy[Other(ota[u].id)].valid

OtaInv ==
  /\ TypeOK
  /\ LiveImage
  /\ \A u \in Updaters : SessionInv(u) /\ ProgressInv(u)

=============================================================================
