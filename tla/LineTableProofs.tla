--------------------------- MODULE LineTableProofs ---------------------------
(***************************************************************************)
(* Proofs about LineTable: for any number of units, files, addresses and   *)
(* rows, and versions 2 to 4 of the format, --source names the file and    *)
(* line the compiler meant.  In version 5 the file register starts at 0    *)
(* where the format says 1 (FirstFile against Start), so the hypothesis on *)
(* Version is needed.                                                      *)
(***************************************************************************)
EXTENDS LineTable, FiniteSetTheorems, TLAPS

TypeOK ==
  /\ pc \in {"program", "sorted"} /\ unit \in 1..Units
  /\ address \in Addresses
  /\ rows \subseteq Rows /\ IsFiniteSet(rows)
  /\ phase \in {"begun", "placed", "open"}
  /\ meant \in [line : 0..MaxLine, file : Files]
  /\ truth \in [Addresses -> Locations \cup {Nowhere}]

\* roe's registers hold what the compiler's next row is for.
RegistersFollow ==
  /\ line = meant.line /\ file = meant.file
  /\ phase = "begun" => meant = Start

\* The open row is roe's too, and the program counter is not before it.
OpenRow ==
  /\ open = {} \/ \E r \in rows : open = {r} /\ r.address <= address
  /\ phase = "open" <=> open # {}

OpenAddresses == {r.address : r \in open}

\* A row stands at an address that has a location, or just past one, as the row of
\* end_sequence does, or waits for the row after it.
RowsAccounted ==
  \A s \in rows : \/ truth[s.address] # Nowhere
                  \/ s.address > 0 /\ truth[s.address - 1] # Nowhere
                  \/ s.address \in OpenAddresses

\* The location of an address is that of a row at or before it; all addresses from
\* there on have locations, and no other row stands between the two, save one that
\* overlaps and cannot be continued.
TruthFromRows ==
  \A b \in Addresses : truth[b] # Nowhere =>
    \E r \in rows :
      /\ r.loc = truth[b] /\ r.address <= b
      /\ \A c \in r.address..b : truth[c] # Nowhere
      /\ \A s \in rows : r.address < s.address /\ s.address <= b => s.address \in OpenAddresses

\* The sorted map has one row for each address with rows.
LastOfEach ==
  pc = "sorted" =>
    /\ phase = "begun" /\ last \subseteq rows
    /\ \A r \in rows : \E q \in last : q.address = r.address

Table == TypeOK /\ RegistersFollow /\ OpenRow /\ RowsAccounted /\ TruthFromRows /\ LastOfEach

\* Nowhere is no location a row can have.
LEMMA NowhereIsNoLocation == Nowhere \notin Locations
BY DEF Nowhere, Locations

\* Up to version 4 both file registers start at 1.
LEMMA FirstFileMeant ==
  ASSUME Version <= 4
  PROVE  FirstFile = 1 /\ Start \in [line : 0..MaxLine, file : Files]
BY LineTableConstants DEF FirstFile, Start

\* The program begins with nothing covered.
LEMMA TableInit ==
  ASSUME Version <= 4, Init
  PROVE  Table
<1>1. TypeOK
  <2>1. rows \subseteq Rows /\ IsFiniteSet(rows)
    BY FS_EmptySet DEF Init
  <2>2. address \in Addresses /\ unit \in 1..Units /\ meant \in [line : 0..MaxLine, file : Files]
    BY LineTableConstants, FirstFileMeant DEF Init, Addresses
  <2> QED
    BY <2>1, <2>2 DEF Init, TypeOK
<1>2. RegistersFollow /\ OpenRow /\ RowsAccounted /\ TruthFromRows /\ LastOfEach
  BY FirstFileMeant DEF Init, RegistersFollow, OpenRow, RowsAccounted, TruthFromRows, LastOfEach, Start
<1> QED
  BY <1>1, <1>2 DEF Table

\* The row for which the registers are ready.
LEMMA EmittedRow ==
  ASSUME Table, NEW a \in Addresses, NEW l \in 0..MaxLine, emit(a, l)
  PROVE  LET row == [address |-> a, loc |-> [unit |-> unit, file |-> file, line |-> l]]
         IN  row \in Rows /\ rows' = rows \cup {row}
<1> USE DEF Table, TypeOK, RegistersFollow
<1>1. (IF l > 0 THEN l ELSE 0) = l
  BY LineTableConstants
<1>2. [unit |-> unit, file |-> file, line |-> l] \in Locations
  BY DEF Locations
<1> QED
  BY <1>1, <1>2 DEF emit, tag, Rows

\* Extend covers from the open row to the new one, and that agrees with the rows:
\* whoever would stand in between had its addresses covered already.
LEMMA ExtendAgrees ==
  ASSUME Table, NEW a \in Addresses, NEW row \in Rows, row.address = a,
         Extend(a), rows' = rows \cup {row},
         \A r \in open : r.address <= a,
         \/ open' = {row}
         \/ open' = {} /\ open # {} /\ \A r \in open : r.address < a
  PROVE  /\ rows' \subseteq Rows /\ IsFiniteSet(rows')
         /\ truth' \in [Addresses -> Locations \cup {Nowhere}]
         /\ RowsAccounted' /\ TruthFromRows'
<1> USE DEF Table, TypeOK
<1>1. rows' \subseteq Rows /\ IsFiniteSet(rows')
  BY FS_AddElement
<1>2. \A s \in rows \cup {row} : s.address \in Addresses /\ s.address \in Nat /\ s.loc \in Locations
  BY LineTableConstants DEF Rows, Addresses
<1>3. a \in Nat /\ Addresses \subseteq Nat /\ \A n \in Nat : n <= a => n \in Addresses
  BY LineTableConstants DEF Addresses
<1>4. CASE open = {}
  <2>1. UNION {r.address..(a - 1) : r \in open} = {}
    BY <1>4
  <2>2. truth' = truth
    BY <2>1 DEF Extend
  <2>3. open' = {row} /\ OpenAddresses = {} /\ OpenAddresses' = {a}
    BY <1>4 DEF OpenAddresses
  <2>4. RowsAccounted'
    BY <2>2, <2>3 DEF RowsAccounted
  <2>5. TruthFromRows'
    BY <2>2, <2>3 DEF TruthFromRows
  <2> QED
    BY <1>1, <2>2, <2>4, <2>5
<1>5. CASE open # {}
  <2>1. PICK o \in rows : open = {o}
    BY <1>5 DEF OpenRow
  <2> DEFINE run == o.address..(a - 1)
  <2>2. UNION {r.address..(a - 1) : r \in open} = run
    BY <2>1
  <2>3. (CHOOSE r \in open : TRUE) = o
    BY <2>1
  <2>4. /\ \A b \in run : truth[b] = Nowhere
        /\ truth' = [b \in Addresses |-> IF b \in run THEN o.loc ELSE truth[b]]
    BY <2>2, <2>3 DEF Extend
  <2>5. o.address \in Nat /\ o.address \in Addresses /\ o.address <= a /\ o.loc \in Locations /\ o.loc # Nowhere
    BY <1>2, <2>1, NowhereIsNoLocation
  <2>6. truth' \in [Addresses -> Locations \cup {Nowhere}]
    BY <2>4, <2>5
  <2>7. OpenAddresses = {o.address} /\ OpenAddresses' = {r.address : r \in open'}
    BY <2>1 DEF OpenAddresses
  <2>8. o.address = a => OpenAddresses' = {a}
    <3> SUFFICES ASSUME o.address = a PROVE OpenAddresses' = {a}
      OBVIOUS
    <3>1. ~(o.address < a) /\ o \in open
      BY <1>3, <2>1
    <3>2. open' = {row}
      BY <3>1
    <3> QED
      BY <2>7, <3>2
  <2>9. \A b \in Addresses : truth[b] # Nowhere => truth'[b] = truth[b] /\ truth'[b] # Nowhere
    BY <2>4
  <2>10. \A b \in run : b \in Addresses /\ truth'[b] = o.loc /\ truth'[b] # Nowhere
    BY <1>3, <2>4, <2>5
  <2>11. \A s \in rows : s.address \in run => s.address = o.address
    <3> SUFFICES ASSUME NEW s \in rows, s.address \in run, s.address # o.address PROVE FALSE
      OBVIOUS
    <3>1. s.address - 1 \in run
      BY <1>2, <1>3, <2>5
    <3> QED
      BY <2>4, <2>7, <3>1 DEF RowsAccounted
  <2>12. RowsAccounted'
    <3> SUFFICES ASSUME NEW s \in rows \cup {row}
                 PROVE  \/ truth'[s.address] # Nowhere
                        \/ s.address > 0 /\ truth'[s.address - 1] # Nowhere
                        \/ s.address \in OpenAddresses'
      BY DEF RowsAccounted
    <3>1. CASE s = row /\ open' = {row}
      BY <2>7, <3>1
    <3>2. CASE s = row /\ o.address < a
      <4>1. a > 0 /\ a - 1 \in run
        BY <1>3, <2>5, <3>2
      <4> QED
        BY <2>10, <3>2, <4>1
    <3>3. CASE s \in rows /\ s.address = o.address
      <4>1. CASE o.address < a
        <5>1. o.address \in run
          BY <1>3, <2>5, <4>1
        <5> QED
          BY <2>10, <3>3, <5>1
      <4>2. CASE o.address = a
        BY <2>8, <3>3, <4>2
      <4> QED
        BY <1>3, <2>5, <4>1, <4>2
    <3>4. CASE s \in rows /\ s.address # o.address
      <4>1. s.address \in Nat /\ s.address \in Addresses /\ (s.address > 0 => s.address - 1 \in Addresses)
        BY <1>2, LineTableConstants DEF Addresses
      <4> QED
        BY <2>7, <2>9, <3>4, <4>1 DEF RowsAccounted
    <3> QED
      BY <2>1, <3>1, <3>2, <3>3, <3>4
  <2>13. TruthFromRows'
    <3> SUFFICES ASSUME NEW b \in Addresses, truth'[b] # Nowhere
                 PROVE  \E r \in rows \cup {row} :
                          /\ r.loc = truth'[b] /\ r.address <= b
                          /\ \A c \in r.address..b : truth'[c] # Nowhere
                          /\ \A s \in rows \cup {row} :
                               r.address < s.address /\ s.address <= b => s.address \in OpenAddresses'
      BY DEF TruthFromRows
    <3>1. CASE b \in run
      <4>1. \A c \in o.address..b : c \in run
        BY <1>3, <2>5, <3>1
      <4>2. \A s \in rows \cup {row} : ~(o.address < s.address /\ s.address <= b)
        BY <1>2, <1>3, <2>5, <2>11, <3>1
      <4> QED
        BY <2>5, <2>10, <3>1, <4>1, <4>2
    <3>2. CASE b \notin run
      <4>1. truth'[b] = truth[b]
        BY <2>4, <3>2
      <4>2. PICK r \in rows :
              /\ r.loc = truth[b] /\ r.address <= b
              /\ \A c \in r.address..b : truth[c] # Nowhere
              /\ \A s \in rows : r.address < s.address /\ s.address <= b => s.address = o.address
        BY <2>7, <4>1 DEF TruthFromRows
      <4>3. \A c \in r.address..b : c \in Addresses /\ truth'[c] # Nowhere /\ c \notin run
        BY <1>2, <1>3, <2>4, <2>9, <4>2, LineTableConstants DEF Addresses
      <4>4. ASSUME NEW s \in rows \cup {row}, r.address < s.address, s.address <= b
            PROVE  s.address \in OpenAddresses'
        <5>1. CASE s \in rows
          <6>1. s.address = o.address /\ o.address \notin run
            BY <1>2, <4>2, <4>3, <4>4, <5>1
          <6>2. o.address = a
            BY <1>3, <2>5, <6>1
          <6> QED
            BY <2>8, <6>1, <6>2
        <5>2. CASE s = row
          <6>1. a - 1 \notin run
            BY <1>2, <1>3, <4>2, <4>3, <4>4, <5>2
          <6>2. o.address = a
            BY <1>3, <2>5, <6>1
          <6> QED
            BY <2>8, <5>2, <6>2
        <5> QED
          BY <5>1, <5>2
      <4> QED
        BY <4>1, <4>2, <4>3, <4>4
    <3> QED
      BY <3>1, <3>2
  <2> QED
    BY <1>1, <2>6, <2>12, <2>13
<1> QED
  BY <1>4, <1>5

\* Steps that emit nothing leave what is covered as it is.
LEMMA QuietStep ==
  ASSUME Version <= 4, Table, SetAddress \/ AdvancePc \/ AdvanceLine \/ SetFile \/ NextUnit \/ UNCHANGED vars
  PROVE  Table'
<1> USE DEF Table, TypeOK
<1>1. UNCHANGED <<pc, rows, last, open, truth>>
  BY DEF SetAddress, AdvancePc, AdvanceLine, SetFile, NextUnit, compiler, vars
<1>2. RowsAccounted' /\ TruthFromRows'
  BY <1>1 DEF RowsAccounted, TruthFromRows, OpenAddresses
<1>3. CASE SetAddress
  BY <1>1, <1>2, <1>3 DEF SetAddress, RegistersFollow, OpenRow, LastOfEach
<1>4. CASE AdvancePc
  <2>1. address' \in Addresses /\ address <= address'
    BY <1>4, LineTableConstants DEF AdvancePc, Addresses
  <2>2. OpenRow'
    BY <1>1, <1>4, <2>1, LineTableConstants DEF AdvancePc, OpenRow, compiler, Rows, Addresses
  <2> QED
    BY <1>1, <1>2, <1>4, <2>1, <2>2 DEF AdvancePc, compiler, RegistersFollow, LastOfEach
<1>5. CASE AdvanceLine
  BY <1>1, <1>2, <1>5 DEF AdvanceLine, RegistersFollow, OpenRow, LastOfEach
<1>6. CASE SetFile
  BY <1>1, <1>2, <1>6 DEF SetFile, RegistersFollow, OpenRow, LastOfEach
<1>7. CASE NextUnit
  <2>1. unit' \in 1..Units /\ address' \in Addresses
    BY <1>7, LineTableConstants DEF NextUnit, Addresses
  <2>2. open = {} /\ phase = "begun"
    BY <1>7 DEF NextUnit, OpenRow
  <2> QED
    BY <1>1, <1>2, <1>7, <2>1, <2>2, FirstFileMeant
    DEF NextUnit, compiler, Start, RegistersFollow, OpenRow, LastOfEach
<1>8. CASE UNCHANGED vars
  BY <1>1, <1>2, <1>8 DEF vars, RegistersFollow, OpenRow, LastOfEach
<1> QED
  BY <1>3, <1>4, <1>5, <1>6, <1>7, <1>8

\* Copy and a special opcode emit the row the compiler means, where it means it.
LEMMA RowStep ==
  ASSUME Version <= 4, Table, Copy \/ Special
  PROVE  Table'
<1> USE DEF Table, TypeOK
<1>1. PICK a \in Addresses, l \in 0..MaxLine :
        /\ address' = a /\ address <= a /\ line' = l
        /\ meant' = [meant EXCEPT !.line = l] /\ emit(a, l) /\ RowMeant(a, meant')
  <2>1. CASE Copy
    <3>1. meant' = meant /\ meant = [meant EXCEPT !.line = line] /\ line \in 0..MaxLine
      BY <2>1 DEF Copy, RegistersFollow
    <3>2. RowMeant(address, meant')
      BY <2>1, <3>1 DEF Copy
    <3>3. address <= address
      BY LineTableConstants DEF Addresses
    <3> QED
      BY <2>1, <3>1, <3>2, <3>3 DEF Copy
  <2>2. CASE Special
    <3>1. PICK n \in 0..MaxAddress, d \in (-MaxLine)..MaxLine :
            /\ address + n <= MaxAddress /\ meant.line + d \in 0..MaxLine
            /\ address' = address + n
            /\ line' = line + d /\ meant' = [meant EXCEPT !.line = @ + d]
      BY <2>2 DEF Special
    <3>2. emit(address', line') /\ RowMeant(address', meant')
      BY <2>2 DEF Special
    <3>3. address' \in Addresses /\ address <= address'
      BY <3>1, LineTableConstants DEF Addresses
    <3>4. line' \in 0..MaxLine /\ meant' = [meant EXCEPT !.line = line']
      BY <3>1 DEF RegistersFollow
    <3> QED
      BY <3>2, <3>3, <3>4
  <2> QED
    BY <2>1, <2>2
<1> DEFINE row == [address |-> a, loc |-> [unit |-> unit, file |-> file, line |-> l]]
<1>2. row \in Rows /\ rows' = rows \cup {row}
  BY <1>1, EmittedRow
<1>3. meant' \in [line : 0..MaxLine, file : Files] /\ meant'.line = l /\ meant'.file = file
  BY <1>1 DEF RegistersFollow
<1>4. Extend(a) /\ open' = {row}
  BY <1>1, <1>3 DEF RowMeant, Meant
<1>5. \A r \in open : r.address <= a
  BY <1>1, LineTableConstants DEF OpenRow, Rows, Addresses
<1>6. /\ rows' \subseteq Rows /\ IsFiniteSet(rows')
      /\ truth' \in [Addresses -> Locations \cup {Nowhere}]
      /\ RowsAccounted' /\ TruthFromRows'
  BY <1>2, <1>4, <1>5, ExtendAgrees
<1>7. UNCHANGED <<pc, unit, file, last>> /\ pc = "program" /\ phase' = "open"
  BY DEF Copy, Special
<1>8. OpenRow'
  BY <1>1, <1>2, <1>4, <1>7, LineTableConstants DEF OpenRow, Addresses
<1> QED
  BY <1>1, <1>3, <1>6, <1>7, <1>8 DEF RegistersFollow, LastOfEach

\* end_sequence emits a last row, just past what the sequence covers.
LEMMA EndSequenceStep ==
  ASSUME Version <= 4, Table, EndSequence
  PROVE  Table'
<1> USE DEF Table, TypeOK
<1> DEFINE row == [address |-> address, loc |-> [unit |-> unit, file |-> file, line |-> line]]
<1>1. line \in 0..MaxLine
  BY DEF RegistersFollow
<1>2. row \in Rows /\ rows' = rows \cup {row}
  BY <1>1, EmittedRow DEF EndSequence
<1>3. open' = {} /\ open # {} /\ \A r \in open : r.address < address
  BY LineTableConstants DEF EndSequence, OpenRow, Rows, Addresses
<1>4. \A r \in open : r.address <= address
  BY LineTableConstants DEF OpenRow
<1>5. /\ rows' \subseteq Rows /\ IsFiniteSet(rows')
      /\ truth' \in [Addresses -> Locations \cup {Nowhere}]
      /\ RowsAccounted' /\ TruthFromRows'
  BY <1>2, <1>3, <1>4, ExtendAgrees DEF EndSequence
<1>6. /\ UNCHANGED <<pc, unit, last>> /\ pc = "program" /\ phase' = "begun"
      /\ meant' = Start /\ address' = 0 /\ line' = 1 /\ file' = FirstFile
  BY DEF EndSequence, reset
<1>7. 0 \in Addresses
  BY LineTableConstants DEF Addresses
<1>8. RegistersFollow' /\ meant' \in [line : 0..MaxLine, file : Files]
  BY <1>6, FirstFileMeant DEF RegistersFollow, Start
<1> QED
  BY <1>3, <1>5, <1>6, <1>7, <1>8 DEF OpenRow, LastOfEach

\* Sorting keeps, for each address, one of its rows as the last.
LEMMA SortStep ==
  ASSUME Table, Sort
  PROVE  Table'
<1> USE DEF Table, TypeOK
<1>1. UNCHANGED <<unit, address, line, file, rows, phase, meant, open, truth>>
  BY DEF Sort, compiler
<1>2. PICK f \in [{r.address : r \in rows} -> rows] :
        /\ \A a \in DOMAIN f : f[a].address = a
        /\ last' = {f[a] : a \in DOMAIN f}
  BY DEF Sort
<1>3. last' \subseteq rows
  BY <1>2
<1>4. \A r \in rows : \E q \in last' : q.address = r.address
  <2> SUFFICES ASSUME NEW r \in rows PROVE \E q \in last' : q.address = r.address
    OBVIOUS
  <2>1. r.address \in DOMAIN f
    BY <1>2
  <2> QED
    BY <1>2, <2>1
<1>5. RowsAccounted' /\ TruthFromRows'
  BY <1>1 DEF RowsAccounted, TruthFromRows, OpenAddresses
<1>6. RegistersFollow' /\ OpenRow'
  BY <1>1 DEF RegistersFollow, OpenRow
<1> QED
  BY <1>1, <1>3, <1>4, <1>5, <1>6 DEF Sort, LastOfEach

\* Rows and registers agree with the compiler in every state.
THEOREM TableCorrect ==
  ASSUME Version <= 4
  PROVE  Spec => []Table
<1>1. Init => Table
  BY TableInit
<1>2. Table /\ [Next]_vars => Table'
  BY QuietStep, RowStep, EndSequenceStep, SortStep DEF Next
<1> QED
  BY <1>1, <1>2, PTL DEF Spec

\* Where one row stands nearest, the lookup finds it, and it is the one the
\* location of the address comes from.
LEMMA LookupRight ==
  ASSUME Table, pc = "sorted", NEW a \in Addresses, truth[a] # Nowhere, Unambiguous(a)
  PROVE  source_at(a) = Said(a)
<1> USE DEF Table, TypeOK
<1> DEFINE nearest == {r \in rows : r.address <= a
                                  /\ \A s \in rows : s.address <= a => s.address <= r.address}
<1>1. PICK x : nearest = {x}
  <2>1. IsFiniteSet(nearest)
    BY FS_Subset
  <2>2. Cardinality(nearest) = 1
    BY DEF Unambiguous
  <2> HIDE DEF nearest
  <2> QED
    BY <2>1, <2>2, FS_Singleton
<1>2. OpenAddresses = {}
  BY DEF LastOfEach, OpenRow, OpenAddresses
<1>3. \A s \in rows : s.address \in Nat
  BY LineTableConstants DEF Rows, Addresses
<1>4. a \in Nat
  BY LineTableConstants DEF Addresses
<1>5. PICK r \in rows :
        /\ r.loc = truth[a] /\ r.address <= a
        /\ \A s \in rows : ~(r.address < s.address /\ s.address <= a)
  BY <1>2 DEF TruthFromRows
<1>6. r \in nearest
  BY <1>3, <1>4, <1>5
<1>7. \A q \in last : q \in rows
  BY DEF LastOfEach
<1>8. PICK q \in last : q.address = r.address
  BY DEF LastOfEach
<1>9. q \in nearest
  BY <1>6, <1>7, <1>8
<1>10. q = r
  BY <1>1, <1>6, <1>9
<1>11. r \in entry_at(a)
  BY <1>5, <1>6, <1>7, <1>8, <1>10 DEF entry_at
<1>12. \A e \in entry_at(a) : e = r
  <2> SUFFICES ASSUME NEW e \in entry_at(a) PROVE e = r
    OBVIOUS
  <2>1. e \in last /\ e.address <= a /\ r.address <= e.address
    BY <1>5, <1>8, <1>10 DEF entry_at
  <2>2. e \in rows /\ e.address = r.address
    BY <1>3, <1>4, <1>5, <1>7, <2>1
  <2>3. e \in nearest
    BY <1>6, <2>1, <2>2
  <2> QED
    BY <1>1, <1>6, <2>3
<1>13. entry_at(a) = {r} /\ (CHOOSE e \in entry_at(a) : TRUE) = r
  BY <1>11, <1>12
<1> QED
  BY <1>5, <1>13 DEF source_at, Said

\* Every address that line information covers gets the file and line the compiler
\* meant, unless two rows stand at one address.
THEOREM CoveredAddressesRightAlways ==
  ASSUME Version <= 4
  PROVE  Spec => []CoveredAddressesRight
<1>1. Table => CoveredAddressesRight
  BY LookupRight DEF CoveredAddressesRight
<1> QED
  BY <1>1, TableCorrect, PTL
=============================================================================
