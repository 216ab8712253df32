---------------------------- MODULE StorageProofs ----------------------------
(***************************************************************************)
(* Proofs about Storage, for every number and size of lines, width of the  *)
(* mask's words, layout and interleaving.                                  *)
(***************************************************************************)
EXTENDS Storage, TLAPS

\* A leaf that names no prover is Zenon's.
USE ZenonT(30)

\* A cell lies between the first cell of its line and the first of the next:
\* the arithmetic of loc >> PX4_STORAGE_LINE_SHIFT.
LEMMA LineBounds ==
    ASSUME NEW c \in Nat
    PROVE  /\ LineOf(c) \in Nat
           /\ LineOf(c) * LineCells =< c
           /\ c < (LineOf(c) + 1) * LineCells
BY StorageAssumption, SMTT(60) DEF LineOf

\* The line of a cell is the only one that holds it.
LEMMA LineUnique ==
    ASSUME NEW c \in Nat, NEW l \in Nat, l * LineCells =< c, c < (l + 1) * LineCells
    PROVE  LineOf(c) = l
<1>1. LineOf(c) \in Nat /\ LineOf(c) * LineCells =< c /\ c < (LineOf(c) + 1) * LineCells
  BY LineBounds
<1>2. ASSUME NEW a \in Nat, NEW b \in Nat, a < b
      PROVE  (a + 1) * LineCells =< b * LineCells
  <2>1. PICK d \in Nat : b = (a + 1) + d
    <3>1. b - (a + 1) \in Nat /\ b = (a + 1) + (b - (a + 1))
      BY <1>2, SMTT(60)
    <3>2. QED
      BY <3>1
  <2>2. d * LineCells >= 0 /\ ((a + 1) + d) * LineCells = (a + 1) * LineCells + d * LineCells
    BY StorageAssumption, SMTT(60)
  <2>3. QED
    BY <2>1, <2>2, StorageAssumption, SMTT(60)
<1>3. ~(LineOf(c) < l)
  <2>1. LineOf(c) < l => (LineOf(c) + 1) * LineCells =< l * LineCells
    BY <1>1, <1>2
  <2>2. (LineOf(c) + 1) * LineCells \in Nat /\ l * LineCells \in Nat
    BY <1>1, StorageAssumption, SMTT(60)
  <2>3. QED
    BY <1>1, <2>1, <2>2, SMTT(60)
<1>4. ~(l < LineOf(c))
  <2>1. l < LineOf(c) => (l + 1) * LineCells =< LineOf(c) * LineCells
    BY <1>1, <1>2
  <2>2. (l + 1) * LineCells \in Nat /\ LineOf(c) * LineCells \in Nat
    BY <1>1, StorageAssumption, SMTT(60)
  <2>3. QED
    BY <1>1, <2>1, <2>2, SMTT(60)
<1>5. QED
  BY <1>1, <1>3, <1>4, SMTT(60)

\* Lines grow with cells.
LEMMA LineMonotone ==
    ASSUME NEW c \in Nat, NEW d \in Nat, c =< d
    PROVE  LineOf(c) =< LineOf(d)
<1>1. /\ LineOf(c) \in Nat /\ LineOf(c) * LineCells =< c
      /\ LineOf(d) \in Nat /\ d < (LineOf(d) + 1) * LineCells
  BY LineBounds
<1>2. SUFFICES ASSUME LineOf(d) < LineOf(c) PROVE FALSE
  BY <1>1, SMTT(60)
<1>3. PICK k \in Nat : LineOf(c) = (LineOf(d) + 1) + k
  <2>1. LineOf(c) - (LineOf(d) + 1) \in Nat
    BY <1>1, <1>2, SMTT(60)
  <2>2. QED
    BY <1>1, <2>1, SMTT(60)
<1>4. /\ k * LineCells \in Nat
      /\ ((LineOf(d) + 1) + k) * LineCells = (LineOf(d) + 1) * LineCells + k * LineCells
      /\ (LineOf(d) + 1) * LineCells \in Nat
  BY <1>1, StorageAssumption, SMTT(60)
<1>5. QED
  BY <1>1, <1>3, <1>4, SMTT(60)

\* A cell of storage lies on a line of storage; so does the end of a write,
\* because the layout ends before the last cell.
LEMMA LineInLines ==
    ASSUME NEW c \in Nat, c < NumLines * LineCells
    PROVE  LineOf(c) \in Lines
<1>1. NumLines \in Nat \ {0} /\ LineCells \in Nat \ {0}
  BY StorageAssumption
<1>2. LineOf(c) \in Nat /\ LineOf(c) * LineCells =< c
  BY LineBounds
<1>3. ~(NumLines =< LineOf(c))
  <2>1. SUFFICES ASSUME NumLines =< LineOf(c) PROVE FALSE
    OBVIOUS
  <2>2. PICK k \in Nat : LineOf(c) = NumLines + k
    <3>1. LineOf(c) - NumLines \in Nat
      BY <1>1, <1>2, <2>1, SMTT(60)
    <3>2. QED
      BY <1>1, <1>2, <3>1, SMTT(60)
  <2>3. /\ k * LineCells \in Nat
        /\ (NumLines + k) * LineCells = NumLines * LineCells + k * LineCells
        /\ NumLines * LineCells \in Nat
    BY <1>1, SMTT(60)
  <2>4. QED
    BY <1>2, <2>2, <2>3, SMTT(60)
<1>4. QED
  BY <1>1, <1>2, <1>3, SMTT(60) DEF Lines

\* The first cell of a line of storage is a cell of storage and on that line.
LEMMA FirstCell ==
    ASSUME NEW l \in Lines
    PROVE  l * LineCells \in Cells /\ LineOf(l * LineCells) = l
<1>1. NumLines \in Nat \ {0} /\ LineCells \in Nat \ {0} /\ l \in Nat /\ l < NumLines
  BY StorageAssumption, SMTT(60) DEF Lines
<1>2. l * LineCells \in Nat /\ (l + 1) * LineCells = l * LineCells + LineCells
  BY <1>1, SMTT(60)
<1>3. LineOf(l * LineCells) = l
  BY <1>1, <1>2, LineUnique, SMTT(60)
<1>4. PICK k \in Nat : NumLines = (l + 1) + k
  <2>1. NumLines - (l + 1) \in Nat
    BY <1>1, SMTT(60)
  <2>2. QED
    BY <1>1, <2>1, SMTT(60)
<1>5. /\ k * LineCells \in Nat
      /\ ((l + 1) + k) * LineCells = (l + 1) * LineCells + k * LineCells
  BY <1>1, <1>4, SMTT(60)
<1>6. QED
  BY <1>1, <1>2, <1>3, <1>4, <1>5, SMTT(60) DEF Cells

\* Every line of storage has a bit in the mask.
LEMMA LinesInMask == Lines \subseteq MaskBits
<1>1. NumLines \in Nat \ {0} /\ BitsPerWord \in Nat \ {0}
  BY StorageAssumption
<1>2. NumLines - 1 \in Nat
  BY <1>1, SMTT(60)
<1>3. /\ WordOf(NumLines - 1) \in Nat
      /\ NumLines - 1 < (WordOf(NumLines - 1) + 1) * BitsPerWord
  BY <1>1, <1>2, SMTT(60) DEF WordOf
<1>4. (WordOf(NumLines - 1) + 1) * BitsPerWord \in Nat
  BY <1>1, <1>3, SMTT(60)
<1>5. QED
  BY <1>1, <1>3, <1>4, SMTT(60) DEF Lines, MaskBits

-----------------------------------------------------------------------------
(* The shapes of the two threads' records, as TypeOK gives them. *)
MainType == [pc : {"idle", "copy", "load", "store"}, val : Values,
             next : 0 .. LayoutEnd, end : 0 .. LayoutEnd, line : Lines,
             word : SUBSET MaskBits]
StoreType == [pc : {"idle", "scan", "load", "store", "program"},
              line : 0 .. NumLines, next : Cells, word : SUBSET MaskBits]

\* The constants are numbers of the expected size.
LEMMA Sizes ==
    /\ NumLines \in Nat \ {0} /\ LineCells \in Nat \ {0} /\ LayoutEnd \in Nat
    /\ NumLines * LineCells \in Nat /\ LayoutEnd < NumLines * LineCells
    /\ 0 \in Lines /\ 0 \in Cells /\ Zero \in Values
<1>1. /\ NumLines \in Nat \ {0} /\ LineCells \in Nat \ {0} /\ LayoutEnd \in Nat
      /\ LayoutEnd < NumLines * LineCells /\ Zero \in Values
  BY StorageAssumption, LayoutAssumption, SMTT(60)
<1>2. NumLines * LineCells \in Nat
  BY <1>1, SMTT(60)
<1>3. QED
  BY <1>1, <1>2, SMTT(60) DEF Lines, Cells

\* A thread at rest has the type of a thread.
LEMMA IdleTypes == MainIdle \in MainType /\ StoreIdle \in StoreType
BY Sizes, SMTT(60) DEF MainIdle, StoreIdle, MainType, StoreType

\* The invariant holds when the program starts.
LEMMA InitIInv == Init => IInv
<1> SUFFICES ASSUME Init PROVE IInv
  OBVIOUS
<1>2. TypeOK
  <2>1. main \in MainType /\ store \in StoreType
    BY IdleTypes DEF Init
  <2>2. buffer \in [Cells -> Values] /\ writes \in 0 .. MaxWrites /\ crashes \in 0 .. MaxCrashes
    BY StorageAssumption, SMTT(60) DEF Init
  <2>3. QED
    BY <2>1, <2>2 DEF Init, TypeOK, MainType, StoreType
<1>3. MainInv
  BY DEF Init, MainInv, MainIdle
<1>4. StoreInv
  BY DEF Init, StoreInv, StoreIdle
<1>5. SearchFindsLine
  BY DEF Init, SearchFindsLine, StoreIdle
<1>6. ChangesCovered
  BY DEF Init, ChangesCovered
<1>7. QED
  BY <1>2, <1>3, <1>4, <1>5, <1>6 DEF IInv

\* Every step keeps the invariant.
LEMMA NextIInv == IInv /\ [Next]_vars => IInv'
<1> SUFFICES ASSUME IInv, [Next]_vars PROVE IInv'
  OBVIOUS
<1> USE DEF IInv
<1>m. main \in MainType /\ store \in StoreType
  BY DEF TypeOK, MainType, StoreType
<1>1. CASE storage_open
  <2>1. TypeOK'
    BY <1>1 DEF storage_open, TypeOK
  <2>2. MainInv'
    BY <1>1 DEF storage_open, MainInv
  <2>3. StoreInv'
    BY <1>1 DEF storage_open, StoreInv
  <2>4. SearchFindsLine'
    BY <1>1 DEF storage_open, SearchFindsLine, StoreInv
  <2>5. ChangesCovered'
    BY <1>1 DEF storage_open, ChangesCovered
  <2>6. QED
    BY <2>1, <2>2, <2>3, <2>4, <2>5
<1>2. ASSUME NEW loc \in Cells, NEW n \in 1 .. LayoutEnd, NEW v \in Values,
             write_block(loc, n, v)
      PROVE  IInv'
  <2>0. /\ loc \in Nat /\ loc + n \in 0 .. LayoutEnd /\ loc \in 0 .. LayoutEnd
        /\ loc < loc + n /\ loc < NumLines * LineCells
    BY <1>2, Sizes, SMTT(60) DEF write_block, Cells
  <2>a. LineOf(loc) \in Lines /\ LineOf(loc) =< LineOf(loc + n)
    BY <2>0, Sizes, LineInLines, LineMonotone, SMTT(60)
  <2>1. TypeOK'
    <3>1. main' \in MainType
      BY <1>2, <2>0, <2>a DEF write_block, MainType
    <3>2. writes' \in 0 .. MaxWrites
      BY <1>2, StorageAssumption, SMTT(60) DEF write_block, TypeOK
    <3>3. QED
      BY <1>2, <3>1, <3>2 DEF write_block, TypeOK, MainType
  <2>2. MainInv'
    <3>1. main'.pc = "copy" /\ main'.line = LineOf(loc) /\ main'.end = loc + n /\ main'.next = loc
      BY <1>2 DEF write_block
    <3>2. initialised'
      BY <1>2 DEF write_block
    <3>3. LineOf(loc) =< LineOf(loc)
      BY <2>a, SMTT(60) DEF Lines
    <3>4. QED
      BY <2>0, <2>a, <3>1, <3>2, <3>3 DEF MainInv, LineOf
  <2>3. StoreInv'
    BY <1>2 DEF write_block, StoreInv
  <2>4. SearchFindsLine'
    BY <1>2 DEF write_block, SearchFindsLine
  <2>5. ChangesCovered'
    BY <1>2 DEF write_block, ChangesCovered, WillMark, WillProgram, LineOf
  <2>6. QED
    BY <2>1, <2>2, <2>3, <2>4, <2>5
<1>3. CASE copy_cell
  <2>0. /\ main.next \in Nat /\ main.next < main.end /\ main.end \in Nat /\ main.end =< LayoutEnd
        /\ main.next \in Cells /\ main.next + 1 =< main.end
    BY <1>3, <1>m, Sizes, SMTT(60) DEF copy_cell, MainInv, MainType, Cells
  <2>a. LineOf(main.next) =< LineOf(main.end) /\ LineOf(main.next) =< LineOf(main.next + 1)
    BY <2>0, LineMonotone, SMTT(60)
  <2>b. main.line \in Nat /\ LineOf(main.next) \in Nat /\ LineOf(main.next + 1) \in Nat
    BY <1>m, <2>0, LineBounds, Sizes, SMTT(60) DEF MainType, Lines
  <2>c. main.line =< LineOf(main.next) /\ initialised /\ main.line =< LineOf(main.end)
    BY <1>3 DEF copy_cell, MainInv
  <2>d. /\ main'.line = main.line /\ main'.end = main.end /\ main'.next = main.next + 1
        /\ main'.pc = "load" \/ (main'.pc = "copy" /\ main.next + 1 # main.end)
    BY <1>3, <1>m DEF copy_cell, MainType
  <2>1. TypeOK'
    <3>1. main' \in MainType
      <4>1. main.next + 1 \in 0 .. LayoutEnd
        BY <2>0, Sizes, SMTT(60)
      <4>2. main' = [main EXCEPT !.next = main.next + 1, !.pc = main'.pc]
        BY <1>3, <1>m DEF copy_cell, MainType
      <4>3. QED
        BY <1>m, <2>d, <4>1, <4>2 DEF MainType
    <3>2. buffer' \in [Cells -> Values]
      BY <1>3, <1>m DEF copy_cell, TypeOK, MainType
    <3>3. QED
      BY <1>3, <3>1, <3>2 DEF copy_cell, TypeOK, MainType
  <2>2. MainInv'
    <3>1. initialised'
      BY <1>3, <2>c DEF copy_cell
    <3>2. main.line =< LineOf(main.next + 1)
      BY <2>a, <2>b, <2>c, SMTT(60)
    <3>3. QED
      BY <2>0, <2>c, <2>d, <3>1, <3>2, SMTT(60) DEF MainInv, LineOf
  <2>3. StoreInv'
    BY <1>3 DEF copy_cell, StoreInv
  <2>4. SearchFindsLine'
    BY <1>3 DEF copy_cell, SearchFindsLine
  <2>5. ChangesCovered'
    <3> SUFFICES ASSUME ~lost, NEW c \in Cells, eeprom[c] # buffer'[c]
                 PROVE  LineOf(c) \in mask \/ WillMark(LineOf(c))' \/ WillProgram(c)'
      BY <1>3 DEF copy_cell, ChangesCovered, LineOf
    <3>1. CASE c = main.next
      BY <2>a, <2>c, <2>d, <3>1 DEF WillMark, LineOf
    <3>2. CASE c # main.next
      <4>1. buffer'[c] = buffer[c]
        BY <1>3, <3>2 DEF copy_cell, TypeOK
      <4>2. LineOf(c) \in mask \/ WillMark(LineOf(c)) \/ WillProgram(c)
        BY <2>c, <4>1 DEF ChangesCovered
      <4>3. WillMark(LineOf(c)) => WillMark(LineOf(c))'
        BY <2>d DEF WillMark, LineOf
      <4>4. WillProgram(c) => WillProgram(c)'
        BY <1>3 DEF copy_cell, WillProgram, LineOf
      <4>5. QED
        BY <4>2, <4>3, <4>4
    <3>3. QED
      BY <3>1, <3>2
  <2>6. QED
    BY <2>1, <2>2, <2>3, <2>4, <2>5, SMTT(60)
<1>4. CASE mark_load
  <2>0. /\ main'.pc = "store" /\ main'.line = main.line /\ main'.end = main.end
        /\ main'.word = SameWord(main.line, mask)
    BY <1>4, <1>m DEF mark_load, MainType
  <2>1. TypeOK'
    <3>1. SameWord(main.line, mask) \in SUBSET MaskBits
      BY DEF SameWord, TypeOK
    <3>2. main' \in MainType
      BY <1>4, <1>m, <3>1 DEF mark_load, MainType
    <3>3. QED
      BY <1>4, <3>2 DEF mark_load, TypeOK, MainType
  <2>2. MainInv'
    <3>1. initialised /\ main.line =< LineOf(main.end) /\ mask \subseteq Lines
      BY <1>4 DEF mark_load, MainInv, StoreInv
    <3>2. SameWord(main.line, mask) \subseteq Lines
      BY <3>1 DEF SameWord
    <3>3. QED
      BY <1>4, <2>0, <3>1, <3>2 DEF mark_load, MainInv, SameWord, LineOf, WordOf
  <2>3. StoreInv'
    BY <1>4 DEF mark_load, StoreInv
  <2>4. SearchFindsLine'
    BY <1>4 DEF mark_load, SearchFindsLine
  <2>5. ChangesCovered'
    <3>1. ASSUME NEW l PROVE WillMark(l) => WillMark(l)'
      BY <2>0 DEF WillMark, LineOf
    <3>2. ASSUME NEW c PROVE WillProgram(c) => WillProgram(c)'
      BY <1>4 DEF mark_load, WillProgram, LineOf
    <3>3. QED
      BY <1>4, <3>1, <3>2 DEF mark_load, ChangesCovered
  <2>6. QED
    BY <2>1, <2>2, <2>3, <2>4, <2>5, SMTT(60)
<1>5. CASE mark_store
  <2>0. /\ initialised /\ main.line =< LineOf(main.end) /\ mask \subseteq Lines
        /\ SameWord(main.line, mask) \subseteq main.word /\ main.word \subseteq Lines
        /\ main.line \in Lines /\ main.end \in Nat /\ main.end < NumLines * LineCells
    BY <1>5, <1>m, Sizes, SMTT(60) DEF mark_store, MainInv, StoreInv, MainType
  <2>a. LineOf(main.end) \in Lines
    BY <2>0, LineInLines
  <2>b. mask \subseteq mask' /\ main.line \in mask' /\ mask' \subseteq Lines
    BY <1>5, <2>0 DEF mark_store
  <2>c. \/ /\ main.line < LineOf(main.end) /\ main'.pc = "load"
           /\ main'.line = main.line + 1 /\ main'.end = main.end
        \/ ~(main.line < LineOf(main.end)) /\ main' = MainIdle
    BY <1>5, <1>m DEF mark_store, MainType
  <2>1. TypeOK'
    <3>1. main' \in MainType
      <4>1. CASE main.line < LineOf(main.end)
        <5>1. main.line + 1 \in Lines
          BY <2>0, <2>a, <4>1, Sizes, SMTT(60) DEF Lines
        <5>2. QED
          BY <1>5, <1>m, <4>1, <5>1 DEF mark_store, MainType
      <4>2. CASE ~(main.line < LineOf(main.end))
        BY <1>5, <4>2, IdleTypes DEF mark_store
      <4>3. QED
        BY <4>1, <4>2
    <3>2. mask' \in SUBSET MaskBits
      BY <2>b, LinesInMask
    <3>3. QED
      BY <1>5, <3>1, <3>2 DEF mark_store, TypeOK, MainType
  <2>2. MainInv'
    <3>1. initialised'
      BY <1>5, <2>0 DEF mark_store
    <3>2. main.line < LineOf(main.end) => main.line + 1 =< LineOf(main.end)
      BY <2>0, <2>a, Sizes, SMTT(60) DEF Lines
    <3>3. QED
      BY <2>c, <3>1, <3>2, SMTT(60) DEF MainInv, MainIdle, LineOf
  <2>3. StoreInv'
    BY <1>5, <2>b DEF mark_store, StoreInv
  <2>4. SearchFindsLine'
    BY <1>5, <2>b DEF mark_store, SearchFindsLine
  <2>5. ChangesCovered'
    <3> SUFFICES ASSUME ~lost, NEW c \in Cells, eeprom[c] # buffer[c]
                 PROVE  LineOf(c) \in mask' \/ WillMark(LineOf(c))' \/ WillProgram(c)'
      BY <1>5 DEF mark_store, ChangesCovered, LineOf
    <3>1. LineOf(c) \in mask \/ WillMark(LineOf(c)) \/ WillProgram(c)
      BY <2>0 DEF ChangesCovered
    <3>2. CASE LineOf(c) \in mask
      BY <2>b, <3>2
    <3>3. CASE WillMark(LineOf(c))
      <4>1. LineOf(c) \in Nat
        BY LineBounds, Sizes, SMTT(60) DEF Cells
      <4>2. LineOf(c) = main.line \/ (main.line < LineOf(main.end) /\ main.line + 1 =< LineOf(c))
        BY <2>0, <2>a, <3>3, <4>1, Sizes, SMTT(60) DEF WillMark, Lines
      <4>3. QED
        BY <2>b, <2>c, <3>3, <4>2 DEF WillMark, LineOf
    <3>4. CASE WillProgram(c)
      BY <1>5, <3>4 DEF mark_store, WillProgram, LineOf
    <3>5. QED
      BY <3>1, <3>2, <3>3, <3>4
  <2>6. QED
    BY <2>1, <2>2, <2>3, <2>4, <2>5, SMTT(60)
<1>6. CASE timer_tick
  <2>0. initialised /\ mask \subseteq Lines /\ store'.pc = "scan" /\ store'.line = 0 /\ store.pc = "idle"
    BY <1>6 DEF timer_tick, StoreInv, StoreIdle
  <2>1. TypeOK'
    <3>1. store' \in StoreType
      BY <1>6, IdleTypes DEF timer_tick, StoreType
    <3>2. QED
      BY <1>6, <3>1 DEF timer_tick, TypeOK, StoreType
  <2>2. MainInv'
    BY <1>6 DEF timer_tick, MainInv
  <2>3. StoreInv'
    BY <1>6, <2>0 DEF timer_tick, StoreInv
  <2>4. SearchFindsLine'
    <3>1. PICK l \in mask : l \in Lines
      BY <1>6, <2>0 DEF timer_tick
    <3>2. 0 =< l /\ l < NumLines
      BY <3>1, Sizes, SMTT(60) DEF Lines
    <3>3. QED
      BY <1>6, <2>0, <3>1, <3>2 DEF timer_tick, SearchFindsLine
  <2>5. ChangesCovered'
    BY <1>6, <2>0 DEF timer_tick, ChangesCovered, WillMark, WillProgram, LineOf
  <2>6. QED
    BY <2>1, <2>2, <2>3, <2>4, <2>5, SMTT(60)
<1>7. CASE scan_line
  <2>0. PICK l \in mask : store.line =< l /\ l < NumLines
    BY <1>7 DEF scan_line, SearchFindsLine
  <2>a. initialised /\ mask \subseteq Lines /\ l \in Nat /\ store.line \in Nat
    BY <1>7, <1>m, Sizes, SMTT(60) DEF scan_line, StoreInv, StoreType, Lines
  <2>b. store.line \in Lines /\ store.line # NumLines
    BY <2>0, <2>a, Sizes, SMTT(60) DEF Lines
  <2>c. \/ store.line \in mask /\ store' = [store EXCEPT !.pc = "load"]
        \/ store.line \notin mask /\ store' = [store EXCEPT !.line = store.line + 1]
    BY <1>7, <1>m, <2>b DEF scan_line, StoreType
  <2>d. store.pc = "scan"
    BY <1>7 DEF scan_line
  <2>1. TypeOK'
    <3>1. store.line + 1 \in 0 .. NumLines
      BY <2>b, Sizes, SMTT(60) DEF Lines
    <3>2. store' \in StoreType
      BY <1>m, <2>c, <3>1 DEF StoreType
    <3>3. QED
      BY <1>7, <3>2 DEF scan_line, TypeOK, StoreType
  <2>2. MainInv'
    BY <1>7 DEF scan_line, MainInv
  <2>3. StoreInv'
    BY <1>7, <1>m, <2>a, <2>b, <2>c, <2>d DEF scan_line, StoreInv, StoreType
  <2>4. SearchFindsLine'
    <3>1. store.line \notin mask => store.line + 1 =< l
      BY <2>0, <2>a, SMTT(60)
    <3>2. QED
      BY <1>7, <1>m, <2>0, <2>c, <2>d, <3>1 DEF scan_line, SearchFindsLine, StoreType
  <2>5. ChangesCovered'
    BY <1>7, <2>d DEF scan_line, ChangesCovered, WillMark, WillProgram, LineOf
  <2>6. QED
    BY <2>1, <2>2, <2>3, <2>4, <2>5
<1>8. CASE clear_load
  <2>0. /\ store.pc = "load" /\ store'.pc = "store" /\ store'.line = store.line
        /\ store'.word = SameWord(store.line, mask)
    BY <1>8, <1>m DEF clear_load, StoreType
  <2>1. TypeOK'
    <3>1. SameWord(store.line, mask) \in SUBSET MaskBits
      BY DEF SameWord, TypeOK
    <3>2. store' \in StoreType
      BY <1>8, <1>m, <3>1 DEF clear_load, StoreType
    <3>3. QED
      BY <1>8, <3>2 DEF clear_load, TypeOK, StoreType
  <2>2. MainInv'
    BY <1>8 DEF clear_load, MainInv
  <2>3. StoreInv'
    <3>1. SameWord(store.line, mask) \subseteq mask
      BY DEF SameWord
    <3>2. QED
      BY <1>8, <2>0, <3>1, SMTT(60) DEF clear_load, StoreInv
  <2>4. SearchFindsLine'
    BY <2>0 DEF SearchFindsLine
  <2>5. ChangesCovered'
    BY <1>8, <2>0 DEF clear_load, ChangesCovered, WillMark, WillProgram, LineOf
  <2>6. QED
    BY <2>1, <2>2, <2>3, <2>4, <2>5, SMTT(60)
<1>9. CASE clear_store
  <2>0. /\ initialised /\ mask \subseteq Lines /\ store.pc = "store" /\ store.line \in Lines
        /\ store.word \subseteq mask
    BY <1>9 DEF clear_store, StoreInv
  <2>a. store.line * LineCells \in Cells /\ LineOf(store.line * LineCells) = store.line
    BY <2>0, FirstCell
  <2>b. mask' \subseteq mask
    BY <1>9, <2>0 DEF clear_store
  <2>c. /\ store'.pc = "program" /\ store'.line = store.line
        /\ store'.next = store.line * LineCells
    BY <1>9, <1>m DEF clear_store, StoreType
  <2>1. TypeOK'
    <3>1. store' \in StoreType
      BY <1>9, <1>m, <2>a DEF clear_store, StoreType
    <3>2. mask' \in SUBSET MaskBits /\ lost' \in BOOLEAN
      BY <1>9, <2>b DEF clear_store, TypeOK
    <3>3. QED
      BY <1>9, <3>1, <3>2 DEF clear_store, TypeOK, StoreType
  <2>2. MainInv'
    <3>1. ASSUME NEW l PROVE SameWord(l, mask') \subseteq SameWord(l, mask)
      BY <2>b DEF SameWord
    <3>2. SameWord(main.line, mask)' = SameWord(main.line, mask')
      BY <1>9 DEF clear_store, SameWord, WordOf
    <3>3. main.pc = "store" => SameWord(main.line, mask)' \subseteq main.word
      BY <3>1, <3>2 DEF MainInv
    <3>4. main' = main /\ initialised' = initialised
      BY <1>9 DEF clear_store
    <3>5. QED
      BY <3>3, <3>4 DEF MainInv, LineOf
  <2>3. StoreInv'
    BY <1>9, <2>0, <2>a, <2>b, <2>c DEF clear_store, StoreInv, LineOf
  <2>4. SearchFindsLine'
    BY <2>c DEF SearchFindsLine
  <2>5. ChangesCovered'
    <3> SUFFICES ASSUME ~lost', NEW c \in Cells, eeprom[c] # buffer[c]
                 PROVE  LineOf(c) \in mask' \/ WillMark(LineOf(c))' \/ WillProgram(c)'
      BY <1>9 DEF clear_store, ChangesCovered, LineOf
    <3>1. ~lost /\ SameWord(store.line, mask) \subseteq store.word
      BY <1>9 DEF clear_store
    <3>2. LineOf(c) \in mask \/ WillMark(LineOf(c))
      BY <2>0, <3>1 DEF ChangesCovered, WillProgram
    <3>3. CASE WillMark(LineOf(c))
      BY <1>9, <3>3 DEF clear_store, WillMark, LineOf
    <3>4. CASE LineOf(c) \in mask /\ LineOf(c) # store.line
      BY <1>9, <3>1, <3>4 DEF clear_store
    <3>5. CASE LineOf(c) = store.line
      <4>1. store.line * LineCells =< c
        BY <3>5, LineBounds, Sizes, SMTT(60) DEF Cells
      <4>2. QED
        BY <2>c, <3>5, <4>1 DEF WillProgram, LineOf
    <3>6. QED
      BY <3>2, <3>3, <3>4, <3>5
  <2>6. QED
    BY <2>1, <2>2, <2>3, <2>4, <2>5, SMTT(60)
<1>10. CASE program_cell
  <2>0. /\ store.pc = "program" /\ store.line \in Lines /\ LineOf(store.next) = store.line
        /\ store.next \in Cells /\ store.next \in Nat /\ initialised
    BY <1>10, <1>m, Sizes, SMTT(60) DEF program_cell, StoreInv, StoreType, Cells
  <2>a. \/ /\ LineOf(store.next + 1) = store.line
           /\ store' = [store EXCEPT !.next = store.next + 1]
        \/ LineOf(store.next + 1) # store.line /\ store' = StoreIdle
    BY <1>10, <1>m DEF program_cell, StoreType
  <2>1. TypeOK'
    <3>1. LineOf(store.next + 1) = store.line => store.next + 1 \in Cells
      <4>1. SUFFICES ASSUME LineOf(store.next + 1) = store.line, store.next + 1 \notin Cells
                     PROVE  FALSE
        OBVIOUS
      <4>2. store.next + 1 = NumLines * LineCells
        BY <2>0, <4>1, Sizes, SMTT(60) DEF Cells
      <4>3. NumLines \in Nat /\ (NumLines + 1) * LineCells = NumLines * LineCells + LineCells
        BY Sizes, SMTT(60)
      <4>4. LineOf(store.next + 1) = NumLines
        BY <4>2, <4>3, Sizes, LineUnique, SMTT(60)
      <4>5. QED
        BY <2>0, <4>1, <4>4, Sizes, SMTT(60) DEF Lines
    <3>2. store' \in StoreType
      BY <1>m, <2>a, <3>1, IdleTypes DEF StoreType
    <3>3. eeprom' \in [Cells -> Values]
      BY <1>10, <2>0 DEF program_cell, TypeOK
    <3>4. QED
      BY <1>10, <3>2, <3>3 DEF program_cell, TypeOK, StoreType
  <2>2. MainInv'
    BY <1>10 DEF program_cell, MainInv
  <2>3. StoreInv'
    BY <1>10, <1>m, <2>0, <2>a DEF program_cell, StoreInv, StoreType, StoreIdle, LineOf
  <2>4. SearchFindsLine'
    BY <1>m, <2>0, <2>a, SMTT(60) DEF SearchFindsLine, StoreType, StoreIdle
  <2>5. ChangesCovered'
    <3> SUFFICES ASSUME ~lost, NEW c \in Cells, eeprom'[c] # buffer[c]
                 PROVE  LineOf(c) \in mask \/ WillMark(LineOf(c)) \/ WillProgram(c)'
      BY <1>10 DEF program_cell, ChangesCovered, WillMark, LineOf
    <3>1. c # store.next /\ eeprom[c] # buffer[c]
      BY <1>10, <2>0 DEF program_cell, TypeOK
    <3>2. LineOf(c) \in mask \/ WillMark(LineOf(c)) \/ WillProgram(c)
      BY <2>0, <3>1 DEF ChangesCovered
    <3>3. CASE WillProgram(c)
      <4>1. c \in Nat /\ store.next + 1 =< c /\ LineOf(c) = store.line
        BY <2>0, <3>1, <3>3, Sizes, SMTT(60) DEF WillProgram, Cells
      <4>2. LineOf(store.next) =< LineOf(store.next + 1) /\ LineOf(store.next + 1) =< LineOf(c)
        BY <2>0, <4>1, LineMonotone, SMTT(60)
      <4>3. LineOf(store.next + 1) \in Nat /\ LineOf(c) \in Nat
        BY <2>0, <4>1, LineBounds, SMTT(60)
      <4>4. LineOf(store.next + 1) = store.line
        BY <2>0, <4>1, <4>2, <4>3, SMTT(60)
      <4>5. QED
        BY <1>m, <2>0, <2>a, <4>1, <4>4 DEF WillProgram, StoreType, LineOf
    <3>4. QED
      BY <3>2, <3>3
  <2>6. QED
    BY <2>1, <2>2, <2>3, <2>4, <2>5, SMTT(60)
<1>11. CASE Crash
  <2>1. TypeOK'
    <3>1. main' \in MainType /\ store' \in StoreType
      BY <1>11, IdleTypes DEF Crash
    <3>2. buffer' \in [Cells -> Values] /\ crashes' \in 0 .. MaxCrashes
      BY <1>11, StorageAssumption, SMTT(60) DEF Crash, TypeOK
    <3>3. QED
      BY <1>11, <3>1, <3>2 DEF Crash, TypeOK, MainType, StoreType
  <2>2. MainInv'
    BY <1>11 DEF Crash, MainInv, MainIdle
  <2>3. StoreInv'
    BY <1>11 DEF Crash, StoreInv, StoreIdle
  <2>4. SearchFindsLine'
    BY <1>11 DEF Crash, SearchFindsLine, StoreIdle
  <2>5. ChangesCovered'
    BY <1>11 DEF Crash, ChangesCovered
  <2>6. QED
    BY <2>1, <2>2, <2>3, <2>4, <2>5, SMTT(60)
<1>12. CASE UNCHANGED vars
  BY <1>12 DEF vars, TypeOK, MainInv, StoreInv, SearchFindsLine, ChangesCovered,
               WillMark, WillProgram, LineOf, SameWord, WordOf
<1>13. QED
  BY <1>1, <1>2, <1>3, <1>4, <1>5, <1>6, <1>7, <1>8, <1>9, <1>10, <1>11, <1>12
     DEF Next, MainStep, StoreStep

-----------------------------------------------------------------------------
\* Both threads keep to the buffer, and everything the properties below need,
\* at every step.
THEOREM Invariance == Spec => []IInv
BY InitIInv, NextIInv, PTL DEF Spec

\* The state keeps its types: in particular write_block, the search and the
\* programming never leave the buffer or the mask.
THEOREM TypeCorrect == Spec => []TypeOK
<1>1. IInv => TypeOK
  BY DEF IInv
<1>2. QED
  BY Invariance, <1>1, PTL

\* _timer_tick's search always finds a dirty line: the branch commented "this
\* shouldn't be possible" is never taken while the layout ends below the end
\* of storage.
THEOREM SearchSucceeds == Spec => []SearchFindsLine
<1>1. IInv => SearchFindsLine
  BY DEF IInv
<1>2. QED
  BY Invariance, <1>1, PTL

\* A changed line is forgotten only when clear() overwrites a mark made since
\* it loaded the word: the exact extent of the race the comment on
\* _mark_dirty dismisses.
THEOREM OnlyTheRaceForgets == Spec => []ForgottenOnlyByRace
<1>1. IInv => ForgottenOnlyByRace
  BY DEF IInv, ChangesCovered, ForgottenOnlyByRace, NoLineForgotten, WillMark, WillProgram
<1>2. QED
  BY Invariance, <1>1, PTL

=============================================================================
