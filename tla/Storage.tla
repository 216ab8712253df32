------------------------------- MODULE Storage -------------------------------
(***************************************************************************)
(* Parameter storage of the flight controller: PX4Storage keeps a RAM copy *)
(* of the EEPROM, marks the lines a caller changed in a bit mask, and a    *)
(* storage thread programs one dirty line per tick.                        *)
(*                                                                         *)
(* Two threads take steps: the caller of write_block (the main thread) and *)
(* the storage thread.  Neither locks anything, so every access to shared  *)
(* memory is a step: one word copied into the buffer, one load and one     *)
(* store of a word of the mask, one word programmed.  While setup() runs,  *)
(* and after a loop overrun, the main thread has the lower priority; at    *)
(* all other times the storage thread has: each can preempt the other.     *)
(*                                                                         *)
(* A cell is a 4 byte word of storage.  A power loss (Crash) keeps the     *)
(* EEPROM only.                                                            *)
(***************************************************************************)
EXTENDS Naturals, FiniteSets

CONSTANTS NumLines,     \* PX4_STORAGE_NUM_LINES
          LineCells,    \* cells in a line: PX4_STORAGE_LINE_SIZE / 4
          BitsPerWord,  \* width of a word of the mask
          LayoutEnd,    \* first cell no StorageManager area reaches
          Values,       \* what a cell may hold
          Zero,         \* the value of memory that was never written
          MaxWrites,    \* bound: write_block calls
          MaxCrashes    \* bound: power losses

ASSUME StorageAssumption ==
    /\ NumLines \in Nat \ {0}
    /\ LineCells \in Nat \ {0}
    /\ BitsPerWord \in Nat \ {0}
    /\ LayoutEnd \in 1 .. NumLines * LineCells
    /\ Zero \in Values
    /\ MaxWrites \in Nat
    /\ MaxCrashes \in Nat

\* The copter layout ends below the last line, so a write that ends on the
\* end of a line marks a line that exists.
ASSUME LayoutAssumption == LayoutEnd < NumLines * LineCells

Lines == 0 .. NumLines - 1
Cells == 0 .. NumLines * LineCells - 1
LineOf(c) == c \div LineCells

\* A mask is the set of bits that are set.
WordOf(b) == b \div BitsPerWord
SameWord(b, bits) == {x \in bits : WordOf(x) = WordOf(b)}
MaskBits == 0 .. (WordOf(NumLines - 1) + 1) * BitsPerWord - 1

VARIABLES
    eeprom,       \* the device: what each cell holds
    buffer,       \* _buffer
    mask,         \* _dirty_mask
    initialised,  \* _initialised
    main,         \* the thread in write_block: [pc, val, next, end, line, word]
    store,        \* the storage thread: [pc, line, next, word]
    lost,         \* history: a clear stored over a mask word set meanwhile
    writes,       \* number of write_block calls so far
    crashes       \* number of power losses so far

vars == <<eeprom, buffer, mask, initialised, main, store, lost, writes, crashes>>

MainIdle == [pc |-> "idle", val |-> Zero, next |-> 0, end |-> 0, line |-> 0,
             word |-> {}]
StoreIdle == [pc |-> "idle", line |-> 0, next |-> 0, word |-> {}]

-----------------------------------------------------------------------------
\* The program starts: the buffer is zero (bss), the words of the mask are
\* whatever the heap held, the device keeps its contents.
Init ==
    /\ eeprom \in [Cells -> Values]
    /\ buffer = [c \in Cells |-> Zero]
    /\ mask \in SUBSET MaskBits
    /\ initialised = FALSE
    /\ main = MainIdle
    /\ store = StoreIdle
    /\ lost = FALSE
    /\ writes = 0
    /\ crashes = 0

\* Mutant: the mask keeps what the heap held.
Mut_storage_open ==
    /\ ~initialised
    /\ buffer' = eeprom
    /\ initialised' = TRUE
    /\ UNCHANGED <<eeprom, mask, main, store, lost, writes, crashes>>

\* The first read_block: _storage_open and _mtd_load.  AP_Param::setup reads
\* the header before anything is written.
storage_open ==
    /\ ~initialised
    /\ mask' = {}
    /\ buffer' = eeprom
    /\ initialised' = TRUE
    /\ UNCHANGED <<eeprom, main, store, lost, writes, crashes>>

\* write_block: the range check, then nothing unless a byte differs.
write_block(loc, n, v) ==
    /\ main.pc = "idle"
    /\ initialised
    /\ writes < MaxWrites
    /\ loc + n =< LayoutEnd
    /\ \E c \in loc .. loc + n - 1 : buffer[c] # v
    /\ main' = [pc |-> "copy", val |-> v, next |-> loc, end |-> loc + n,
                line |-> LineOf(loc), word |-> {}]
    /\ writes' = writes + 1
    /\ UNCHANGED <<eeprom, buffer, mask, initialised, store, lost, crashes>>

\* memcpy into the buffer, a word at a time.
copy_cell ==
    /\ main.pc = "copy"
    /\ buffer' = [buffer EXCEPT ![main.next] = main.val]
    /\ main' = [main EXCEPT !.next = @ + 1,
                            !.pc = IF main.next + 1 = main.end THEN "load" ELSE "copy"]
    /\ UNCHANGED <<eeprom, mask, initialised, store, lost, writes, crashes>>

\* _mark_dirty, one line: load the word of the mask ...
mark_load ==
    /\ main.pc = "load"
    /\ main' = [main EXCEPT !.pc = "store", !.word = SameWord(main.line, mask)]
    /\ UNCHANGED <<eeprom, buffer, mask, initialised, store, lost, writes, crashes>>

\* Mutant: the line of the end address is left out.
Mut_mark_store ==
    /\ main.pc = "store"
    /\ mask' = (mask \ SameWord(main.line, mask)) \cup main.word \cup {main.line}
    /\ main' = IF main.line + 1 < LineOf(main.end)
                 THEN [main EXCEPT !.pc = "load", !.line = @ + 1, !.word = {}]
                 ELSE MainIdle
    /\ UNCHANGED <<eeprom, buffer, initialised, store, lost, writes, crashes>>

\* ... and store it with the bit set, up to the line of the end address.
mark_store ==
    /\ main.pc = "store"
    /\ mask' = (mask \ SameWord(main.line, mask)) \cup main.word \cup {main.line}
    /\ main' = IF main.line < LineOf(main.end)
                 THEN [main EXCEPT !.pc = "load", !.line = @ + 1, !.word = {}]
                 ELSE MainIdle
    /\ UNCHANGED <<eeprom, buffer, initialised, store, lost, writes, crashes>>

-----------------------------------------------------------------------------
\* Mutant: the search starts at the second line.
Mut_timer_tick ==
    /\ store.pc = "idle"
    /\ initialised
    /\ mask # {}
    /\ store' = [StoreIdle EXCEPT !.pc = "scan", !.line = 1]
    /\ UNCHANGED <<eeprom, buffer, mask, initialised, main, lost, writes, crashes>>

\* _timer_tick: nothing to do unless open and some bit is set.
timer_tick ==
    /\ store.pc = "idle"
    /\ initialised
    /\ mask # {}
    /\ store' = [StoreIdle EXCEPT !.pc = "scan"]
    /\ UNCHANGED <<eeprom, buffer, mask, initialised, main, lost, writes, crashes>>

\* The search for the first dirty line looks at one bit per step; the tick
\* returns when it runs off the end.
scan_line ==
    /\ store.pc = "scan"
    /\ store' = IF store.line = NumLines THEN StoreIdle
                ELSE IF store.line \in mask THEN [store EXCEPT !.pc = "load"]
                                            ELSE [store EXCEPT !.line = @ + 1]
    /\ UNCHANGED <<eeprom, buffer, mask, initialised, main, lost, writes, crashes>>

\* _mtd_write marks the line clean before it programs it: load the word ...
clear_load ==
    /\ store.pc = "load"
    /\ store' = [store EXCEPT !.pc = "store", !.word = SameWord(store.line, mask)]
    /\ UNCHANGED <<eeprom, buffer, mask, initialised, main, lost, writes, crashes>>

\* ... and store it without the bit.
clear_store ==
    /\ store.pc = "store"
    /\ mask' = (mask \ SameWord(store.line, mask)) \cup (store.word \ {store.line})
    /\ lost' = (lost \/ ~(SameWord(store.line, mask) \subseteq store.word))
    /\ store' = [store EXCEPT !.pc = "program", !.next = store.line * LineCells,
                              !.word = {}]
    /\ UNCHANGED <<eeprom, buffer, initialised, main, writes, crashes>>

\* Mutant: the last cell of the line is not programmed.
Mut_program_cell ==
    /\ store.pc = "program"
    /\ eeprom' = [eeprom EXCEPT ![store.next] = buffer[store.next]]
    /\ store' = IF LineOf(store.next + 2) = store.line
                  THEN [store EXCEPT !.next = @ + 1]
                  ELSE StoreIdle
    /\ UNCHANGED <<buffer, mask, initialised, main, lost, writes, crashes>>

\* dev_eeprom_write: EEPROMProgram reads the live buffer, word by word.
program_cell ==
    /\ store.pc = "program"
    /\ eeprom' = [eeprom EXCEPT ![store.next] = buffer[store.next]]
    /\ store' = IF LineOf(store.next + 1) = store.line
                  THEN [store EXCEPT !.next = @ + 1]
                  ELSE StoreIdle
    /\ UNCHANGED <<buffer, mask, initialised, main, lost, writes, crashes>>

-----------------------------------------------------------------------------
\* Power loss and restart.
Crash ==
    /\ crashes < MaxCrashes
    /\ crashes' = crashes + 1
    /\ buffer' = [c \in Cells |-> Zero]
    /\ mask' \in SUBSET MaskBits
    /\ initialised' = FALSE
    /\ main' = MainIdle
    /\ store' = StoreIdle
    /\ lost' = FALSE
    /\ UNCHANGED <<eeprom, writes>>

MainStep == copy_cell \/ mark_load \/ mark_store
StoreStep == timer_tick \/ scan_line \/ clear_load \/ clear_store \/ program_cell

Next ==
    \/ storage_open
    \/ \E loc \in Cells, n \in 1 .. LayoutEnd, v \in Values : write_block(loc, n, v)
    \/ MainStep
    \/ StoreStep
    \/ Crash

Spec == Init /\ [][Next]_vars

\* Both threads are scheduled again and again, and every start opens storage.
FairSpec == Spec /\ WF_vars(storage_open) /\ WF_vars(MainStep) /\ WF_vars(StoreStep)

-----------------------------------------------------------------------------
\* Every variable keeps its type, and the two threads stay inside the buffer.
TypeOK ==
    /\ eeprom \in [Cells -> Values]
    /\ buffer \in [Cells -> Values]
    /\ mask \in SUBSET MaskBits
    /\ initialised \in BOOLEAN
    /\ main \in [pc : {"idle", "copy", "load", "store"}, val : Values,
                 next : 0 .. LayoutEnd, end : 0 .. LayoutEnd, line : Lines,
                 word : SUBSET MaskBits]
    /\ store \in [pc : {"idle", "scan", "load", "store", "program"},
                  line : 0 .. NumLines, next : Cells, word : SUBSET MaskBits]
    /\ lost \in BOOLEAN
    /\ writes \in 0 .. MaxWrites
    /\ crashes \in 0 .. MaxCrashes

\* The comment on _mark_dirty: losing the race with _timer_tick "won't result
\* in a line not being written".  With both threads at rest, a line whose
\* buffer differs from the device is still marked.
NoLineForgotten ==
    (initialised /\ main.pc = "idle" /\ store.pc = "idle") =>
        \A c \in Cells : eeprom[c] # buffer[c] => LineOf(c) \in mask

\* The only way a changed line is forgotten is the one interleaving `lost'
\* records: _dirty_mask.clear stores a word in which write_block has set the
\* bit of another line since clear loaded it.  In particular marking after
\* the copy, and clearing before programming from the live buffer, are right.
ForgottenOnlyByRace == lost \/ NoLineForgotten

\* _timer_tick's "this shouldn't be possible": a mask that is not empty has a
\* dirty line among the lines of storage, whatever write_block does while the
\* search runs, so the search never runs off the end.
SearchFindsLine ==
    store.pc = "scan" => \E l \in mask : store.line =< l /\ l < NumLines

\* Once callers stop writing and the power stays on, the device ends up
\* holding the buffer and nothing stays marked, however writes and ticks
\* interleaved (short of the lost mark).
EventuallySaved ==
    <>[](initialised /\ mask = {} /\ (lost \/ eeprom = buffer))

-----------------------------------------------------------------------------
(* The inductive invariant behind the safety properties. *)

\* write_block still has the mark of line l to make.
WillMark(l) == main.pc # "idle" /\ main.line =< l /\ l =< LineOf(main.end)

\* The storage thread has not yet reached cell c of the line it programs.
WillProgram(c) == store.pc = "program" /\ LineOf(c) = store.line /\ store.next =< c

MainInv ==
    /\ main.pc # "idle" => initialised /\ main.line =< LineOf(main.end)
    /\ main.pc = "copy" => main.next < main.end /\ main.line =< LineOf(main.next)
    /\ main.pc = "store" => /\ SameWord(main.line, mask) \subseteq main.word
                            /\ main.word \subseteq Lines

StoreInv ==
    /\ initialised => mask \subseteq Lines
    /\ store.pc # "idle" => initialised
    /\ store.pc \in {"load", "store"} => store.line \in Lines /\ store.line \in mask
    /\ store.pc = "store" => store.word \subseteq mask
    /\ store.pc = "program" => store.line \in Lines /\ LineOf(store.next) = store.line

\* A cell that differs from the device is marked, about to be marked, or about
\* to be programmed: at every step of both threads, unless a mark was lost.
\* It fails if write_block marked before it copied, or if _mtd_write cleared
\* the bit after programming.
ChangesCovered ==
    initialised /\ ~lost =>
        \A c \in Cells : eeprom[c] # buffer[c] =>
            LineOf(c) \in mask \/ WillMark(LineOf(c)) \/ WillProgram(c)

IInv == TypeOK /\ MainInv /\ StoreInv /\ SearchFindsLine /\ ChangesCovered

=============================================================================
