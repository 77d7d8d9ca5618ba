------------------------------ MODULE Console ------------------------------
(***************************************************************************)
(* drivers/vga/src/d_screen.c and page_fault_handler of mmu.c: cores print *)
(* on the one screen, whose cursor they read and write through an index    *)
(* and a data port.  Boot code prints without a lock, and the handler      *)
(* under one that only it takes; the lock is that of QueueLock, which      *)
(* SpinLock implements.  A core's print may itself be cut short by a page  *)
(* fault, from whose handler nothing returns.                              *)
(*                                                                         *)
(* Offsets count characters, not bytes, and the attributes are left out:   *)
(* all callers use the default.  A character, with the scrolling it may    *)
(* cause, is put on the screen in one step.  print_at has no caller that   *)
(* gives a position.                                                       *)
(***************************************************************************)
EXTENDS Conversions

CONSTANTS Cores,
          MAX_ROWS, MAX_COLS,
          ByteBase,             \* how many values a cursor register has
          BootFormat, FaultFormat,      \* the formats printed
          BootArgs, FaultArgs           \* and each core's arguments

ASSUME ConsoleAssumption ==
  /\ MAX_ROWS \in Nat \ {0} /\ MAX_COLS \in Nat \ {0}
  /\ ByteBase \in Nat \ {0} /\ MAX_ROWS * MAX_COLS <= ByteBase * ByteBase

VARIABLES screen,       \* the character cells
          index, data,  \* the register selected, and registers 14 and 15
          pc, text,     \* per core: the next step, and what is left to print
          offset,       \* per core: the cursor as far as it has been read
          inHandler,    \* the cores in page_fault_handler
          queue, taken, \* the handler's lock
          log, mixed    \* the texts printed, and whether any was disturbed

screenVars == <<screen, index, data>>
lockVars == <<queue, taken>>
vars == <<screenVars, pc, text, offset, inHandler, lockVars, log, mixed>>

Lock == INSTANCE QueueLock

Cell == 0 .. MAX_ROWS * MAX_COLS - 1

-----------------------------------------------------------------------------
(* vga_printf: the text of a format and its arguments. *)
Converted(c, arg) ==
  CASE c = "c" -> <<arg>>
    [] c = "d" -> IntToStr(arg)
    [] c = "u" -> UintToStr(arg)
    [] c = "f" -> FloatToStr(arg)
    [] c = "s" -> arg
    [] c = "p" -> UdecToHex(arg % 2 ^ IntBits)

VgaPrintf(format, arguments) ==
  LET Add(s, out) == [s EXCEPT !.out = @ \o out, !.escape = FALSE]
      Step(s, c) ==
        IF ~ s.escape
          THEN IF c = "%" THEN [s EXCEPT !.escape = TRUE] ELSE Add(s, <<c>>)
          ELSE IF c \in {"c", "d", "u", "f", "s", "p"}
            THEN [Add(s, Converted(c, Head(s.args))) EXCEPT !.args = Tail(@)]
            ELSE Add(s, IF c = "%" THEN <<c>> ELSE <<>>)
  IN FoldLeft(Step, [out |-> <<>>, args |-> arguments, escape |-> FALSE], format).out

BootTexts == [c \in Cores |-> VgaPrintf(BootFormat, BootArgs[c])]
FaultTexts == [c \in Cores |-> VgaPrintf(FaultFormat, FaultArgs[c])]

-----------------------------------------------------------------------------
(* screen_scroll_below, and print_char_at at an offset. *)
(* Mutant of ScreenScrollBelow: the last row is not cleared. *)
ScrollKeepingLast(cells) ==
  [k \in Cell |-> IF k + MAX_COLS \in Cell THEN cells[k + MAX_COLS] ELSE cells[k]]
ScreenScrollBelow(cells) ==
  [k \in Cell |-> IF k + MAX_COLS \in Cell THEN cells[k + MAX_COLS] ELSE ""]

NextOffset(at, c) ==
  CASE c = "\n" -> (at \div MAX_COLS + 1) * MAX_COLS
    [] c = "\t" -> (at \div MAX_COLS) * MAX_COLS
    [] OTHER -> at + 1
Written(cells, at, c) == IF c \in {"\n", "\t"} THEN cells ELSE [cells EXCEPT ![at] = c]

(* Mutant of Overflows: the screen is one character larger. *)
OverflowsLate(at) == at > MAX_ROWS * MAX_COLS
Overflows(at) == at >= MAX_ROWS * MAX_COLS

PrintCharAt(cells, at, c) ==
  LET next == NextOffset(at, c)
  IN IF Overflows(next)
       THEN [cells |-> ScreenScrollBelow(Written(cells, at, c)), next |-> next - MAX_COLS]
       ELSE [cells |-> Written(cells, at, c), next |-> next]

(* vga_screen_clear prints a blank at each position, the last of which     *)
(* scrolls.                                                                *)
ScreenClear(cells) ==
  FoldLeft(LAMBDA s, at : PrintCharAt(s, at, " ").cells, cells,
           [k \in 1 .. MAX_ROWS * MAX_COLS |-> k - 1])

(* screen_init, as BOOT_START's hook; what the screen showed is lost. *)
Init ==
  /\ screen = ScreenClear([k \in Cell |-> "?"])
  /\ index = 15 /\ data = [r \in {14, 15} |-> 0]
  /\ pc = [c \in Cores |-> "boot"]
  /\ text = [c \in Cores |-> <<>>]
  /\ offset = [c \in Cores |-> 0]
  /\ inHandler = {}
  /\ Lock!Init
  /\ log = <<>> /\ mixed = FALSE

-----------------------------------------------------------------------------
Step(c, from, to) == pc[c] = from /\ pc' = [pc EXCEPT ![c] = to]
Steps == {"select 14", "read 14", "select 15", "read 15", "put",
          "reselect 14", "write 14", "reselect 15", "write 15"}
Printing == {c \in Cores : pc[c] \in Steps}

(* A call of vga_printf, which disturbs every other that has begun. *)
BeginPrint(c, message, from) ==
  /\ Step(c, from, "select 14")
  /\ text' = [text EXCEPT ![c] = message]
  /\ log' = Append(log, message)
  /\ mixed' = (mixed \/ Printing # {})

(* One core at a time prints at boot: there is one, or it has boot_spinlock. *)
PrintAtBoot(c) ==
  /\ Printing \subseteq inHandler
  /\ BeginPrint(c, BootTexts[c], "boot")
  /\ UNCHANGED <<screenVars, offset, inHandler, lockVars>>

(* screen_get_cursor_offset *)
Select(c) ==
  /\ ~ mixed
  /\ \E r \in {<<"select 14", "read 14", 14>>, <<"select 15", "read 15", 15>>,
               <<"reselect 14", "write 14", 14>>, <<"reselect 15", "write 15", 15>>} :
       Step(c, r[1], r[2]) /\ index' = r[3]
  /\ UNCHANGED <<screen, data, text, offset, inHandler, lockVars, log, mixed>>

Read(c) ==
  /\ ~ mixed
  /\ \/ /\ Step(c, "read 14", "select 15")
        /\ offset' = [offset EXCEPT ![c] = data[index] * ByteBase]
     \/ /\ Step(c, "read 15", "put")
        /\ offset' = [offset EXCEPT ![c] = @ + data[index]]
  /\ UNCHANGED <<screenVars, text, inHandler, lockVars, log, mixed>>

Put(c) ==
  /\ ~ mixed
  /\ Step(c, "put", "reselect 14")
  /\ LET put == PrintCharAt(screen, offset[c], Head(text[c]))
     IN screen' = put.cells /\ offset' = [offset EXCEPT ![c] = put.next]
  /\ text' = [text EXCEPT ![c] = Tail(@)]
  /\ UNCHANGED <<index, data, inHandler, lockVars, log, mixed>>

(* screen_set_cursor_offset, and on to the next character of the text. *)
AfterText(c) == IF c \in inHandler THEN "unlock" ELSE "printed"
Write(c) ==
  /\ ~ mixed
  /\ \/ /\ Step(c, "write 14", "reselect 15")
        /\ data' = [data EXCEPT ![index] = (offset[c] \div ByteBase) % ByteBase]
     \/ /\ Step(c, "write 15", IF text[c] = <<>> THEN AfterText(c) ELSE "select 14")
        /\ data' = [data EXCEPT ![index] = offset[c] % ByteBase]
  /\ UNCHANGED <<screen, index, text, offset, inHandler, lockVars, log, mixed>>

(* What texts that mix leave on the screen is not followed, nor anything   *)
(* that is printed later: each comes to its end in one step.               *)
PrintMixed(c) ==
  /\ mixed /\ c \in Printing
  /\ pc' = [pc EXCEPT ![c] = AfterText(c)]
  /\ text' = [text EXCEPT ![c] = <<>>]
  /\ UNCHANGED <<screenVars, offset, inHandler, lockVars, log, mixed>>

-----------------------------------------------------------------------------
(* A page fault comes at any time but in the handler itself. *)
PageFault(c) ==
  /\ c \notin inHandler
  /\ mixed' = (mixed \/ c \in Printing)
  /\ inHandler' = inHandler \cup {c}
  /\ pc' = [pc EXCEPT ![c] = "lock"]
  /\ UNCHANGED <<screenVars, text, offset, lockVars, log>>

LockSpin(c) ==
  /\ Step(c, "lock", "waiting")
  /\ Lock!Ask(c)
  /\ UNCHANGED <<screenVars, text, offset, inHandler, log, mixed>>

Report(c) ==
  /\ Lock!Take(c)
  /\ BeginPrint(c, FaultTexts[c], "waiting")
  /\ UNCHANGED <<screenVars, offset, inHandler>>

(* smp_unlock, and then while (1). *)
(* Mutant of UnlockSpin: the lock is kept. *)
UnlockSpinNever(c) ==
  /\ Step(c, "unlock", "spinning")
  /\ UNCHANGED <<screenVars, text, offset, inHandler, lockVars, log, mixed>>
UnlockSpin(c) ==
  /\ Step(c, "unlock", "spinning")
  /\ Lock!Give(c)
  /\ UNCHANGED <<screenVars, text, offset, inHandler, log, mixed>>

-----------------------------------------------------------------------------
Go(c) == Select(c) \/ Read(c) \/ Put(c) \/ Write(c) \/ PrintMixed(c)
         \/ LockSpin(c) \/ Report(c) \/ UnlockSpin(c)

Next == \E c \in Cores : PrintAtBoot(c) \/ PageFault(c) \/ Go(c)

(* Every core runs; none need print at boot or fault. *)
Spec == Init /\ [][Next]_vars /\ \A c \in Cores : WF_vars(Go(c))

-----------------------------------------------------------------------------
(* Reference: the texts on paper that never ends, and its last rows. *)
Paper(chars) ==
  LET Type(p, c) ==
        CASE c = "\n" -> [p EXCEPT !.row = @ + 1, !.col = 0]
          [] c = "\t" -> [p EXCEPT !.col = 0]
          [] OTHER -> [ink |-> (<<p.row, p.col>> :> c) @@ p.ink,
                       row |-> IF p.col = MAX_COLS - 1 THEN p.row + 1 ELSE p.row,
                       col |-> (p.col + 1) % MAX_COLS]
  IN FoldLeft(Type, [ink |-> << >>, row |-> 0, col |-> 0], chars)

(* ScreenShowsLog.  While nobody prints, the screen shows the last rows of *)
(* what was printed, in order, and the cursor is where it ended, however   *)
(* often it scrolled; provided that no two printed at once and no page     *)
(* fault cut a text short, which the handler's lock does not prevent.      *)
ScreenShowsLog ==
  ~ mixed /\ Printing = {} =>
    LET paper == Paper(FlattenSeq(log))
        top == IF paper.row < MAX_ROWS THEN 0 ELSE paper.row - MAX_ROWS + 1
        At(k) == <<top + k \div MAX_COLS, k % MAX_COLS>>
    IN /\ \A k \in Cell : IF At(k) \in DOMAIN paper.ink THEN screen[k] = paper.ink[At(k)]
                                                        ELSE screen[k] \in {" ", ""}
       /\ data[14] * ByteBase + data[15] = (paper.row - top) * MAX_COLS + paper.col

(* CursorOnScreen.  A core that is about to write a character has a place  *)
(* on the screen for it, although the two halves of the cursor are read    *)
(* and written apart; again unless two print at once or one is cut short.  *)
CursorOnScreen ==
  ~ mixed => \A c \in Cores : pc[c] = "put" => offset[c] \in Cell

(* ConversionsReadBack.  Whoever reads the text that vga_printf's          *)
(* conversions make of a number, which may be any, reads that number,      *)
(* without leading zeros in base 10.  The exceptions are the least         *)
(* integer, whose digits are lost, and the sign of a float between -1 and  *)
(* 0.  As it is about no state it is asked only until the first print.     *)
ConversionsReadBack == log = <<>> => ReadBack

(* FaultsReported.  Every core that faults prints what it has to say and   *)
(* leaves the lock to the next, whatever is printed beside it.             *)
FaultsReported == \A c \in Cores : c \in inHandler ~> pc[c] = "spinning"
=============================================================================
