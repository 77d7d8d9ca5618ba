--------------------------- MODULE ConsoleProofs ---------------------------
(***************************************************************************)
(* A proof about Console, for any number of cores, any screen, and any     *)
(* formats and arguments: the cursor, which is read and written in halves, *)
(* stays on the screen.                                                    *)
(***************************************************************************)
EXTENDS Console, TLAPS

(* Where a core may be.                                                     *)
Control == Steps \cup {"boot", "printed", "lock", "waiting", "unlock", "spinning"}

(* The cursor as its two registers have it.                                 *)
Cursor == data[14] * ByteBase + data[15]

(* What a core may rely on at each step of print_char.  Until it writes, the *)
(* cursor is that of the text before; while it writes, the cursor is        *)
(* neither the old nor the new one, and only the core's own offset tells    *)
(* where the text goes on.                                                  *)
StepInv(c) ==
  /\ pc[c] \in {"select 14", "read 14", "select 15", "read 15"} => Cursor \in Cell
  /\ pc[c] \in {"read 14", "write 14"} => index = 14
  /\ pc[c] \in {"read 15", "write 15"} => index = 15
  /\ pc[c] \in {"select 15", "read 15"} => offset[c] = data[14] * ByteBase
  /\ pc[c] \in {"put", "reselect 14", "write 14", "reselect 15", "write 15"}
       => offset[c] \in Cell
  /\ pc[c] \in {"reselect 15", "write 15"} => data[14] = offset[c] \div ByteBase

(* The inductive invariant: until texts mix, one core at most is printing,  *)
(* and the registers are what it has made of them.                          *)
CursorInv ==
  /\ index \in {14, 15}
  /\ data \in [{14, 15} -> 0 .. ByteBase - 1]
  /\ offset \in [Cores -> Int]
  /\ pc \in [Cores -> Control]
  /\ ~ mixed => /\ \A c, d \in Printing : c = d
                /\ Printing = {} => Cursor \in Cell
                /\ \A c \in Printing : StepInv(c)

-----------------------------------------------------------------------------
(* How many cells there are, as a number.                                   *)
LEMMA Cells ==
  /\ MAX_ROWS * MAX_COLS \in Nat \ {0} /\ Cell \subseteq Nat
  /\ MAX_COLS <= MAX_ROWS * MAX_COLS
  /\ \A k : k \in Cell <=> k \in Nat /\ k < MAX_ROWS * MAX_COLS
<1> DEFINE r == MAX_ROWS
           m == MAX_COLS
           n == r * m
<1>1. r \in Nat \ {0} /\ m \in Nat \ {0}
  BY ConsoleAssumption
<1> HIDE DEF r, m
<1>2. n \in Nat \ {0} /\ m <= n
  BY <1>1
<1>3. Cell = 0 .. n - 1
  BY DEF Cell, r, m
<1> HIDE DEF n
<1>4. Cell \subseteq Nat /\ \A k : k \in Cell <=> k \in Nat /\ k < n
  BY <1>2, <1>3
<1> QED
  BY <1>2, <1>4 DEF n, r, m

(* A character, wherever it goes and whether or not the screen scrolls,     *)
(* leaves the cursor on the screen.                                         *)
LEMMA NextOnScreen ==
  ASSUME NEW cells, NEW at \in Cell, NEW c
  PROVE  PrintCharAt(cells, at, c).next \in Cell
<1> DEFINE m == MAX_COLS
           n == MAX_ROWS * MAX_COLS
           q == at \div m
           next == NextOffset(at, c)
<1>1. m \in Nat \ {0} /\ MAX_ROWS \in Nat \ {0} /\ n \in Nat \ {0} /\ m <= n
      /\ at \in Nat /\ at < n /\ n = MAX_ROWS * m
  BY ConsoleAssumption, Cells
<1>2. q \in Nat /\ q * m <= at
  <2> DEFINE r == at % m
  <2>1. q \in Nat /\ r \in Nat /\ at = m * q + r
    <3> HIDE DEF m, n, next
    <3> QED
      BY <1>1
  <2> HIDE DEF m, n, next, q, r
  <2> QED
    BY <1>1, <2>1
<1>3. (q + 1) * m \in Nat /\ (q + 1) * m <= n
  <2> DEFINE r == MAX_ROWS
  <2>1. r \in Nat /\ n = r * m
    BY <1>1
  <2> HIDE DEF q, m, n, r
  <2>2. q < r
    <3>1. CASE r <= q
      <4> DEFINE d == q - r
      <4>1. d \in Nat /\ q = r + d
        BY <1>2, <2>1, <3>1
      <4> HIDE DEF d
      <4>2. q * m = r * m + d * m /\ d * m >= 0
        BY <1>1, <2>1, <4>1
      <4> QED
        BY <1>1, <1>2, <2>1, <4>2
    <3> QED
      BY <1>2, <2>1, <3>1
  <2> DEFINE e == r - (q + 1)
  <2>3. e \in Nat /\ r = (q + 1) + e
    BY <1>2, <2>1, <2>2
  <2> HIDE DEF e
  <2> DEFINE a == (q + 1) * m
             f == e * m
  <2>4. r * m = a + f /\ f \in Nat /\ a \in Nat
    BY <1>1, <1>2, <2>1, <2>3
  <2> HIDE DEF a, f
  <2>5. a \in Nat /\ a <= n
    BY <1>1, <2>1, <2>4
  <2> QED
    BY <2>5 DEF a
<1>4. next \in Nat /\ next <= n
  <2>1. next = IF c = "\n" THEN (q + 1) * m ELSE IF c = "\t" THEN q * m ELSE at + 1
    <3>1. CASE c = "\n"
      BY <3>1 DEF NextOffset
    <3>2. CASE c = "\t"
      BY <3>2 DEF NextOffset
    <3>3. CASE c \notin {"\n", "\t"}
      BY <3>3 DEF NextOffset
    <3> QED
      BY <3>1, <3>2, <3>3
  <2>2. q * m \in Nat
    <3> HIDE DEF q, m
    <3> QED
      BY <1>1, <1>2
  <2> DEFINE a == (q + 1) * m
             b == q * m
  <2>3. a \in Nat /\ a <= n /\ b \in Nat /\ b <= at
    BY <1>2, <1>3, <2>2
  <2>4. next = IF c = "\n" THEN a ELSE IF c = "\t" THEN b ELSE at + 1
    BY <2>1
  <2> HIDE DEF a, b, next, n, m, q
  <2> QED
    BY <1>1, <2>3, <2>4
<1>5. PrintCharAt(cells, at, c).next = IF next >= n THEN next - m ELSE next
  BY DEF PrintCharAt, Overflows
<1> HIDE DEF next
<1>6. PrintCharAt(cells, at, c).next \in Nat /\ PrintCharAt(cells, at, c).next < n
  <2> HIDE DEF n, m, q
  <2> QED
    BY <1>1, <1>4, <1>5
<1> QED
  BY <1>6, Cells

(* Numbers below b * b have two digits in base b.                           *)
LEMMA TwoDigits ==
  ASSUME NEW b \in Nat \ {0}, NEW at \in Nat, at < b * b
  PROVE  /\ at \div b \in 0 .. b - 1 /\ (at \div b) % b = at \div b
         /\ at % b \in 0 .. b - 1 /\ (at \div b) * b + (at % b) = at
<1> DEFINE q == at \div b
           r == at % b
<1>2. q \in Nat /\ r \in 0 .. b - 1 /\ at = b * q + r
  OBVIOUS
<1> SUFFICES q \in 0 .. b - 1 /\ q % b = q /\ r \in 0 .. b - 1 /\ q * b + r = at
  OBVIOUS
<1> HIDE DEF q, r
<1>3. q < b
  <2>1. CASE b <= q
    <3> DEFINE d == q - b
    <3>1. d \in Nat /\ q = b + d
      BY <1>2, <2>1
    <3> HIDE DEF d
    <3>2. b * q = b * b + b * d /\ b * d >= 0
      BY <3>1
    <3> QED
      BY <1>2, <3>2
  <2> QED
    BY <1>2, <2>1
<1> QED
  BY <1>2, <1>3

(* Two registers hold every place on the screen.                            *)
LEMMA Halves ==
  ASSUME NEW at \in Cell
  PROVE  /\ at \div ByteBase \in 0 .. ByteBase - 1
         /\ (at \div ByteBase) % ByteBase = at \div ByteBase
         /\ at % ByteBase \in 0 .. ByteBase - 1
         /\ (at \div ByteBase) * ByteBase + (at % ByteBase) = at
<1>1. ByteBase \in Nat \ {0} /\ at \in Nat /\ at < ByteBase * ByteBase
  <2> DEFINE n == MAX_ROWS * MAX_COLS
             b == ByteBase * ByteBase
  <2>1. n \in Nat /\ n <= b /\ b \in Nat /\ at \in Nat /\ at < n
    BY ConsoleAssumption, Cells
  <2> HIDE DEF n, b
  <2>2. at < b
    BY <2>1
  <2> QED
    BY <2>1, <2>2, ConsoleAssumption DEF b
<1> QED
  BY <1>1, TwoDigits

-----------------------------------------------------------------------------
LEMMA InitCursor == Init => CursorInv
<1> SUFFICES ASSUME Init PROVE CursorInv
  OBVIOUS
<1>1. /\ index = 15 /\ data = [r \in {14, 15} |-> 0] /\ offset = [c \in Cores |-> 0]
      /\ pc = [c \in Cores |-> "boot"]
  BY DEF Init
<1>2. 0 \in 0 .. ByteBase - 1 /\ 0 \in Cell
  BY ConsoleAssumption, Cells
<1>3. Printing = {}
  BY <1>1 DEF Printing, Steps, Control
<1>4. data \in [{14, 15} -> 0 .. ByteBase - 1]
  BY <1>1, <1>2
<1>5. Cursor = 0
  <2>1. data[14] = 0 /\ data[15] = 0
    BY <1>1
  <2> QED
    BY <2>1, ConsoleAssumption DEF Cursor
<1>6. offset \in [Cores -> Int] /\ pc \in [Cores -> Control]
  BY <1>1 DEF Control
<1>7. index \in {14, 15}
  BY <1>1
<1> QED
  BY <1>2, <1>3, <1>4, <1>5, <1>6, <1>7 DEF CursorInv

(* A print that begins finds the cursor on the screen, unless it disturbs   *)
(* another.                                                                 *)
LEMMA BeginStep ==
  ASSUME CursorInv, NEW c \in Cores, NEW message, NEW from, BeginPrint(c, message, from),
         index' = index, data' = data, offset' = offset
  PROVE  CursorInv'
<1>1. /\ pc' = [pc EXCEPT ![c] = "select 14"] /\ pc' \in [Cores -> Control]
      /\ mixed' = (mixed \/ Printing # {})
  BY DEF BeginPrint, Step, CursorInv, Control, Steps
<1>2. ASSUME ~ mixed'
      PROVE  Printing' = {c} /\ Cursor' \in Cell /\ StepInv(c)'
  <2>1. ~ mixed /\ Printing = {}
    BY <1>1, <1>2
  <2>2. Cursor \in Cell /\ Cursor' = Cursor
    BY <1>1, <2>1 DEF CursorInv, Cursor
  <2>3. pc'[c] = "select 14" /\ \A d \in Cores \ {c} : pc'[d] = pc[d]
    BY <1>1 DEF CursorInv
  <2>4. Printing' = {c}
    BY <2>1, <2>3 DEF Printing, Steps, Control
  <2> QED
    BY <2>2, <2>3, <2>4 DEF StepInv
<1> QED
  BY <1>1, <1>2 DEF CursorInv

(* A step of the one core that prints.                                      *)
LEMMA OwnStep ==
  ASSUME CursorInv, NEW c \in Printing, ~ mixed, mixed' = mixed,
         NEW to \in Control, pc' = [pc EXCEPT ![c] = to],
         index' \in {14, 15}, data' \in [{14, 15} -> 0 .. ByteBase - 1],
         NEW at \in Int, offset' = [offset EXCEPT ![c] = at],
         to \in Steps => StepInv(c)', to \notin Steps => Cursor' \in Cell
  PROVE  CursorInv'
<1>1. c \in Cores /\ Printing = {c}
  BY DEF CursorInv, Printing
<1>2. /\ pc' \in [Cores -> Control] /\ offset' \in [Cores -> Int]
      /\ pc'[c] = to /\ \A d \in Cores \ {c} : pc'[d] = pc[d]
  BY <1>1 DEF CursorInv
<1>3. Printing' = IF to \in Steps THEN {c} ELSE {}
  BY <1>1, <1>2 DEF Printing
<1> QED
  BY <1>2, <1>3 DEF CursorInv

(* A step to where nothing is printed, of a core that was not printing or   *)
(* whose text is cut short.                                                 *)
LEMMA ElsewhereStep ==
  ASSUME CursorInv, NEW c \in Cores, NEW to \in Control, to \notin Steps,
         pc' = [pc EXCEPT ![c] = to],
         index' = index, data' = data, offset' = offset,
         mixed => mixed', c \in Printing => mixed'
  PROVE  CursorInv'
<1>1. /\ pc' \in [Cores -> Control] /\ pc'[c] = to /\ \A d \in Cores \ {c} : pc'[d] = pc[d]
  BY DEF CursorInv
<1>2. ASSUME ~ mixed'
      PROVE  /\ Printing' = Printing /\ Cursor' = Cursor
             /\ \A d \in Printing : StepInv(d) => StepInv(d)'
  <2>1. c \notin Printing
    BY <1>2
  <2>2. Printing' = Printing
    BY <1>1, <2>1 DEF Printing
  <2>3. Cursor' = Cursor
    BY <1>1 DEF Cursor
  <2>4. ASSUME NEW d \in Printing PROVE pc'[d] = pc[d]
    BY <1>1, <2>1 DEF Printing
  <2> QED
    BY <1>1, <2>2, <2>3, <2>4 DEF StepInv
<1> QED
  BY <1>1, <1>2 DEF CursorInv

LEMMA SelectStep ==
  ASSUME CursorInv, NEW c \in Cores, Select(c)
  PROVE  CursorInv'
<1>1. \E from, to \in Steps : \E i \in {14, 15} :
        /\ pc[c] = from /\ pc' = [pc EXCEPT ![c] = to] /\ index' = i
        /\ \/ from = "select 14" /\ to = "read 14" /\ i = 14
           \/ from = "select 15" /\ to = "read 15" /\ i = 15
           \/ from = "reselect 14" /\ to = "write 14" /\ i = 14
           \/ from = "reselect 15" /\ to = "write 15" /\ i = 15
  <2>1. PICK r \in {<<"select 14", "read 14", 14>>, <<"select 15", "read 15", 15>>,
                    <<"reselect 14", "write 14", 14>>, <<"reselect 15", "write 15", 15>>} :
          Step(c, r[1], r[2]) /\ index' = r[3]
    BY DEF Select
  <2>2. CASE r = <<"select 14", "read 14", 14>>
    BY <2>1, <2>2 DEF Step, Steps, Control
  <2>3. CASE r = <<"select 15", "read 15", 15>>
    BY <2>1, <2>3 DEF Step, Steps, Control
  <2>4. CASE r = <<"reselect 14", "write 14", 14>>
    BY <2>1, <2>4 DEF Step, Steps, Control
  <2>5. CASE r = <<"reselect 15", "write 15", 15>>
    BY <2>1, <2>5 DEF Step, Steps, Control
  <2> QED
    BY <2>2, <2>3, <2>4, <2>5
<1>3. PICK from, to \in Steps : \E i \in {14, 15} :
        /\ pc[c] = from /\ pc' = [pc EXCEPT ![c] = to] /\ index' = i
        /\ \/ from = "select 14" /\ to = "read 14" /\ i = 14
           \/ from = "select 15" /\ to = "read 15" /\ i = 15
           \/ from = "reselect 14" /\ to = "write 14" /\ i = 14
           \/ from = "reselect 15" /\ to = "write 15" /\ i = 15
  BY <1>1
<1>2. ~ mixed /\ mixed' = mixed /\ data' = data /\ offset' = offset
  BY DEF Select
<1>4. \/ from = "select 14" /\ to = "read 14" /\ index' = 14
      \/ from = "select 15" /\ to = "read 15" /\ index' = 15
      \/ from = "reselect 14" /\ to = "write 14" /\ index' = 14
      \/ from = "reselect 15" /\ to = "write 15" /\ index' = 15
  BY <1>3
<1>5. c \in Printing /\ to \in Control /\ to \in Steps
  BY <1>3, <1>4 DEF Printing, Steps, Control
<1>6. StepInv(c) /\ Cursor' = Cursor
  BY <1>2, <1>5 DEF CursorInv, Cursor
<1>7. pc'[c] = to /\ offset[c] \in Int /\ offset' = [offset EXCEPT ![c] = offset[c]]
  BY <1>2, <1>3 DEF CursorInv
<1>8. StepInv(c)'
  BY <1>2, <1>3, <1>4, <1>6, <1>7 DEF StepInv
<1>9. index' \in {14, 15} /\ data' \in [{14, 15} -> 0 .. ByteBase - 1]
  BY <1>2, <1>4 DEF CursorInv
<1> QED
  BY <1>2, <1>3, <1>5, <1>7, <1>8, <1>9, OwnStep

LEMMA ReadStep ==
  ASSUME CursorInv, NEW c \in Cores, Read(c)
  PROVE  CursorInv'
<1>1. ~ mixed /\ mixed' = mixed /\ data' = data /\ index' = index
  BY DEF Read, screenVars
<1>2. /\ data[14] \in Nat /\ data[15] \in Nat /\ offset[c] \in Int /\ data[14] * ByteBase \in Int
      /\ index' \in {14, 15} /\ data' \in [{14, 15} -> 0 .. ByteBase - 1]
  <2>1. data[14] \in Nat /\ data[15] \in Nat /\ ByteBase \in Nat
    BY ConsoleAssumption DEF CursorInv
  <2> QED
    BY <1>1, <2>1 DEF CursorInv
<1>3. pc[c] \in Steps => c \in Printing /\ StepInv(c)
  BY <1>1 DEF CursorInv, Printing
<1>4. Cursor' = Cursor
  BY <1>1 DEF Cursor
<1>5. CASE Step(c, "read 14", "select 15") /\ offset' = [offset EXCEPT ![c] = data[index] * ByteBase]
  <2> DEFINE at == data[14] * ByteBase
             to == "select 15"
  <2>1. pc[c] = "read 14" /\ pc' = [pc EXCEPT ![c] = to]
    BY <1>5 DEF Step
  <2>2. c \in Printing /\ StepInv(c) /\ to \in Steps /\ to \in Control
    BY <1>3, <2>1 DEF Steps, Control
  <2>3. index = 14 /\ Cursor \in Cell
    BY <2>1, <2>2 DEF StepInv
  <2>4. offset' = [offset EXCEPT ![c] = at] /\ at \in Int
    BY <1>2, <1>5, <2>3
  <2>5. pc'[c] = to /\ offset'[c] = at
    BY <2>1, <2>4 DEF CursorInv
  <2>6. StepInv(c)'
    BY <1>1, <1>4, <2>3, <2>5 DEF StepInv
  <2> HIDE DEF at, to
  <2> QED
    BY <1>1, <1>2, <2>1, <2>2, <2>4, <2>6, OwnStep
<1>6. CASE Step(c, "read 15", "put") /\ offset' = [offset EXCEPT ![c] = @ + data[index]]
  <2> DEFINE at == offset[c] + data[15]
             to == "put"
  <2>1. pc[c] = "read 15" /\ pc' = [pc EXCEPT ![c] = to]
    BY <1>6 DEF Step
  <2>2. c \in Printing /\ StepInv(c) /\ to \in Steps /\ to \in Control
    BY <1>3, <2>1 DEF Steps, Control
  <2>3. index = 15 /\ Cursor \in Cell /\ offset[c] = data[14] * ByteBase
    BY <2>1, <2>2 DEF StepInv
  <2>4. offset' = [offset EXCEPT ![c] = at] /\ at \in Int
    <3>1. data[index] = data[15]
      BY <2>3
    <3>2. offset' = [offset EXCEPT ![c] = offset[c] + data[index]]
      BY <1>6
    <3> QED
      BY <1>2, <3>1, <3>2
  <2>5. pc'[c] = to /\ offset'[c] = at
    BY <2>1, <2>4 DEF CursorInv
  <2>6. at = Cursor
    BY <2>3 DEF Cursor
  <2>7. StepInv(c)'
    BY <2>3, <2>5, <2>6 DEF StepInv
  <2> HIDE DEF at, to
  <2> QED
    BY <1>1, <1>2, <2>1, <2>2, <2>4, <2>7, OwnStep
<1> QED
  BY <1>5, <1>6 DEF Read

LEMMA PutStep ==
  ASSUME CursorInv, NEW c \in Cores, Put(c)
  PROVE  CursorInv'
<1> DEFINE at == PrintCharAt(screen, offset[c], Head(text[c])).next
           to == "reselect 14"
<1>1. /\ ~ mixed /\ mixed' = mixed /\ data' = data /\ index' = index
      /\ pc[c] = "put" /\ pc' = [pc EXCEPT ![c] = to]
      /\ offset' = [offset EXCEPT ![c] = at]
  BY DEF Put, Step
<1>2. c \in Printing /\ StepInv(c) /\ to \in Steps /\ to \in Control
  BY <1>1 DEF CursorInv, Printing, Steps, Control
<1>3. offset[c] \in Cell
  BY <1>1, <1>2 DEF StepInv
<1>4. at \in Cell /\ at \in Int
  BY <1>3, NextOnScreen, Cells
<1> HIDE DEF at
<1>5. pc'[c] = to /\ offset'[c] = at
  BY <1>1 DEF CursorInv
<1>6. StepInv(c)'
  BY <1>4, <1>5 DEF StepInv
<1>7. index' \in {14, 15} /\ data' \in [{14, 15} -> 0 .. ByteBase - 1]
  BY <1>1 DEF CursorInv
<1> HIDE DEF to
<1> QED
  BY <1>1, <1>2, <1>4, <1>6, <1>7, OwnStep

LEMMA WriteStep ==
  ASSUME CursorInv, NEW c \in Cores, Write(c)
  PROVE  CursorInv'
<1>1. ~ mixed /\ mixed' = mixed /\ index' = index /\ offset' = offset
  BY DEF Write
<1>2. index' \in {14, 15} /\ offset[c] \in Int /\ offset' = [offset EXCEPT ![c] = offset[c]]
  BY <1>1 DEF CursorInv
<1>3. pc[c] \in Steps => c \in Printing /\ StepInv(c)
  BY <1>1 DEF CursorInv, Printing
<1>4. CASE /\ Step(c, "write 14", "reselect 15")
           /\ data' = [data EXCEPT ![index] = (offset[c] \div ByteBase) % ByteBase]
  <2> DEFINE to == "reselect 15"
             high == offset[c] \div ByteBase
  <2>1. pc[c] = "write 14" /\ pc' = [pc EXCEPT ![c] = to]
    BY <1>4 DEF Step
  <2>2. c \in Printing /\ StepInv(c) /\ to \in Steps /\ to \in Control
    BY <1>3, <2>1 DEF Steps, Control
  <2>3. index = 14 /\ offset[c] \in Cell
    BY <2>1, <2>2 DEF StepInv
  <2>4. data' = [data EXCEPT ![14] = high] /\ high \in 0 .. ByteBase - 1
    BY <1>4, <2>3, Halves
  <2>5. pc'[c] = to /\ offset'[c] = offset[c]
    BY <1>1, <2>1 DEF CursorInv
  <2>6. data'[14] = high /\ data' \in [{14, 15} -> 0 .. ByteBase - 1]
    <3> HIDE DEF high
    <3> QED
      BY <2>4 DEF CursorInv
  <2>7. StepInv(c)'
    BY <2>3, <2>5, <2>6 DEF StepInv
  <2> HIDE DEF to
  <2> QED
    BY <1>1, <1>2, <2>1, <2>2, <2>6, <2>7, OwnStep
<1>5. CASE /\ Step(c, "write 15", IF text[c] = <<>> THEN AfterText(c) ELSE "select 14")
           /\ data' = [data EXCEPT ![index] = offset[c] % ByteBase]
  <2> DEFINE to == IF text[c] = <<>> THEN AfterText(c) ELSE "select 14"
             low == offset[c] % ByteBase
  <2>1. pc[c] = "write 15" /\ pc' = [pc EXCEPT ![c] = to]
    BY <1>5 DEF Step
  <2>2. c \in Printing /\ StepInv(c)
    BY <1>3, <2>1 DEF Steps, Control
  <2>3. index = 15 /\ offset[c] \in Cell /\ data[14] = offset[c] \div ByteBase
    BY <2>1, <2>2 DEF StepInv
  <2>4. /\ data' = [data EXCEPT ![15] = low] /\ low \in 0 .. ByteBase - 1
        /\ data[14] * ByteBase + low = offset[c]
    <3>1. data' = [data EXCEPT ![15] = low]
      BY <1>5, <2>3
    <3>2. /\ low \in 0 .. ByteBase - 1
          /\ (offset[c] \div ByteBase) * ByteBase + low = offset[c]
      BY <2>3, Halves
    <3> HIDE DEF low
    <3> QED
      BY <2>3, <3>1, <3>2
  <2>5. to \in Control /\ to \in {"unlock", "printed", "select 14"}
    BY DEF AfterText, Control, Steps
  <2>6. data'[14] = data[14] /\ data'[15] = low /\ data' \in [{14, 15} -> 0 .. ByteBase - 1]
    <3> HIDE DEF low
    <3> QED
      BY <2>4 DEF CursorInv
  <2>7. Cursor' \in Cell
    <3>1. Cursor' = offset[c]
      BY <2>4, <2>6 DEF Cursor
    <3> QED
      BY <2>3, <3>1
  <2> HIDE DEF to, low
  <2>8. pc'[c] = to
    BY <2>1 DEF CursorInv
  <2>9. StepInv(c)' \/ to \notin Steps
    BY <2>5, <2>7, <2>8 DEF StepInv, Steps, Control
  <2> QED
    BY <1>1, <1>2, <2>1, <2>2, <2>5, <2>6, <2>7, <2>9, OwnStep
<1> QED
  BY <1>4, <1>5 DEF Write

LEMMA CursorStep ==
  ASSUME CursorInv, [Next]_vars
  PROVE  CursorInv'
<1>1. CASE UNCHANGED vars
  BY <1>1 DEF CursorInv, StepInv, Cursor, Printing, vars, screenVars
<1>2. ASSUME NEW c \in Cores, PrintAtBoot(c) PROVE CursorInv'
  <2>1. BeginPrint(c, BootTexts[c], "boot") /\ index' = index /\ data' = data /\ offset' = offset
    BY <1>2 DEF PrintAtBoot, screenVars
  <2> QED
    BY <2>1, BeginStep
<1>3. ASSUME NEW c \in Cores, PageFault(c) PROVE CursorInv'
  <2>1. "lock" \in Control /\ "lock" \notin Steps
    BY DEF Steps, Control
  <2>2. /\ pc' = [pc EXCEPT ![c] = "lock"]
        /\ index' = index /\ data' = data /\ offset' = offset
    BY <1>3 DEF PageFault, Step, screenVars
  <2>3. (mixed => mixed') /\ (c \in Printing => mixed')
    BY <1>3, <2>1 DEF PageFault
  <2> QED
    BY <2>1, <2>2, <2>3, ElsewhereStep
<1>4. ASSUME NEW c \in Cores, PrintMixed(c) PROVE CursorInv'
  <2>1. AfterText(c) \in Control /\ AfterText(c) \notin Steps
    BY DEF AfterText, Steps, Control
  <2>2. /\ pc' = [pc EXCEPT ![c] = AfterText(c)]
        /\ index' = index /\ data' = data /\ offset' = offset
    BY <1>4 DEF PrintMixed, Step, screenVars
  <2>3. (mixed => mixed') /\ (c \in Printing => mixed')
    BY <1>4, <2>1 DEF PrintMixed
  <2> QED
    BY <2>1, <2>2, <2>3, ElsewhereStep
<1>5. ASSUME NEW c \in Cores, LockSpin(c) PROVE CursorInv'
  <2>1. "waiting" \in Control /\ "waiting" \notin Steps /\ "lock" \notin Steps
    BY DEF Steps, Control
  <2>2. /\ pc' = [pc EXCEPT ![c] = "waiting"]
        /\ index' = index /\ data' = data /\ offset' = offset
    BY <1>5 DEF LockSpin, Step, screenVars
  <2>3. (mixed => mixed') /\ (c \in Printing => mixed')
    BY <1>5, <2>1 DEF LockSpin, Step, Printing
  <2> QED
    BY <2>1, <2>2, <2>3, ElsewhereStep
<1>6. ASSUME NEW c \in Cores, Report(c) PROVE CursorInv'
  <2>1. BeginPrint(c, FaultTexts[c], "waiting") /\ index' = index /\ data' = data /\ offset' = offset
    BY <1>6 DEF Report, screenVars
  <2> QED
    BY <2>1, BeginStep
<1>7. ASSUME NEW c \in Cores, UnlockSpin(c) PROVE CursorInv'
  <2>1. "spinning" \in Control /\ "spinning" \notin Steps /\ "unlock" \notin Steps
    BY DEF Steps, Control
  <2>2. /\ pc' = [pc EXCEPT ![c] = "spinning"]
        /\ index' = index /\ data' = data /\ offset' = offset
    BY <1>7 DEF UnlockSpin, Step, screenVars
  <2>3. (mixed => mixed') /\ (c \in Printing => mixed')
    BY <1>7, <2>1 DEF UnlockSpin, Step, Printing
  <2> QED
    BY <2>1, <2>2, <2>3, ElsewhereStep
<1> QED
  BY <1>1, <1>2, <1>3, <1>4, <1>5, <1>6, <1>7, SelectStep, ReadStep, PutStep, WriteStep
  DEF Next, Go

(* Whoever puts a character on the screen has a cell for it, as long as no  *)
(* two texts mix: the halves of the cursor that it has read, one after the  *)
(* other, are of the same cursor, which is on the screen.                   *)
THEOREM OnScreen == Spec => []CursorOnScreen
<1>1. CursorInv /\ [Next]_vars => CursorInv'
  BY CursorStep
<1>2. CursorInv => CursorOnScreen
  BY DEF CursorInv, CursorOnScreen, Printing, Steps, StepInv, Control
<1> QED
  BY InitCursor, <1>1, <1>2, PTL DEF Spec
=============================================================================
