--------------------------- MODULE Display_proofs ----------------------------
(***************************************************************************)
(* Proofs about the two display drivers.  First the text console, for      *)
(* every size of the screen, every message and every number of exceptions  *)
(* inside each other; then the picture of the frame buffer, for every set  *)
(* of video modes; then the two beside each other.                         *)
(***************************************************************************)
EXTENDS Display, NatLemmas, TLAPS

-----------------------------------------------------------------------------
(* The text console.                                                       *)

(* What handle_exception prints. *)
Second == SecondLine[ctx]

Text == <<LF>> \o FirstLine \o <<LF>> \o Second \o <<LF>>

(* How much of the text is on its way to the screen: -1 before the first   *)
(* line feed, Len(FirstLine) before the second one, All after the last.    *)
All == Len(FirstLine) + Len(Second) + 2

Printed == All - Len(todo)

(* What is left to print is the end of the text. *)
TodoInv ==
  /\ exceptions = 0 => todo = <<>>
  /\ Len(todo) <= All + 1
  /\ \A i \in 1 .. Len(todo) : todo[i] = Text[Printed + 1 + i]

(* Without an exception the cursor leaves the screen only for the end of   *)
(* it, until the screen has scrolled.                                      *)
CursorInv ==
  /\ pc \in {"scroll", "retreat"} => cursor_pos >= Size
  /\ exceptions = 0 => cursor_pos <= Size
  /\ exceptions = 0 /\ pc \in {"idle", "low", "high", "home"} => cursor_pos < Size
  /\ pc = "home" => exceptions = 0

(* A position that the cursor is going to leave for the row above. *)
Pending == IF pc \in {"check", "scroll", "retreat"} THEN 1 ELSE 0

(* From the character after those an exception may lose on, the first      *)
(* count characters of the first line are in row r.                        *)
MessageAt(r, count) == LineInRow(FirstLine, r, exceptions + 1, count)

(* The first line is being printed in row r: every character that goes     *)
(* behind the screen lets it scroll by one row, so that after as many      *)
(* characters as there were exceptions the row is on the screen.           *)
PrintsAt(r) ==
  /\ cursor_pos = r * W + Printed
  /\ r < H \/ r <= H + exceptions - 1 - Printed + Pending
  /\ r < H => MessageAt(r, Printed)

(* Where row r is while the screen scrolls. *)
Place(r) == IF pc = "retreat" \/ (pc = "scroll" /\ row >= r) THEN r - 1 ELSE r

(* The first line is printed and, in the row below it, the first count     *)
(* characters of the second one; the cursor is behind them, or, after a    *)
(* line feed (end is 1), at the beginning of the row below.                *)
Under(r, end, count) ==
  /\ cursor_pos = IF end = 1 THEN r * W ELSE r * W + count
  /\ end = 0 /\ r = H => count = 0
  /\ pc \in {"idle", "low", "high"} => r < H
  /\ pc \in {"scroll", "retreat"} => r = H
  /\ LineInRow(FirstLine, Place(r - 1 - end), exceptions + 1, Len(FirstLine))
  /\ LineInRow(Second, Place(r - end), 1, count)

(* The second line is being printed, or the whole text is. *)
SecondInv ==
  /\ Printed \in Len(FirstLine) + 1 .. All - 1 =>
       \E r \in 1 .. H : Under(r, 0, Printed - Len(FirstLine) - 1)
  /\ Printed = All => \E r \in 2 .. H : Under(r, 1, Len(Second))

ReportInv ==
  exceptions > 0 =>
    /\ Printed = -1 => pc = "idle" /\ cursor_pos <= Overrun
    /\ Printed \in 0 .. Len(FirstLine) => \E r \in Nat : PrintsAt(r)
    /\ SecondInv

(* Where nothing was written. *)
ForeignInv ==
  \A p \in Memory \ (0 .. Size - 1) :
     exceptions = 0 \/ p > Overrun => tvga_vbuffer[p] = FOREIGN

(* The visible cursor. *)
RegisterInv ==
  /\ pc = "high" => registers.low = cursor_pos % BYTE
  /\ RegistersFollow

IInv == TypeOK /\ TodoInv /\ CursorInv /\ ReportInv /\ ForeignInv /\ RegisterInv

-----------------------------------------------------------------------------
(* Rows and columns.                                                       *)

(* The sizes, without the tab stops. *)
LEMMA Sizes ==
  /\ W \in Nat \ {0} /\ H \in Nat /\ H > 2 /\ BYTE \in Nat \ {0}
  /\ TABSPACES \in Nat \ {0}
  /\ Size \in Nat /\ Size = H * W /\ (H - 1) * W = Size - W /\ (H - 2) * W = Size - 2 * W
  /\ W <= Size
  /\ Size <= BYTE * BYTE
  /\ MaxExceptions \in Nat /\ Len(FirstLine) \in Nat
  /\ MaxExceptions < Len(FirstLine) /\ Len(FirstLine) < W
<1>1. /\ W \in Nat \ {0} /\ H \in Nat \ {0} /\ H > 2 /\ BYTE \in Nat \ {0}
      /\ TABSPACES \in Nat \ {0}
      /\ MaxExceptions \in Nat /\ Len(FirstLine) \in Nat
      /\ MaxExceptions < Len(FirstLine) /\ Len(FirstLine) < W
      /\ W * H <= BYTE * BYTE
  BY ConsoleAssumption
<1>2. Size \in Nat /\ Size = H * W /\ (H - 1) * W = H * W - W
      /\ (H - 2) * W = H * W - 2 * W
  BY <1>1 DEF Size
<1>3. 1 * W <= H * W
  BY <1>1, TimesMonotone
<1>4. QED
  BY <1>1, <1>2, <1>3 DEF Size

(* The second line is shorter than a row too. *)
LEMMA SecondIs ==
  ASSUME ctx \in Contexts
  PROVE  /\ Second \in Seq(Chars) /\ Len(Second) \in Nat /\ Len(Second) < W
         /\ All \in Nat /\ All = Len(FirstLine) + Len(Second) + 2
<1>1. Second \in Seq(Chars) /\ Len(Second) < W
  BY ConsoleAssumption DEF Second
<1>2. Len(Second) \in Nat
  BY <1>1
<1>3. QED
  BY <1>1, <1>2, Sizes DEF All

(* A cell has one row and one column. *)
LEMMA RowColumn ==
  ASSUME NEW r \in Int, NEW k \in 0 .. W - 1
  PROVE  /\ (r * W + k) \div W = r /\ (r * W + k) % W = k
         /\ r * W + k \in Int /\ r * W \in Int
         /\ (r + 1) * W = r * W + W /\ (r - 1) * W = r * W - W
         /\ r >= 0 => r * W >= 0
<1>1. W \in Nat \ {0} /\ r * W \in Int
  BY Sizes
<1>2. (r * W + k) \div W = r /\ (r * W + k) % W = k
  BY <1>1, QuotientRemainder
<1>3. (r + 1) * W = r * W + W /\ (r - 1) * W = r * W - W
  BY <1>1
<1>4. r >= 0 => r * W >= 0
  BY <1>1
<1>5. QED
  BY <1>1, <1>2, <1>3, <1>4

(* The cells of different rows follow each other. *)
LEMMA RowsApart ==
  ASSUME NEW r \in Int, NEW s \in Int, r < s
  PROVE  r * W + W <= s * W
BY TimesStrict, Sizes

(* A cell is on the screen exactly if its row is. *)
LEMMA OnScreen ==
  ASSUME NEW r \in Int, NEW k \in 0 .. W - 1
  PROVE  r * W + k < Size <=> r < H
<1>1. r < H => r * W + W <= Size
  BY RowsApart, Sizes
<1>2. r >= H => Size <= r * W
  BY TimesMonotone, Sizes
<1>3. k < W /\ k >= 0 /\ r * W \in Int
  BY Sizes
<1>4. QED
  BY <1>1, <1>2, <1>3, Sizes

(* Every cell lies in its row. *)
LEMMA RowOf ==
  ASSUME NEW p \in Nat
  PROVE  /\ p \div W \in Nat /\ p % W \in 0 .. W - 1
         /\ p = (p \div W) * W + (p % W)
         /\ (p \div W + 1) * W = (p \div W) * W + W
<1>1. W \in Nat \ {0}
  BY Sizes
<1>2. p \div W \in Nat /\ p % W \in 0 .. W - 1 /\ p = (p \div W) * W + (p % W)
  BY <1>1, SMT
<1>3. QED
  BY <1>1, <1>2

(* The tab stop behind a position of the screen is not behind its end: the *)
(* rows are full of stops.                                                 *)
LEMMA TabStop ==
  ASSUME NEW p \in Nat
  PROVE  /\ p - (p % TABSPACES) + TABSPACES \in Nat
         /\ p < Size => p - (p % TABSPACES) + TABSPACES <= Size
<1> DEFINE T == TABSPACES
           q == p \div T
           w == W \div T
<1>1. T \in Nat \ {0} /\ W \in Nat \ {0} /\ H \in Nat /\ W % T = 0
  BY ConsoleAssumption
<1>2. q \in Nat /\ p = q * T + (p % T) /\ p % T \in 0 .. T - 1
  BY <1>1, SMT
<1>3. w \in Nat /\ W = w * T
  BY <1>1, SMT
<1> DEFINE n == w * H
<1> HIDE DEF q, w, T
<1>4. Size = n * T /\ n \in Int
  BY <1>1, <1>3 DEF Size
<1> HIDE DEF n
<1>5. p < Size => q < n
  <2>1. n <= q => n * T <= q * T
    BY <1>1, <1>2, <1>4, TimesMonotone
  <2>2. q * T \in Int /\ n * T \in Int /\ q * T <= p
    BY <1>1, <1>2, <1>4
  <2>3. QED
    BY <1>2, <1>4, <2>1, <2>2
<1>6. p < Size => q * T + T <= Size
  BY <1>1, <1>2, <1>4, <1>5, TimesStrict
<1>7. p - (p % T) = q * T /\ q * T \in Nat
  <2>1. q * T \in Nat
    BY <1>1, <1>2
  <2>2. QED
    BY <1>2, <2>1
<1>8. QED
  BY <1>1, <1>2, <1>6, <1>7 DEF T

(* The last cell that may be overwritten is in video memory, one row       *)
(* further for each exception.                                             *)
LEMMA OverrunInMemory ==
  ASSUME exceptions \in 0 .. MaxExceptions
  PROVE  /\ Overrun \in Int /\ Overrun = Size + exceptions * W - W
         /\ exceptions > 0 => Overrun >= Size
         /\ exceptions * W \in Nat
         /\ 0 .. Overrun \subseteq Memory
         /\ 0 .. Size + W - 1 \subseteq Memory
<1>1. /\ exceptions * W \in Nat /\ MaxExceptions * W \in Nat
      /\ exceptions * W <= MaxExceptions * W
      /\ (MaxExceptions + 1) * W = MaxExceptions * W + W
      /\ exceptions > 0 => 1 * W <= exceptions * W
  BY Sizes, TimesMonotone
<1>2. Overrun = Size + exceptions * W - W
  BY Sizes DEF Overrun
<1>3. QED
  BY <1>1, <1>2, Sizes DEF Memory

-----------------------------------------------------------------------------
(* Types.                                                                  *)

(* A character and its attribute are a cell. *)
LEMMA CellType ==
  ASSUME tvga_curattr \in Colors, NEW char \in Chars \union {SPACE}
  PROVE  attr_entry(char) \in Cell
BY DEF attr_entry, Cell

(* What is behind the screen is a cell. *)
LEMMA ForeignType == FOREIGN \in Cell /\ DEFAULT_COLOR \in Colors
BY ConsoleAssumption DEF Cell, FOREIGN

(* The text has the lines between line feeds. *)
LEMMA TextIs ==
  ASSUME ctx \in Contexts
  PROVE  /\ Text \in Seq(Chars \union {LF}) /\ Len(Text) = All + 1
         /\ Text[1] = LF /\ Text[Len(FirstLine) + 2] = LF /\ Text[All + 1] = LF
         /\ \A k \in 1 .. Len(FirstLine) : Text[k + 1] = FirstLine[k] /\ FirstLine[k] \in Chars
         /\ \A k \in 1 .. Len(Second) :
              Text[Len(FirstLine) + 2 + k] = Second[k] /\ Second[k] \in Chars
<1> DEFINE S == Chars \union {LF}
           a == <<LF>> \o FirstLine
           b == a \o <<LF>>
           c == b \o Second
<1> PICK n \in Nat, m \in Nat : n = Len(FirstLine) /\ m = Len(Second)
  BY Sizes, SecondIs
<1>1. FirstLine \in Seq(Chars) /\ FirstLine \in Seq(S) /\ Second \in Seq(Chars) /\ Second \in Seq(S)
      /\ <<LF>> \in Seq(S) /\ LF \in S
  BY ConsoleAssumption, SecondIs, SMTT(30)
<1>2. /\ a \in Seq(S) /\ Len(a) = n + 1 /\ a[1] = LF
      /\ \A k \in 1 .. n : a[k + 1] = FirstLine[k]
  BY <1>1
<1> HIDE DEF a
<1>3. /\ b \in Seq(S) /\ Len(b) = n + 2 /\ b[n + 2] = LF
      /\ \A k \in 1 .. n + 1 : b[k] = a[k]
  BY <1>1, <1>2
<1> HIDE DEF b
<1>4. /\ c \in Seq(S) /\ Len(c) = n + m + 2
      /\ \A k \in 1 .. n + 2 : c[k] = b[k]
      /\ \A k \in 1 .. m : c[n + 2 + k] = Second[k]
  BY <1>1, <1>3, SMTT(30)
<1> HIDE DEF c
<1>5. /\ c \o <<LF>> \in Seq(S) /\ Len(c \o <<LF>>) = n + m + 3
      /\ (c \o <<LF>>)[n + m + 3] = LF
      /\ \A k \in 1 .. n + m + 2 : (c \o <<LF>>)[k] = c[k]
  <2>1. PICK len \in Nat : len = n + m + 2
    OBVIOUS
  <2>2. c \in Seq(S) /\ Len(c) = len
    BY <1>4, <2>1
  <2>3. /\ c \o <<LF>> \in Seq(S) /\ Len(c \o <<LF>>) = len + 1
        /\ (c \o <<LF>>)[len + 1] = LF
        /\ \A k \in 1 .. len : (c \o <<LF>>)[k] = c[k]
    BY <1>1, <2>2
  <2>4. len + 1 = n + m + 3
    BY <2>1
  <2>5. QED
    BY <2>1, <2>3, <2>4
<1>6. Text = c \o <<LF>>
  BY DEF Text, a, b, c
<1>7. /\ 1 \in 1 .. n + 1 /\ 1 \in 1 .. n + 2 /\ 1 \in 1 .. n + m + 2
      /\ n + 2 \in 1 .. n + 2 /\ n + 2 \in 1 .. n + m + 2
      /\ \A k \in 1 .. n : k + 1 \in 1 .. n + 1 /\ k + 1 \in 1 .. n + 2 /\ k + 1 \in 1 .. n + m + 2
      /\ \A k \in 1 .. m : n + 2 + k \in 1 .. n + m + 2
  OBVIOUS
<1>8. Text[1] = LF /\ Text[n + 2] = LF
  BY <1>2, <1>3, <1>4, <1>5, <1>6, <1>7
<1>9. \A k \in 1 .. n : Text[k + 1] = FirstLine[k] /\ FirstLine[k] \in Chars
  BY <1>1, <1>2, <1>3, <1>4, <1>5, <1>6, <1>7
<1>10. \A k \in 1 .. m : Text[n + 2 + k] = Second[k] /\ Second[k] \in Chars
  BY <1>1, <1>4, <1>5, <1>6, <1>7
<1>11. All + 1 = n + m + 3
  BY DEF All
<1>12. QED
  BY <1>5, <1>6, <1>8, <1>9, <1>10, <1>11

(* The initial state satisfies the invariant. *)
LEMMA InitInv == Init => IInv
<1> SUFFICES ASSUME Init PROVE IInv
  OBVIOUS
<1> USE DEF Init
<1>1. TypeOK
  <2>1. tvga_vbuffer \in [Memory -> Cell] /\ tvga_curattr \in Colors
    BY ForeignType DEF Cell
  <2>2. registers \in [{"low", "high"} -> 0 .. BYTE - 1]
    BY Sizes, SMTT(30)
  <2>3. row \in 0 .. H - 1 /\ cursor_pos \in Nat
    BY Sizes
  <2>4. exceptions \in 0 .. MaxExceptions /\ calls \in 0 .. MaxCalls
    BY ConsoleAssumption
  <2>5. todo \in Seq(Chars \union {LF}) /\ ctx \in Contexts
    <3>1. todo \in Seq(Chars \union {LF})
      OBVIOUS
    <3>2. ctx \in Contexts
      <4>1. Contexts # {}
        BY ConsoleAssumption
      <4>2. QED
        BY <4>1, Zenon
    <3>3. QED
      BY <3>1, <3>2
  <2>6. pc \in {"idle", "check", "scroll", "retreat", "low", "high", "home"}
    OBVIOUS
  <2>7. QED
    BY <2>1, <2>2, <2>3, <2>4, <2>5, <2>6 DEF TypeOK
<1>2. TodoInv /\ ReportInv
  <2>1. todo = <<>> /\ exceptions = 0 /\ Len(todo) = 0
    OBVIOUS
  <2>2. All \in Nat
    BY <1>1, SecondIs DEF TypeOK
  <2>3. QED
    BY <2>1, <2>2 DEF TodoInv, ReportInv
<1>3. CursorInv
  BY Sizes DEF CursorInv
<1>4. ForeignInv
  BY Sizes DEF ForeignInv, Memory
<1>5. RegisterInv
  BY Sizes DEF RegisterInv, RegistersFollow
<1>6. QED
  BY <1>1, <1>2, <1>3, <1>4, <1>5 DEF IInv

(* Where a character moves the cursor: from a position of the screen at    *)
(* most to the end of it.                                                  *)
LEMMA MovedType ==
  ASSUME cursor_pos \in Nat, NEW char
  PROVE  /\ Moved(char) \in Nat
         /\ cursor_pos < Size => Moved(char) <= Size
<1>1. tvga_linefeed \in Nat /\ (cursor_pos < Size => tvga_linefeed <= Size)
  <2> DEFINE r == cursor_pos \div W
  <2>1. r \in Nat /\ cursor_pos = r * W + (cursor_pos % W)
        /\ cursor_pos % W \in 0 .. W - 1 /\ (r + 1) * W = r * W + W
    BY RowOf
  <2>2. (r + 1) * W \in Nat
    BY <2>1, Sizes
  <2>3. cursor_pos < Size => r < H
    BY <2>1, OnScreen
  <2>4. r < H => (r + 1) * W <= H * W
    BY <2>1, Sizes, TimesMonotone
  <2>5. QED
    BY <2>2, <2>3, <2>4, Sizes DEF tvga_linefeed
<1>2. tvga_carriagereturn \in Nat /\ (cursor_pos < Size => tvga_carriagereturn <= Size)
  <2> DEFINE r == cursor_pos \div W
             k == cursor_pos % W
  <2>1. r \in Nat /\ k \in 0 .. W - 1 /\ cursor_pos = r * W + k
    BY RowOf
  <2> HIDE DEF r, k
  <2>2. r * W \in Nat
    BY <2>1, Sizes
  <2>3. cursor_pos - k = r * W /\ cursor_pos - k <= cursor_pos
    BY <2>1, <2>2, Sizes
  <2>4. QED
    BY <2>2, <2>3, Sizes DEF tvga_carriagereturn, k
<1>3. tvga_tab \in Nat /\ (cursor_pos < Size => tvga_tab <= Size)
  BY TabStop DEF tvga_tab
<1>4. tvga_backspace \in Nat /\ (cursor_pos < Size => tvga_backspace <= Size)
  BY Sizes DEF tvga_backspace
<1>5. cursor_pos + 1 \in Nat /\ (cursor_pos < Size => cursor_pos + 1 <= Size)
  BY Sizes
<1>6. QED
  BY <1>1, <1>2, <1>3, <1>4, <1>5 DEF Moved

(* The switch of tvga_putch keeps the types, of a character that is shown  *)
(* and of one that moves the cursor.                                       *)
LEMMA SwitchType ==
  ASSUME TypeOK, NEW char, Switch(char)
  PROVE  /\ tvga_vbuffer' \in [Memory -> Cell]
         /\ cursor_pos' \in Nat
         /\ UNCHANGED <<tvga_curattr, registers, row>>
         /\ pc = "idle" /\ pc' = "check"
         /\ \A p \in Memory : p # cursor_pos \/ char \notin Chars => tvga_vbuffer'[p] = tvga_vbuffer[p]
<1>1. char \in Chars => attr_entry(char) \in Cell
  BY CellType DEF TypeOK
<1>2. cursor_pos' \in Nat
  BY MovedType DEF Switch, TypeOK
<1>3. tvga_vbuffer' \in [Memory -> Cell]
  BY <1>1 DEF Switch, TypeOK
<1>4. QED
  BY <1>2, <1>3 DEF Switch, TypeOK

(* The same of what tmemsetw clears. *)
LEMMA BlankedType ==
  ASSUME TypeOK, NEW first \in Int, NEW count \in Int
  PROVE  /\ Blanked(first, count) \in [Memory -> Cell]
         /\ \A p \in Memory : p \notin first .. first + count - 1 =>
              Blanked(first, count)[p] = tvga_vbuffer[p]
BY CellType DEF Blanked, TypeOK

(* The move of a row keeps the types, and all other cells.                 *)
LEMMA MoveRowType ==
  ASSUME TypeOK, MoveRow
  PROVE  /\ tvga_vbuffer' \in [Memory -> Cell]
         /\ \A p \in Memory : p \div W # row => tvga_vbuffer'[p] = tvga_vbuffer[p]
         /\ \A p \in Memory : p \div W = row => /\ p < Size - W /\ p + W \in Memory
                                                /\ tvga_vbuffer'[p] = tvga_vbuffer[p + W]
<1>1. row \in Nat /\ row < H - 1 /\ tvga_vbuffer \in [Memory -> Cell]
  BY Sizes DEF TypeOK, MoveRow
<1>2. MaxExceptions * W \in Nat /\ (MaxExceptions + 1) * W = MaxExceptions * W + W
  BY Sizes
<1>3. ASSUME NEW p \in Memory, p \div W = row
      PROVE  p < Size - W /\ p + W \in Memory
  <2>1. p \in Nat
    BY <1>3 DEF Memory
  <2>2. p = row * W + (p % W) /\ p % W \in 0 .. W - 1
    BY <1>3, <2>1, RowOf
  <2>3. row * W + W <= (H - 1) * W
    BY <1>1, RowsApart, Sizes
  <2>4. p < Size - W
    <3>1. row * W \in Int /\ (H - 1) * W = Size - W /\ W \in Nat /\ Size \in Nat
      BY <1>1, Sizes
    <3>2. QED
      BY <2>1, <2>2, <2>3, <3>1
  <2>5. QED
    BY <1>2, <2>1, <2>4, Sizes DEF Memory
<1>4. tvga_vbuffer' = [p \in Memory |->
        IF p \div W = row THEN tvga_vbuffer[p + W] ELSE tvga_vbuffer[p]]
  BY DEF MoveRow
<1>5. QED
  BY <1>1, <1>3, <1>4

-----------------------------------------------------------------------------
(* The calls of the kernel.                                                *)

(* A call without an exception keeps the invariant. *)
LEMMA CallStep ==
  ASSUME IInv,
         \/ \E char \in Chars \union {LF, CR, TAB, BS} : tvga_putch(char)
         \/ \E position \in 0 .. Size : SetCursor(position)
         \/ \E color \in Colors : SetColor(color)
         \/ Clear
  PROVE  IInv'
<1> USE DEF IInv
<1>1. /\ pc = "idle" /\ exceptions = 0 /\ todo = <<>>
      /\ calls < MaxCalls /\ calls' = calls + 1
      /\ row' = row /\ todo' = todo /\ ctx' = ctx /\ exceptions' = exceptions
      /\ cursor_pos \in Nat /\ cursor_pos < Size
  BY DEF tvga_putch, SetCursor, SetColor, Clear, Call, TodoInv, CursorInv, TypeOK
<1>2. calls' \in 0 .. MaxCalls
  BY <1>1, ConsoleAssumption, SMTT(30) DEF TypeOK
<1>3. TodoInv' /\ ReportInv'
  BY <1>1 DEF TodoInv, ReportInv, All, Second
<1>4. ASSUME NEW char \in Chars \union {LF, CR, TAB, BS}, tvga_putch(char)
      PROVE  IInv'
  <2>1. Switch(char)
    BY <1>4 DEF tvga_putch
  <2>2. /\ tvga_vbuffer' \in [Memory -> Cell] /\ cursor_pos' \in Nat
        /\ UNCHANGED <<tvga_curattr, registers, row>> /\ pc' = "check"
        /\ \A p \in Memory : p # cursor_pos => tvga_vbuffer'[p] = tvga_vbuffer[p]
    BY <2>1, SwitchType
  <2>3. TypeOK'
    BY <1>1, <1>2, <2>2 DEF TypeOK
  <2>4. cursor_pos' <= Size
    BY <1>1, <2>1, MovedType DEF Switch
  <2>5. CursorInv'
    BY <1>1, <2>2, <2>4 DEF CursorInv, Size
  <2>6. ForeignInv'
    <3>1. cursor_pos \in 0 .. Size - 1
      BY <1>1, Sizes
    <3>2. \A p \in Memory \ (0 .. Size - 1) : tvga_vbuffer'[p] = FOREIGN
      BY <1>1, <2>2, <3>1 DEF ForeignInv
    <3>3. QED
      BY <3>2 DEF ForeignInv, Memory, Size
  <2>7. RegisterInv'
    BY <2>2 DEF RegisterInv, RegistersFollow
  <2>8. QED
    BY <1>3, <2>3, <2>5, <2>6, <2>7
<1>5. ASSUME NEW position \in 0 .. Size, SetCursor(position)
      PROVE  IInv'
  <2>1. /\ tvga_vbuffer' = tvga_vbuffer /\ tvga_curattr' = tvga_curattr
        /\ registers' = registers
        /\ \/ pc' = pc /\ cursor_pos' = cursor_pos
           \/ pc' = "low" /\ cursor_pos' = position /\ position < Size
    BY <1>5, Sizes DEF SetCursor, screen
  <2>2. TypeOK'
    BY <1>1, <1>2, <2>1 DEF TypeOK
  <2>3. CursorInv'
    BY <1>1, <2>1, Sizes DEF CursorInv, Size
  <2>4. ForeignInv'
    BY <1>1, <2>1 DEF ForeignInv, Memory, Size
  <2>5. RegisterInv'
    BY <1>1, <2>1 DEF RegisterInv, RegistersFollow
  <2>6. QED
    BY <1>3, <2>2, <2>3, <2>4, <2>5
<1>6. ASSUME NEW color \in Colors, SetColor(color)
      PROVE  IInv'
  <2>1. /\ UNCHANGED <<tvga_vbuffer, cursor_pos, registers, pc>>
        /\ tvga_curattr' = color
    BY <1>6 DEF SetColor
  <2>2. TypeOK'
    BY <1>1, <1>2, <2>1 DEF TypeOK
  <2>3. CursorInv' /\ ForeignInv' /\ RegisterInv'
    BY <1>1, <2>1 DEF CursorInv, ForeignInv, RegisterInv, RegistersFollow, Memory, Size
  <2>4. QED
    BY <1>3, <2>2, <2>3
<1>7. ASSUME Clear
      PROVE  IInv'
  <2>1. /\ UNCHANGED <<cursor_pos, tvga_curattr, registers>> /\ pc' = "home"
        /\ tvga_vbuffer' = Blanked(0, Size)
    BY <1>7 DEF Clear
  <2>2. /\ tvga_vbuffer' \in [Memory -> Cell]
        /\ \A p \in Memory \ (0 .. Size - 1) : tvga_vbuffer'[p] = tvga_vbuffer[p]
    BY <2>1, BlankedType, Sizes
  <2>3. TypeOK'
    BY <1>1, <1>2, <2>1, <2>2 DEF TypeOK
  <2>4. CursorInv' /\ RegisterInv'
    BY <1>1, <2>1 DEF CursorInv, RegisterInv, RegistersFollow, Size
  <2>5. ForeignInv'
    BY <1>1, <2>2 DEF ForeignInv, Memory, Size
  <2>6. QED
    BY <1>3, <2>3, <2>4, <2>5
<1>8. QED
  BY <1>4, <1>5, <1>6, <1>7

-----------------------------------------------------------------------------
(* handle_exception.                                                       *)

(* From the second line feed on, the first line is above the cursor. *)
LEMMA UnderIs ==
  ASSUME IInv, exceptions > 0, Printed \in Len(FirstLine) + 1 .. All
  PROVE  \E end \in {0, 1}, count \in 0 .. W - 1 : \E r \in 1 + end .. H :
            /\ Under(r, end, count)
            /\ IF Printed = All THEN end = 1 /\ count = Len(Second)
               ELSE end = 0 /\ count = Printed - Len(FirstLine) - 1
<1>1. /\ Len(Second) \in 0 .. W - 1 /\ All \in Nat /\ All = Len(FirstLine) + Len(Second) + 2
      /\ Len(FirstLine) \in Nat /\ W \in Nat /\ SecondInv
  BY SecondIs, Sizes DEF IInv, TypeOK, ReportInv
<1>2. CASE Printed = All
  <2>1. PICK r \in 2 .. H : Under(r, 1, Len(Second))
    BY <1>1, <1>2 DEF SecondInv
  <2>2. r \in 1 + 1 .. H
    OBVIOUS
  <2>3. QED
    BY <1>1, <1>2, <2>1, <2>2
<1>3. CASE Printed # All
  <2>1. PICK count \in 0 .. W - 1 : count = Printed - Len(FirstLine) - 1
    <3>1. PICK n \in Nat, m \in 0 .. W - 1 : n = Len(FirstLine) /\ m = Len(Second)
      BY <1>1
    <3>2. Printed \in n + 1 .. n + m + 1
      BY <1>1, <1>3, <3>1
    <3>3. Printed - n - 1 \in 0 .. W - 1
      BY <1>1, <3>1, <3>2
    <3>4. QED
      BY <3>1, <3>3
  <2>2. Printed \in Len(FirstLine) + 1 .. All - 1
    BY <1>1, <1>3
  <2>3. PICK r \in 1 .. H : Under(r, 0, count)
    BY <1>1, <2>1, <2>2 DEF SecondInv
  <2>4. r \in 1 + 0 .. H
    OBVIOUS
  <2>5. QED
    BY <1>3, <2>1, <2>3, <2>4
<1>4. QED
  BY <1>2, <1>3

(* The cursor is then on the screen, or at its end. *)
LEMMA UnderColumn ==
  ASSUME NEW r \in 1 .. H, NEW end \in {0, 1}, NEW count \in 0 .. W - 1, Under(r, end, count)
  PROVE  /\ cursor_pos \in Nat /\ cursor_pos <= Size
         /\ r < H <=> cursor_pos < Size
         /\ cursor_pos \div W = r
         /\ end = 1 => cursor_pos = r * W
         /\ end = 0 => cursor_pos = r * W + count
<1>1. PICK column \in 0 .. W - 1 : cursor_pos = r * W + column /\ (r = H => column = 0)
                                  /\ column = IF end = 1 THEN 0 ELSE count
  <2>1. CASE end = 1
    BY <2>1, Sizes DEF Under
  <2>2. CASE end = 0
    BY <2>2, Sizes DEF Under
  <2>3. QED
    BY <2>1, <2>2
<1>2. r * W + column < Size <=> r < H
  BY OnScreen
<1>3. (r * W + column) \div W = r /\ r * W \in Nat
  BY RowColumn
<1>4. r = H => r * W + column = Size
  BY <1>1, Sizes
<1>5. QED
  BY <1>1, <1>2, <1>3, <1>4, Sizes DEF Under

(* While an exception is reported the cursor is at most one row further    *)
(* behind the screen for every exception, and one more until the screen    *)
(* has scrolled.                                                           *)
LEMMA CursorBelow ==
  ASSUME IInv, exceptions > 0
  PROVE  cursor_pos <= (H + exceptions - 1 + Pending) * W
<1> USE DEF IInv
<1> DEFINE b == H + exceptions - 1 + Pending
<1>1. exceptions \in Nat /\ Pending \in {0, 1} /\ b \in Int /\ b * W \in Int /\ b >= H
  BY Sizes DEF TypeOK, Pending
<1>2. Printed \in -1 .. All /\ All \in Nat /\ Len(FirstLine) < All /\ Len(FirstLine) \in Nat
  BY Sizes, SecondIs DEF Printed, TodoInv, TypeOK
<1>3. ASSUME Printed = -1 PROVE cursor_pos <= b * W
  <2>1. cursor_pos <= Overrun /\ Pending = 0
    BY <1>3 DEF ReportInv, Pending
  <2>2. b = H + exceptions - 1
    BY <1>1, <2>1, Sizes
  <2>3. QED
    BY <2>1, <2>2, Zenon DEF Overrun
<1>4. ASSUME Printed \in 0 .. Len(FirstLine) PROVE cursor_pos <= b * W
  <2>1. PICK r \in Nat : PrintsAt(r)
    BY <1>4 DEF ReportInv
  <2>2. cursor_pos = r * W + Printed /\ Printed \in 0 .. W - 1
    BY <1>4, <2>1, Sizes DEF PrintsAt
  <2>3. r < H \/ r <= b - Printed
    BY <1>1, <2>1, <2>2, Sizes DEF PrintsAt
  <2> HIDE DEF b
  <2>4. CASE r < b
    BY <1>1, <2>2, <2>4, RowsApart, RowColumn, Sizes, SMTT(30)
  <2>5. CASE r = b /\ Printed = 0
    BY <1>1, <2>2, <2>5
  <2>6. QED
    BY <1>1, <2>1, <2>2, <2>3, <2>4, <2>5, Sizes
<1>5. ASSUME Printed \in Len(FirstLine) + 1 .. All PROVE cursor_pos <= b * W
  <2>1. PICK r \in 1 .. H, end \in {0, 1}, count \in 0 .. W - 1 : Under(r, end, count)
    BY <1>2, <1>5, UnderIs
  <2>2. cursor_pos <= Size
    BY <2>1, UnderColumn
  <2>3. H * W <= b * W
    BY <1>1, Sizes, TimesMonotone
  <2>4. QED
    BY <1>1, <2>2, <2>3, Sizes DEF TypeOK
<1>6. QED
  BY <1>2, <1>3, <1>4, <1>5

(* An exception keeps the invariant. *)
LEMMA ExceptionStep ==
  ASSUME IInv, Exception
  PROVE  IInv'
<1> USE DEF IInv
<1>1. /\ exceptions \in 0 .. MaxExceptions - 1 /\ exceptions' = exceptions + 1
      /\ todo' = Text' /\ pc' = "idle" /\ ctx' \in Contexts
      /\ UNCHANGED <<tvga_vbuffer, cursor_pos, tvga_curattr, registers, row, calls>>
  BY Sizes DEF Exception, TypeOK, Text, Second, screen
<1>2. exceptions' \in 1 .. MaxExceptions
  BY <1>1, Sizes
<1>3. /\ Text' \in Seq(Chars \union {LF}) /\ Len(Text') = All' + 1 /\ All' \in Nat
  <2>1. (ctx \in Contexts => Text \in Seq(Chars \union {LF}) /\ Len(Text) = All + 1 /\ All \in Nat)'
    BY TextIs, SecondIs, PTL
  <2>2. QED
    BY <1>1, <2>1
<1>4. TypeOK'
  BY <1>1, <1>2, <1>3 DEF TypeOK
<1>5. TodoInv' /\ Printed' = -1 /\ SecondInv'
  <2>1. All' \in Nat /\ Len(todo') = All' + 1
    BY <1>1, <1>3
  <2>2. Printed' = -1
    <3>1. \A all \in Nat, left \in Int : left = all + 1 => all - left = -1
      OBVIOUS
    <3>2. Printed' = All' - Len(todo')
      BY DEF Printed
    <3>3. Len(todo') \in Int
      BY <2>1
    <3>4. QED
      BY <2>1, <3>1, <3>2, <3>3
  <2>3. ASSUME NEW j \in 1 .. Len(todo') PROVE todo'[j] = Text'[Printed' + 1 + j]
    <3>1. Printed' + 1 + j = j
      BY <2>1, <2>2
    <3>2. QED
      BY <1>1, <3>1
  <2>4. TodoInv'
    <3>1. \A all \in Nat : \A left : left = all + 1 => left <= all + 1
      OBVIOUS
    <3>2. Len(todo') <= All' + 1
      BY <2>1, <3>1, Zenon
    <3>3. exceptions' # 0
      BY <1>2
    <3>4. QED
      BY <2>3, <3>2, <3>3 DEF TodoInv
  <2>5. SecondInv'
    <3>1. \A all \in Nat : -1 \notin Len(FirstLine) + 1 .. all - 1 /\ -1 # all
      BY Sizes
    <3>2. Printed' \notin Len(FirstLine) + 1 .. All' - 1 /\ Printed' # All'
      BY <2>1, <2>2, <3>1
    <3>3. QED
      BY <3>2, Zenon DEF SecondInv
  <2>6. QED
    BY <2>2, <2>4, <2>5
<1>6. CursorInv'
  BY <1>1, <1>2 DEF CursorInv
<1>7. Overrun' = Size + exceptions * W /\ Overrun' = Overrun + W
  BY <1>1, Sizes DEF Overrun
<1>8. ReportInv'
  <2>1. CASE exceptions = 0
    BY <1>1, <1>3, <1>5, <1>7, <2>1, Sizes DEF ReportInv, CursorInv
  <2>2. CASE exceptions > 0
    <3>1. (H + exceptions - 1 + Pending) * W <= (H + exceptions) * W
      BY <1>1, <2>2, TimesMonotone, Sizes DEF Pending
    <3>2. (H + exceptions) * W = Overrun'
      BY <1>1, <1>7, Sizes
    <3>3. cursor_pos' <= Overrun'
      BY <1>1, <2>2, <3>1, <3>2, CursorBelow, Sizes DEF Pending, TypeOK
    <3>4. QED
      BY <1>1, <1>3, <1>5, <3>3, Sizes DEF ReportInv
  <2>3. QED
    BY <1>1, <2>1, <2>2
<1>9. ForeignInv'
  BY <1>1, <1>2, <1>7, OverrunInMemory, Sizes DEF ForeignInv, Memory, TypeOK, Size
<1>10. RegisterInv'
  BY <1>1, <1>3, Sizes DEF RegisterInv, RegistersFollow
<1>11. QED
  BY <1>4, <1>5, <1>6, <1>8, <1>9, <1>10

-----------------------------------------------------------------------------
(* The report of an exception.                                             *)

(* Every character handle_exception prints keeps the invariant.            *)
LEMMA ReportStep ==
  ASSUME IInv, Report
  PROVE  IInv'
<1> USE DEF IInv
<1> DEFINE char == Head(todo)
<1>1. todo # <<>> /\ Switch(char) /\ todo' = Tail(todo)
      /\ UNCHANGED <<ctx, exceptions, calls>>
  BY DEF Report
<1>2. /\ tvga_vbuffer' \in [Memory -> Cell] /\ cursor_pos' \in Nat
      /\ UNCHANGED <<tvga_curattr, registers, row>> /\ pc = "idle" /\ pc' = "check"
      /\ \A p \in Memory : p # cursor_pos \/ char \notin Chars =>
                              tvga_vbuffer'[p] = tvga_vbuffer[p]
  BY <1>1, SwitchType
<1>3. exceptions \in 1 .. MaxExceptions
  BY <1>1, Sizes DEF TodoInv, TypeOK
<1>4. /\ todo \in Seq(Chars \union {LF}) /\ Len(todo) \in 1 .. All + 1 /\ All \in Nat
      /\ All' = All /\ Second' = Second /\ Text' = Text
      /\ Len(todo') = Len(todo) - 1
      /\ \A i \in 1 .. Len(todo) - 1 : todo'[i] = todo[i + 1]
  <2>1. todo \in Seq(Chars \union {LF}) /\ Len(todo) <= All + 1 /\ All \in Nat
    BY SecondIs DEF TodoInv, TypeOK
  <2>2. Len(todo) \in 1 .. All + 1 /\ Len(todo') = Len(todo) - 1
        /\ \A i \in 1 .. Len(todo) - 1 : todo'[i] = todo[i + 1]
    BY <1>1, <2>1
  <2>3. All' = All /\ Second' = Second /\ Text' = Text
    BY <1>1 DEF All, Second, Text
  <2>4. QED
    BY <2>1, <2>2, <2>3
<1>5. Printed \in -1 .. All - 1 /\ Printed' = Printed + 1
  BY <1>4 DEF Printed
<1>6. char = Text[Printed + 2]
  BY <1>1, <1>4, <1>5 DEF TodoInv
<1>7. TypeOK'
  BY <1>1, <1>2, <1>4 DEF TypeOK
<1>8. TodoInv'
  <2>1. ASSUME NEW i \in 1 .. Len(todo) - 1
        PROVE  todo'[i] = Text[Printed' + 1 + i]
    <3>1. todo'[i] = todo[i + 1] /\ i + 1 \in 1 .. Len(todo)
      BY <1>4
    <3>2. todo[i + 1] = Text[Printed + 1 + (i + 1)]
      BY <3>1 DEF TodoInv
    <3>3. Printed + 1 + (i + 1) = Printed' + 1 + i
      BY <1>5
    <3>4. QED
      BY <3>1, <3>2, <3>3
  <2>2. Len(todo') <= All' + 1
    BY <1>4
  <2>3. QED
    BY <1>1, <1>3, <1>4, <2>1, <2>2 DEF TodoInv
<1>9. CursorInv'
  BY <1>1, <1>2, <1>3 DEF CursorInv
<1>10. cursor_pos \in Nat /\ cursor_pos <= Overrun /\ cursor_pos \in Memory
  <2>1. cursor_pos <= Overrun /\ cursor_pos \in Nat
    BY <1>2, <1>3, CursorBelow, Sizes DEF Overrun, Pending, TypeOK
  <2>2. QED
    BY <2>1, OverrunInMemory DEF TypeOK
<1>11. ForeignInv'
  <2>1. Overrun' = Overrun /\ Overrun \in Int /\ Memory \subseteq Int
    BY <1>1, OverrunInMemory DEF Overrun, Memory, TypeOK
  <2>2. \A p \in Memory \ (0 .. Size - 1) : p > Overrun => tvga_vbuffer'[p] = FOREIGN
    BY <1>2, <1>10, <2>1 DEF ForeignInv
  <2>3. QED
    BY <1>1, <1>3, <2>1, <2>2 DEF ForeignInv, Memory, Size
<1>12. ReportInv'
  <2> DEFINE n == Len(FirstLine)
  <2>1. CASE Printed = -1
    <3>1. char = LF /\ char \notin Chars
      <4>1. LF \notin Chars
        BY ConsoleAssumption
      <4>2. Text[1] = LF /\ Printed + 2 = 1
        BY <2>1, TextIs DEF TypeOK
      <4>3. QED
        BY <1>6, <4>1, <4>2
    <3>2. PICK r \in Nat : r = cursor_pos \div W + 1
      BY <1>10, RowOf
    <3>3. cursor_pos' = r * W /\ r <= H + exceptions
      <4>1. cursor_pos' = tvga_linefeed
        BY <1>1, <3>1 DEF Switch, Moved, LF, CR, TAB, BS
      <4>2. (r - 1) * W <= cursor_pos
        BY <1>10, <3>2, Sizes, DivideBounds
      <4>3. (H + exceptions) * W <= (r - 1) * W \/ r - 1 < H + exceptions
        BY <1>3, Sizes, TimesMonotone
      <4>4. Overrun = (H + exceptions) * W - W
        BY <1>3, Sizes DEF Overrun
      <4>5. (r - 1) * W \in Int /\ (H + exceptions) * W \in Int
        BY <1>3, Sizes
      <4>6. QED
        BY <1>3, <1>10, <3>2, <4>1, <4>2, <4>3, <4>4, <4>5, Sizes DEF tvga_linefeed
    <3>4. Printed' = 0 /\ Pending' = 1 /\ r * W \in Int
      BY <1>2, <1>5, <2>1, Sizes DEF Pending
    <3>5. PrintsAt(r)'
      BY <1>1, <1>3, <3>3, <3>4, Sizes DEF PrintsAt, MessageAt, LineInRow
    <3>6. SecondInv'
      <4>1. n \in Nat /\ n < All
        BY Sizes, SecondIs DEF TypeOK
      <4>2. QED
        BY <1>4, <3>4, <4>1 DEF SecondInv
    <3>7. QED
      BY <3>4, <3>5, <3>6, Sizes DEF ReportInv
  <2>2. CASE Printed \in 0 .. Len(FirstLine) - 1
    <3>1. PICK r \in Nat : PrintsAt(r)
      BY <1>3, <1>5, <2>2 DEF ReportInv
    <3>2. char = FirstLine[Printed + 1] /\ char \in Chars
      <4>1. Printed + 1 \in 1 .. Len(FirstLine) /\ Printed + 2 = (Printed + 1) + 1
        BY <2>2, Sizes
      <4>2. QED
        BY <1>6, <4>1, TextIs DEF TypeOK
    <3>3. /\ cursor_pos' = cursor_pos + 1
          /\ tvga_vbuffer' = [tvga_vbuffer EXCEPT ![cursor_pos] = attr_entry(char)]
      BY <1>1, <3>2, ConsoleAssumption DEF Switch, Moved
    <3>4. cursor_pos = r * W + Printed /\ r * W \in Nat
      BY <3>1, Sizes DEF PrintsAt
    <3>5. r < H => MessageAt(r, Printed)'
      <4> SUFFICES ASSUME r < H, NEW k \in exceptions + 1 .. Printed + 1
                   PROVE  tvga_vbuffer'[r * W + k - 1] = attr_entry(FirstLine[k])
        BY <1>1, <1>2, <1>5 DEF MessageAt, LineInRow, attr_entry
      <4>1. tvga_vbuffer \in [Memory -> Cell]
        BY DEF TypeOK
      <4>2. CASE k = Printed + 1
        BY <1>10, <2>2, <3>2, <3>3, <3>4, <4>1, <4>2, SMTT(30)
      <4>3. CASE k <= Printed
        <5>1. tvga_vbuffer[r * W + k - 1] = attr_entry(FirstLine[k])
          BY <1>3, <2>2, <3>1, <4>3 DEF PrintsAt, MessageAt, LineInRow
        <5>2. r * W + k - 1 \in Nat /\ r * W + k - 1 < cursor_pos
          BY <1>3, <2>2, <3>4, <4>3
        <5>3. r * W + k - 1 \in Memory
          BY <1>10, <5>2, OverrunInMemory, SMTT(30) DEF TypeOK
        <5>4. QED
          BY <1>2, <5>1, <5>2, <5>3
      <4>4. QED
        BY <2>2, <4>2, <4>3
    <3>6. Pending' = 1 /\ Pending = 0
      BY <1>2 DEF Pending
    <3>7. PrintsAt(r)'
      BY <1>1, <1>3, <1>5, <2>2, <3>1, <3>3, <3>4, <3>5, <3>6, Sizes DEF PrintsAt
    <3>8. SecondInv'
      <4>1. n \in Nat /\ n < All /\ Printed' <= n
        BY <1>5, <2>2, Sizes, SecondIs DEF TypeOK
      <4>2. QED
        BY <1>4, <1>5, <4>1 DEF SecondInv
    <3>9. QED
      BY <1>5, <2>2, <3>7, <3>8, Sizes DEF ReportInv
  <2>3. CASE Printed = Len(FirstLine)
    <3>1. PICK r \in Nat : PrintsAt(r)
      BY <1>3, <2>3, Sizes DEF ReportInv
    <3>2. char = LF /\ char \notin Chars
      <4>1. LF \notin Chars
        BY ConsoleAssumption
      <4>2. Text[Printed + 2] = LF
        BY <2>3, TextIs DEF TypeOK
      <4>3. QED
        BY <1>6, <4>1, <4>2
    <3>3. cursor_pos = r * W + Printed /\ Printed \in 0 .. W - 1 /\ r < H
      BY <1>2, <1>3, <2>3, <3>1, Sizes DEF PrintsAt, Pending
    <3>4. cursor_pos' = (r + 1) * W
      <4>1. cursor_pos' = tvga_linefeed
        BY <1>1, <3>2 DEF Switch, Moved, LF, CR, TAB, BS
      <4>2. QED
        BY <3>3, <4>1, RowColumn DEF tvga_linefeed
    <3>5. tvga_vbuffer' = tvga_vbuffer
      BY <1>1, <3>2 DEF Switch
    <3>6. LineInRow(FirstLine, Place(r + 1 - 1 - 0), exceptions + 1, n)'
      <4>1. Place(r + 1 - 1 - 0)' = r
        BY <1>2 DEF Place
      <4>2. LineInRow(FirstLine, r, exceptions + 1, n)
        BY <2>3, <3>1, <3>3 DEF PrintsAt, MessageAt
      <4>3. QED
        BY <1>1, <1>2, <3>5, <4>1, <4>2 DEF LineInRow, attr_entry
    <3>7. Under(r + 1, 0, 0)'
      BY <1>2, <3>4, <3>6, Sizes DEF Under, LineInRow
    <3>8. r + 1 \in 1 .. H /\ Printed' - n - 1 = 0 /\ Printed' = n + 1 /\ n + 1 < All' /\ n \in Nat
      BY <1>4, <1>5, <2>3, <3>3, Sizes, SecondIs, SMTT(30) DEF TypeOK
    <3>9. SecondInv'
      <4>1. \E s \in 1 .. H : Under(s, 0, Printed - n - 1)'
        BY <3>7, <3>8, Zenon
      <4>2. QED
        BY <3>8, <4>1, SMTT(30) DEF SecondInv
    <3>10. QED
      BY <3>8, <3>9, Sizes DEF ReportInv
  <2>4. CASE Printed \in n + 1 .. All - 2
    <3>1. PICK count \in 0 .. W - 1, r \in 1 .. H :
             count = Printed - n - 1 /\ Under(r, 0, count)
      <4>1. Printed - n - 1 \in 0 .. W - 1
        <5>1. PICK len \in Nat, m \in Nat : len = n /\ m = Len(Second) /\ m < W /\ All = len + m + 2
          BY Sizes, SecondIs DEF TypeOK
        <5>2. Printed \in len + 1 .. len + m
          BY <2>4, <5>1
        <5>3. QED
          BY <5>1, <5>2, Sizes
      <4>2. \E r \in 1 .. H : Under(r, 0, Printed - n - 1)
        <5>1. \A all \in Nat : n + 1 .. all - 2 \subseteq n + 1 .. all - 1
          BY Sizes
        <5>2. Printed \in n + 1 .. All - 1
          BY <1>4, <2>4, <5>1
        <5>3. QED
          BY <1>3, <5>2 DEF ReportInv, SecondInv
      <4>3. QED
        BY <4>1, <4>2
    <3>2. count + 1 \in 1 .. Len(Second) /\ Len(Second) < W /\ n \in Nat /\ n + 2 + (count + 1) = Printed + 2
      BY <1>4, <2>4, <3>1, Sizes, SecondIs DEF TypeOK
    <3>3. char = Second[count + 1] /\ char \in Chars
      BY <1>6, <3>2, TextIs DEF TypeOK
    <3>4. /\ cursor_pos' = cursor_pos + 1
          /\ tvga_vbuffer' = [tvga_vbuffer EXCEPT ![cursor_pos] = attr_entry(char)]
      BY <1>1, <3>3, ConsoleAssumption DEF Switch, Moved
    <3>5. r < H /\ cursor_pos = r * W + count /\ r * W \in Nat /\ (r - 1) * W = r * W - W
          /\ (r - 1) * W \in Nat
      <4>1. r < H
        BY <1>2, <3>1 DEF Under
      <4>2. r - 1 \in Nat
        BY Sizes
      <4>3. QED
        BY <3>1, <4>1, <4>2, UnderColumn, RowColumn, Sizes DEF Under
    <3>6. /\ LineInRow(FirstLine, r - 1, exceptions + 1, n)
          /\ LineInRow(Second, r, 1, count)
      BY <1>2, <3>1 DEF Under, Place
    <3>7. ASSUME NEW q \in {r - 1, r}, NEW k \in 1 .. W, q * W + k - 1 < cursor_pos
          PROVE  tvga_vbuffer'[q * W + k - 1] = tvga_vbuffer[q * W + k - 1]
      <4>1. q * W + k - 1 \in Nat
        BY <3>5, <3>7, Sizes
      <4>2. q * W + k - 1 \in Memory
        BY <1>10, <3>7, <4>1, OverrunInMemory, SMTT(30) DEF TypeOK
      <4>3. q * W + k - 1 # cursor_pos
        BY <1>10, <3>7, <4>1
      <4>4. QED
        BY <1>2, <4>2, <4>3
    <3>8. LineInRow(FirstLine, r - 1, exceptions + 1, n)'
      <4>1. ASSUME NEW k \in exceptions + 1 .. n
            PROVE  tvga_vbuffer'[(r - 1) * W + k - 1] = tvga_vbuffer[(r - 1) * W + k - 1]
        <5>1. k \in 1 .. W /\ (r - 1) * W + k - 1 < cursor_pos
          BY <1>3, <3>5, Sizes
        <5>2. QED
          BY <3>7, <5>1
      <4>2. QED
        BY <1>1, <1>2, <3>6, <4>1 DEF LineInRow, attr_entry
    <3>9. LineInRow(Second, r, 1, count + 1)'
      <4>1. PICK line : line = Second /\ line = Second'
        BY <1>4
      <4>2. ASSUME NEW k \in 1 .. count + 1
            PROVE  tvga_vbuffer'[r * W + k - 1] = attr_entry(line[k])
        <5>1. CASE k = count + 1
          <6>1. cursor_pos = r * W + k - 1 /\ tvga_vbuffer \in [Memory -> Cell]
            BY <3>5, <5>1 DEF TypeOK
          <6>2. QED
            BY <1>10, <3>3, <3>4, <4>1, <5>1, <6>1
        <5>2. CASE k <= count
          <6>1. tvga_vbuffer[r * W + k - 1] = attr_entry(line[k])
            BY <3>6, <4>1, <5>2 DEF LineInRow
          <6>2. k \in 1 .. W /\ r * W + k - 1 < cursor_pos
            BY <3>5, <5>2, Sizes
          <6>3. QED
            BY <3>7, <6>1, <6>2
        <5>3. QED
          BY <5>1, <5>2
      <4>3. QED
        BY <1>2, <4>1, <4>2 DEF LineInRow, attr_entry
    <3>10. Under(r, 0, count + 1)'
      <4>1. Place(r - 1 - 0)' = r - 1 /\ Place(r - 0)' = r
        BY <1>2 DEF Place
      <4>2. QED
        BY <1>2, <3>4, <3>5, <3>8, <3>9, <4>1, SMTT(30) DEF Under, LineInRow
    <3>11. Printed' - n - 1 = count + 1 /\ Printed' \in n + 1 .. All' - 1 /\ n \in Nat
      BY <1>4, <1>5, <2>4, <3>1, Sizes
    <3>12. SecondInv'
      BY <3>10, <3>11 DEF SecondInv
    <3>13. QED
      BY <3>11, <3>12 DEF ReportInv
  <2>5. CASE Printed = All - 1
    <3>1. PICK r \in 1 .. H : Under(r, 0, Len(Second))
      <4>1. Printed - n - 1 = Len(Second) /\ Printed \in n + 1 .. All - 1
        BY <1>4, <2>5, Sizes, SecondIs DEF TypeOK
      <4>2. QED
        BY <1>3, <4>1 DEF ReportInv, SecondInv
    <3>2. char = LF /\ char \notin Chars
      <4>1. LF \notin Chars
        BY ConsoleAssumption
      <4>2. \A all \in Nat : all - 1 + 2 = all + 1
        OBVIOUS
      <4>3. Printed + 2 = All + 1
        BY <1>4, <2>5, <4>2
      <4>4. Text[All + 1] = LF
        BY <1>4, TextIs DEF TypeOK
      <4>5. QED
        BY <1>6, <4>1, <4>3, <4>4
    <3>3. Len(Second) \in 0 .. W - 1
      BY SecondIs, Sizes DEF TypeOK
    <3>4. r < H /\ cursor_pos \div W = r
      BY <1>2, <3>1, <3>3, UnderColumn DEF Under
    <3>5. cursor_pos' = (r + 1) * W /\ tvga_vbuffer' = tvga_vbuffer
      BY <1>1, <3>2, <3>4 DEF Switch, Moved, LF, CR, TAB, BS, tvga_linefeed
    <3>6. /\ LineInRow(FirstLine, r - 1, exceptions + 1, n)
          /\ LineInRow(Second, r, 1, Len(Second))
      BY <1>2, <3>1 DEF Under, Place
    <3>7. /\ LineInRow(FirstLine, r - 1, exceptions + 1, n)'
          /\ LineInRow(Second, r, 1, Len(Second))'
      BY <1>1, <1>2, <1>4, <3>5, <3>6 DEF LineInRow, attr_entry
    <3>8. Under(r + 1, 1, Len(Second))'
      <4>1. Place(r + 1 - 1 - 1)' = r - 1 /\ Place(r + 1 - 1)' = r
        BY <1>2 DEF Place
      <4>2. QED
        BY <1>2, <3>5, <3>7, <4>1 DEF Under, LineInRow
    <3>9. r + 1 \in 2 .. H /\ Printed' = All' /\ n < All' /\ n \in Nat
      BY <1>4, <1>5, <2>5, <3>4, Sizes, SecondIs DEF TypeOK
    <3>10. SecondInv'
      BY <1>4, <3>8, <3>9 DEF SecondInv
    <3>11. QED
      BY <1>4, <3>9, <3>10 DEF ReportInv
  <2>6. n \in Nat
    BY Sizes
  <2> HIDE DEF n
  <2>7. \/ Printed = -1 \/ Printed \in 0 .. n - 1 \/ Printed = n
        \/ Printed \in n + 1 .. All - 2 \/ Printed = All - 1
    BY <1>4, <1>5, <2>6
  <2>8. QED
    BY <2>1, <2>2, <2>3, <2>4, <2>5, <2>7 DEF n
<1>13. RegisterInv'
  BY <1>2 DEF RegisterInv, RegistersFollow
<1>14. QED
  BY <1>7, <1>8, <1>9, <1>11, <1>12, <1>13

-----------------------------------------------------------------------------
(* The statements behind the switch.                                       *)

(* What no statement changes. *)
LEMMA StatementKeeps ==
  ASSUME IInv, Statement
  PROVE  /\ UNCHANGED <<todo, ctx, exceptions, calls, tvga_curattr>>
         /\ TodoInv' /\ Printed' = Printed /\ Overrun' = Overrun /\ Overrun \in Int
         /\ Second' = Second /\ All' = All
         /\ All \in Nat /\ Printed \in -1 .. All
         /\ exceptions \in Nat
         /\ exceptions > 0 => Printed # -1
<1>1. UNCHANGED <<todo, ctx, exceptions, calls, tvga_curattr>> /\ pc # "idle"
  BY DEF Statement, Check, MoveRow, BlankLastRow, Retreat, LowRegister, HighRegister, Home,
     screen, control
<1>2. TodoInv'
  BY <1>1 DEF IInv, TodoInv, Printed, Text, All, Second
<1>3. All \in Nat /\ Printed \in -1 .. All
  BY SecondIs DEF IInv, Printed, TodoInv, TypeOK
<1>4. exceptions > 0 => Printed # -1
  BY <1>1 DEF IInv, ReportInv
<1>5. Overrun \in Int
  BY Sizes DEF IInv, TypeOK, Overrun
<1>6. QED
  BY <1>1, <1>2, <1>3, <1>4, <1>5 DEF Printed, All, Second, Overrun, IInv, TypeOK

(* While the screen scrolls a line stays in its place. *)
LEMMA LineMoved ==
  ASSUME IInv, MoveRow \/ BlankLastRow, NEW line, NEW q \in 1 .. H - 1,
         NEW first \in Nat \ {0}, NEW last \in Nat, last <= W,
         LineInRow(line, Place(q), first, last)
  PROVE  LineInRow(line, Place(q), first, last)'
<1>1. /\ tvga_curattr' = tvga_curattr /\ pc = "scroll" /\ row \in 0 .. H - 1
      /\ q \in Nat /\ q - 1 \in Nat /\ q < H
  BY Sizes DEF IInv, TypeOK, MoveRow, BlankLastRow, control
<1> SUFFICES ASSUME NEW k \in first .. last
             PROVE  tvga_vbuffer'[Place(q)' * W + k - 1] = attr_entry(line[k])
  BY <1>1 DEF LineInRow, attr_entry
<1>2. tvga_vbuffer[Place(q) * W + k - 1] = attr_entry(line[k])
  BY DEF LineInRow
<1>3. PICK c \in 0 .. W - 1 : c = k - 1
  BY Sizes
<1>4. /\ (q - 1) * W + W = q * W /\ q * W + W <= Size /\ q * W \in Nat /\ (q - 1) * W \in Nat
      /\ (q * W + c) \div W = q /\ ((q - 1) * W + c) \div W = q - 1
  <2>1. q * W + W <= H * W
    BY <1>1, RowsApart, Sizes
  <2>2. (q * W + c) \div W = q /\ (q - 1) * W = q * W - W /\ q * W \in Int
    BY <1>1, RowColumn
  <2>3. ((q - 1) * W + c) \div W = q - 1 /\ (q - 1) * W \in Int /\ (q - 1) * W >= 0
    BY <1>1, RowColumn
  <2>4. QED
    BY <1>1, <2>1, <2>2, <2>3, Sizes
<1>5. q * W + c \in 0 .. Size - 1 /\ (q - 1) * W + c \in 0 .. Size - W - 1
  BY <1>4, Sizes
<1>6. 0 .. Size - 1 \subseteq Memory
  BY OverrunInMemory, Sizes DEF IInv, TypeOK
<1>7. q * W + c \in Memory /\ (q - 1) * W + c \in Memory
  BY <1>5, <1>6, Sizes
<1>8. (q - 1) * W + c + W = q * W + c
  BY <1>4, Sizes
<1>9. CASE MoveRow
  <2>1. pc' = "scroll" /\ row' = row + 1
    BY <1>9 DEF MoveRow
  <2>2. CASE row = q - 1
    <3>1. Place(q) = q /\ Place(q)' = q - 1
      BY <1>1, <2>1, <2>2 DEF Place
    <3>2. tvga_vbuffer'[(q - 1) * W + c] = tvga_vbuffer[q * W + c]
      BY <1>4, <1>7, <1>8, <1>9, <2>2, MoveRowType DEF IInv
    <3>3. QED
      BY <1>2, <1>3, <1>4, <3>1, <3>2
  <2>3. CASE row < q - 1
    <3>1. Place(q) = q /\ Place(q)' = q /\ row # q
      BY <1>1, <2>1, <2>3 DEF Place
    <3>2. tvga_vbuffer'[q * W + c] = tvga_vbuffer[q * W + c]
      BY <1>4, <1>7, <1>9, <3>1, MoveRowType DEF IInv
    <3>3. QED
      BY <1>2, <1>3, <1>4, <3>1, <3>2
  <2>4. CASE row >= q
    <3>1. Place(q) = q - 1 /\ Place(q)' = q - 1 /\ row # q - 1
      BY <1>1, <2>1, <2>4 DEF Place
    <3>2. tvga_vbuffer'[(q - 1) * W + c] = tvga_vbuffer[(q - 1) * W + c]
      BY <1>4, <1>7, <1>9, <3>1, MoveRowType DEF IInv
    <3>3. QED
      BY <1>2, <1>3, <1>4, <3>1, <3>2
  <2>5. QED
    BY <1>1, <2>2, <2>3, <2>4
<1>10. CASE BlankLastRow
  <2>1. row = H - 1 /\ pc' = "retreat" /\ tvga_vbuffer' = Blanked((H - 1) * W, W)
    BY <1>10 DEF BlankLastRow
  <2>2. Place(q) = q - 1 /\ Place(q)' = q - 1
    BY <1>1, <2>1, Sizes DEF Place
  <2>3. (q - 1) * W + c \notin (H - 1) * W .. (H - 1) * W + W - 1
    BY <1>5, Sizes
  <2>4. tvga_vbuffer'[(q - 1) * W + c] = tvga_vbuffer[(q - 1) * W + c]
    BY <1>7, <2>1, <2>3 DEF Blanked
  <2>5. QED
    BY <1>2, <1>3, <1>4, <2>2, <2>4
<1>11. QED
  BY <1>9, <1>10

(* A statement of the report of an exception keeps what is said of the two *)
(* lines.                                                                  *)
LEMMA UnderNext ==
  ASSUME IInv, Statement, exceptions > 0, NEW end \in {0, 1}, NEW count \in 0 .. W - 1,
         NEW r \in 1 + end .. H, Under(r, end, count)
  PROVE  \E s \in 1 + end .. H : Under(s, end, count)'
<1>1. /\ exceptions' = exceptions /\ Second' = Second /\ tvga_curattr' = tvga_curattr
      /\ exceptions \in 1 .. MaxExceptions /\ H - 1 \in 1 + end .. H
      /\ pc \in {"check", "scroll", "retreat", "low", "high"} /\ row \in 0 .. H - 1
  <2>1. pc # "home" /\ pc # "idle"
    BY DEF IInv, CursorInv, Statement, Check, MoveRow, BlankLastRow, Retreat, LowRegister,
       HighRegister, Home
  <2>2. QED
    BY <2>1, StatementKeeps, Sizes, SMTT(30) DEF IInv, TypeOK
<1>2. PICK lost \in Nat \ {0} : lost = exceptions + 1 /\ lost = exceptions' + 1
  BY <1>1
<1>3. PICK line : line = Second /\ line = Second'
  BY <1>1
<1>4. /\ r \in 1 .. H /\ cursor_pos \in Nat /\ cursor_pos <= Size /\ (r < H <=> cursor_pos < Size)
      /\ (end = 0 /\ r = H => count = 0) /\ (pc \in {"scroll", "retreat"} => r = H)
      /\ (pc \in {"low", "high"} => r < H)
      /\ cursor_pos = IF end = 1 THEN r * W ELSE r * W + count
  <2>1. r \in 1 .. H
    OBVIOUS
  <2>2. QED
    BY <2>1, UnderColumn DEF Under
<1>5. /\ LineInRow(FirstLine, Place(r - 1 - end), lost, Len(FirstLine))
      /\ LineInRow(line, Place(r - end), 1, count)
  BY <1>2, <1>3 DEF Under
<1>6. ASSUME NEW s \in 1 + end .. H,
             cursor_pos' = IF end = 1 THEN s * W ELSE s * W + count,
             end = 0 /\ s = H => count = 0,
             pc' \in {"idle", "low", "high"} => s < H,
             pc' \in {"scroll", "retreat"} => s = H,
             LineInRow(FirstLine, Place(s - 1 - end), lost, Len(FirstLine))',
             LineInRow(line, Place(s - end), 1, count)'
      PROVE  Under(s, end, count)'
  BY <1>2, <1>3, <1>6 DEF Under
<1>7. CASE Check \/ LowRegister \/ HighRegister
  <2>1. /\ UNCHANGED <<tvga_vbuffer, cursor_pos>>
        /\ \/ pc = "check" /\ pc' = "low" /\ cursor_pos < Size
           \/ pc = "check" /\ pc' = "scroll" /\ row' = 0 /\ cursor_pos >= Size
           \/ pc = "low" /\ pc' = "high"
           \/ pc = "high" /\ pc' = "idle"
    <3>1. CASE Check
      BY <1>4, <3>1, Sizes DEF Check, screen, Full
    <3>2. CASE LowRegister
      BY <3>2 DEF LowRegister, screen
    <3>3. CASE HighRegister
      BY <3>3 DEF HighRegister, screen
    <3>4. QED
      BY <1>7, <3>1, <3>2, <3>3
  <2>2. ASSUME NEW q \in {r - 1 - end, r - end}
        PROVE  Place(q)' = Place(q)
    <3>1. pc' = "scroll" => r = H
      BY <1>4, <2>1, Sizes
    <3>2. pc' = "scroll" => q >= 1
      BY <3>1, Sizes
    <3>3. QED
      BY <2>1, <3>2 DEF Place
  <2>3. /\ LineInRow(FirstLine, Place(r - 1 - end), lost, Len(FirstLine))'
        /\ LineInRow(line, Place(r - end), 1, count)'
    BY <1>1, <1>5, <2>1, <2>2 DEF LineInRow, attr_entry
  <2>4. Under(r, end, count)'
    <3>1. pc' \in {"idle", "low", "high"} => r < H
      BY <1>4, <2>1
    <3>2. pc' \in {"scroll", "retreat"} => r = H
      BY <1>4, <2>1, Sizes
    <3>3. QED
      BY <1>4, <1>6, <2>1, <2>3, <3>1, <3>2
  <2>5. QED
    BY <2>4
<1>8. CASE MoveRow \/ BlankLastRow
  <2>1. /\ pc = "scroll" /\ pc' \in {"scroll", "retreat"} /\ cursor_pos' = cursor_pos /\ r = H
    BY <1>4, <1>8 DEF MoveRow, BlankLastRow
  <2>2. H - 1 - end \in 1 .. H - 1 /\ Len(FirstLine) \in Nat /\ Len(FirstLine) <= W
    BY Sizes
  <2>3. LineInRow(FirstLine, Place(r - 1 - end), lost, Len(FirstLine))'
    BY <1>5, <1>8, <2>1, <2>2, LineMoved
  <2>4. LineInRow(line, Place(r - end), 1, count)'
    <3>1. CASE end = 0
      BY <1>4, <2>1, <3>1 DEF LineInRow
    <3>2. CASE end = 1
      <4>1. H - end \in 1 .. H - 1 /\ count \in Nat /\ count <= W
        BY <3>2, Sizes
      <4>2. QED
        BY <1>5, <1>8, <2>1, <4>1, LineMoved
    <3>3. QED
      BY <3>1, <3>2
  <2>5. Under(r, end, count)'
    BY <1>4, <1>6, <2>1, <2>3, <2>4
  <2>6. QED
    BY <2>5
<1>9. CASE Retreat
  <2>1. /\ pc = "retreat" /\ pc' = "low" /\ tvga_vbuffer' = tvga_vbuffer
        /\ cursor_pos' = cursor_pos - W /\ r = H
    BY <1>4, <1>9 DEF Retreat
  <2>2. cursor_pos' = IF end = 1 THEN (H - 1) * W ELSE (H - 1) * W + count
    BY <1>4, <2>1, Sizes
  <2>3. ASSUME NEW q \in Int
        PROVE  Place(q) = q - 1 /\ Place(q - 1)' = q - 1
    BY <2>1 DEF Place
  <2>4. /\ LineInRow(FirstLine, Place(H - 1 - 1 - end), lost, Len(FirstLine))'
        /\ LineInRow(line, Place(H - 1 - end), 1, count)'
    <3>1. /\ Place(H - 1 - end) = Place(H - 1 - 1 - end)' /\ Place(H - end) = Place(H - 1 - end)'
      <4>1. H - 1 - end \in Int /\ H - end \in Int /\ H - 1 - end - 1 = H - 1 - 1 - end
            /\ H - end - 1 = H - 1 - end
        BY Sizes
      <4>2. QED
        BY <2>3, <4>1
    <3>2. QED
      BY <1>1, <1>5, <2>1, <3>1 DEF LineInRow, attr_entry
  <2>5. Under(H - 1, end, count)'
    <3>1. H - 1 < H /\ H - 1 # H
      BY Sizes
    <3>2. QED
      BY <1>1, <1>6, <2>1, <2>2, <2>4, <3>1
  <2>6. QED
    BY <1>1, <2>5
<1>10. QED
  BY <1>1, <1>7, <1>8, <1>9 DEF Statement, Home

(* What is said of the two lines holds whatever statement comes next. *)
LEMMA SecondKept ==
  ASSUME IInv, Statement, exceptions > 0
  PROVE  SecondInv'
<1>1. /\ Second' = Second /\ All' = All /\ Printed' = Printed /\ All \in Nat
      /\ Printed \in -1 .. All /\ Len(FirstLine) \in Nat /\ Len(FirstLine) < All
  BY StatementKeeps, SecondIs, Sizes DEF IInv, TypeOK
<1>2. CASE Printed \in Len(FirstLine) + 1 .. All
  <2>1. PICK end \in {0, 1}, count \in 0 .. W - 1 : \E r \in 1 + end .. H :
            /\ Under(r, end, count)
            /\ IF Printed = All THEN end = 1 /\ count = Len(Second)
               ELSE end = 0 /\ count = Printed - Len(FirstLine) - 1
    BY <1>2, UnderIs
  <2>2. PICK s \in 1 + end .. H : Under(s, end, count)'
    BY <2>1, UnderNext
  <2>3. CASE Printed = All
    BY <1>1, <2>1, <2>2, <2>3 DEF SecondInv
  <2>4. CASE Printed # All
    BY <1>1, <2>1, <2>2, <2>4 DEF SecondInv
  <2>5. QED
    BY <2>3, <2>4
<1>3. CASE Printed <= Len(FirstLine)
  BY <1>1, <1>3 DEF SecondInv
<1>4. QED
  BY <1>1, <1>2, <1>3

(* A statement that leaves the cells and the cursor alone keeps what is    *)
(* said of the message, if the position is not pending afterwards only if  *)
(* it was not before, or is on the screen.                                 *)
LEMMA ReportKept ==
  ASSUME IInv, Statement, UNCHANGED <<tvga_vbuffer, cursor_pos>>,
         \/ pc = "check" /\ pc' = "low" /\ cursor_pos < Size
         \/ pc = "check" /\ pc' = "scroll" /\ row' = 0 /\ cursor_pos >= Size
         \/ pc = "low" /\ pc' = "high"
         \/ pc = "high" /\ pc' = "idle"
  PROVE  ReportInv'
<1> USE DEF IInv
<1> SUFFICES ASSUME exceptions > 0
             PROVE  Printed \in 0 .. Len(FirstLine) => \E r \in Nat : PrintsAt(r)'
  BY StatementKeeps, SecondKept DEF ReportInv
<1>1. ASSUME Printed \in 0 .. Len(FirstLine)
      PROVE  \E r \in Nat : PrintsAt(r)'
  <2>1. PICK r \in Nat : PrintsAt(r)
    BY <1>1 DEF ReportInv
  <2>2. cursor_pos = r * W + Printed /\ Printed \in 0 .. W - 1
    BY <1>1, <2>1, Sizes DEF PrintsAt
  <2>3. Pending' = Pending \/ r < H
    BY <2>2, OnScreen DEF Pending
  <2>4. r < H => MessageAt(r, Printed)'
    BY <2>1, StatementKeeps DEF PrintsAt, MessageAt, LineInRow, attr_entry
  <2>5. PrintsAt(r)'
    BY <2>1, <2>3, <2>4, StatementKeeps DEF PrintsAt
  <2>6. QED
    BY <2>5
<1>2. QED
  BY <1>1

(* The test of the position keeps the invariant. *)
LEMMA CheckStep ==
  ASSUME IInv, Check
  PROVE  IInv'
<1> USE DEF IInv
<1>1. /\ UNCHANGED <<tvga_vbuffer, cursor_pos, tvga_curattr, registers>>
      /\ UNCHANGED <<todo, ctx, exceptions, calls>>
      /\ pc = "check" /\ row' = 0
      /\ \/ pc' = "low" /\ cursor_pos < Size
         \/ pc' = "scroll" /\ cursor_pos >= Size
  BY Sizes DEF Check, screen, Full, TypeOK
<1>2. TypeOK'
  BY <1>1, Sizes DEF TypeOK
<1>3. CursorInv'
  BY <1>1, Sizes DEF CursorInv, Size
<1>4. ForeignInv'
  BY <1>1 DEF ForeignInv, Memory, Size, Overrun
<1>5. RegisterInv'
  BY <1>1 DEF RegisterInv, RegistersFollow
<1>6. Statement
  BY DEF Statement
<1>7. QED
  BY <1>1, <1>2, <1>3, <1>4, <1>5, <1>6, ReportKept, StatementKeeps

(* The move of a row keeps the invariant: the message moves with it.       *)
LEMMA MoveRowStep ==
  ASSUME IInv, MoveRow
  PROVE  IInv'
<1> USE DEF IInv
<1>1. /\ UNCHANGED <<cursor_pos, tvga_curattr, registers, pc, todo, ctx, exceptions, calls>>
      /\ pc = "scroll" /\ row' = row + 1 /\ row \in 0 .. H - 2
  BY Sizes DEF MoveRow, TypeOK
<1>2. Statement
  BY DEF Statement
<1>3. TypeOK'
  BY <1>1, MoveRowType, Sizes DEF TypeOK
<1>4. CursorInv'
  BY <1>1 DEF CursorInv, Size
<1>5. ForeignInv'
  <2>1. \A p \in Memory \ (0 .. Size - 1) : tvga_vbuffer'[p] = tvga_vbuffer[p]
    BY MoveRowType, Sizes DEF Memory
  <2>2. QED
    BY <1>1, <2>1 DEF ForeignInv, Memory, Size, Overrun
<1>6. RegisterInv'
  BY <1>1 DEF RegisterInv, RegistersFollow
<1>7. ReportInv'
  <2> SUFFICES ASSUME exceptions > 0
               PROVE  Printed \in 0 .. Len(FirstLine) => \E r \in Nat : PrintsAt(r)'
    BY <1>1, <1>2, StatementKeeps, SecondKept DEF ReportInv
  <2>1. ASSUME Printed \in 0 .. Len(FirstLine)
        PROVE  \E r \in Nat : PrintsAt(r)'
    <3>1. PICK r \in Nat : PrintsAt(r)
      BY <2>1 DEF ReportInv
    <3>2. cursor_pos = r * W + Printed /\ Printed \in 0 .. W - 1 /\ cursor_pos >= Size
      BY <1>1, <2>1, <3>1, Sizes DEF PrintsAt, CursorInv
    <3>3. ~ (r < H)
      BY <3>2, OnScreen, Sizes DEF TypeOK
    <3>4. PrintsAt(r)'
      BY <1>1, <1>2, <3>1, <3>3, StatementKeeps DEF PrintsAt, Pending
    <3>5. QED
      BY <2>1, <3>4, Sizes
  <2>2. QED
    BY <2>1
<1>8. QED
  BY <1>2, <1>3, <1>4, <1>5, <1>6, <1>7, StatementKeeps

(* The clearing of the last row keeps the invariant: the message has gone  *)
(* up.                                                                     *)
LEMMA BlankStep ==
  ASSUME IInv, BlankLastRow
  PROVE  IInv'
<1> USE DEF IInv
<1>1. /\ UNCHANGED <<cursor_pos, tvga_curattr, registers, row, todo, ctx, exceptions, calls>>
      /\ pc = "scroll" /\ pc' = "retreat" /\ row = H - 1
      /\ tvga_vbuffer' = Blanked((H - 1) * W, W)
  BY DEF BlankLastRow, control
<1>2. Statement
  BY DEF Statement
<1>3. /\ tvga_vbuffer' \in [Memory -> Cell]
      /\ \A p \in Memory : p < Size - W \/ p >= Size => tvga_vbuffer'[p] = tvga_vbuffer[p]
  <2>1. (H - 1) * W \in Int /\ (H - 1) * W + W - 1 = Size - 1 /\ (H - 1) * W = Size - W
    BY Sizes
  <2>2. Memory \subseteq Int
    BY DEF Memory
  <2>3. QED
    BY <1>1, <2>1, <2>2, BlankedType, Sizes
<1>4. TypeOK'
  BY <1>1, <1>3 DEF TypeOK
<1>5. CursorInv'
  BY <1>1 DEF CursorInv, Size
<1>6. ForeignInv'
  <2>1. \A p \in Memory \ (0 .. Size - 1) : tvga_vbuffer'[p] = tvga_vbuffer[p]
    BY <1>3, Sizes DEF Memory
  <2>2. QED
    BY <1>1, <2>1 DEF ForeignInv, Memory, Size, Overrun
<1>7. RegisterInv'
  BY <1>1 DEF RegisterInv, RegistersFollow
<1>8. ReportInv'
  <2> SUFFICES ASSUME exceptions > 0
               PROVE  Printed \in 0 .. Len(FirstLine) => \E r \in Nat : PrintsAt(r)'
    BY <1>1, <1>2, StatementKeeps, SecondKept DEF ReportInv
  <2>1. ASSUME Printed \in 0 .. Len(FirstLine)
        PROVE  \E r \in Nat : PrintsAt(r)'
    <3>1. PICK r \in Nat : PrintsAt(r)
      BY <2>1 DEF ReportInv
    <3>2. cursor_pos = r * W + Printed /\ Printed \in 0 .. W - 1 /\ cursor_pos >= Size
      BY <1>1, <2>1, <3>1, Sizes DEF PrintsAt, CursorInv
    <3>3. ~ (r < H)
      BY <3>2, OnScreen, Sizes DEF TypeOK
    <3>4. PrintsAt(r)'
      BY <1>1, <1>2, <3>1, <3>3, StatementKeeps DEF PrintsAt, Pending
    <3>5. QED
      BY <2>1, <3>4, Sizes
  <2>2. QED
    BY <2>1
<1>9. QED
  BY <1>2, <1>4, <1>5, <1>6, <1>7, <1>8, StatementKeeps

(* The cursor's way back keeps the invariant: a row that was behind the    *)
(* screen by fewer rows than there are exceptions comes one nearer.        *)
LEMMA RetreatStep ==
  ASSUME IInv, Retreat
  PROVE  IInv'
<1> USE DEF IInv
<1>1. /\ UNCHANGED <<tvga_vbuffer, tvga_curattr, registers, row, todo, ctx, exceptions, calls>>
      /\ pc = "retreat" /\ pc' = "low"
      /\ cursor_pos' = cursor_pos - W /\ cursor_pos \in Nat /\ cursor_pos >= Size
  BY DEF Retreat, control, CursorInv, TypeOK
<1>2. Statement
  BY DEF Statement
<1>3. cursor_pos' \in Nat
  BY <1>1, Sizes
<1>4. TypeOK'
  BY <1>1, <1>3 DEF TypeOK
<1>5. CursorInv'
  BY <1>1, Sizes DEF CursorInv, Size
<1>6. ForeignInv'
  BY <1>1 DEF ForeignInv, Memory, Size, Overrun
<1>7. RegisterInv'
  BY <1>1 DEF RegisterInv, RegistersFollow
<1>8. ReportInv'
  <2> SUFFICES ASSUME exceptions > 0
               PROVE  Printed \in 0 .. Len(FirstLine) => \E r \in Nat : PrintsAt(r)'
    BY <1>1, <1>2, StatementKeeps, SecondKept DEF ReportInv
  <2>1. ASSUME Printed \in 0 .. Len(FirstLine)
        PROVE  \E r \in Nat : PrintsAt(r)'
    <3>1. PICK r \in Nat : PrintsAt(r)
      BY <2>1 DEF ReportInv
    <3>2. cursor_pos = r * W + Printed /\ Printed \in 0 .. W - 1
      BY <2>1, <3>1, Sizes DEF PrintsAt
    <3>3. ~ (r < H)
      BY <1>1, <3>2, OnScreen, Sizes
    <3>4. PICK s \in Nat : s = r - 1
      BY <3>3, Sizes
    <3>5. cursor_pos' = s * W + Printed
      BY <1>1, <3>2, <3>4, RowColumn, Sizes
    <3>6. s <= H + exceptions - 1 - Printed /\ (s < H => Printed <= exceptions)
      BY <1>1, <2>1, <3>1, <3>3, <3>4, Sizes DEF PrintsAt, Pending, TypeOK
    <3>7. PrintsAt(s)'
      <4>1. Pending' = 0 /\ Printed' = Printed /\ exceptions' = exceptions
            /\ exceptions \in Nat
        BY <1>1, <1>2, StatementKeeps DEF Pending
      <4>2. s < H => exceptions + 1 .. Printed = {}
        BY <2>1, <3>6, <4>1
      <4>3. s < H => MessageAt(s, Printed)'
        BY <4>1, <4>2 DEF MessageAt, LineInRow
      <4>4. H + exceptions - 1 - Printed + 0 = H + exceptions - 1 - Printed
        BY <2>1, <4>1, Sizes
      <4>5. QED
        BY <3>5, <3>6, <4>1, <4>3, <4>4 DEF PrintsAt
    <3>8. QED
      BY <2>1, <3>7, Sizes
  <2>2. QED
    BY <2>1
<1>9. QED
  BY <1>2, <1>4, <1>5, <1>6, <1>7, <1>8, StatementKeeps

(* Two bytes hold every position of the screen. *)
LEMMA TwoBytes ==
  ASSUME NEW p \in Nat, p < Size
  PROVE  p = (p % BYTE) + BYTE * ((p \div BYTE) % BYTE)
<1> DEFINE q == p \div BYTE
           k == p % BYTE
<1>1. BYTE \in Nat \ {0} /\ Size <= BYTE * BYTE
  BY Sizes
<1>2. q \in Nat /\ k \in 0 .. BYTE - 1 /\ p = q * BYTE + k
  BY <1>1, SMT
<1> HIDE DEF q, k
<1>3. q < BYTE
  <2>1. BYTE <= q => BYTE * BYTE <= q * BYTE
    BY <1>1, <1>2, TimesMonotone
  <2>2. QED
    BY <1>1, <1>2, <2>1, Sizes
<1>4. q % BYTE = q
  BY <1>1, <1>2, <1>3
<1>5. p = k + BYTE * q
  BY <1>1, <1>2
<1>6. QED
  BY <1>4, <1>5 DEF q, k

(* The writes of the cursor registers, and the move to the first position, *)
(* keep the invariant.                                                     *)
LEMMA RegisterStep ==
  ASSUME IInv, LowRegister \/ HighRegister \/ Home
  PROVE  IInv'
<1> USE DEF IInv
<1>1. /\ UNCHANGED <<tvga_vbuffer, tvga_curattr, row, todo, ctx, exceptions, calls>>
      /\ registers' \in [{"low", "high"} -> 0 .. BYTE - 1]
      /\ \/ /\ pc = "low" /\ pc' = "high" /\ cursor_pos' = cursor_pos
            /\ registers'.low = cursor_pos % BYTE
         \/ /\ pc = "high" /\ pc' = "idle" /\ cursor_pos' = cursor_pos
            /\ registers'.low = registers.low
            /\ registers'.high = (cursor_pos \div BYTE) % BYTE
         \/ /\ pc = "home" /\ pc' = "idle" /\ cursor_pos' = 0
  <2>1. cursor_pos \in Nat /\ BYTE \in Nat \ {0}
    BY Sizes DEF TypeOK
  <2>2. cursor_pos % BYTE \in 0 .. BYTE - 1 /\ cursor_pos \div BYTE \in Nat
    BY <2>1, SMT
  <2>3. (cursor_pos \div BYTE) % BYTE \in 0 .. BYTE - 1
    BY <2>1, <2>2
  <2>4. QED
    BY <2>2, <2>3 DEF LowRegister, HighRegister, Home, screen, control, TypeOK
<1>2. Statement
  BY DEF Statement
<1>3. TypeOK'
  BY <1>1 DEF TypeOK
<1>4. CursorInv'
  BY <1>1, Sizes DEF CursorInv, Size
<1>5. ForeignInv'
  BY <1>1 DEF ForeignInv, Memory, Size, Overrun
<1>6. RegisterInv'
  <2>1. CASE pc = "high" /\ todo = <<>>
    <3>1. cursor_pos \in Nat /\ cursor_pos < Size
      <4>1. CASE exceptions = 0
        BY <2>1, <4>1 DEF CursorInv, TypeOK
      <4>2. CASE exceptions > 0
        <5>1. Printed = All
          BY <2>1, SecondIs DEF Printed, TypeOK
        <5>2. PICK r \in 2 .. H : cursor_pos = r * W /\ r < H
          BY <2>1, <4>2, <5>1 DEF ReportInv, SecondInv, Under
        <5>3. r * W + 0 < Size
          BY <5>2, OnScreen, Sizes
        <5>4. QED
          BY <5>2, <5>3, Sizes, RowColumn DEF TypeOK
      <4>3. QED
        BY <4>1, <4>2 DEF TypeOK
    <3>2. QED
      BY <1>1, <2>1, <3>1, TwoBytes DEF RegisterInv, RegistersFollow
  <2>2. CASE pc # "high" \/ todo # <<>>
    BY <1>1, <2>2 DEF RegisterInv, RegistersFollow
  <2>3. QED
    BY <2>1, <2>2
<1>7. ReportInv'
  <2>1. CASE pc = "home"
    BY <1>1, <2>1 DEF CursorInv, ReportInv
  <2>2. CASE pc # "home"
    BY <1>1, <1>2, <2>2, ReportKept
  <2>3. QED
    BY <2>1, <2>2
<1>8. QED
  BY <1>2, <1>3, <1>4, <1>5, <1>6, <1>7, StatementKeeps

(* Every step keeps the invariant. *)
LEMMA StepInv == IInv /\ [Next]_vars => IInv'
<1>1. ASSUME IInv, UNCHANGED vars
      PROVE  IInv'
  <2>1. /\ UNCHANGED <<tvga_vbuffer, cursor_pos, tvga_curattr, registers, pc, row, todo, ctx>>
        /\ UNCHANGED <<exceptions, calls>>
    BY <1>1 DEF vars, screen, control
  <2>2. TypeOK' /\ CursorInv'
    BY <1>1, <2>1 DEF IInv, TypeOK, CursorInv, Size
  <2>3. /\ Printed' = Printed /\ Pending' = Pending /\ Overrun' = Overrun
        /\ Second' = Second /\ All' = All /\ Text' = Text
    BY <2>1 DEF Printed, Pending, Overrun, All, Second, Text
  <2>4. TodoInv'
    BY <1>1, <2>1, <2>3 DEF IInv, TodoInv
  <2>5. \A r : PrintsAt(r)' <=> PrintsAt(r)
    BY <2>1, <2>3 DEF PrintsAt, MessageAt, LineInRow, attr_entry
  <2>6. \A r, end, count : Under(r, end, count)' <=> Under(r, end, count)
    BY <2>1, <2>3 DEF Under, Place, LineInRow, attr_entry
  <2>7. SecondInv' <=> SecondInv
    BY <2>3, <2>6 DEF SecondInv
  <2>8. ReportInv'
    BY <1>1, <2>1, <2>3, <2>5, <2>7 DEF IInv, ReportInv
  <2>9. ForeignInv' /\ RegisterInv'
    BY <1>1, <2>1 DEF IInv, ForeignInv, RegisterInv, RegistersFollow, Memory, Size, Overrun
  <2>10. QED
    BY <2>2, <2>4, <2>8, <2>9 DEF IInv
<1>2. QED
  BY <1>1, CallStep, CheckStep, MoveRowStep, BlankStep, RetreatStep, RegisterStep,
     ExceptionStep, ReportStep DEF Next, Statement

-----------------------------------------------------------------------------
(* The properties.                                                         *)

(* Every variable keeps its type. *)
THEOREM TypeCorrect == Spec => []TypeOK
<1>1. IInv => TypeOK
  BY DEF IInv
<1>2. QED
  BY <1>1, InitInv, StepInv, PTL DEF Spec

(* Without an exception nothing behind the screen is written, and an       *)
(* exception writes at most one row further than the one before.           *)
THEOREM Bounded == Spec => []OverrunBounded
<1>1. IInv => OverrunBounded
  <2> SUFFICES ASSUME IInv PROVE OverrunBounded
    OBVIOUS
  <2>1. pc = "idle" /\ exceptions = 0 => cursor_pos < Size
    BY DEF IInv, CursorInv
  <2>2. pc = "idle" /\ exceptions > 0 => cursor_pos <= Overrun
    BY CursorBelow, Sizes DEF Pending, Overrun, IInv, TypeOK
  <2>3. exceptions \in Nat
    BY Sizes DEF IInv, TypeOK
  <2>4. QED
    BY <2>1, <2>2, <2>3 DEF OverrunBounded, IInv, ForeignInv
<1>2. QED
  BY <1>1, InitInv, StepInv, PTL DEF Spec

(* When the processor halts both lines of the last exception are on the    *)
(* screen, but for the characters of the first one that went behind it.    *)
THEOREM Shown == Spec => []MessageShown
<1>1. IInv => MessageShown
  <2> SUFFICES ASSUME IInv, exceptions > 0, todo = <<>>, pc = "idle"
               PROVE  LET r == cursor_pos \div W
                      IN  /\ r >= 2
                          /\ LineInRow(FirstLine, r - 2, exceptions + 1, Len(FirstLine))
                          /\ LineInRow(Second, r - 1, 1, Len(Second))
    BY DEF MessageShown, Second
  <2>1. Printed = All
    BY SecondIs DEF Printed, IInv, TypeOK
  <2>2. PICK r \in 2 .. H : Under(r, 1, Len(Second))
    BY <2>1 DEF IInv, ReportInv, SecondInv
  <2>3. Len(Second) \in 0 .. W - 1 /\ r \in 1 .. H
    BY SecondIs, Sizes DEF IInv, TypeOK
  <2>4. cursor_pos \div W = r
    BY <2>2, <2>3, UnderColumn
  <2>5. Place(r - 1 - 1) = r - 2 /\ Place(r - 1) = r - 1
    BY DEF Place
  <2>6. QED
    BY <2>2, <2>4, <2>5 DEF Under
<1>2. QED
  BY <1>1, InitInv, StepInv, PTL DEF Spec

(* Between two calls the visible cursor is where the next character goes.  *)
THEOREM CursorVisible == Spec => []RegistersFollow
<1>1. IInv => RegistersFollow
  BY DEF IInv, RegisterInv
<1>2. QED
  BY <1>1, InitInv, StepInv, PTL DEF Spec

-----------------------------------------------------------------------------
(* The console implements the terminal.                                    *)

(* What a terminal shows of a buffer; and once the rows have moved up.     *)
View(buffer) == [p \in (0 .. H - 1) \X (0 .. W - 1) |-> buffer[p[1] * W + p[2]]]

UpView(buffer) ==
  [p \in (0 .. H - 1) \X (0 .. W - 1) |->
     IF p[1] + 1 < H THEN buffer[(p[1] + 1) * W + p[2]] ELSE attr_entry(SPACE)]

FinalScreen == [p \in (0 .. H - 1) \X (0 .. W - 1) |-> FinalCell(p[1], p[2])]

(* Where nothing is to scroll the screen is what the buffer holds.         *)
LEMMA FinalView ==
  /\ ~ Scrolls => FinalScreen = View(tvga_vbuffer)
  /\ pc = "check" /\ Full => FinalScreen = UpView(tvga_vbuffer)
<1>1. ~ Scrolls => \A r, c : FinalCell(r, c) = tvga_vbuffer[r * W + c]
  BY DEF FinalCell
<1>2. ASSUME pc = "check", Full, NEW r \in 0 .. H - 1, NEW c
      PROVE  FinalCell(r, c) = IF r + 1 < H THEN tvga_vbuffer[(r + 1) * W + c]
                               ELSE attr_entry(SPACE)
  BY <1>2, Sizes, SMTT(30) DEF FinalCell, Scrolls, Ahead
<1>3. QED
  BY <1>1, <1>2 DEF FinalScreen, View, UpView

(* The same after a step. *)
LEMMA FinalViewNext ==
  /\ ~ Scrolls' => FinalScreen' = View(tvga_vbuffer')
  /\ pc' = "check" /\ Full' => FinalScreen' = UpView(tvga_vbuffer)'
<1>1. (/\ ~ Scrolls => FinalScreen = View(tvga_vbuffer)
       /\ pc = "check" /\ Full => FinalScreen = UpView(tvga_vbuffer))'
  BY FinalView, PTL
<1>2. QED
  BY <1>1 DEF View

(* Where the cursor is once the screen has scrolled, and what it shows.    *)
LEMMA Landing ==
  ASSUME pc' = "check", NEW q \in 0 .. H, NEW k \in 0 .. W - 1,
         cursor_pos' = q * W + k, q < H \/ k = 0
  PROVE  /\ q < H => /\ FinalCursor' \div W = q /\ FinalCursor' % W = k
                     /\ FinalScreen' = View(tvga_vbuffer')
         /\ q = H => /\ FinalCursor' \div W = H - 1 /\ FinalCursor' % W = 0
                     /\ FinalScreen' = UpView(tvga_vbuffer)'
<1>1. Full' <=> q = H
  BY OnScreen, Sizes DEF Full, Size
<1>2. Scrolls' <=> Full'
  BY DEF Scrolls
<1>3. CASE q < H
  <2>1. FinalCursor' = q * W + k
    BY <1>1, <1>2, <1>3 DEF FinalCursor
  <2>2. (q * W + k) \div W = q /\ (q * W + k) % W = k
    <3>1. q \in Int
      OBVIOUS
    <3>2. QED
      BY <3>1, RowColumn
  <2>3. FinalScreen' = View(tvga_vbuffer')
    BY <1>1, <1>2, <1>3, FinalViewNext, Sizes
  <2>4. QED
    BY <1>3, <2>1, <2>2, <2>3, Sizes
<1>4. CASE q = H
  <2>1. FinalCursor' = cursor_pos' - W
    BY <1>1, <1>2, <1>4 DEF FinalCursor
  <2>2. PICK r \in Nat : r = H - 1
    BY Sizes
  <2>3. FinalCursor' = r * W + 0
    <3>1. cursor_pos' = H * W + 0 /\ H * W = Size /\ r * W = Size - W
      BY <1>4, <2>2, Sizes
    <3>2. QED
      BY <2>1, <3>1, Sizes
  <2>4. FinalCursor' \div W = r /\ FinalCursor' % W = 0
    BY <2>3, RowColumn, Sizes, SMTT(30)
  <2>5. QED
    BY <1>1, <1>4, <2>2, <2>4, FinalViewNext
<1>5. QED
  BY <1>3, <1>4

(* What the kernel is told of the cursor between two calls. *)
LEMMA IdleCursor ==
  ASSUME IInv, exceptions = 0, pc = "idle"
  PROVE  \E r \in 0 .. H - 1, k \in 0 .. W - 1 :
            /\ cursor_pos = r * W + k
            /\ FinalCursor \div W = r /\ FinalCursor % W = k
            /\ cursor_pos \div W = r /\ cursor_pos % W = k
            /\ FinalScreen = View(tvga_vbuffer)
<1>1. cursor_pos \in Nat /\ cursor_pos < Size
  BY DEF IInv, TypeOK, CursorInv
<1>2. PICK r \in Nat, k \in 0 .. W - 1 :
        cursor_pos = r * W + k /\ r = cursor_pos \div W /\ k = cursor_pos % W
  BY <1>1, RowOf
<1>3. r < H
  BY <1>1, <1>2, OnScreen
<1>4. FinalCursor = cursor_pos /\ ~ Scrolls
  BY DEF FinalCursor, Scrolls
<1>5. FinalScreen = View(tvga_vbuffer) /\ r \in 0 .. H - 1
  BY <1>3, <1>4, FinalView, Sizes
<1>6. FinalCursor \div W = r /\ FinalCursor % W = k
  BY <1>2, <1>4
<1>7. QED
  BY <1>2, <1>5, <1>6

(* A move to the first column of the next row feeds the terminal's line.   *)
LEMMA FeedStep ==
  ASSUME IInv, exceptions = 0, pc = "idle", pc' = "check", tvga_curattr' = tvga_curattr,
         cursor_pos' = (cursor_pos \div W + 1) * W
  PROVE  Abstract!Feed(View(tvga_vbuffer'))
<1>1. PICK r \in 0 .. H - 1, k \in 0 .. W - 1 :
        /\ FinalCursor \div W = r
        /\ cursor_pos \div W = r
  BY IdleCursor
<1>2. PICK q \in 1 .. H : q = r + 1
  BY Sizes
<1>3. cursor_pos' = q * W + 0 /\ 0 \in 0 .. W - 1 /\ q \in 0 .. H
  BY <1>1, <1>2, Sizes, RowColumn
<1>4. /\ q < H => /\ FinalCursor' \div W = q /\ FinalCursor' % W = 0
                  /\ FinalScreen' = View(tvga_vbuffer')
      /\ q = H => /\ FinalCursor' \div W = H - 1 /\ FinalCursor' % W = 0
                  /\ FinalScreen' = UpView(tvga_vbuffer)'
  BY <1>3, Landing
<1>5. CASE q < H
  BY <1>1, <1>2, <1>4, <1>5, Sizes DEF Abstract!Feed, FinalScreen
<1>6. CASE q = H
  <2>1. UpView(tvga_vbuffer)' =
          [p \in (0 .. H - 1) \X (0 .. W - 1) |->
             IF p[1] + 1 < H THEN View(tvga_vbuffer')[<<p[1] + 1, p[2]>>]
             ELSE [char |-> SPACE, attr |-> tvga_curattr]]
    <3>1. ASSUME NEW p \in (0 .. H - 1) \X (0 .. W - 1), p[1] + 1 < H
          PROVE  View(tvga_vbuffer')[<<p[1] + 1, p[2]>>] = tvga_vbuffer'[(p[1] + 1) * W + p[2]]
      <4>1. <<p[1] + 1, p[2]>> \in (0 .. H - 1) \X (0 .. W - 1)
        BY <3>1, Sizes
      <4>2. QED
        BY <4>1 DEF View
    <3>2. QED
      BY <3>1 DEF UpView, attr_entry
  <2>2. QED
    BY <1>1, <1>2, <1>4, <1>6, <2>1, Sizes, SMTT(30)
       DEF Abstract!Feed, Abstract!Blank, Abstract!Cells, Abstract!Rows, Abstract!Columns,
           FinalScreen
<1>7. QED
  BY <1>5, <1>6, Sizes

(* The tab stops of a row are those of the screen, and a row ends with one. *)
LEMMA TabInRow ==
  ASSUME NEW r \in Nat, NEW k \in 0 .. W - 1
  PROVE  /\ (r * W + k) % TABSPACES = k % TABSPACES
         /\ k - (k % TABSPACES) + TABSPACES \in 1 .. W
<1> DEFINE T == TABSPACES
           w == W \div T
           q == k \div T
           m == k % T
<1>1. T \in Nat \ {0} /\ W \in Nat \ {0} /\ W % T = 0
  BY ConsoleAssumption
<1>2. q \in Nat /\ k = q * T + m /\ m \in 0 .. T - 1
  BY <1>1, SMT
<1>3. w \in Nat /\ W = w * T
  BY <1>1, SMT
<1> HIDE DEF T, w, q, m
<1>4. PICK n \in Nat : n = r * w + q
  BY <1>2, <1>3
<1>5. r * W + k = n * T + m
  <2>1. r * (w * T) = (r * w) * T /\ (r * w + q) * T = (r * w) * T + q * T
    BY <1>1, <1>2, <1>3
  <2>2. (r * w) * T \in Int /\ q * T \in Int
    BY <1>1, <1>2, <1>3
  <2>3. QED
    BY <1>1, <1>2, <1>3, <1>4, <2>1, <2>2
<1>6. (n * T + m) % T = m
  <2>0. PICK p \in Nat : p = n * T + m
    <3>1. n * T \in Nat
      BY <1>1, <1>4
    <3>2. QED
      BY <1>1, <1>2, <3>1
  <2> DEFINE d == p \div T
  <2>1. d \in Int /\ p = d * T + (p % T) /\ p % T \in 0 .. T - 1
    BY <1>1, SMT
  <2> HIDE DEF d
  <2>2. ~ (d < n)
    BY <1>1, <1>2, <1>4, <2>0, <2>1, TimesStrict
  <2>3. ~ (n < d)
    BY <1>1, <1>2, <1>4, <2>0, <2>1, TimesStrict
  <2>4. d = n /\ n * T \in Int
    BY <1>1, <1>4, <2>1, <2>2, <2>3
  <2>5. QED
    BY <1>2, <2>0, <2>1, <2>4
<1>7. q < w
  <2>1. w <= q => w * T <= q * T
    BY <1>1, <1>2, <1>3, TimesMonotone
  <2>2. w * T \in Int /\ q * T \in Int
    BY <1>1, <1>2, <1>3
  <2>3. QED
    BY <1>1, <1>2, <1>3, <2>1, <2>2
<1>8. q * T + T <= W
  BY <1>1, <1>2, <1>3, <1>7, TimesStrict
<1>9. k - m + T \in 1 .. W
  BY <1>1, <1>2, <1>8
<1>10. QED
  BY <1>5, <1>6, <1>9 DEF T, m

(* Each call of tvga_putch does what the terminal does with the character. *)
LEMMA PutchRefines ==
  ASSUME IInv, NEW char \in Chars \union {LF, CR, TAB, BS}, tvga_putch(char)
  PROVE  \/ char \in Chars /\ Abstract!Show(char)
         \/ Abstract!LineFeed
         \/ Abstract!CarriageReturn
         \/ Abstract!Tab
         \/ Abstract!Backspace
<1>1. /\ exceptions = 0 /\ pc = "idle" /\ pc' = "check" /\ tvga_curattr' = tvga_curattr
      /\ cursor_pos' = Moved(char)
      /\ tvga_vbuffer' = IF char \in Chars
                         THEN [tvga_vbuffer EXCEPT ![cursor_pos] = attr_entry(char)]
                         ELSE tvga_vbuffer
  BY DEF tvga_putch, Call, Switch
<1>2. PICK r \in 0 .. H - 1, k \in 0 .. W - 1 :
        /\ cursor_pos = r * W + k
        /\ FinalCursor \div W = r /\ FinalCursor % W = k
        /\ cursor_pos \div W = r /\ cursor_pos % W = k
        /\ FinalScreen = View(tvga_vbuffer)
  BY <1>1, IdleCursor
<1>3. /\ r \in Nat /\ r * W \in Nat /\ r \in 0 .. H /\ r < H
      /\ (r + 1) * W = r * W + W /\ (r - 1) * W = r * W - W
      /\ r > 0 => r - 1 \in 0 .. H /\ r - 1 < H
  BY Sizes, RowColumn
<1>4. ASSUME NEW q \in 0 .. H, q < H, NEW j \in 0 .. W - 1, cursor_pos' = q * W + j
      PROVE  /\ FinalCursor' \div W = q /\ FinalCursor' % W = j
             /\ FinalScreen' = View(tvga_vbuffer')
  BY <1>1, <1>4, Landing
<1>5. CASE char \in Chars
  <2>1. cursor_pos' = cursor_pos + 1
    BY <1>1, <1>5, ConsoleAssumption DEF Moved
  <2>2. [FinalScreen EXCEPT ![<<r, k>>] = [char |-> char, attr |-> tvga_curattr]]
          = View(tvga_vbuffer')
    <3>1. cursor_pos \in Memory /\ tvga_vbuffer \in [Memory -> Cell]
      BY <1>1, Sizes, OverrunInMemory DEF IInv, TypeOK, CursorInv
    <3>2. ASSUME NEW p \in (0 .. H - 1) \X (0 .. W - 1)
          PROVE  /\ p = <<r, k>> <=> p[1] * W + p[2] = cursor_pos
                 /\ p[1] * W + p[2] \in Memory
      <4>1. PICK a \in 0 .. H - 1, b \in 0 .. W - 1 : p = <<a, b>>
        BY <3>2
      <4>2. a * W + b < Size /\ a * W + b \in Nat
        <5>1. a \in Nat /\ a < H
          BY Sizes
        <5>2. a * W + b < Size
          BY <5>1, OnScreen
        <5>3. a * W \in Nat
          BY <5>1, Sizes
        <5>4. QED
          BY <5>2, <5>3, Sizes
      <4>3. 0 .. Size - 1 \subseteq Memory
        BY OverrunInMemory, Sizes DEF IInv, TypeOK
      <4>4. (a * W + b) \div W = a /\ (a * W + b) % W = b
        BY RowColumn
      <4>5. p[1] * W + p[2] = a * W + b /\ (p = <<r, k>> <=> a = r /\ b = k)
        BY <4>1
      <4>6. a * W + b \in Memory
        <5>1. a * W + b \in 0 .. Size - 1
          BY <4>2, Sizes
        <5>2. QED
          BY <4>3, <5>1
      <4>7. a * W + b = cursor_pos <=> a = r /\ b = k
        <5>1. a * W + b = cursor_pos => a = r /\ b = k
          BY <1>2, <4>4
        <5>2. a = r /\ b = k => a * W + b = cursor_pos
          BY <1>2
        <5>3. QED
          BY <5>1, <5>2
      <4>8. QED
        BY <4>5, <4>6, <4>7
    <3>3. ASSUME NEW p \in (0 .. H - 1) \X (0 .. W - 1)
          PROVE  tvga_vbuffer'[p[1] * W + p[2]] =
                   IF p = <<r, k>> THEN [char |-> char, attr |-> tvga_curattr]
                   ELSE tvga_vbuffer[p[1] * W + p[2]]
      BY <1>1, <1>5, <3>1, <3>2 DEF attr_entry
    <3>4. QED
      BY <1>2, <3>3 DEF View
  <2>3. CASE k + 1 < W
    <3>1. k + 1 \in 0 .. W - 1 /\ cursor_pos' = r * W + (k + 1)
      BY <1>2, <1>3, <2>1, <2>3, Sizes
    <3>2. /\ FinalCursor' \div W = r /\ FinalCursor' % W = k + 1
          /\ FinalScreen' = View(tvga_vbuffer')
      BY <1>3, <1>4, <3>1
    <3>3. FinalScreen' = [FinalScreen EXCEPT ![<<FinalCursor \div W, FinalCursor % W>>] =
                            [char |-> char, attr |-> tvga_curattr]]
      BY <1>2, <2>2, <3>2
    <3>4. Abstract!Show(char)
      BY <1>1, <1>2, <2>3, <3>2, <3>3 DEF Abstract!Show, FinalScreen
    <3>5. QED
      BY <1>5, <3>4
  <2>4. CASE k + 1 = W
    <3>1. cursor_pos' = (cursor_pos \div W + 1) * W
      BY <1>2, <1>3, <2>1, <2>4, Sizes
    <3>2. Abstract!Feed(View(tvga_vbuffer'))
      BY <1>1, <3>1, FeedStep
    <3>3. QED
      BY <1>1, <1>2, <1>5, <2>2, <2>4, <3>2 DEF Abstract!Show, FinalScreen
  <2>5. QED
    BY <2>3, <2>4, Sizes
<1>6. CASE char \notin Chars
  <2>1. View(tvga_vbuffer') = FinalScreen
    BY <1>1, <1>2, <1>6
  <2>2. CASE char = LF
    <3>1. cursor_pos' = (cursor_pos \div W + 1) * W
      BY <1>1, <2>2 DEF Moved, tvga_linefeed, LF, CR, TAB, BS
    <3>2. Abstract!Feed(FinalScreen)
      BY <1>1, <2>1, <3>1, FeedStep
    <3>3. QED
      BY <1>1, <3>2 DEF Abstract!LineFeed, FinalScreen
  <2>3. CASE char = CR
    <3>1. cursor_pos' = r * W + 0 /\ 0 \in 0 .. W - 1
      <4>1. cursor_pos' = tvga_carriagereturn
        BY <1>1, <2>3 DEF Moved, LF, CR, TAB, BS
      <4>2. cursor_pos - k = r * W + 0
        BY <1>2, <1>3, Sizes
      <4>3. QED
        BY <1>2, <4>1, <4>2, Sizes DEF tvga_carriagereturn
    <3>2. QED
      BY <1>1, <1>2, <1>3, <1>4, <2>1, <3>1 DEF Abstract!CarriageReturn, FinalScreen
  <2>4. CASE char = TAB
    <3>1. PICK m \in Int : m = k % TABSPACES
      BY Sizes
    <3>2. PICK stop \in 1 .. W : stop = k - m + TABSPACES
      BY <1>3, <3>1, TabInRow
    <3>3. cursor_pos' = r * W + stop
      <4>1. cursor_pos' = tvga_tab
        BY <1>1, <2>4 DEF Moved, LF, CR, TAB, BS
      <4>2. cursor_pos % TABSPACES = m
        BY <1>2, <1>3, <3>1, TabInRow
      <4>3. cursor_pos - m + TABSPACES = r * W + stop
        <5>1. PICK v \in Nat : v = r * W
          BY <1>3
        <5>2. cursor_pos = v + k /\ stop = k - m + TABSPACES /\ k \in Int /\ TABSPACES \in Nat
          BY <1>2, <3>2, <5>1, Sizes
        <5>3. QED
          BY <3>1, <5>1, <5>2
      <4>4. QED
        BY <4>1, <4>2, <4>3 DEF tvga_tab
    <3>4. CASE stop < W
      <4>1. /\ FinalCursor' \div W = r /\ FinalCursor' % W = stop
            /\ FinalScreen' = View(tvga_vbuffer')
        <5>1. stop \in 0 .. W - 1
          BY <3>4, Sizes
        <5>2. QED
          BY <1>3, <1>4, <3>3, <5>1
      <4>2. Abstract!Tab
        BY <1>1, <1>2, <2>1, <3>1, <3>2, <3>4, <4>1 DEF Abstract!Tab, FinalScreen
      <4>3. QED
        BY <4>2
    <3>5. CASE stop = W
      <4>1. cursor_pos' = (cursor_pos \div W + 1) * W
        BY <1>2, <1>3, <3>3, <3>5, Sizes
      <4>2. Abstract!Feed(FinalScreen)
        BY <1>1, <2>1, <4>1, FeedStep
      <4>3. Abstract!Tab
        BY <1>1, <1>2, <3>1, <3>2, <3>5, <4>2, Sizes DEF Abstract!Tab, FinalScreen
      <4>4. QED
        BY <4>3
    <3>6. QED
      BY <3>4, <3>5, Sizes
  <2>5. CASE char = BS
    <3>1. cursor_pos' = IF cursor_pos > 0 THEN cursor_pos - 1 ELSE cursor_pos
      BY <1>1, <2>5 DEF Moved, tvga_backspace, LF, CR, TAB, BS
    <3>2. CASE k > 0
      <4>1. cursor_pos' = r * W + (k - 1) /\ k - 1 \in 0 .. W - 1
        BY <1>2, <1>3, <3>1, <3>2, Sizes
      <4>2. QED
        BY <1>1, <1>2, <1>3, <1>4, <2>1, <3>2, <4>1 DEF Abstract!Backspace, FinalScreen
    <3>3. CASE k = 0 /\ r > 0
      <4>1. W <= r * W
        BY <1>3, <3>3, Sizes, RowsApart
      <4>2. PICK q \in 0 .. H : q = r - 1
        BY <1>3, <3>3
      <4>3. cursor_pos' = q * W + (W - 1) /\ W - 1 \in 0 .. W - 1 /\ q < H
        BY <1>2, <1>3, <3>1, <3>3, <4>1, <4>2, Sizes
      <4>4. QED
        BY <1>1, <1>2, <1>4, <2>1, <3>3, <4>2, <4>3 DEF Abstract!Backspace, FinalScreen
    <3>4. CASE k = 0 /\ r = 0
      <4>1. cursor_pos' = 0 * W + 0 /\ 0 \in 0 .. H /\ 0 < H /\ 0 \in 0 .. W - 1
        BY <1>2, <1>3, <3>1, <3>4, Sizes
      <4>2. QED
        BY <1>1, <1>2, <1>4, <2>1, <3>4, <4>1 DEF Abstract!Backspace, FinalScreen
    <3>5. QED
      BY <1>3, <3>2, <3>3, <3>4
  <2>6. QED
    BY <1>6, <2>2, <2>3, <2>4, <2>5
<1>7. QED
  BY <1>5, <1>6

(* The other calls do what the terminal does.                              *)
LEMMA CallRefines ==
  ASSUME IInv,
         \/ \E position \in 0 .. Size : SetCursor(position)
         \/ \E color \in Colors : SetColor(color)
         \/ Clear
  PROVE  \/ Abstract!Place \/ Abstract!Paint \/ Abstract!Clear
         \/ UNCHANGED Abstract!vars
<1>1. /\ exceptions = 0 /\ pc = "idle" /\ exceptions' = exceptions /\ row' = row
  BY DEF SetCursor, SetColor, Clear, Call
<1>2. PICK r \in 0 .. H - 1, k \in 0 .. W - 1 :
        /\ cursor_pos = r * W + k
        /\ FinalCursor \div W = r /\ FinalCursor % W = k
        /\ FinalScreen = View(tvga_vbuffer)
  BY <1>1, IdleCursor
<1>3. ~ Scrolls' => FinalScreen' = View(tvga_vbuffer')
  BY FinalViewNext
<1>4. ASSUME NEW position \in 0 .. Size, SetCursor(position)
      PROVE  Abstract!Place \/ UNCHANGED Abstract!vars
  <2>1. CASE position >= Size
    <3>1. UNCHANGED <<tvga_vbuffer, cursor_pos, tvga_curattr, pc, row, exceptions>>
      BY <1>1, <1>4, <2>1 DEF SetCursor, screen
    <3>2. UNCHANGED <<FinalScreen, FinalCursor>>
      BY <3>1 DEF FinalScreen, FinalCell, FinalCursor, Scrolls, Full, Ahead, attr_entry, Size
    <3>3. QED
      BY <3>1, <3>2 DEF Abstract!vars, FinalScreen
  <2>2. CASE position < Size
    <3>1. /\ UNCHANGED <<tvga_vbuffer, tvga_curattr>> /\ cursor_pos' = position /\ pc' = "low"
      BY <1>4, <2>2, Sizes DEF SetCursor
    <3>2. PICK s \in Nat, j \in 0 .. W - 1 :
            position = s * W + j /\ s = position \div W /\ j = position % W
      BY RowOf
    <3>3. s < H
      BY <2>2, <3>2, OnScreen
    <3>4. FinalCursor' = position /\ ~ Scrolls'
      BY <3>1 DEF FinalCursor, Scrolls
    <3>5. FinalScreen' = FinalScreen
      BY <1>2, <1>3, <3>1, <3>4
    <3>6. FinalCursor' \div W \in 0 .. H - 1 /\ FinalCursor' % W \in 0 .. W - 1
      <4>1. FinalCursor' \div W = s /\ FinalCursor' % W = j
        BY <3>2, <3>4
      <4>2. QED
        <5>1. s \in 0 .. H - 1 /\ j \in 0 .. W - 1
          BY <3>3, Sizes
        <5>2. QED
          BY <4>1, <5>1
    <3>7. Abstract!Place
      BY <3>1, <3>5, <3>6 DEF Abstract!Place, Abstract!Rows, Abstract!Columns, FinalScreen
    <3>8. QED
      BY <3>7
  <2>3. QED
    BY <2>1, <2>2, Sizes
<1>5. ASSUME NEW color \in Colors, SetColor(color)
      PROVE  Abstract!Paint
  <2>1. UNCHANGED <<tvga_vbuffer, cursor_pos, pc>> /\ tvga_curattr' = color
    BY <1>5 DEF SetColor
  <2>2. FinalCursor' = FinalCursor /\ ~ Scrolls'
    BY <1>1, <2>1 DEF FinalCursor, Scrolls
  <2>3. FinalScreen' = FinalScreen
    BY <1>2, <1>3, <2>1, <2>2
  <2>4. QED
    BY <2>1, <2>2, <2>3 DEF Abstract!Paint, FinalScreen
<1>6. ASSUME Clear
      PROVE  Abstract!Clear
  <2>1. /\ UNCHANGED <<cursor_pos, tvga_curattr>> /\ pc' = "home"
        /\ tvga_vbuffer' = Blanked(0, Size)
    BY <1>6 DEF Clear
  <2>2. FinalCursor' = 0 /\ ~ Scrolls'
    BY <2>1 DEF FinalCursor, Scrolls
  <2>3. ASSUME NEW p \in (0 .. H - 1) \X (0 .. W - 1)
        PROVE  tvga_vbuffer'[p[1] * W + p[2]] = attr_entry(SPACE)
    <3>1. PICK a \in Nat, b \in 0 .. W - 1 : p = <<a, b>> /\ a < H
      BY Sizes
    <3>2. a * W + b < Size
      BY <3>1, OnScreen
    <3>3. a * W + b \in 0 .. 0 + Size - 1
      <4>1. a * W \in Nat
        BY <3>1, Sizes
      <4>2. QED
        BY <3>2, <4>1, Sizes
    <3>4. a * W + b \in Memory
      BY <3>3, OverrunInMemory, Sizes DEF IInv, TypeOK
    <3>5. QED
      BY <2>1, <3>1, <3>3, <3>4 DEF Blanked
  <2>4. FinalScreen' = [p \in (0 .. H - 1) \X (0 .. W - 1) |-> attr_entry(SPACE)]
    BY <1>3, <2>2, <2>3 DEF View
  <2>5. 0 \div W = 0 /\ 0 % W = 0
    BY Sizes
  <2>6. QED
    BY <2>1, <2>2, <2>4, <2>5 DEF Abstract!Clear, Abstract!Empty, Abstract!Cells, Abstract!Rows,
       Abstract!Columns, Abstract!Blank, FinalScreen, attr_entry
<1>7. QED
  BY <1>4, <1>5, <1>6

(* The statements behind the switch finish what the terminal has shown     *)
(* already.                                                                *)
LEMMA StatementRefines ==
  ASSUME IInv, Statement
  PROVE  UNCHANGED Abstract!vars
<1>1. UNCHANGED <<exceptions, tvga_curattr>>
  BY StatementKeeps
<1> SUFFICES /\ FinalCursor' = FinalCursor
             /\ \A r \in 0 .. H - 1, c \in 0 .. W - 1 : FinalCell(r, c)' = FinalCell(r, c)
  BY <1>1 DEF Abstract!vars
<1>2. CASE Check
  <2>1. /\ UNCHANGED <<tvga_vbuffer, cursor_pos, tvga_curattr>>
        /\ pc = "check" /\ pc' = (IF Full THEN "scroll" ELSE "low") /\ row' = 0
    BY <1>2 DEF Check, screen
  <2>2. Scrolls' = Scrolls
    BY <2>1 DEF Scrolls, Full, Size
  <2>3. Scrolls => Ahead' = 0 /\ Ahead = 0
    BY <2>1 DEF Scrolls, Ahead
  <2>4. FinalCursor' = FinalCursor
    BY <2>1, <2>2 DEF FinalCursor
  <2>5. QED
    BY <2>1, <2>2, <2>3, <2>4 DEF FinalCell, attr_entry
<1>3. CASE MoveRow
  <2>1. /\ UNCHANGED <<cursor_pos, tvga_curattr, pc>>
        /\ pc = "scroll" /\ row' = row + 1 /\ row \in 0 .. H - 2
    BY <1>3, Sizes DEF MoveRow, IInv, TypeOK
  <2>2. Scrolls /\ Scrolls' /\ Ahead = row /\ Ahead' = row + 1
    BY <2>1 DEF Scrolls, Ahead
  <2>3. FinalCursor' = FinalCursor
    BY <2>1, <2>2 DEF FinalCursor
  <2>4. ASSUME NEW r \in 0 .. H - 1, NEW c \in 0 .. W - 1
        PROVE  /\ r = row => tvga_vbuffer'[r * W + c] = tvga_vbuffer[(r + 1) * W + c]
               /\ r # row => tvga_vbuffer'[r * W + c] = tvga_vbuffer[r * W + c]
    <3>1. r \in Nat /\ r < H
      BY Sizes
    <3>2. (r * W + c) \div W = r
      BY <3>1, RowColumn
    <3>3. r * W \in Nat /\ (r + 1) * W = r * W + W
      BY <3>1, Sizes
    <3>4. r * W + c \in Memory
      <4>1. r * W + c < Size
        BY <3>1, OnScreen
      <4>2. r * W + c \in 0 .. Size - 1
        BY <3>3, <4>1, Sizes
      <4>3. QED
        BY <4>2, OverrunInMemory, Sizes DEF IInv, TypeOK
    <3>5. r * W + c + W = (r + 1) * W + c
      BY <3>3, Sizes
    <3>6. tvga_vbuffer' = [p \in Memory |->
            IF p \div W = row THEN tvga_vbuffer[p + W] ELSE tvga_vbuffer[p]]
      BY <1>3 DEF MoveRow
    <3>7. QED
      BY <3>2, <3>4, <3>5, <3>6
  <2>5. ASSUME NEW r \in 0 .. H - 1, NEW c \in 0 .. W - 1
        PROVE  FinalCell(r, c)' = FinalCell(r, c)
    <3>1. CASE r < row
      <4>1. tvga_vbuffer'[r * W + c] = tvga_vbuffer[r * W + c]
        BY <2>1, <2>4, <3>1, Sizes, SMTT(30)
      <4>2. r < row + 1
        BY <2>1, <3>1, Sizes
      <4>3. QED
        BY <2>2, <3>1, <4>1, <4>2 DEF FinalCell
    <3>2. CASE r = row
      <4>1. tvga_vbuffer'[r * W + c] = tvga_vbuffer[(r + 1) * W + c]
        BY <2>4, <3>2
      <4>2. r < row + 1 /\ ~ (r < row) /\ r < H - 1
        BY <2>1, <3>2, Sizes
      <4>3. QED
        BY <2>2, <4>1, <4>2 DEF FinalCell
    <3>3. CASE r > row /\ r < H - 1
      <4>1. r + 1 \in 0 .. H - 1 /\ r + 1 # row
        BY <2>1, <3>3, Sizes
      <4>2. tvga_vbuffer'[(r + 1) * W + c] = tvga_vbuffer[(r + 1) * W + c]
        BY <2>4, <4>1
      <4>3. QED
        BY <2>1, <2>2, <3>3, <4>2, Sizes DEF FinalCell
    <3>4. CASE r = H - 1
      BY <2>1, <2>2, <3>4, Sizes DEF FinalCell, attr_entry
    <3>5. QED
      BY <2>1, <3>1, <3>2, <3>3, <3>4, Sizes
  <2>6. QED
    BY <2>3, <2>5
<1>4. CASE BlankLastRow
  <2>1. /\ UNCHANGED <<cursor_pos, tvga_curattr>>
        /\ pc = "scroll" /\ pc' = "retreat" /\ row = H - 1
        /\ tvga_vbuffer' = Blanked((H - 1) * W, W)
    BY <1>4 DEF BlankLastRow, control
  <2>2. Scrolls /\ Scrolls' /\ Ahead = H - 1 /\ Ahead' = H
    BY <2>1 DEF Scrolls, Ahead
  <2>3. FinalCursor' = FinalCursor
    BY <2>1, <2>2 DEF FinalCursor
  <2>4. ASSUME NEW r \in 0 .. H - 1, NEW c \in 0 .. W - 1
        PROVE  FinalCell(r, c)' = FinalCell(r, c)
    <3>1. r \in Nat /\ r < H /\ r * W \in Nat /\ r * W + c < Size
      BY OnScreen, Sizes
    <3>2. r * W + c \in Memory
      BY <3>1, OverrunInMemory, Sizes DEF IInv, TypeOK
    <3>3. FinalCell(r, c)' = tvga_vbuffer'[r * W + c]
      BY <2>2, <3>1 DEF FinalCell
    <3>4. CASE r < H - 1
      <4>1. r * W + W <= (H - 1) * W /\ (H - 1) * W \in Int
        BY <3>1, <3>4, RowsApart, Sizes
      <4>2. r * W + c \notin (H - 1) * W .. (H - 1) * W + W - 1
        BY <3>1, <4>1, Sizes
      <4>3. tvga_vbuffer'[r * W + c] = tvga_vbuffer[r * W + c]
        BY <2>1, <3>2, <4>2 DEF Blanked
      <4>4. QED
        BY <2>2, <3>3, <3>4, <4>3 DEF FinalCell
    <3>5. CASE r = H - 1
      <4>1. r * W + c \in (H - 1) * W .. (H - 1) * W + W - 1
        BY <3>1, <3>5, Sizes
      <4>2. tvga_vbuffer'[r * W + c] = attr_entry(SPACE)
        BY <2>1, <3>2, <4>1 DEF Blanked
      <4>3. QED
        BY <2>2, <3>3, <3>5, <4>2, Sizes DEF FinalCell
    <3>6. QED
      BY <3>4, <3>5, Sizes
  <2>5. QED
    BY <2>3, <2>4
<1>5. CASE Retreat
  <2>1. /\ UNCHANGED tvga_vbuffer
        /\ pc = "retreat" /\ pc' = "low" /\ cursor_pos' = cursor_pos - W
    BY <1>5 DEF Retreat
  <2>2. Scrolls /\ ~ Scrolls' /\ Ahead = H
    BY <2>1 DEF Scrolls, Ahead
  <2>3. FinalCursor' = FinalCursor
    BY <2>1, <2>2 DEF FinalCursor
  <2>4. QED
    BY <2>1, <2>2, <2>3, Sizes DEF FinalCell
<1>6. CASE LowRegister \/ HighRegister \/ Home
  <2>1. /\ UNCHANGED tvga_vbuffer
        /\ \/ pc = "low" /\ pc' = "high" /\ cursor_pos' = cursor_pos
           \/ pc = "high" /\ pc' = "idle" /\ cursor_pos' = cursor_pos
           \/ pc = "home" /\ pc' = "idle" /\ cursor_pos' = 0
    BY <1>6 DEF LowRegister, HighRegister, Home, screen
  <2>2. ~ Scrolls /\ ~ Scrolls' /\ FinalCursor' = FinalCursor
    BY <2>1 DEF Scrolls, FinalCursor
  <2>3. QED
    BY <2>1, <2>2 DEF FinalCell
<1>7. QED
  BY <1>2, <1>3, <1>4, <1>5, <1>6 DEF Statement

(* Every step is a step of the terminal, or none at all, until the kernel  *)
(* has failed.                                                             *)
LEMMA StepRefines == IInv /\ [Next]_vars => [Abstract!Next]_(Abstract!vars)
<1> SUFFICES ASSUME IInv, [Next]_vars
             PROVE  Abstract!Next \/ UNCHANGED Abstract!vars
  OBVIOUS
<1>1. exceptions \in Nat
  BY Sizes DEF IInv, TypeOK
<1>2. ASSUME exceptions' > 0
      PROVE  Abstract!Next
  BY <1>2 DEF Abstract!Next, Abstract!Fail
<1>3. CASE UNCHANGED vars
  <2>1. UNCHANGED <<tvga_vbuffer, cursor_pos, tvga_curattr, pc, row, exceptions>>
    BY <1>3 DEF vars, screen, control
  <2>2. UNCHANGED <<FinalScreen, FinalCursor>>
    BY <2>1 DEF FinalScreen, FinalCell, FinalCursor, Scrolls, Full, Ahead, attr_entry, Size
  <2>3. QED
    BY <2>1, <2>2 DEF Abstract!vars, FinalScreen
<1>4. ASSUME NEW char \in Chars \union {LF, CR, TAB, BS}, tvga_putch(char)
      PROVE  Abstract!Next
  <2>1. exceptions = 0 /\ exceptions' = 0
    BY <1>4 DEF tvga_putch, Call
  <2>2. QED
    BY <1>4, <2>1, PutchRefines DEF Abstract!Next
<1>5. CASE \/ \E position \in 0 .. Size : SetCursor(position)
           \/ \E color \in Colors : SetColor(color)
           \/ Clear
  <2>1. exceptions = 0 /\ exceptions' = 0
    BY <1>5 DEF SetCursor, SetColor, Clear, Call
  <2>2. QED
    BY <1>5, <2>1, CallRefines DEF Abstract!Next
<1>6. CASE Exception
  BY <1>1, <1>2, <1>6 DEF Exception
<1>7. CASE Report
  <2>1. exceptions' > 0
    BY <1>1, <1>7 DEF Report, IInv, TodoInv
  <2>2. QED
    BY <1>2, <2>1
<1>8. QED
  BY <1>3, <1>4, <1>5, <1>6, <1>7, StatementRefines DEF Next

(* Until an exception the console is a terminal.                           *)
THEOREM Implements == Spec => ImplementsTerminal
<1>1. Init => Abstract!Init
  <2> SUFFICES ASSUME Init PROVE Abstract!Init
    OBVIOUS
  <2>1. FinalScreen = View(tvga_vbuffer) /\ FinalCursor = 0
    BY FinalView DEF Init, Scrolls, FinalCursor
  <2>2. ASSUME NEW p \in (0 .. H - 1) \X (0 .. W - 1)
        PROVE  tvga_vbuffer[p[1] * W + p[2]] = [char |-> SPACE, attr |-> DEFAULT_COLOR]
    <3>1. PICK a \in Nat, b \in 0 .. W - 1 : p = <<a, b>> /\ a < H
      BY Sizes
    <3>2. a * W + b < Size
      BY <3>1, OnScreen
    <3>3. a * W + b \in 0 .. Size - 1
      <4>1. a * W \in Nat
        BY <3>1, Sizes
      <4>2. QED
        BY <3>2, <4>1, Sizes
    <3>4. MaxExceptions * W \in Nat /\ (MaxExceptions + 1) * W = MaxExceptions * W + W
      BY Sizes
    <3>5. a * W + b \in Memory
      BY <3>3, <3>4, Sizes DEF Memory
    <3>6. QED
      BY <3>1, <3>2, <3>5 DEF Init
  <2>3. 0 \div W = 0 /\ 0 % W = 0
    BY Sizes
  <2>4. FinalScreen =
          [p \in (0 .. H - 1) \X (0 .. W - 1) |-> [char |-> SPACE, attr |-> DEFAULT_COLOR]]
    BY <2>1, <2>2 DEF View
  <2>5. QED
    BY <2>1, <2>3, <2>4 DEF Init, Abstract!Init, Abstract!Empty, Abstract!Cells, Abstract!Rows,
       Abstract!Columns, Abstract!Blank, FinalScreen
<1>2. QED
  BY <1>1, InitInv, StepInv, StepRefines, PTL DEF Spec, ImplementsTerminal, Abstract!Spec

-----------------------------------------------------------------------------
(* The frame buffer.                                                       *)


(* The size of the picture, and where its pixels are. *)
Rows == __vbe_info.h
Columns == __vbe_info.w

(* The picture, and whether nothing was written behind it. *)
Pixels == [p \in Vbe!Picture |-> Vbe!vbe_get_px(p[1] * __vbe_info.w + p[2])]

Clean == \A k \in __vbe_info.w * __vbe_info.h .. Words - 1 : fb[k] = BLANK

(* Nothing was written before the mode is known; the driver keeps the size *)
(* of the mode; and a picture without gaps fits in video memory.           *)
VbeInv ==
  /\ fb = [k \in 0 .. Words - 1 |-> fb[k]]
  /\ mode = <<>> => /\ Rows = 0 /\ Columns = 0
                    /\ \A k \in 0 .. Words - 1 : fb[k] = BLANK
  /\ mode # <<>> => \E m \in Modes : /\ mode = <<m>>
                                     /\ __vbe_info = [h |-> m.h, w |-> m.w]
  /\ Vbe!Packed => Columns * Rows <= Words

-----------------------------------------------------------------------------
(* Modes.                                                                  *)

(* The picture of a mode without gaps is not larger than video memory. *)
LEMMA PictureFits ==
  ASSUME NEW m \in Modes
  PROVE  /\ m.h \in Nat /\ m.w \in Nat /\ Words \in Nat
         /\ m.pitch = 4 * m.w => m.w * m.h <= Words
<1>1. m.h \in Nat /\ m.w \in Nat /\ Words \in Nat /\ m.h * m.pitch <= 4 * Words
  BY ModesAssumption
<1>2. ASSUME m.pitch = 4 * m.w
      PROVE  m.w * m.h <= Words
  <2>1. m.h * m.pitch = 4 * (m.w * m.h) /\ m.w * m.h \in Nat
    BY <1>1, <1>2
  <2>2. QED
    BY <1>1, <2>1
<1>3. QED
  BY <1>1, <1>2

(* The numbers of rows and columns. *)
LEMMA PictureSize ==
  ASSUME VbeInv
  PROVE  Rows \in Nat /\ Columns \in Nat /\ Words \in Nat
<1>1. Words \in Nat
  BY ModesAssumption
<1>2. CASE mode = <<>>
  BY <1>1, <1>2 DEF VbeInv
<1>3. CASE mode # <<>>
  <2>1. PICK m \in Modes : __vbe_info = [h |-> m.h, w |-> m.w]
    BY <1>3 DEF VbeInv
  <2>2. Rows = m.h /\ Columns = m.w
    BY <2>1 DEF Rows, Columns
  <2>3. QED
    BY <2>2, PictureFits
<1>4. QED
  BY <1>2, <1>3

-----------------------------------------------------------------------------
(* The invariant.                                                          *)

LEMMA VbeInitInv == Vbe!Init => VbeInv
<1> SUFFICES ASSUME Vbe!Init PROVE VbeInv
  OBVIOUS
<1>1. Rows = 0 /\ Columns = 0 /\ mode = <<>>
  BY DEF Vbe!Init, Rows, Columns
<1>2. 0 <= Words
  BY ModesAssumption
<1>3. QED
  BY <1>1, <1>2 DEF Vbe!Init, VbeInv

(* What the driver draws is a run of words. *)
LEMMA RunOfWords ==
  ASSUME Vbe!vbe_sendcmd \/ Vbe!SetPixel
  PROVE  \E first, color, count : Vbe!tmemsetd(first, color, count)
<1>1. CASE Vbe!vbe_sendcmd
  BY <1>1 DEF Vbe!vbe_sendcmd, Vbe!__vbe_clear, Vbe!FillLine, Vbe!__vbe_fill_line
<1>2. CASE Vbe!SetPixel
  BY <1>2 DEF Vbe!SetPixel, Vbe!vbe_set_px
<1>3. QED
  BY <1>1, <1>2

LEMMA VbeStepInv == VbeInv /\ [Vbe!Next]_(Vbe!vars) => VbeInv'
<1> SUFFICES ASSUME VbeInv, [Vbe!Next]_(Vbe!vars) PROVE VbeInv'
  OBVIOUS
<1>1. ASSUME NEW m \in Modes, Vbe!vbe_init(m)
      PROVE  VbeInv'
  <2>1. /\ mode' = <<m>> /\ __vbe_info' = [h |-> m.h, w |-> m.w] /\ UNCHANGED fb
        /\ mode' # <<>>
    BY <1>1 DEF Vbe!vbe_init
  <2>2. Rows' = m.h /\ Columns' = m.w
    BY <2>1 DEF Rows, Columns
  <2>3. Vbe!Packed' => m.pitch = 4 * m.w
    BY <2>1 DEF Vbe!Packed
  <2>4. QED
    BY <2>1, <2>2, <2>3, PictureFits DEF VbeInv
<1>2. CASE mode # <<>> /\ (Vbe!vbe_sendcmd \/ Vbe!SetPixel)
  <2>1. PICK first, color, count : Vbe!tmemsetd(first, color, count)
    BY <1>2, RunOfWords
  <2>2. /\ UNCHANGED <<mode, __vbe_info>>
        /\ fb' = [k \in 0 .. Words - 1 |->
                    IF k \in first .. first + count - 1 THEN color ELSE fb[k]]
    BY <2>1 DEF Vbe!tmemsetd, VbeInv
  <2>3. UNCHANGED <<Rows, Columns, Vbe!Packed>>
    BY <2>2 DEF Rows, Columns, Vbe!Packed
  <2>4. QED
    BY <1>2, <2>2, <2>3 DEF VbeInv
<1>3. CASE UNCHANGED Vbe!vars
  <2>1. UNCHANGED <<mode, __vbe_info, fb>>
    BY <1>3 DEF Vbe!vars
  <2>2. QED
    BY <2>1 DEF VbeInv, Rows, Columns, Vbe!Packed
<1>4. QED
  BY <1>1, <1>2, <1>3 DEF Vbe!Next

-----------------------------------------------------------------------------
(* The picture.                                                            *)

(* The place of a pixel determines its row and its column. *)
LEMMA PixelPlace ==
  ASSUME VbeInv, Vbe!Packed, NEW p \in Vbe!Picture
  PROVE  /\ p[1] \in Nat /\ p[1] < Rows /\ p[2] \in 0 .. Columns - 1 /\ Columns \in Nat \ {0}
         /\ p[1] * Columns \in Nat
         /\ p[1] * Columns + p[2] < Columns * Rows
         /\ p[1] * Columns + p[2] \in 0 .. Words - 1
         /\ p = <<p[1], p[2]>>
<1>1. Rows \in Nat /\ Columns \in Nat /\ Words \in Nat
  BY PictureSize
<1>2. p = <<p[1], p[2]>> /\ p[1] \in 0 .. Rows - 1 /\ p[2] \in 0 .. Columns - 1
  BY DEF Vbe!Picture, Rows, Columns
<1>3. Columns \in Nat \ {0} /\ p[1] \in Nat /\ p[1] < Rows
  BY <1>1, <1>2
<1>4. p[1] * Columns + Columns <= Rows * Columns
  BY <1>1, <1>3, TimesStrict
<1>5. p[1] * Columns \in Nat /\ Rows * Columns = Columns * Rows /\ Columns * Rows \in Nat
  BY <1>1, <1>3
<1>6. Columns * Rows <= Words
  BY DEF VbeInv
<1>7. QED
  BY <1>1, <1>2, <1>3, <1>4, <1>5, <1>6

(* Every pixel is in video memory. *)
LEMMA PixelsFit ==
  VbeInv /\ Vbe!Packed => \A q \in Vbe!Picture : q[1] * Columns + q[2] \in 0 .. Words - 1
BY PixelPlace

(* Writing the places of some pixels, all of them inside the picture, draws *)
(* those pixels.                                                            *)
LEMMA DrawsPixels ==
  ASSUME VbeInv, Vbe!Packed,
         NEW first \in Nat, NEW count \in Nat, NEW color, NEW S,
         first + count <= Columns * Rows,
         Vbe!tmemsetd(first, color, count),
         \A p \in Vbe!Picture :
           p \in S <=> p[1] * Columns + p[2] \in first .. first + count - 1
  PROVE  Vbe!Abstract!Draw(S, color) /\ UNCHANGED <<Vbe!Packed, Clean>>
<1>1. /\ UNCHANGED <<mode, __vbe_info>>
      /\ fb' = [k \in 0 .. Words - 1 |->
                  IF k \in first .. first + count - 1 THEN color ELSE fb[k]]
  BY DEF Vbe!tmemsetd, VbeInv
<1>2. UNCHANGED <<Vbe!Packed, Vbe!Picture, Rows, Columns>>
  BY <1>1 DEF Vbe!Packed, Vbe!Picture, Rows, Columns
<1>3. Clean' = Clean
  <2>1. Columns * Rows \in Nat /\ Words \in Nat
    BY PictureSize
  <2>2. ASSUME NEW k \in Columns * Rows .. Words - 1
        PROVE  fb'[k] = fb[k]
    <3>1. k \in 0 .. Words - 1 /\ k \notin first .. first + count - 1
      BY <2>1
    <3>2. QED
      BY <1>1, <3>1
  <2>3. QED
    BY <1>1, <2>2 DEF Clean, Rows, Columns
<1>4. ASSUME NEW p \in Vbe!Picture
      PROVE  fb'[p[1] * Columns + p[2]] = IF p \in S THEN color ELSE fb[p[1] * Columns + p[2]]
  BY <1>1, <1>4, PixelPlace
<1>5. Pixels' = [p \in DOMAIN Pixels |-> IF p \in S THEN color ELSE Pixels[p]]
  BY <1>1, <1>2, <1>4 DEF Pixels, Vbe!vbe_get_px, Columns
<1>6. UNCHANGED <<__vbe_info.h, __vbe_info.w>>
  BY <1>1
<1>7. QED
  BY <1>2, <1>3, <1>5, <1>6 DEF Vbe!Abstract!Draw, Pixels

(* What a caller draws of a packed picture is a drawing of the canvas.     *)
LEMMA DrawRefines ==
  ASSUME VbeInv, Vbe!Packed, mode # <<>>, Vbe!vbe_sendcmd \/ Vbe!SetPixel
  PROVE  Vbe!Abstract!Next
<1>1. Rows \in Nat /\ Columns \in Nat /\ Columns * Rows \in Nat
      /\ Rows = __vbe_info.h /\ Columns = __vbe_info.w
  <2>1. Rows \in Nat /\ Columns \in Nat
    BY PictureSize
  <2>2. QED
    BY <2>1 DEF Rows, Columns
<1>2. DOMAIN Pixels = Vbe!Picture
  BY DEF Pixels
<1>3. ASSUME NEW color \in PixelColors, Vbe!__vbe_clear(color)
      PROVE  Vbe!Abstract!Next
  <2>1. Vbe!tmemsetd(0, color, Columns * Rows) /\ 0 + Columns * Rows <= Columns * Rows
    BY <1>1, <1>3 DEF Vbe!__vbe_clear
  <2>2. \A p \in Vbe!Picture :
          p \in Vbe!Picture <=> p[1] * Columns + p[2] \in 0 .. 0 + Columns * Rows - 1
    BY <1>1, PixelPlace
  <2>3. Vbe!Abstract!Draw(Vbe!Picture, color) /\ UNCHANGED <<Vbe!Packed, Clean>>
    BY <1>1, <2>1, <2>2, DrawsPixels
  <2>4. QED
    BY <1>2, <1>3, <2>3 DEF Vbe!Abstract!Next, Pixels, Clean
<1>4. ASSUME NEW color \in PixelColors, NEW ln \in 0 .. Rows - 1,
             Vbe!__vbe_fill_line(color, ln)
      PROVE  Vbe!Abstract!Next
  <2> DEFINE Line == {p \in Vbe!Picture : p[1] = ln}
  <2>1. /\ ln \in Nat /\ ln < Rows /\ ln * Columns \in Nat
        /\ ln * Columns + Columns <= Columns * Rows
    <3>1. ln \in Nat /\ ln < Rows
      BY <1>1
    <3>2. QED
      BY <1>1, <3>1, RowsFit, SMTT(30)
  <2>2. Vbe!tmemsetd(ln * Columns, color, Columns)
    BY <1>1, <1>4 DEF Vbe!__vbe_fill_line
  <2>3. ASSUME NEW p \in Vbe!Picture
        PROVE  p \in Line <=>
                 p[1] * Columns + p[2] \in ln * Columns .. ln * Columns + Columns - 1
    <3>1. /\ p[1] \in Nat /\ p[2] \in 0 .. Columns - 1 /\ Columns \in Nat \ {0}
          /\ p[1] * Columns \in Nat
      BY <2>3, PixelPlace
    <3>2. CASE p[1] = ln
      <4>1. p[1] * Columns = ln * Columns
        BY <3>2
      <4>2. QED
        BY <2>1, <3>1, <3>2, <4>1
    <3>3. CASE p[1] < ln
      <4>1. p[1] * Columns + Columns <= ln * Columns
        BY <2>1, <3>1, <3>3, RowsFit
      <4>2. p[1] * Columns + p[2] < ln * Columns
        <5>1. PICK a \in Nat, b \in Nat : a = p[1] * Columns /\ b = ln * Columns
          BY <2>1, <3>1
        <5>2. QED
          BY <3>1, <4>1, <5>1, SMTT(30)
      <4>3. QED
        BY <2>1, <3>1, <3>3, <4>2, SMTT(30)
    <3>4. CASE ln < p[1]
      <4>1. ln * Columns + Columns <= p[1] * Columns
        BY <2>1, <3>1, <3>4, RowsFit
      <4>2. QED
        BY <2>1, <3>1, <3>4, <4>1, SMTT(30)
    <3>5. QED
      BY <2>1, <3>1, <3>2, <3>3, <3>4
  <2>4. Vbe!Abstract!Draw(Line, color) /\ UNCHANGED <<Vbe!Packed, Clean>>
    BY <1>1, <2>1, <2>2, <2>3, DrawsPixels
  <2>5. QED
    BY <1>1, <1>2, <1>4, <2>4 DEF Vbe!Abstract!Next, Pixels, Clean
<1>5. ASSUME NEW color \in PixelColors, NEW x \in 0 .. Columns - 1, NEW y \in 0 .. Rows - 1,
             Vbe!vbe_set_px(y * Columns + x, color)
      PROVE  Vbe!Abstract!Next
  <2> DEFINE q == <<y, x>>
  <2>1. q \in Vbe!Picture /\ q[1] = y /\ q[2] = x
    BY <1>1 DEF Vbe!Picture
  <2>2. /\ y \in Nat /\ x \in 0 .. Columns - 1 /\ Columns \in Nat \ {0} /\ y * Columns \in Nat
        /\ y * Columns + x < Columns * Rows
    BY <2>1, PixelPlace
  <2>3. y * Columns + x \in Nat /\ y * Columns + x + 1 <= Columns * Rows
    <3>1. PICK m \in Nat, n \in Nat : m = y * Columns /\ n = Columns * Rows
      BY <1>1, <2>2
    <3>2. m + x \in Nat /\ m + x + 1 <= n
      BY <2>2, <3>1
    <3>3. QED
      BY <3>1, <3>2
  <2>4. Vbe!tmemsetd(y * Columns + x, color, 1)
    BY <1>5 DEF Vbe!vbe_set_px
  <2>5. ASSUME NEW p \in Vbe!Picture
        PROVE  p \in {q} <=>
                 p[1] * Columns + p[2] \in y * Columns + x .. y * Columns + x + 1 - 1
    <3>1. /\ p[1] \in Nat /\ p[2] \in 0 .. Columns - 1 /\ p[1] * Columns \in Nat
          /\ p = <<p[1], p[2]>>
      BY <2>5, PixelPlace
    <3>2. ASSUME p[1] * Columns + p[2] = y * Columns + x
          PROVE  p = q
      <4>1. p[1] = (p[1] * Columns + p[2]) \div Columns
            /\ p[2] = (p[1] * Columns + p[2]) % Columns
        BY <2>2, <3>1, QuotientRemainder, SMTT(30)
      <4>2. y = (y * Columns + x) \div Columns /\ x = (y * Columns + x) % Columns
        BY <2>2, QuotientRemainder, SMTT(30)
      <4>3. QED
        BY <3>1, <3>2, <4>1, <4>2
    <3>3. p = q => p[1] * Columns + p[2] = y * Columns + x
      BY <2>1
    <3>4. p[1] * Columns + p[2] \in Nat /\ y * Columns + x \in Nat
      BY <2>3, <3>1
    <3>5. QED
      BY <3>2, <3>3, <3>4
  <2>6. Vbe!Abstract!Draw({q}, color) /\ UNCHANGED <<Vbe!Packed, Clean>>
    BY <2>3, <2>4, <2>5, DrawsPixels
  <2>7. QED
    BY <1>2, <1>5, <2>1, <2>6 DEF Vbe!Abstract!Next, Pixels, Clean
<1>6. CASE Vbe!vbe_sendcmd
  BY <1>1, <1>3, <1>4, <1>6 DEF Vbe!vbe_sendcmd, Vbe!FillLine, Vbe!Resolution
<1>7. CASE Vbe!SetPixel
  BY <1>1, <1>5, <1>7 DEF Vbe!SetPixel, Vbe!Resolution
<1>8. QED
  BY <1>6, <1>7

(* The first picture is blank, and so is what lies behind it. *)
LEMMA OpenRefines ==
  ASSUME VbeInv, NEW m \in Modes, Vbe!vbe_init(m)
  PROVE  Vbe!Abstract!Next
<1>1. /\ mode = <<>> /\ mode' = <<m>> /\ mode' # <<>> /\ UNCHANGED fb
      /\ __vbe_info' = [h |-> m.h, w |-> m.w]
  BY DEF Vbe!vbe_init
<1>2. \A k \in 0 .. Words - 1 : fb[k] = BLANK
  BY <1>1 DEF VbeInv
<1>3. CASE ~ Vbe!Packed'
  BY <1>3 DEF Vbe!Abstract!Next, Vbe!Abstract!Fail
<1>4. CASE Vbe!Packed'
  <2>1. VbeInv'
    BY VbeStepInv DEF Vbe!Next
  <2>2. __vbe_info.w = 0 /\ __vbe_info.h = 0 /\ __vbe_info'.h = m.h /\ __vbe_info'.w = m.w
        /\ m.h \in Nat /\ m.w \in Nat
    BY <1>1, PictureFits DEF VbeInv, Rows, Columns
  <2>3. Vbe!Packed
    BY <1>1 DEF Vbe!Packed
  <2>4. Clean /\ Clean'
    <3>1. m.w * m.h \in Nat
      BY <2>2
    <3>2. QED
      BY <1>1, <1>2, <2>2, <3>1 DEF Clean
  <2>5. ASSUME NEW p \in Vbe!Picture'
        PROVE  fb'[p[1] * m.w + p[2]] = BLANK
    <3>1. (VbeInv /\ Vbe!Packed =>
             \A q \in Vbe!Picture : q[1] * Columns + q[2] \in 0 .. Words - 1)'
      BY PixelsFit, PTL
    <3>2. p[1] * m.w + p[2] \in 0 .. Words - 1
      BY <1>4, <2>1, <2>2, <3>1 DEF Columns
    <3>3. QED
      BY <1>1, <1>2, <3>2
  <2>6. Pixels' = [p \in (0 .. m.h - 1) \X (0 .. m.w - 1) |-> BLANK]
    BY <2>2, <2>5 DEF Pixels, Vbe!Picture, Vbe!vbe_get_px
  <2>7. Vbe!Abstract!Open
    BY <2>2, <2>6 DEF Vbe!Abstract!Open, Vbe!Abstract!Picture, Pixels
  <2>8. QED
    BY <1>4, <2>3, <2>4, <2>7 DEF Vbe!Abstract!Next, Clean
<1>5. QED
  BY <1>3, <1>4

LEMMA VbeStepRefines ==
  VbeInv /\ [Vbe!Next]_(Vbe!vars) => [Vbe!Abstract!Next]_(Vbe!Abstract!vars)
<1> SUFFICES ASSUME VbeInv, [Vbe!Next]_(Vbe!vars)
             PROVE  Vbe!Abstract!Next \/ UNCHANGED Vbe!Abstract!vars
  OBVIOUS
<1>1. CASE \E m \in Modes : Vbe!vbe_init(m)
  BY <1>1, OpenRefines
<1>2. CASE mode # <<>> /\ (Vbe!vbe_sendcmd \/ Vbe!SetPixel)
  <2>1. PICK first, color, count : Vbe!tmemsetd(first, color, count)
    BY <1>2, RunOfWords
  <2>2. Vbe!Packed' = Vbe!Packed
    BY <2>1 DEF Vbe!tmemsetd, Vbe!Packed
  <2>3. CASE Vbe!Packed
    BY <1>2, <2>3, DrawRefines
  <2>4. CASE ~ Vbe!Packed
    BY <2>2, <2>4 DEF Vbe!Abstract!Next, Vbe!Abstract!Fail
  <2>5. QED
    BY <2>3, <2>4
<1>3. CASE UNCHANGED Vbe!vars
  <2>1. UNCHANGED <<mode, __vbe_info, fb>>
    BY <1>3 DEF Vbe!vars
  <2>2. UNCHANGED <<Pixels, Clean, Vbe!Packed>>
    BY <2>1 DEF Pixels, Clean, Vbe!Packed, Vbe!Picture, Vbe!vbe_get_px
  <2>3. QED
    BY <2>1, <2>2 DEF Vbe!Abstract!vars, Pixels, Clean
<1>4. QED
  BY <1>1, <1>2, <1>3 DEF Vbe!Next

(* With every set of video modes the frame buffer shows the picture that   *)
(* its callers draw, and is not written outside of it, as long as it has   *)
(* pixels of 32 bits and no gap between its lines.                         *)
THEOREM CanvasImplemented == DisplaySpec => ImplementsCanvas
<1>1. Vbe!Init => Vbe!Abstract!Init
  <2> SUFFICES ASSUME Vbe!Init PROVE Vbe!Abstract!Init
    OBVIOUS
  <2>1. mode = <<>> /\ __vbe_info = [h |-> 0, w |-> 0]
        /\ \A k \in 0 .. Words - 1 : fb[k] = BLANK
    BY DEF Vbe!Init
  <2>2. Clean /\ Vbe!Packed
    BY <2>1 DEF Clean, Vbe!Packed
  <2>3. Pixels = [p \in (0 .. 0 - 1) \X (0 .. 0 - 1) |-> BLANK]
    BY <2>1 DEF Pixels, Vbe!Picture
  <2>4. QED
    BY <2>1, <2>2, <2>3 DEF Vbe!Abstract!Init, Vbe!Abstract!Picture, Pixels, Clean
<1>2. DisplayInit => VbeInv /\ Vbe!Abstract!Init
  BY <1>1, VbeInitInv DEF DisplayInit
<1>3. [TextNext \/ RgbNext]_<<vars, picture>> => [Vbe!Next]_(Vbe!vars)
  BY DEF TextNext, RgbNext, picture, Vbe!vars
<1>4. QED
  BY <1>2, <1>3, VbeStepInv, VbeStepRefines, PTL
     DEF DisplaySpec, ImplementsCanvas, Vbe!ImplementsCanvas, Vbe!Abstract!Spec

-----------------------------------------------------------------------------
(* The text console beside the frame buffer.                               *)

(* What is proved of the text console holds beside the frame buffer too:   *)
(* it does what it does alone, or, when it is not in use, nothing.         *)
THEOREM ConsoleUndisturbed == DisplaySpec => Spec
<1>1. DisplayInit => Init
  BY DEF DisplayInit
<1>2. [TextNext \/ RgbNext]_<<vars, picture>> => [Next]_vars
  BY DEF TextNext, RgbNext
<1>3. QED
  BY <1>1, <1>2, PTL DEF DisplaySpec, Spec

=============================================================================
