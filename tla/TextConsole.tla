---------------------------- MODULE TextConsole -----------------------------
(***************************************************************************)
(* The VGA text console of src/kernel/drivers/tvga.c, statement by         *)
(* statement, because an exception (an NMI comes at any time) enters       *)
(* handle_exception of src/kernel/arch/idt.c between any two of them: that *)
(* prints a message on the same console and halts.                         *)
(*                                                                         *)
(* The output of LOG goes to the console: log_set_output(1) was called.    *)
(***************************************************************************)
EXTENDS Integers, Sequences, Functions

CONSTANTS
  W, H,           (* VGA_WIDTH and VGA_HEIGHT: 80 and 25.                    *)
  TABSPACES,      (* 4.                                                      *)
  BYTE,           (* The values of a cursor register: 256.                   *)
  Chars,          (* The characters that are shown.                          *)
  Colors,         (* The attributes callers choose.                          *)
  DEFAULT_COLOR,
  FirstLine,      (* What handle_exception prints: "An exception occurred!". *)
  Contexts,       (* The exceptions: number and error code, of isrctx_t.     *)
  SecondLine,     (* What it prints then: number, name and error code.       *)
  MaxCalls,       (* Bound: calls of the console before an exception.        *)
  MaxExceptions   (* Bound: exceptions, each inside the one before.          *)

LF == "\n"
CR == "\r"
TAB == "\t"
BS == "backspace"
SPACE == " "

ASSUME ConsoleAssumption ==
  /\ {W, H, TABSPACES, BYTE} \subseteq Nat \ {0}
  /\ W % TABSPACES = 0 /\ H > 2
  /\ W * H <= BYTE * BYTE
  /\ Chars \intersect {LF, CR, TAB, BS} = {}
  /\ DEFAULT_COLOR \in Colors
  /\ FirstLine \in Seq(Chars) /\ Len(FirstLine) \in MaxExceptions + 1 .. W - 1
  /\ Contexts # {} /\ SecondLine \in [Contexts -> Seq(Chars)]
  /\ \A c \in Contexts : Len(SecondLine[c]) < W
  /\ {MaxCalls, MaxExceptions} \subseteq Nat

(* What lies in video memory behind the screen. *)
FOREIGN == [char |-> "foreign", attr |-> DEFAULT_COLOR]

VARIABLES
  tvga_vbuffer,   (* The screen and the video memory behind it.              *)
  cursor_pos,
  tvga_curattr,
  registers,      (* The position in the cursor registers: low, high.        *)
  pc,             (* The next statement of the call, or "idle".              *)
  row,            (* How many rows the scrolling has moved.                  *)
  todo,           (* What handle_exception has yet to print.                 *)
  ctx,            (* The context of the last exception.                      *)
  exceptions,     (* How many exceptions there were.                         *)
  calls           (* How many calls there were.                              *)

screen == <<tvga_vbuffer, cursor_pos, tvga_curattr>>
control == <<row, todo, ctx, exceptions, calls>>
vars == <<screen, registers, pc, control>>

Size == W * H

(* Text memory goes on behind the screen; more of it than is ever written. *)
Memory == 0 .. Size + (MaxExceptions + 1) * W - 1

attr_entry(char) == [char |-> char, attr |-> tvga_curattr]

Blanked(first, count) ==
  [p \in Memory |-> IF p \in first .. first + count - 1
                    THEN attr_entry(SPACE) ELSE tvga_vbuffer[p]]

(* After tvga_init. *)
Init ==
  /\ tvga_vbuffer = [p \in Memory |->
       IF p < Size THEN [char |-> SPACE, attr |-> DEFAULT_COLOR] ELSE FOREIGN]
  /\ cursor_pos = 0
  /\ tvga_curattr = DEFAULT_COLOR
  /\ registers = [low |-> 0, high |-> 0]
  /\ pc = "idle"
  /\ row = 0
  /\ todo = <<>>
  /\ ctx = CHOOSE c \in Contexts : TRUE
  /\ exceptions = 0
  /\ calls = 0

-----------------------------------------------------------------------------
(* The switch of tvga_putch: where the cursor goes.                        *)

tvga_linefeed == (cursor_pos \div W + 1) * W

tvga_carriagereturn == cursor_pos - (cursor_pos % W)

(* A tab that ignores the stops. *)
TabUnaligned == cursor_pos + TABSPACES

tvga_tab == cursor_pos - (cursor_pos % TABSPACES) + TABSPACES

(* A backspace without a look at the start of the screen. *)
BackspaceUnguarded == cursor_pos - 1

tvga_backspace == IF cursor_pos > 0 THEN cursor_pos - 1 ELSE cursor_pos

Moved(char) ==
  CASE char = LF  -> tvga_linefeed
    [] char = CR  -> tvga_carriagereturn
    [] char = TAB -> tvga_tab
    [] char = BS  -> tvga_backspace
    [] OTHER      -> cursor_pos + 1

Switch(char) ==
  /\ pc = "idle"
  /\ cursor_pos' = Moved(char)
  /\ tvga_vbuffer' = IF char \in Chars
                     THEN [tvga_vbuffer EXCEPT ![cursor_pos] = attr_entry(char)]
                     ELSE tvga_vbuffer
  /\ pc' = "check"
  /\ UNCHANGED <<tvga_curattr, registers, row>>

(* One character late. *)
FullOneLate == cursor_pos > Size

(* When the screen is to scroll. *)
Full == cursor_pos >= Size

Check ==
  /\ pc = "check"
  /\ pc' = IF Full THEN "scroll" ELSE "low"
  /\ row' = 0
  /\ UNCHANGED <<screen, registers, todo, ctx, exceptions, calls>>

(* tvga_scrollscreen: the rows move up, the last one is cleared, the       *)
(* cursor follows.                                                         *)
MoveRow ==
  /\ pc = "scroll" /\ row < H - 1
  /\ tvga_vbuffer' = [p \in Memory |->
       IF p \div W = row THEN tvga_vbuffer[p + W] ELSE tvga_vbuffer[p]]
  /\ row' = row + 1
  /\ UNCHANGED <<cursor_pos, tvga_curattr, registers, pc, todo, ctx, exceptions, calls>>

(* Clears the row above the last one. *)
BlankRowAbove ==
  /\ pc = "scroll" /\ row = H - 1
  /\ tvga_vbuffer' = Blanked((H - 2) * W, W)
  /\ pc' = "retreat"
  /\ UNCHANGED <<cursor_pos, tvga_curattr, registers, control>>

BlankLastRow ==
  /\ pc = "scroll" /\ row = H - 1
  /\ tvga_vbuffer' = Blanked((H - 1) * W, W)
  /\ pc' = "retreat"
  /\ UNCHANGED <<cursor_pos, tvga_curattr, registers, control>>

Retreat ==
  /\ pc = "retreat"
  /\ cursor_pos' = cursor_pos - W
  /\ pc' = "low"
  /\ UNCHANGED <<tvga_vbuffer, tvga_curattr, registers, control>>

(* tvga_updatecursorio. *)
LowRegister ==
  /\ pc = "low"
  /\ registers' = [registers EXCEPT !.low = cursor_pos % BYTE]
  /\ pc' = "high"
  /\ UNCHANGED <<screen, control>>

(* The low byte again. *)
HighUnshifted ==
  /\ pc = "high"
  /\ registers' = [registers EXCEPT !.high = cursor_pos % BYTE]
  /\ pc' = "idle"
  /\ UNCHANGED <<screen, control>>

HighRegister ==
  /\ pc = "high"
  /\ registers' = [registers EXCEPT !.high = (cursor_pos \div BYTE) % BYTE]
  /\ pc' = "idle"
  /\ UNCHANGED <<screen, control>>

-----------------------------------------------------------------------------
(* The calls of the kernel.                                                *)

Call ==
  /\ pc = "idle" /\ exceptions = 0
  /\ calls < MaxCalls /\ calls' = calls + 1
  /\ UNCHANGED <<row, todo, ctx, exceptions>>

tvga_putch(char) == Call /\ Switch(char)

(* VGA_CMD_SETCURSOR; a position behind the screen is refused. *)
SetCursor(position) ==
  /\ Call
  /\ IF position >= Size
     THEN UNCHANGED <<screen, registers, pc>>
     ELSE /\ cursor_pos' = position
          /\ pc' = "low"
          /\ UNCHANGED <<tvga_vbuffer, tvga_curattr, registers>>

(* VGA_CMD_SETCOLOR. *)
SetColor(color) ==
  /\ Call
  /\ tvga_curattr' = color
  /\ UNCHANGED <<tvga_vbuffer, cursor_pos, registers, pc>>

(* VGA_CMD_CLEAR: tvga_clr clears the screen, then sets the cursor. *)
Clear ==
  /\ Call
  /\ tvga_vbuffer' = Blanked(0, Size)
  /\ pc' = "home"
  /\ UNCHANGED <<cursor_pos, tvga_curattr, registers>>

Home ==
  /\ pc = "home"
  /\ cursor_pos' = 0
  /\ pc' = "idle"
  /\ UNCHANGED <<tvga_vbuffer, tvga_curattr, registers, control>>

-----------------------------------------------------------------------------
(* handle_exception: what was under way is never taken up again.           *)
Exception ==
  /\ exceptions < MaxExceptions
  /\ exceptions' = exceptions + 1
  /\ ctx' \in Contexts
  /\ todo' = <<LF>> \o FirstLine \o <<LF>> \o SecondLine[ctx'] \o <<LF>>
  /\ pc' = "idle"
  /\ UNCHANGED <<screen, registers, row, calls>>

(* LOG prints the two lines by tvga_putch; then the processor halts. *)
Report ==
  /\ todo # <<>>
  /\ Switch(Head(todo))
  /\ todo' = Tail(todo)
  /\ UNCHANGED <<ctx, exceptions, calls>>

Statement ==
  Check \/ MoveRow \/ BlankLastRow \/ Retreat \/ LowRegister \/ HighRegister \/ Home

Next ==
  \/ \E char \in Chars \union {LF, CR, TAB, BS} : tvga_putch(char)
  \/ \E position \in 0 .. Size : SetCursor(position)
  \/ \E color \in Colors : SetColor(color)
  \/ Clear
  \/ Statement
  \/ Exception
  \/ Report

Spec == Init /\ [][Next]_vars

-----------------------------------------------------------------------------
(* Properties.                                                             *)

Cell == [char : Chars \union {SPACE, FOREIGN.char}, attr : Colors]

TypeOK ==
  /\ tvga_vbuffer \in [Memory -> Cell]
  /\ cursor_pos \in Nat
  /\ tvga_curattr \in Colors
  /\ registers \in [{"low", "high"} -> 0 .. BYTE - 1]
  /\ pc \in {"idle", "check", "scroll", "retreat", "low", "high", "home"}
  /\ row \in 0 .. H - 1
  /\ todo \in Seq(Chars \union {LF})
  /\ ctx \in Contexts
  /\ exceptions \in 0 .. MaxExceptions
  /\ calls \in 0 .. MaxCalls

(* The place of the last cell an exception may overwrite. *)
Overrun == (H + exceptions - 1) * W

(* Without an exception nothing behind the screen is written.  An          *)
(* exception between the move of the cursor and the end of the scrolling   *)
(* finds the cursor behind the screen, scrolls once for its line feed and  *)
(* writes there: one row further for each exception, never more.           *)
OverrunBounded ==
  /\ pc = "idle" => IF exceptions = 0 THEN cursor_pos < Size ELSE cursor_pos <= Overrun
  /\ \A p \in Memory \ (0 .. Size - 1) :
        exceptions = 0 \/ p > Overrun => tvga_vbuffer[p] = FOREIGN

(* From character "first" on, the characters of a line up to "last" are in *)
(* row r.                                                                  *)
LineInRow(line, r, first, last) ==
  \A k \in first .. last : tvga_vbuffer[r * W + k - 1] = attr_entry(line[k])

(* When the processor halts both lines of the last exception are on the    *)
(* screen, right above the cursor.  Only of the first one the beginning    *)
(* may be missing, at most one character for each exception, which went    *)
(* behind the screen.                                                      *)
MessageShown ==
  exceptions > 0 /\ todo = <<>> /\ pc = "idle" =>
    LET r == cursor_pos \div W
        second == SecondLine[ctx]
    IN  /\ r >= 2
        /\ LineInRow(FirstLine, r - 2, exceptions + 1, Len(FirstLine))
        /\ LineInRow(second, r - 1, 1, Len(second))

(* Between two calls the visible cursor is where the next character goes,  *)
(* or the screen was cleared, which leaves the visible cursor behind.      *)
RegistersFollow ==
  pc = "idle" /\ todo = <<>> =>
    cursor_pos \in {registers.low + BYTE * registers.high, 0}

(* The screen and the cursor once the call under way is finished: the      *)
(* rows the scrolling has not reached show the row below them.             *)
Scrolls == pc \in {"scroll", "retreat"} \/ (pc = "check" /\ Full)
Ahead == CASE pc = "check" -> 0 [] pc = "scroll" -> row [] OTHER -> H

FinalCell(r, c) ==
  IF ~ Scrolls \/ r < Ahead THEN tvga_vbuffer[r * W + c]
  ELSE IF r < H - 1 THEN tvga_vbuffer[(r + 1) * W + c]
  ELSE attr_entry(SPACE)

FinalCursor ==
  CASE pc = "home" -> 0
    [] Scrolls     -> cursor_pos - W
    [] OTHER       -> cursor_pos

Abstract == INSTANCE Terminal WITH
  cell <- [p \in (0 .. H - 1) \X (0 .. W - 1) |-> FinalCell(p[1], p[2])],
  row <- FinalCursor \div W,
  col <- FinalCursor % W,
  color <- tvga_curattr,
  up <- exceptions = 0

(* Until an exception the console is a terminal. *)
ImplementsTerminal == Abstract!Spec

=============================================================================
