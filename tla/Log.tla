-------------------------------- MODULE Log ---------------------------------
(***************************************************************************)
(* LOG (src/kernel/log.c): __doprnt turns a format and its arguments into  *)
(* characters, each of which goes to the serial port by com_write or to    *)
(* the text console.  Exceptions come between any two steps and log too.   *)
(*                                                                         *)
(* Behind com_write is the transmitter: a register (or a queue) that takes *)
(* characters, and a shift register that puts them on the line at its own  *)
(* pace.  What is written to a full register replaces what is there.       *)
(*                                                                         *)
(* The conversions of %l are left out (LogAssumption): no call uses them.  *)
(***************************************************************************)
EXTENDS Integers, SequencesExt

CONSTANTS
  BITS,          (* The width of int32_t and uint32_t: 32.                   *)
  Chars,         (* The characters of the kernel's texts; com_write adds the *)
                 (* returns.                                                 *)
  Calls,         (* The calls of LOG the kernel makes: a sequence of calls.  *)
                 (* A call has a format, the arguments, and the text a       *)
                 (* reader of the call expects.                              *)
  Reports,       (* What handle_exception may print: sequences of calls.     *)
  Depths,        (* How many characters the transmitter takes: 1, or 16 if   *)
                 (* the firmware has turned its queue on.                    *)
  MaxCalls,      (* Bound: calls before an exception.                        *)
  MaxExceptions  (* Bound: exceptions, each inside the one before.           *)

LF == "\n"
CR == "\r"

SERIAL == 0
TERMINAL == 1

Power(b, n) ==
  LET to[k \in Nat] == IF k = 0 THEN 1 ELSE b * to[k - 1]
  IN  to[n]

(* How many values a machine word has. *)
Modulus == Power(2, BITS)

Word == 0 .. Modulus - 1

(* The letters behind a % that take an argument. *)
Conversions == {"s", "c", "i", "d", "u", "p", "X", "x"}

WellFormed(call) ==
  \A k \in 1 .. Len(call.fmt) - 1 : call.fmt[k] = "%" => call.fmt[k + 1] # "l"

ASSUME LogAssumption ==
  /\ BITS \in Nat /\ BITS > 4
  /\ Depths \subseteq Nat \ {0}
  /\ \A k \in DOMAIN Calls : WellFormed(Calls[k])
  /\ \A k \in DOMAIN Reports : \A j \in DOMAIN Reports[k] : WellFormed(Reports[k][j])
  /\ {MaxCalls, MaxExceptions} \subseteq Nat

VARIABLES
  __log_out,   (* Where the output goes.                                     *)
  pc,          (* Where the processor is: see TypeOK.                        *)
  fmt,         (* What is left of the format.                                *)
  args,        (* What is left of the arguments.                             *)
  string,      (* What __doprnt has yet to put of the last conversion.       *)
  todo,        (* The calls handle_exception has yet to make.                *)
  depth,       (* How many characters the transmitter takes.                 *)
  holding,     (* The characters it holds.                                   *)
  shift,       (* The character in its shift register, if any.               *)
  line,        (* What has gone out over the line.                           *)
  shown,       (* What the text console was given.                           *)
  meant,       (* For both outputs the text of the calls so far; of a call   *)
               (* that an exception ended only what was given out.           *)
  calls,       (* How many calls there were.                                 *)
  exceptions   (* How many exceptions there were.                            *)

doprnt == <<fmt, args, string>>
uart == <<depth, holding, shift, line>>
counters == <<calls, exceptions>>
vars == <<__log_out, pc, doprnt, todo, uart, shown, meant, counters>>

-----------------------------------------------------------------------------
(* The conversions of t_sai.c.                                             *)

Signed(w) == IF 2 * w >= Modulus THEN w - Modulus ELSE w

(* i *= -1 in a machine word: the smallest number stays what it is. *)
Negated(i) == Signed((0 - i) % Modulus)

(* / and % of C round towards zero. *)
Quotient(i, base) == IF i >= 0 THEN i \div base ELSE -((-i) \div base)
Remainder(i, base) == i - base * Quotient(i, base)

(* The character of a remainder: from 10 on a letter, a negative one gives *)
(* what lies in front of '0'.                                              *)
Digit(r) ==
  IF r > 9 THEN <<"A", "B", "C", "D", "E", "F">>[r - 9]
  ELSE <<"'", "(", ")", "*", "+", ",", "-", ".", "/",
         "0", "1", "2", "3", "4", "5", "6", "7", "8", "9">>[r + 10]

(* The loop over the digits, which ends when nothing is left; and one that *)
(* ends too early.                                                         *)
DigitsButLast(i, base) ==
  LET from[n \in Int] ==
        <<Digit(Remainder(n, base))>>
          \o (IF Quotient(n, base) > 1 THEN from[Quotient(n, base)] ELSE <<>>)
  IN  from[i]

Digits(i, base) ==
  LET from[n \in Int] ==
        <<Digit(Remainder(n, base))>>
          \o (IF Quotient(n, base) > 0 THEN from[Quotient(n, base)] ELSE <<>>)
  IN  from[i]

ASSUME TextAssumption ==
  /\ CR \notin Chars
  /\ {Digit(r) : r \in -9 .. 15} \subseteq Chars
  /\ \A k \in DOMAIN Calls : Calls[k].fmt \in Seq(Chars)
  /\ \A k \in DOMAIN Reports : \A j \in DOMAIN Reports[k] : Reports[k][j].fmt \in Seq(Chars)

reverse_str(s) == Reverse(s)

int_to_str(w, base) ==
  IF Signed(w) < 0 THEN reverse_str(Digits(Negated(Signed(w)), base) \o <<"-">>)
  ELSE reverse_str(Digits(Signed(w), base))

uint_to_str(w, base) == reverse_str(Digits(w, base))

DigitOf(char) == CHOOSE r \in 0 .. 9 : Digit(r) = char

(* The number the digits at the beginning of a string stand for, modulo    *)
(* the machine word.                                                       *)
str_to_uint(str) ==
  LET digits == {Digit(r) : r \in 0 .. 9}
      value[k \in 0 .. Len(str)] ==
        IF k = 0 THEN 0 ELSE (value[k - 1] * 10 + DigitOf(str[k])) % Modulus
      len == CHOOSE l \in 0 .. Len(str) :
               /\ \A k \in 1 .. l : str[k] \in digits
               /\ l = Len(str) \/ str[l + 1] \notin digits
  IN  value[len]

-----------------------------------------------------------------------------
(* Outputs.                                                                *)

WithoutReturns(s) ==
  LET kept[k \in 0 .. Len(s)] ==
        IF k = 0 THEN <<>>
        ELSE IF s[k] = CR THEN kept[k - 1] ELSE Append(kept[k - 1], s[k])
  IN  kept[Len(s)]

(* All the transmitter was given and has not lost. *)
Sent == line \o shift \o holding

Given(out) == IF out = SERIAL THEN WithoutReturns(Sent) ELSE shown

(* outb(COM1_PORT, char) *)
outb(char) ==
  /\ holding' = IF Len(holding) < depth THEN Append(holding, char)
                ELSE ReplaceAt(holding, depth, char)
  /\ UNCHANGED <<depth, shift, line>>

Init ==
  /\ __log_out = SERIAL
  /\ pc = "idle"
  /\ fmt = <<>> /\ args = <<>> /\ string = <<>>
  /\ todo = <<>>
  /\ depth \in Depths
  /\ holding = <<>> /\ shift = <<>> /\ line = <<>>
  /\ shown = <<>>
  /\ meant = [out \in {SERIAL, TERMINAL} |-> <<>>]
  /\ calls = 0 /\ exceptions = 0

-----------------------------------------------------------------------------
(* LOG and __doprnt.                                                       *)

Begin(call) ==
  /\ pc = "idle" /\ pc' = "format"
  /\ fmt' = call.fmt /\ args' = call.args
  /\ meant' = [meant EXCEPT ![__log_out] = @ \o call.text]
  /\ UNCHANGED <<__log_out, string, uart, shown>>

LOG(call) ==
  /\ exceptions = 0 /\ calls < MaxCalls
  /\ Begin(call)
  /\ calls' = calls + 1
  /\ UNCHANGED <<todo, exceptions>>

log_set_output(out) ==
  /\ pc = "idle" /\ exceptions = 0
  /\ __log_out' = out
  /\ UNCHANGED <<pc, doprnt, todo, uart, shown, meant, counters>>

Converted(letter, arg) ==
  CASE letter = "s"               -> arg
    [] letter = "c"               -> <<arg>>
    [] letter \in {"i", "d"}      -> int_to_str(arg, 10)
    [] letter = "u"               -> uint_to_str(arg, 10)
    [] letter \in {"p", "X", "x"} -> uint_to_str(arg, 16)

(* A directive: a % that is not the last character.  An unknown letter,    *)
(* and a second %, stand for themselves.                                   *)
Directive ==
  /\ Head(fmt) = "%" /\ Len(fmt) > 1
  /\ fmt' = SubSeq(fmt, 3, Len(fmt))
  /\ IF fmt[2] \in Conversions
     THEN string' = Converted(fmt[2], Head(args)) /\ args' = Tail(args)
     ELSE string' = <<fmt[2]>> /\ UNCHANGED args

Plain ==
  /\ ~ (Head(fmt) = "%" /\ Len(fmt) > 1)
  /\ string' = <<Head(fmt)>> /\ fmt' = Tail(fmt)
  /\ UNCHANGED args

(* One turn of the loop of __doprnt, when the last one has put its string. *)
__doprnt ==
  /\ pc = "format" /\ string = <<>> /\ fmt # <<>>
  /\ Directive \/ Plain
  /\ UNCHANGED <<__log_out, pc, todo, uart, shown, meant, counters>>

Return ==
  /\ pc = "format" /\ string = <<>> /\ fmt = <<>>
  /\ pc' = "idle"
  /\ UNCHANGED <<__log_out, doprnt, todo, uart, shown, meant, counters>>

(* A loop that tests for the end of a string too late. *)
PutFirst ==
  /\ pc = "format" /\ __log_out = SERIAL
  /\ pc' = "wait"
  /\ UNCHANGED <<__log_out, doprnt, todo, uart, shown, meant, counters>>

(* _putch is com_write or __tvga_putch. *)
PutSerial ==
  /\ pc = "format" /\ string # <<>> /\ __log_out = SERIAL
  /\ pc' = "wait"
  /\ UNCHANGED <<__log_out, doprnt, todo, uart, shown, meant, counters>>

__tvga_putch ==
  /\ pc = "format" /\ string # <<>> /\ __log_out # SERIAL
  /\ shown' = Append(shown, Head(string))
  /\ string' = Tail(string)
  /\ UNCHANGED <<__log_out, pc, fmt, args, todo, uart, meant, counters>>

-----------------------------------------------------------------------------
(* com_write: it waits until the transmitter has taken everything, then    *)
(* writes, in front of a line feed a return first, without another wait.   *)

(* The test the wrong way round. *)
TransmitterBusy == holding # <<>>

com_is_transmit_empty == holding = <<>>

(* No wait at all. *)
SkipWait ==
  /\ pc = "wait"
  /\ pc' = IF Head(string) = LF THEN "return" ELSE "write"
  /\ UNCHANGED <<__log_out, doprnt, todo, uart, shown, meant, counters>>

Wait == com_is_transmit_empty /\ SkipWait

(* A line feed without a return. *)
NoReturn ==
  /\ pc = "return"
  /\ pc' = "write"
  /\ UNCHANGED <<__log_out, doprnt, todo, uart, shown, meant, counters>>

WriteReturn ==
  /\ pc = "return"
  /\ outb(CR)
  /\ pc' = "write"
  /\ UNCHANGED <<__log_out, doprnt, todo, shown, meant, counters>>

Write ==
  /\ pc = "write"
  /\ outb(Head(string))
  /\ string' = Tail(string)
  /\ pc' = "format"
  /\ UNCHANGED <<__log_out, fmt, args, todo, shown, meant, counters>>

-----------------------------------------------------------------------------
(* handle_exception: what was under way is never taken up again.           *)

Exception ==
  /\ exceptions < MaxExceptions
  /\ exceptions' = exceptions + 1
  /\ \E k \in DOMAIN Reports : todo' = Reports[k]
  /\ pc' = "idle"
  /\ fmt' = <<>> /\ args' = <<>> /\ string' = <<>>
  /\ meant' = [out \in DOMAIN meant |-> Given(out)]
  /\ UNCHANGED <<__log_out, uart, shown, calls>>

Report ==
  /\ todo # <<>>
  /\ Begin(Head(todo))
  /\ todo' = Tail(todo)
  /\ UNCHANGED counters

Halt ==
  /\ pc = "idle" /\ exceptions > 0 /\ todo = <<>>
  /\ pc' = "halt"
  /\ UNCHANGED <<__log_out, doprnt, todo, uart, shown, meant, counters>>

-----------------------------------------------------------------------------
(* The transmitter.                                                        *)

Load ==
  /\ shift = <<>> /\ holding # <<>>
  /\ shift' = <<Head(holding)>> /\ holding' = Tail(holding)
  /\ UNCHANGED <<__log_out, pc, doprnt, todo, depth, line, shown, meant, counters>>

ShiftOut ==
  /\ shift # <<>>
  /\ line' = line \o shift /\ shift' = <<>>
  /\ UNCHANGED <<__log_out, pc, doprnt, todo, depth, holding, shown, meant, counters>>

Transmit == Load \/ ShiftOut

(* What the processor does by itself. *)
Kernel ==
  \/ __doprnt \/ Return \/ PutSerial \/ __tvga_putch
  \/ Wait \/ WriteReturn \/ Write
  \/ Report \/ Halt

Next ==
  \/ \E k \in DOMAIN Calls : LOG(Calls[k])
  \/ \E out \in {SERIAL, TERMINAL} : log_set_output(out)
  \/ Kernel
  \/ Exception
  \/ Transmit

(* The processor goes on with a call it has begun, and the transmitter     *)
(* sends what it has.  Nobody has to log anything.                         *)
Spec == Init /\ [][Next]_vars /\ WF_vars(Kernel) /\ WF_vars(Transmit)

-----------------------------------------------------------------------------
(* Properties.                                                             *)

TypeOK ==
  /\ __log_out \in {SERIAL, TERMINAL}
  /\ pc \in {"idle", "format", "wait", "return", "write", "halt"}
  /\ pc \in {"wait", "return", "write"} => string # <<>>
  /\ depth \in Depths
  /\ Len(holding) <= depth /\ Len(shift) <= 1
  /\ DOMAIN meant = {SERIAL, TERMINAL}
  /\ calls \in 0 .. MaxCalls
  /\ exceptions \in 0 .. MaxExceptions

(* Up to returns both outputs get the text of the calls made for them, in  *)
(* the order of the calls and without a gap, at any speed of the           *)
(* transmitter, and all of it by the end of a call: __doprnt takes its     *)
(* arguments in order and com_write overwrites nothing but returns.  What  *)
(* an exception prints comes right behind what was given out before it.    *)
TextInOrder ==
  \A out \in {SERIAL, TERMINAL} :
     /\ IsPrefix(Given(out), meant[out])
     /\ pc \in {"idle", "halt"} => Given(out) = meant[out]

(* A return stands in front of a line feed, or of the line feed of an      *)
(* exception's message after its own return; and a transmitter that takes  *)
(* two characters at once puts a return in front of every line feed.  One  *)
(* that takes a single character may lose it: com_write does not wait      *)
(* between the two.                                                        *)
ReturnsKept ==
  \A k \in DOMAIN Sent :
     /\ Sent[k] = CR /\ k < Len(Sent) => Sent[k + 1] = LF \/ (Sent[k + 1] = CR /\ exceptions > 0)
     /\ Sent[k] = LF /\ depth > 1 => k > 1 /\ Sent[k - 1] = CR

(* A number as one writes it, without leading zeroes. *)
Numeral(n, base) ==
  LET Long(len) == Power(base, len) > n
      len == CHOOSE l \in 1 .. BITS : Long(l) /\ \A m \in 1 .. l - 1 : ~ Long(m)
  IN  [k \in 1 .. len |-> Digit((n \div Power(base, len - k)) % base)]

(* The conversions print every number as one writes it, but for the        *)
(* smallest one, which has no positive counterpart: int_to_str prints a    *)
(* sign and a character that is no digit.  str_to_uint reads every decimal *)
(* number back that uint_to_str has printed, whatever follows it.          *)
NumbersReadBack ==
  calls = 0 /\ exceptions = 0 =>
    \A w \in Word :
      /\ \A base \in {10, 16} : uint_to_str(w, base) = Numeral(w, base)
      /\ \A rest \in {<<>>, <<LF>>, <<"A", "0">>} : str_to_uint(uint_to_str(w, 10) \o rest) = w
      /\ Signed(w) >= 0 => int_to_str(w, 10) = Numeral(w, 10)
      /\ 2 * w > Modulus => int_to_str(w, 10) = <<"-">> \o Numeral(Modulus - w, 10)
      /\ 2 * w = Modulus =>
           \E char \in {Digit(r) : r \in -9 .. -1} : int_to_str(w, 10) = <<"-", char>>

(* Everything that was logged goes out in the end: com_write never waits   *)
(* for ever, and nothing is left in the transmitter when the processor has *)
(* halted.                                                                 *)
AllGoesOut ==
  <>[](WithoutReturns(line) = meant[SERIAL] /\ shown = meant[TERMINAL])

=============================================================================
