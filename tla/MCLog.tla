------------------------------- MODULE MCLog --------------------------------
(* Short calls of the kinds the kernel makes; numbers of 8 bits.           *)
EXTENDS Log

Characters ==
  {Digit(r) : r \in -9 .. 15}
    \union {LF, "%", "i", "s", "x", "d", "u", "c", "X", "p", "a"}

Call(format, arguments, text) == [fmt |-> format, args |-> arguments, text |-> text]

(* "\n%i%s", "%x\n", "%d%%%u", "%c%p" with a single % behind it.           *)
KernelCalls ==
  <<Call(<<LF, "%", "i", "%", "s">>, <<246, <<"a">>>>, <<LF, "-", "1", "0", "a">>),
    Call(<<"%", "x", LF>>, <<160>>, <<"A", "0", LF>>),
    Call(<<"%", "d", "%", "%", "%", "u">>, <<7, 20>>, <<"7", "%", "2", "0">>),
    Call(<<"%", "c", "%", "X", "%">>, <<"c", 15>>, <<"c", "F", "%">>)>>

(* What handle_exception prints, shortened: its first line, the error code *)
(* if there is one, the end of the line.                                   *)
ShortReports ==
  LET name == Call(<<LF, "%", "i">>, <<6>>, <<LF, "6">>)
      code == Call(<<"%", "x">>, <<3>>, <<"3">>)
      end  == Call(<<LF>>, <<>>, <<LF>>)
  IN  <<<<name, end>>, <<name, code>>>>

=============================================================================
