------------------------------ MODULE NgxLog -------------------------------
(***************************************************************************)
(* The log of nginx: ngx_log_stderr and ngx_log_error_core put one line    *)
(* together in a buffer of NGX_MAX_LOG_STR characters, ngx_vslprintf       *)
(* formatting it directive by directive, and write it to stderr or to the  *)
(* log file.  One call runs at a time: handlers of signals use printf.     *)
(*                                                                         *)
(* Text is a sequence of characters; a double is a number of thousandths.  *)
(* A call has a format and arguments, which the code sees, and the items   *)
(* they are made of, each with the text that it asks for and the text that *)
(* ngx_vslprintf prints for it, which only the properties see (Fits).      *)
(* ngx_log_error_core formats its prefix and the caller's message in two   *)
(* calls of ngx_vslprintf one after the other, here one format.            *)
(***************************************************************************)
EXTENDS Integers, Sequences

CONSTANTS
  MaxLogStr,             \* NGX_MAX_LOG_STR
  ShortMax,              \* the largest uint16_t
  Calls,                 \* what may be logged: [fn, level, err, fmt, args, items];
                         \*   CallAssumption says which items make a call
  OpenFailed,            \* the call that reports that the log cannot be opened
  ConfLevels,            \* what GetIntDefault("loglevel", NGX_LOG_NOTICE) may be
  Time, LevelName, Pid,  \* of the prefix of a line, LevelName[level] its name
  ErrText,               \* "(", the number, strerror and ")"
  MaxCalls               \* bound: calls made

Fns == {"stderr", "core"}

ASSUME LogAssumption ==
  /\ MaxLogStr \in Nat /\ ShortMax \in Nat /\ Pid \in Nat /\ MaxCalls \in Nat
  /\ Time \in Seq(STRING) /\ Len(Time) <= MaxLogStr /\ 7 <= MaxLogStr
  /\ ErrText \in Seq(STRING) /\ ConfLevels \subseteq Int
  /\ \A c \in Calls \cup {OpenFailed} : c.fn \in Fns /\ c.level \in Int
  /\ OpenFailed.fn = "stderr"

VARIABLES
  fd,                    \* ngx_log.fd: "stdin" is 0, before ngx_log_init
  logLevel,              \* ngx_log.log_level
  disk,                  \* "fine", "full" or "broken": what a write to the file meets
  tty,                   \* stderr can be written
  pc,                    \* where the call that runs is, the last of made
  buf,                   \* errstr, as far as p
  fmt, args,             \* what is left of the format and of the arguments
  made,                  \* the calls made
  lines                  \* the lines written, wherever they went, each of a call of made

env  == <<disk, tty>>
conf == <<fd, logLevel>>
vars == <<env, conf, pc, buf, fmt, args, made, lines>>

Init ==
  /\ fd = "stdin" /\ logLevel = 0
  /\ disk = "fine" /\ tty \in BOOLEAN
  /\ pc = "idle"
  /\ buf = <<>> /\ fmt = <<>> /\ args = <<>>
  /\ made = <<>> /\ lines = <<>>

call == made[Len(made)]

-----------------------------------------------------------------------------
(* Characters and numbers. *)

Decimals == <<"0", "1", "2", "3", "4", "5", "6", "7", "8", "9">>
hex == Decimals \o <<"a", "b", "c", "d", "e", "f">>
HEX == Decimals \o <<"A", "B", "C", "D", "E", "F">>

Digit == {Decimals[i] : i \in 1 .. 10}

Digits(n, base, digit) ==
  LET D[m \in Nat] == IF m < base THEN <<digit[m + 1]>>
                      ELSE Append(D[m \div base], digit[(m % base) + 1])
  IN D[n]

LeadingDigits(s) ==
  LET first == {i \in DOMAIN s : s[i] \notin Digit}
  IN IF first = {} THEN s ELSE SubSeq(s, 1, (CHOOSE i \in first : \A j \in first : i <= j) - 1)

After(s, n) == SubSeq(s, n + 1, Len(s))

Number(s) ==
  LET N[i \in 0 .. Len(s)] ==
        IF i = 0 THEN 0 ELSE 10 * N[i - 1] + (CHOOSE d \in 1 .. 10 : Decimals[d] = s[i]) - 1
  IN N[Len(s)]

Upto(s, n) == IF Len(s) > n THEN SubSeq(s, 1, n) ELSE s

\* scale of ngx_vslprintf: 10 for each digit of the precision.
Scale[n \in Nat] == IF n = 0 THEN 1 ELSE 10 * Scale[n - 1]

Padded(digits, zero, width) == [i \in 1 .. width - Len(digits) |-> zero] \o digits

\* Mutant: the digits are copied whether they fit or not.
NumUncut(b, digits, zero, width) == b \o Padded(digits, zero, width)

\* ngx_printf_num: blanks or zeros to the width, then the digits, as far as last.
Num(b, digits, zero, width) == Upto(b \o Padded(digits, zero, width), MaxLogStr)

-----------------------------------------------------------------------------
(* ngx_vslprintf: a turn of its loop is an action. *)

Looping == pc = "format" /\ fmt # <<>> /\ Len(buf) < MaxLogStr

Literal ==
  /\ Looping /\ fmt[1] # "%"
  /\ buf' = Append(buf, fmt[1]) /\ fmt' = Tail(fmt)
  /\ UNCHANGED <<env, conf, pc, args, made, lines>>

\* The second '%' is not passed: it begins the next turn.
Percent ==
  /\ Looping /\ fmt[1] = "%" /\ Len(fmt) > 1 /\ fmt[2] = "%"
  /\ buf' = Append(buf, "%") /\ fmt' = Tail(fmt)
  /\ UNCHANGED <<env, conf, pc, args, made, lines>>

\* Of a format that begins with '%': what fills a number, how many digits its
\* width has, and what stands behind them.
ZeroOf(f)  == IF Len(f) > 1 /\ f[2] = "0" THEN "0" ELSE " "
WidthOf(f) == LeadingDigits(Tail(f))
ConvOf(f)  == After(Tail(f), Len(WidthOf(f)))

zero  == ZeroOf(fmt)
width == Number(WidthOf(fmt))
conv  == ConvOf(fmt)

Letters == {"d", "x", "X", "u", "P", "s", ".", "f"}

IsDirective == Looping /\ fmt[1] = "%" /\ ~(Len(fmt) > 1 /\ fmt[2] = "%")

Directive(letters) == IsDirective /\ conv # <<>> /\ conv[1] \in letters

\* The directive has put b, and taken an argument.
Put(b, rest) ==
  /\ buf' = b /\ fmt' = rest /\ args' = Tail(args)
  /\ UNCHANGED <<env, conf, pc, made, lines>>

Sign(n) == IF n < 0 THEN <<"-">> ELSE <<>>
Abs(n)  == IF n < 0 THEN -n ELSE n

Signed == buf \o Sign(args[1])
Magnitude == Abs(args[1])

Decimal ==
  /\ Directive({"d"})
  /\ Put(Num(Signed, Digits(Magnitude, 10, Decimals), zero, width), Tail(conv))

Hex ==
  /\ Directive({"x", "X"})
  /\ LET digits == Digits(Magnitude, 16, IF conv[1] = "x" THEN hex ELSE HEX)
     IN Put(Num(Signed, digits, zero, width), Tail(conv))

\* A negative argument, which would wrap, is not passed to %u or %P.
Unsigned ==
  /\ Directive({"u", "P"}) /\ args[1] >= 0
  /\ Put(Num(buf, Digits(args[1], 10, Decimals), zero, width), Tail(conv))

Text ==
  /\ Directive({"s"})
  /\ Put(Upto(buf \o args[1], MaxLogStr), Tail(conv))

PrecisionOf(v) == IF v[1] = "." THEN LeadingDigits(Tail(v)) ELSE <<>>

fracDigits == PrecisionOf(conv)
afterFloat == IF conv[1] = "." THEN After(conv, Len(fracDigits) + 2) ELSE Tail(conv)

WholeFloat ==
  /\ Directive({".", "f"}) /\ Number(fracDigits) = 0
  /\ Put(Num(Signed, Digits(Magnitude \div 1000, 10, Decimals), zero, width), afterFloat)

\* The thousandths of x, rounded to so many digits that their scale is s.
Rounded(x, s) == ((Abs(x) % 1000) * s + 500) \div 1000

\* A fraction that is rounded up to 1 is carried, but not past 16 bits.
CarryOf(x, s) == s <= ShortMax /\ Rounded(x, s) = s
WholeOf(x, s) == Abs(x) \div 1000 + IF CarryOf(x, s) THEN 1 ELSE 0
FracOf(x, s)  == Digits(IF CarryOf(x, s) THEN 0 ELSE Rounded(x, s), 10, Decimals)

\* What fills both parts.
FillOf(f, x, s) == IF CarryOf(x, s) THEN "0" ELSE ZeroOf(f)

\* The '.' is put without a test; behind last the length that is left is -1, and
\* memcpy crashes.
Float ==
  /\ Directive({"."}) /\ Number(fracDigits) > 0
  /\ LET n == Number(fracDigits)
         scale == Scale[n]
         fill == FillOf(fmt, args[1], scale)
         point == Append(Num(Signed, Digits(WholeOf(args[1], scale), 10, Decimals), fill, width), ".")
     IN IF Len(point) > MaxLogStr
        THEN /\ pc' = "crashed"
             /\ UNCHANGED <<env, conf, buf, fmt, args, made, lines>>
        ELSE Put(Num(point, FracOf(args[1], scale), fill, n), afterFloat)

\* Mutant: an unknown directive is not passed.
UnknownStays ==
  /\ IsDirective /\ (conv # <<>> => conv[1] \notin Letters)
  /\ UNCHANGED vars

\* Of an unknown directive '%' and the width are passed, and no argument is taken.
Unknown ==
  /\ IsDirective /\ (conv # <<>> => conv[1] \notin Letters)
  /\ fmt' = conv
  /\ UNCHANGED <<env, conf, pc, buf, args, made, lines>>

-----------------------------------------------------------------------------
(* The calls. *)

Begin(c, b, f, a) ==
  /\ Len(made) < MaxCalls
  /\ pc' = "format" /\ buf' = b /\ fmt' = f /\ args' = a
  /\ made' = Append(made, c)
  /\ UNCHANGED <<env, lines>>

Greeting == <<"n", "g", "i", "n", "x", ":", " ">>

ngx_log_stderr(c) ==
  /\ pc = "idle" /\ fd # "closed" /\ c.fn = "stderr"
  /\ Begin(c, Greeting, c.fmt, c.args)
  /\ UNCHANGED conf

\* ngx_log_init: level, then file; if it cannot be opened stderr takes its place.
ngx_log_init(level) ==
  /\ pc = "idle" /\ fd = "stdin"
  /\ logLevel' = level
  /\ \/ fd' = "file" /\ UNCHANGED <<env, pc, buf, fmt, args, made, lines>>
     \/ fd' = "stderr" /\ Begin(OpenFailed, Greeting, OpenFailed.fmt, OpenFailed.args)

Preamble == <<" ", "[", "%", "s", "]", " ", "%", "P", ":">>

ngx_log_error_core(c) ==
  /\ pc = "idle" /\ fd \in {"file", "stderr"} /\ c.fn = "core"
  /\ IF c.level > logLevel
     THEN /\ Len(made) < MaxCalls
          /\ made' = Append(made, c)
          /\ UNCHANGED <<env, pc, buf, fmt, args, lines>>
     ELSE Begin(c, Time, Preamble \o c.fmt, <<LevelName[c.level], Pid>> \o c.args)
  /\ UNCHANGED conf

\* ngx_log_errno: all or nothing.
WithErrno(b, err) ==
  IF err # 0 /\ Len(b) + Len(ErrText) < MaxLogStr THEN b \o ErrText ELSE b

\* Mutant: a full line gets its newline after the last character.
LineUncut(b) == Append(Upto(b, MaxLogStr), "\n")

\* p never passes last with the newline.
Line(b) == Append(Upto(b, MaxLogStr - 1), "\n")

\* ngx_log_error_core puts the text of errno behind its newline, and does not
\* count it: it is never written.
Finish ==
  /\ pc = "format" /\ (fmt = <<>> \/ Len(buf) >= MaxLogStr)
  /\ buf' = Line(IF call.fn = "stderr" THEN WithErrno(buf, call.err) ELSE buf)
  /\ pc' = "write"
  /\ UNCHANGED <<env, conf, fmt, args, made, lines>>

Done == pc' = "idle" /\ UNCHANGED <<env, conf, buf, fmt, args, made>>

Written == lines' = Append(lines, [call |-> Len(made), text |-> buf])

WriteStderr ==
  /\ pc = "write" /\ call.fn = "stderr"
  /\ IF tty THEN Written ELSE UNCHANGED lines
  /\ Done

\* Mutant: what the file does not take is lost.
WriteCoreOnce ==
  /\ pc = "write" /\ call.fn = "core"
  /\ IF (fd = "file" /\ disk = "fine") \/ (fd = "stderr" /\ tty)
     THEN Written ELSE UNCHANGED lines
  /\ Done

\* What the file does not take goes to stderr, unless the disk is full.
WriteCore ==
  /\ pc = "write" /\ call.fn = "core"
  /\ IF \/ fd = "file" /\ disk = "fine"
        \/ fd = "file" /\ disk = "broken" /\ tty
        \/ fd = "stderr" /\ tty
     THEN Written ELSE UNCHANGED lines
  /\ Done

\* freeresource, before main returns.
FreeLog ==
  /\ pc = "idle" /\ fd \in {"stdin", "file"}
  /\ fd' = "closed"
  /\ UNCHANGED <<env, logLevel, pc, buf, fmt, args, made, lines>>

\* It matters to a call only when it writes.
DiskFails ==
  /\ pc = "write" /\ disk = "fine" /\ disk' \in {"full", "broken"}
  /\ UNCHANGED <<tty, conf, pc, buf, fmt, args, made, lines>>

vslprintf ==
  Literal \/ Percent \/ Decimal \/ Hex \/ Unsigned \/ Text \/ WholeFloat \/ Float \/ Unknown

InCall == vslprintf \/ Finish \/ WriteStderr \/ WriteCore

Next ==
  \/ InCall
  \/ \E c \in Calls : ngx_log_stderr(c) \/ ngx_log_error_core(c)
  \/ \E level \in ConfLevels : ngx_log_init(level)
  \/ FreeLog \/ DiskFails

Spec == Init /\ [][Next]_vars

\* A call that was made runs.
FairSpec == Spec /\ WF_vars(InCall)

-----------------------------------------------------------------------------
(* What a call asks for, and what is printed for it. *)

Item(f, a, t) == [fmt |-> f, args |-> a, text |-> t, printed |-> t]

\* The items of a line, those of the preamble of ngx_log_error_core included.
Items(c) ==
  IF c.fn = "stderr" THEN c.items
  ELSE << Item(<<" ", "[">>, <<>>, <<" ", "[">>),
          Item(<<"%", "s">>, <<LevelName[c.level]>>, LevelName[c.level]),
          Item(<<"]", " ">>, <<>>, <<"]", " ">>),
          Item(<<"%", "P">>, <<Pid>>, Digits(Pid, 10, Decimals)),
          Item(<<":">>, <<>>, <<":">>) >> \o c.items

Format(c) == IF c.fn = "stderr" THEN c.fmt ELSE Preamble \o c.fmt
Arguments(c) == IF c.fn = "stderr" THEN c.args ELSE <<LevelName[c.level], Pid>> \o c.args

\* From each item on: what is left of the format and of the arguments.
FormatFrom(its) ==
  LET F[i \in 1 .. Len(its) + 1] == IF i = Len(its) + 1 THEN <<>> ELSE its[i].fmt \o F[i + 1] IN F

ArgumentsFrom(its) ==
  LET A[i \in 1 .. Len(its) + 1] == IF i = Len(its) + 1 THEN <<>> ELSE its[i].args \o A[i + 1] IN A

\* Before each part: the start and the parts that went before.
Before(start, parts) ==
  LET T[i \in 1 .. Len(parts) + 1] == IF i = 1 THEN start ELSE T[i - 1] \o parts[i - 1] IN T

Start(c) == IF c.fn = "stderr" THEN Greeting ELSE Time

TextBefore(c)    == Before(Start(c), [i \in 1 .. Len(Items(c)) |-> Items(c)[i].text])
PrintedBefore(c) == Before(Start(c), [i \in 1 .. Len(Items(c)) |-> Items(c)[i].printed])

Asked(c) == TextBefore(c)[Len(Items(c)) + 1]

\* The error is told where its text fits in the line whole.
Told(c) == c.err # 0 /\ Len(Asked(c)) + Len(ErrText) < MaxLogStr

\* The line: what is asked for, cut to the buffer less the newline.
Expected(c, told) ==
  Upto(IF told THEN Asked(c) \o ErrText ELSE Asked(c), MaxLogStr - 1) \o <<"\n">>

\* What an item may be.
IsPlain(s) == \A i \in DOMAIN s : s[i] # "%"

PlainFits(it) ==
  it.args = <<>> /\ it.fmt # <<>> /\ IsPlain(it.fmt) /\ it.text = it.fmt /\ it.printed = it.text

\* Of an unknown directive only what follows the width is printed; it follows a
\* '%' that was printed, or ends the format, or its letter is printed too.
UnknownFits(it, last) ==
  /\ it.args = <<>> /\ it.fmt # <<>> /\ it.fmt[1] = "%"
  /\ ConvOf(it.fmt) = it.text /\ IsPlain(it.text) /\ it.printed = it.text
  /\ IF it.text = <<>> THEN last ELSE it.text[1] \notin Letters

PercentFits(it, last) ==
  /\ it.args = <<>> /\ Len(it.fmt) > 1 /\ it.fmt[1] = "%" /\ it.fmt[2] = "%"
  /\ it.text = Tail(it.fmt) /\ it.printed = it.text
  /\ UnknownFits(Item(Tail(it.fmt), <<>>, Tail(it.text)), last)

IsOne(it, letters) ==
  /\ it.fmt # <<>> /\ it.fmt[1] = "%" /\ it.args # <<>> /\ it.args = <<it.args[1]>>
  /\ ConvOf(it.fmt) # <<>> /\ ConvOf(it.fmt)[1] \in letters

\* A number in its width: zeros stand behind the sign, blanks before it.
InWidth(n, digits, z, w) ==
  IF z = "0" THEN Sign(n) \o Padded(digits, z, w - Len(Sign(n))) ELSE Padded(Sign(n) \o digits, z, w)

DigitsOf(letter, n) ==
  Digits(Abs(n), IF letter \in {"x", "X"} THEN 16 ELSE 10,
         CASE letter = "x" -> hex [] letter = "X" -> HEX [] OTHER -> Decimals)

NumberFits(it) ==
  /\ IsOne(it, {"d", "x", "X", "u", "P"}) /\ Len(ConvOf(it.fmt)) = 1 /\ it.args[1] \in Int
  /\ LET letter == ConvOf(it.fmt)[1]
         n == it.args[1]
         z == ZeroOf(it.fmt)
         w == Number(WidthOf(it.fmt))
     IN /\ n < 0 => letter \notin {"u", "P"}
        /\ it.text = InWidth(n, DigitsOf(letter, n), z, w)
        /\ it.printed = Sign(n) \o Padded(DigitsOf(letter, n), z, w)

\* A width is for numbers (ngx_printf.cxx:18).
TextFits(it) ==
  /\ IsOne(it, {"s"}) /\ it.fmt = <<"%", "s">> /\ it.args[1] \in Seq(STRING)
  /\ it.text = it.args[1] /\ it.printed = it.text

\* %f is the whole part, %.nf rounded to n digits; the width is that of the whole part.
FloatFits(it) ==
  /\ IsOne(it, {".", "f"}) /\ it.args[1] \in Int
  /\ LET x == it.args[1]
         v == ConvOf(it.fmt)
         n == Number(PrecisionOf(v))
         scale == Scale[n]
         z == ZeroOf(it.fmt)
         w == Number(WidthOf(it.fmt))
         fill == FillOf(it.fmt, x, scale)
         up == Rounded(x, scale) = scale
         whole == Digits(Abs(x) \div 1000 + IF n > 0 /\ up THEN 1 ELSE 0, 10, Decimals)
         frac == Digits(IF up THEN 0 ELSE Rounded(x, scale), 10, Decimals)
     IN \/ /\ v = <<"f">>
           /\ it.text = InWidth(x, whole, z, w)
           /\ it.printed = Sign(x) \o Padded(whole, z, w)
        \/ /\ v = <<".">> \o PrecisionOf(v) \o <<"f">> /\ n > 0
           /\ it.text = InWidth(x, whole, z, w) \o <<".">> \o Padded(frac, "0", n)
           /\ it.printed = Sign(x) \o Padded(Digits(WholeOf(x, scale), 10, Decimals), fill, w)
                           \o <<".">> \o Padded(FracOf(x, scale), fill, n)

Fits(it, last) ==
  \/ PlainFits(it) \/ UnknownFits(it, last) \/ PercentFits(it, last)
  \/ NumberFits(it) \/ TextFits(it) \/ FloatFits(it)

\* The format and the arguments of a call are those of its items.
ASSUME CallAssumption ==
  \A c \in Calls \cup {OpenFailed} :
    LET its == Items(c)
    IN /\ its \in Seq({its[i] : i \in DOMAIN its})
       /\ \A i \in DOMAIN its : /\ its[i].fmt \in Seq(STRING) /\ its[i].text \in Seq(STRING)
                              /\ its[i].printed \in Seq(STRING) /\ Fits(its[i], i = Len(its))
       /\ FormatFrom(its)[1] = Format(c) /\ ArgumentsFrom(its)[1] = Arguments(c)

-----------------------------------------------------------------------------
(* Where the code prints something else than what is asked for. *)

\* The sign is put before the blanks or zeros of the width, and not counted
\* (ngx_printf.cxx:44, 64 and 97).
SignFirst(it) == (NumberFits(it) \/ FloatFits(it)) /\ it.args[1] < 0 /\ Number(WidthOf(it.fmt)) > 0

\* A float with a precision.
HasFraction(it) == FloatFits(it) /\ ConvOf(it.fmt)[1] = "."

Precision(it) == Number(PrecisionOf(ConvOf(it.fmt)))

\* A fraction that begins with 0 is filled with blanks, as its width is
\* (ngx_printf.cxx:80).
LosesZeros(it) ==
  /\ HasFraction(it) /\ ZeroOf(it.fmt) # "0"
  /\ Len(FracOf(it.args[1], Scale[Precision(it)])) < Precision(it)

\* A carry fills the width with zeros too, and past 16 bits it is missed
\* (ngx_printf.cxx:73-76).
Miscarries(it) ==
  /\ HasFraction(it) /\ Rounded(it.args[1], Scale[Precision(it)]) = Scale[Precision(it)]
  /\ Number(WidthOf(it.fmt)) > 0 \/ Scale[Precision(it)] > ShortMax

\* The text of errno goes behind the newline, and is not counted (ngx_log.cxx:120).
LosesErrno(c) == c.fn = "core" /\ Told(c)

-----------------------------------------------------------------------------
(* The properties. *)

TypeOK ==
  /\ fd \in {"stdin", "file", "stderr", "closed"} /\ logLevel \in ConfLevels \cup {0}
  /\ disk \in {"fine", "full", "broken"} /\ tty \in BOOLEAN
  /\ pc \in {"idle", "format", "write", "crashed"}
  /\ Len(lines) <= Len(made) /\ Len(made) <= MaxCalls

\* A line is what its call asks for, cut to the buffer less the newline, which it
\* always has, with errno whole or not at all; but for the errors above, each of
\* which spoils its own call and, if it is that of errno, nothing else of it.
LineFaithful ==
  \A i \in DOMAIN lines :
    LET c == made[lines[i].call]
    IN \/ lines[i].text = Expected(c, Told(c))
       \/ LosesErrno(c) /\ lines[i].text = Expected(c, FALSE)
       \/ \E k \in DOMAIN Items(c) :
            LET it == Items(c)[k] IN SignFirst(it) \/ LosesZeros(it) \/ Miscarries(it)

\* The point of a float that begins in the buffer is due at its end or behind.
PointBehind(c) ==
  \E i \in DOMAIN Items(c) :
    LET it == Items(c)[i]
        before == Len(PrintedBefore(c)[i])
    IN /\ FloatFits(it) /\ before < MaxLogStr
       /\ \E k \in DOMAIN it.printed : it.printed[k] = "." /\ before + k > MaxLogStr

\* Whatever is printed, the buffer is left only at such a point (ngx_printf.cxx:79):
\* pads, numbers, texts, fractions and errno stop at its end.
OverrunOnlyAtPoint == Len(buf) <= MaxLogStr /\ (pc = "crashed" => PointBehind(call))

\* ngx_printf.cxx:177: the buffer is never overrun.
NeverOverrun == pc # "crashed"

\* While stderr can be written and the disk is not full, every call at a level
\* that is logged leaves its line, once and in order, wherever it is written.
EveryLineOnce ==
  LET Logged(i) == made[i].fn = "stderr" \/ made[i].level <= logLevel
      due == IF pc = "idle" THEN Len(made) ELSE Len(made) - 1
  IN tty /\ disk # "full" =>
       /\ {lines[i].call : i \in DOMAIN lines} = {i \in 1 .. due : Logged(i)}
       /\ \A i, j \in DOMAIN lines : i < j => lines[i].call < lines[j].call

\* A call returns, whatever its format, or crashes as above.
CallReturns == pc = "format" ~> pc \in {"idle", "crashed"}
=============================================================================
