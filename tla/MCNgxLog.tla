------------------------------ MODULE MCNgxLog -----------------------------
(* The calls that NgxLog is checked with: those of ngx_test/test_02_06.cpp  *)
(* and of the program, cut down, behind texts that move them to the end of  *)
(* the buffer.                                                              *)
EXTENDS NgxLog, SequencesExt

Plain ==
  { Item(<<"%", "d">>, <<-326>>, <<"-", "3", "2", "6">>),
    Item(<<"%", "4", "d">>, <<21>>, <<" ", " ", "2", "1">>),
    Item(<<"%", "0", "2", "d">>, <<6>>, <<"0", "6">>),
    Item(<<"%", "f">>, <<21378>>, <<"2", "1">>),
    Item(<<"%", "x">>, <<1678>>, <<"6", "8", "e">>),
    Item(<<"%", "X">>, <<-1678>>, <<"-", "6", "8", "E">>),
    Item(<<"%", "u">>, <<789>>, <<"7", "8", "9">>),
    Item(<<"%", "s">>, <<<<"Y", "Y", "Y", "Y">>>>, <<"Y", "Y", "Y", "Y">>),
    Item(<<"%", "%", "a">>, <<>>, <<"%", "a">>),
    Item(<<"%", "q">>, <<>>, <<"q">>) }

\* At the end of a format nothing follows the second '%'.
Ninety == Item(<<"%", "%">>, <<>>, <<"%">>)

Misprint(f, a, t, p) == [Item(f, a, t) EXCEPT !.printed = p]

Carried == Item(<<"%", ".", "2", "f">>, <<3996>>, <<"4", ".", "0", "0">>)
Floats ==
  { Carried,
    Item(<<"%", ".", "2", "f">>, <<12999>>, <<"1", "3", ".", "0", "0">>),
    Item(<<"%", ".", "6", "f">>, <<-1378>>, <<"-", "1", ".", "3", "7", "8", "0", "0", "0">>),
    Item(<<"%", "3", ".", "1", "f">>, <<1260>>, <<" ", " ", "1", ".", "3">>) }

\* A fraction that begins with 0.
Zeros == Misprint(<<"%", ".", "2", "f">>, <<21050>>, <<"2", "1", ".", "0", "5">>, <<"2", "1", ".", " ", "5">>)

\* The width of a negative number, and of a float that is carried.
Widths ==
  { Misprint(<<"%", "4", "d">>, <<-21>>, <<" ", "-", "2", "1">>, <<"-", " ", " ", "2", "1">>),
    Misprint(<<"%", "0", "3", "x">>, <<-10>>, <<"-", "0", "a">>, <<"-", "0", "0", "a">>),
    Misprint(<<"%", "2", ".", "1", "f">>, <<3960>>, <<" ", "4", ".", "0">>, <<"0", "4", ".", "0">>) }

DottedText == Item(<<"%", "s">>, <<<<"a", "b", "c", "d", "e", ".">>>>, <<"a", "b", "c", "d", "e", ".">>)

Lead(k) == LET a == [i \in 1 .. k |-> "a"] IN Item(a, <<>>, a)

Call(fn, level, err, items) ==
  [fn |-> fn, level |-> level, err |-> err, items |-> items,
   fmt |-> FlattenSeq([i \in DOMAIN items |-> items[i].fmt]),
   args |-> FlattenSeq([i \in DOMAIN items |-> items[i].args])]

MCCalls ==
  {Call("stderr", 0, 0, <<Lead(3), d, Lead(1)>>) : d \in Plain \cup Widths}
    \cup {Call("stderr", 0, 0, <<Lead(k), d, Lead(1)>>) : k \in {4, 5, 6}, d \in Floats \cup {Zeros}}
    \cup {Call("stderr", 0, 15, <<Lead(k)>>) : k \in {2, 3}}
    \cup {Call("stderr", 0, 0, <<Lead(2), Ninety>>), Call("stderr", 0, 0, <<Carried, Lead(1)>>),
          Call("stderr", 0, 0, <<Zeros, Lead(1)>>),
          Call("core", 4, 0, <<DottedText>>), Call("core", 8, 5, <<Lead(1)>>),
          Call("core", 4, 5, <<Lead(7)>>), Call("core", 4, 0, <<Lead(4), Carried>>),
          Call("core", 4, 0, <<Carried, Lead(2)>>), Call("core", 4, 5, <<>>)}

MCOpenFailed == Call("stderr", 0, 2, <<Lead(1), CHOOSE d \in Plain : d.fmt = <<"%", "s">>>>)

MCLevelName == [l \in 0 .. 8 |-> <<"e">>]

MCTime == <<"T">>

MCErrText == <<"(", "5", "E", ")">>
=============================================================================
