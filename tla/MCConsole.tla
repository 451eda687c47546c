------------------------------ MODULE MCConsole ------------------------------
(***************************************************************************)
(* Console with an unsigned int of 16 values and an unsigned long of 256,  *)
(* a tbuf of 6 bytes, and devices with a FIFO of two characters.           *)
(***************************************************************************)
EXTENDS Console


Char(c) == [conv |-> <<>>, val |-> c]
Arg(flags, width, conv, val) == [conv |-> conv, flags |-> flags, width |-> width, val |-> val]

Decimal(n) == <<"0","1","2","3","4","5","6","7","8","9">>[n + 1]

Spelled(i) ==
  IF i.conv = <<>> THEN IF i.val = "%" THEN <<"%", "%">> ELSE <<i.val>>
  ELSE <<"%">> \o (IF "right" \in i.flags THEN <<"-">> ELSE <<>>)
              \o (IF "alternate" \in i.flags THEN <<"#">> ELSE <<>>)
              \o (IF "zero" \in i.flags THEN <<"0">> ELSE <<>>)
              \o (IF i.width > 9 THEN <<Decimal(i.width \div 10)>> ELSE <<>>)
              \o (IF i.width > 0 THEN <<Decimal(i.width % 10)>> ELSE <<>>)
              \o i.conv

CallOf(fn, items, size) ==
  LET args == SelectSeq(items, LAMBDA i : i.conv # <<>>)
      pieces == [n \in 1 .. Len(items) |->
                   IF fn \in {"puts", "putc"} THEN <<items[n].val>> ELSE Spelled(items[n])]
  IN [fn |-> fn, items |-> items, size |-> size,
      format |-> FlattenSeq(pieces),
      args |-> [n \in 1 .. Len(args) |-> args[n].val],
      at |-> FoldLeft(LAMBDA s, p : Append(s, Last(s) + Len(p)), <<1>>, pieces),
      slots |-> FoldLeft(LAMBDA s, i : Append(s, IF i.conv = <<>> THEN Last(s) ELSE Last(s) + 1),
                         <<1>>, items)]

Chars(s) == [n \in 1 .. Len(s) |-> Char(s[n])]

Flags == SUBSET {"right", "alternate", "zero"}

IntConvs == {<<"d">>, <<"i">>, <<"x">>, <<"X">>, <<"u">>}
LongConvs == {<<"p">>, <<"P">>, <<"l", "u">>, <<"l", "x">>, <<"l", "X">>, <<"l", "d">>,
              <<"l", "l", "u">>, <<"l", "l", "x">>, <<"l", "l", "X">>, <<"l", "l", "d">>}

(* One conversion, with each flag and a width that matters or does not. *)
Single ==
  {Arg(f, w, c, v) : f \in Flags, w \in {0, 1, 4}, c \in IntConvs, v \in {0, 5, 10, 28}}
  \union {Arg(f, w, c, v) : f \in Flags, w \in {0, 5}, c \in LongConvs, v \in {0, 128, 254}}
  \union {Arg(f, w, <<"s">>, v) : f \in {{}, {"right"}}, w \in {0, 1, 10}, v \in {<<>>, <<"a", "b">>, NULL}}
  \union {Arg(f, w, <<"c">>, "a") : f \in {{}, {"right"}}, w \in {0, 2}}

(* Conversions that follow one another: what acnt makes of "ll". *)
Few == {Arg({}, 0, c, v) : c \in {<<"d">>, <<"l", "u">>, <<"l", "x">>, <<"l", "l", "u">>}, v \in {7, 200}}

NoDevice == [device |-> "none"]

(* A format with something behind the text of its items. *)
Ends(c, tail) == [c EXCEPT !.format = @ \o tail]

FormatBoots ==
  {[port |-> NoDevice, calls |-> <<Ends(CallOf("sprintf", Chars(<<"a">>), 0), t)>>] :
     t \in {<<"%">>, <<"%", "q">>}}
  \union {[port |-> NoDevice, calls |-> <<CallOf("sprintf", <<i>>, 0)>>] : i \in Single}
  \union {[port |-> NoDevice, calls |-> <<CallOf("sprintf", <<Char("%"), i, j>>, 0)>>] : i \in Few, j \in Few}
  \union {[port |-> NoDevice, calls |-> <<CallOf("sprintf", <<i, j, k>>, 0)>>] : i \in Few, j \in Few,
            k \in {Arg({}, 0, <<"l", "l", "x">>, 90)}}

(* Every size around the length of the text. *)
SizeBoots ==
  {[port |-> NoDevice, calls |-> <<CallOf("snprintf", t, z)>>] :
     z \in 0 .. 6, t \in {<<>>, Chars(<<"a", "b">>) \o <<Arg({}, 0, <<"d">>, 5)>>,
                          <<Arg({}, 4, <<"d">>, 13)>> \o Chars(<<"c">>)}}

Devices ==
  Uart!Ports({0, 48}, {1, 16}) \union Cadence!Ports({0, 48}, {1})
  \union Mailbox!Ports({32, 64}) \union Trap!Ports({3, -1}, {0, 2}) \union {NoDevice}

(* Texts that fit tbuf with room, just, and not; a message that ends in a   *)
(* panic; the other ways to the device.                                     *)
Scripts ==
  {<<CallOf("printf", Chars(<<"a", "\n">>) \o <<Arg({}, 0, <<"d">>, 5)>> \o Chars(<<"b">>), 0),
     CallOf("puts", Chars(<<"c", "\n">>), 0)>>,
   <<CallOf("printf", Chars(<<"a", "b", "c", "d", "e">>), 0), CallOf("putc", Chars(<<"\n">>), 0)>>,
   <<CallOf("printf", Chars(<<"a", "b", "c", "d", "e", "f", "g", "h">>), 0)>>,
   <<CallOf("printf", <<Arg({}, 9, <<"s">>, <<"a">>), Char("b")>>, 0)>>,
   <<CallOf("puts", Chars(<<"a", "b", "\n", "\n">>), 0), CallOf("putc", Chars(<<"c">>), 0),
     CallOf("snprintf", <<Arg({"zero"}, 5, <<"l", "x">>, 28)>>, 9),
     CallOf("printf", Chars(<<"\n", "\n">>) \o <<Arg({}, 0, <<"l", "u">>, 28)>>, 0)>>,
   <<CallOf("panic", Chars(<<"a">>) \o <<Arg({}, 3, <<"c">>, "\n")>>, 0), CallOf("puts", Chars(<<"b">>), 0)>>}

DeviceBoots == {[port |-> p, calls |-> s] : p \in Devices, s \in Scripts}

MCBoots == FormatBoots \union SizeBoots \union DeviceBoots
=============================================================================
