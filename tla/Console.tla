-------------------------------- MODULE Console --------------------------------
(***************************************************************************)
(* firmware/console.c: the printf family, putc, puts and nputs, above the  *)
(* device that zstage_console_set_device took.  A step of the hart is one  *)
(* turn of a loop: one directive of print, one printc, one character of    *)
(* nputs, one access of the driver; the device runs on its own.            *)
(*                                                                         *)
(* A char is a string of length one, NUL ends a format.  An argument is a  *)
(* slot of the va_list as LP64 has it: a word of a register, cut by        *)
(* va_arg, or a string.  A call says beside its format and its arguments   *)
(* what they spell: its items, at is where in the format each begins,      *)
(* slots its first argument.  The code reads none of the three.  Formats   *)
(* are complete: but for a last "%" none ends within a directive.          *)
(***************************************************************************)
EXTENDS Integers, SequencesExt

CONSTANTS
  Boots,           \* the device, and the calls that are made one after the other
  PRINT_TBUF_MAX,  \* the size of tbuf
  UInt, ULong,     \* the number of values of an unsigned int and an unsigned long
  U8, Depth        \* of the devices

ASSUME ConsoleAssumption ==
  /\ PRINT_TBUF_MAX \in Nat /\ PRINT_TBUF_MAX > 1
  /\ \A b \in Boots : /\ DOMAIN b.calls = 1 .. Len(b.calls)
                      /\ \A n \in DOMAIN b.calls : /\ b.calls[n].size \in Nat
                                                   /\ b.calls[n].format \in Seq(STRING)
  /\ UInt \in Nat /\ UInt % 2 = 0 /\ UInt > 0 /\ ULong \in Nat /\ UInt <= ULong
  /\ Depth \in Nat /\ Depth > 0

VARIABLES
  boot,            \* frozen
  done,            \* how many calls have returned
  pc,              \* where console.c is
  pos, arg, acnt,  \* print: the format, the next slot of args, the bytes taken
  count,           \* print: pc, what it returns
  text,            \* what prints still has to give to printc
  mem,             \* what the call has written, by distance from the start of the buffer
  out, out_len,    \* the next char to write in it, and *out_len
  todo,            \* what nputs or putc still has to give to the driver
  drv, port,       \* the driver and the device
  asked, shown     \* what the driver was asked to write, and what came out

printVars == <<pos, arg, acnt, count, text, mem, out, out_len>>
wireVars == <<drv, port, asked, shown>>
vars == <<boot, done, pc, printVars, todo, wireVars>>

Uart == INSTANCE Uart8250
Cadence == INSTANCE CadenceUart
Mailbox == INSTANCE Htif
Trap == INSTANCE Semihosting

Idle == [at |-> "idle"]
Unwritten == [c \in {} |-> "?"]
NUL == "NUL"
NULL == <<NUL>>

Init ==
  /\ boot \in Boots
  /\ done = 0 /\ pc = "idle"
  /\ pos = 1 /\ arg = 1 /\ acnt = 0 /\ count = 0 /\ text = <<>>
  /\ mem = Unwritten /\ out = 0 /\ out_len = 0
  /\ todo = <<>>
  /\ drv = Idle /\ port = boot.port /\ asked = <<>> /\ shown = <<>>

Call == boot.calls[done + 1]

use_tbuf == Call.fn \in {"printf", "panic"}

(* sprintf passes no out_len. *)
Bounded == Call.fn # "sprintf"

-----------------------------------------------------------------------------
(* The text of a directive: prints and printi. *)

prints(string, width, flags) ==
  LET n == IF width > Len(string) THEN width - Len(string) ELSE 0
      pad == [k \in 1 .. n |-> IF "zero" \in flags THEN "0" ELSE " "]
  IN IF "right" \in flags THEN string \o pad ELSE pad \o string

digit(t, letbase) ==
  IF letbase = "A"
  THEN <<"0","1","2","3","4","5","6","7","8","9","A","B","C","D","E","F">>[t + 1]
  ELSE <<"0","1","2","3","4","5","6","7","8","9","a","b","c","d","e","f">>[t + 1]

digits(u, b, letbase) ==
  LET of[v \in 0 .. ULong - 1] ==
        IF v < b THEN <<digit(v, letbase)>> ELSE Append(of[v \div b], digit(v % b, letbase))
  IN of[u]

(* Mutant: the sign is always in the string that is padded. *)
printiSignInside(i, b, sg, width, flags, letbase) ==
  LET neg == sg /\ b = 10 /\ i >= ULong \div 2
      s == digits(IF neg THEN ULong - i ELSE i, b, letbase)
  IN prints(IF neg THEN <<"-">> \o s ELSE s, width, flags)

(* i is the pattern of a long long.  A sign that zeros follow is not in the *)
(* string that is padded.                                                   *)
printi(i, b, sg, width, flags, letbase) ==
  LET neg == sg /\ b = 10 /\ i >= ULong \div 2
      prefix == IF "alternate" \notin flags THEN <<>>
                ELSE IF b = 16 THEN <<"0", IF letbase = "A" THEN "X" ELSE "x">> ELSE <<"0">>
      s == prefix \o digits(IF neg THEN ULong - i ELSE i, b, letbase)
  IN IF ~neg THEN prints(s, width, flags)
     ELSE IF width # 0 /\ "zero" \in flags THEN <<"-">> \o prints(s, width - 1, flags)
     ELSE prints(<<"-">> \o s, width, flags)

At(n) == IF n \in 1 .. Len(Call.format) THEN Call.format[n] ELSE NUL

Digits == {"0", "1", "2", "3", "4", "5", "6", "7", "8", "9"}

(* The first character from n on that is not in cs. *)
After(n, cs) == CHOOSE m \in n .. Len(Call.format) + 1 :
                  At(m) \notin cs /\ \A k \in n .. m - 1 : At(k) \in cs

Number(ds) == FoldLeft(LAMBDA w, c : 10 * w + (CHOOSE d \in 0 .. 9 : digit(d, "a") = c), 0, ds)

(* Flags and width of the directive at n, and where its conversion is. *)
Parsed(n) ==
  LET left == IF At(n + 1) = "-" THEN n + 2 ELSE n + 1
      alt == IF At(left) = "#" THEN left + 1 ELSE left
      zeros == After(alt, {"0"})
      conv == After(zeros, Digits)
  IN [flags |-> (IF left = n + 2 THEN {"right"} ELSE {})
                  \union (IF alt # left THEN {"alternate"} ELSE {})
                  \union (IF zeros # alt THEN {"zero"} ELSE {}),
      width |-> Number(SubSeq(Call.format, zeros, conv - 1)),
      conv |-> conv]

Slot(n) == IF n \in 1 .. Len(Call.args) THEN Call.args[n] ELSE 0
va_uint(n) == Slot(n) % UInt
va_int(n) == IF va_uint(n) >= UInt \div 2 THEN ULong - UInt + va_uint(n) ELSE va_uint(n)
va_long(n) == Slot(n) % ULong

(* What a directive does: its text, the character the loop goes on with,    *)
(* how many slots it takes and what it adds to acnt.                        *)
Effect(t, next, slots, bytes) == [text |-> t, next |-> next, slots |-> slots, bytes |-> bytes]

(* "ll" first takes ints until acnt is a multiple of eight; no case takes   *)
(* the "d" or "i" behind a signed one, which is then printed.               *)
LongLong(s) ==
  LET skip == IF acnt % 8 = 0 THEN 0 ELSE (8 - (acnt % 8)) \div 4
      v == va_long(arg + skip)
      bytes == 4 * skip + 8
      c == At(s.conv + 2)
  IN CASE c = "u" -> Effect(printi(v, 10, FALSE, s.width, s.flags, "a"), s.conv + 3, skip + 1, bytes)
       [] c = "x" -> Effect(printi(v, 16, FALSE, s.width, s.flags, "a"), s.conv + 3, skip + 1, bytes)
       [] c = "X" -> Effect(printi(v, 16, FALSE, s.width, s.flags, "A"), s.conv + 3, skip + 1, bytes)
       [] OTHER   -> Effect(printi(v, 10, TRUE, s.width, s.flags, "0"), s.conv + 2, skip + 1, bytes)

(* The same for "l"; "lu" does not count its bytes. *)
Long(s) ==
  LET v == va_long(arg)
      c == At(s.conv + 1)
  IN CASE c = "u" -> Effect(printi(v, 10, FALSE, s.width, s.flags, "a"), s.conv + 2, 1, 0)
       [] c = "x" -> Effect(printi(v, 16, FALSE, s.width, s.flags, "a"), s.conv + 2, 1, 8)
       [] c = "X" -> Effect(printi(v, 16, FALSE, s.width, s.flags, "A"), s.conv + 2, 1, 8)
       [] OTHER   -> Effect(printi(v, 10, TRUE, s.width, s.flags, "0"), s.conv + 1, 1, 8)

(* A character of no conversion is skipped. *)
Directive(s) ==
  LET c == At(s.conv)
      IntText(v, b, sg, letbase) ==
        Effect(printi(v, b, sg, s.width, s.flags, letbase), s.conv + 1, 1, 4)
      Pointer(letbase) ==
        Effect(printi(va_long(arg), 16, FALSE, s.width, s.flags, letbase), s.conv + 1, 1, 8)
  IN CASE c = "s" -> Effect(prints(IF Slot(arg) = NULL THEN <<"(","n","u","l","l",")">>
                                   ELSE Slot(arg), s.width, s.flags), s.conv + 1, 1, 8)
       [] c \in {"d", "i"} -> IntText(va_int(arg), 10, TRUE, "0")
       [] c = "x" -> IntText(va_uint(arg), 16, FALSE, "a")
       [] c = "X" -> IntText(va_uint(arg), 16, FALSE, "A")
       [] c = "u" -> IntText(va_uint(arg), 10, FALSE, "a")
       [] c = "p" -> Pointer("a")
       [] c = "P" -> Pointer("A")
       [] c = "l" /\ At(s.conv + 1) = "l" -> LongLong(s)
       [] c = "l" /\ At(s.conv + 1) # "l" -> Long(s)
       [] c = "c" -> Effect(prints(<<Slot(arg)>>, s.width, s.flags), s.conv + 1, 1, 4)
       [] OTHER   -> Effect(<<>>, s.conv + 1, 0, 0)

-----------------------------------------------------------------------------
(* The steps of print. *)

CallPrint ==
  /\ pc = "idle" /\ done < Len(boot.calls)
  /\ Call.fn \in {"printf", "panic", "sprintf", "snprintf"}
  /\ pc' = "print"
  /\ pos' = 1 /\ arg' = 1 /\ acnt' = 0 /\ count' = 0 /\ text' = <<>>
  /\ mem' = Unwritten /\ out' = 0
  /\ out_len' = IF use_tbuf THEN PRINT_TBUF_MAX ELSE Call.size
  /\ UNCHANGED <<boot, done, todo, wireVars>>

(* The character and a terminator behind it. *)
Written(ch) ==
  [c \in DOMAIN mem \union {out, out + 1} |->
     IF c = out THEN ch ELSE IF c = out + 1 THEN NUL ELSE mem[c]]

(* Mutant: there is room as long as *out_len is not zero. *)
PrintcFillsLast ==
  /\ pc = "print" /\ text # <<>>
  /\ IF Bounded => out_len > 0
     THEN mem' = Written(Head(text)) /\ out' = out + 1
     ELSE UNCHANGED <<mem, out>>
  /\ out_len' = IF Bounded /\ out_len > 0 THEN out_len - 1 ELSE out_len
  /\ count' = count + 1
  /\ text' = Tail(text)
  /\ UNCHANGED <<boot, done, pc, pos, arg, acnt, todo, wireVars>>

(* One printc of prints or print. *)
Printc ==
  /\ pc = "print" /\ text # <<>>
  /\ IF Bounded => out_len > 1
     THEN mem' = Written(Head(text)) /\ out' = out + 1
     ELSE UNCHANGED <<mem, out>>
  /\ out_len' = IF Bounded /\ out_len > 0 THEN out_len - 1 ELSE out_len
  /\ count' = count + 1
  /\ text' = Tail(text)
  /\ UNCHANGED <<boot, done, pc, pos, arg, acnt, todo, wireVars>>

(* The first n bytes of the buffer, "?" for what the stack holds there. *)
Sent(n) == [k \in 1 .. n |-> IF k - 1 \in DOMAIN mem THEN mem[k - 1] ELSE "?"]

(* The first lines of the loop: all of a full tbuf is sent. *)
Flush ==
  /\ pc = "print" /\ text = <<>> /\ At(pos) # NUL
  /\ use_tbuf /\ out_len = 0
  /\ todo' = Sent(PRINT_TBUF_MAX)
  /\ pc' = "nputs"
  /\ out' = 0 /\ out_len' = PRINT_TBUF_MAX
  /\ UNCHANGED <<boot, done, pos, arg, acnt, count, text, mem, wireVars>>

Turn ==
  /\ pc = "print" /\ text = <<>> /\ At(pos) # NUL
  /\ use_tbuf => out_len # 0
  /\ UNCHANGED <<boot, done, pc, count, mem, out, out_len, todo, wireVars>>

Literal ==
  /\ Turn
  /\ At(pos) # "%" \/ At(pos + 1) = "%"
  /\ pos' = IF At(pos) = "%" THEN pos + 2 ELSE pos + 1
  /\ text' = <<At(pos)>>
  /\ UNCHANGED <<arg, acnt>>

Convert ==
  /\ Turn
  /\ At(pos) = "%" /\ At(pos + 1) \notin {"%", NUL}
  /\ \E e \in {Directive(Parsed(pos))} :
       /\ text' = e.text
       /\ pos' = e.next
       /\ arg' = arg + e.slots
       /\ acnt' = acnt + e.bytes

(* A "%" that ends the format. *)
Break ==
  /\ Turn
  /\ At(pos) = "%" /\ At(pos + 1) = NUL
  /\ pos' = pos + 1
  /\ UNCHANGED <<arg, acnt, text>>

(* Mutant: all of tbuf is sent. *)
EndSendsAll ==
  /\ pc = "print" /\ text = <<>> /\ At(pos) = NUL
  /\ IF use_tbuf /\ out_len < PRINT_TBUF_MAX
     THEN todo' = Sent(PRINT_TBUF_MAX) /\ pc' = "nputs"
     ELSE pc' = "return" /\ UNCHANGED todo
  /\ UNCHANGED <<boot, done, printVars, wireVars>>

(* The end of print: what is left in tbuf is sent. *)
End ==
  /\ pc = "print" /\ text = <<>> /\ At(pos) = NUL
  /\ IF use_tbuf /\ out_len < PRINT_TBUF_MAX
     THEN todo' = Sent(PRINT_TBUF_MAX - out_len) /\ pc' = "nputs"
     ELSE pc' = "return" /\ UNCHANGED todo
  /\ UNCHANGED <<boot, done, printVars, wireVars>>

-----------------------------------------------------------------------------
(* puts, nputs and putc. *)

CallPuts ==
  /\ pc = "idle" /\ done < Len(boot.calls)
  /\ Call.fn = "puts"
  /\ todo' = Call.format
  /\ pc' = "nputs"
  /\ UNCHANGED <<boot, done, printVars, wireVars>>

CallPutc ==
  /\ pc = "idle" /\ done < Len(boot.calls)
  /\ Call.fn = "putc"
  /\ todo' = Call.format
  /\ pc' = "putc"
  /\ UNCHANGED <<boot, done, printVars, wireVars>>

console_putc(ch) ==
  \/ Uart!console_putc(ch) \/ Cadence!console_putc(ch)
  \/ Mailbox!console_putc(ch) \/ Trap!console_putc(ch)

(* nputs hands all to a device with console_puts, as it is. *)
NputsWhole ==
  /\ pc = "nputs"
  /\ Trap!console_puts(todo)
  /\ todo' = <<>>
  /\ pc' = "putc"
  /\ UNCHANGED <<boot, done, printVars>>

Nputs ==
  /\ pc = "nputs" /\ port.device # "semihosting"
  /\ pc' = "putc"
  /\ UNCHANGED <<boot, done, printVars, todo, wireVars>>

(* Mutant: the carriage return comes after the newline. *)
PutcCrLast ==
  /\ pc = "putc" /\ todo # <<>> /\ Head(todo) = "\n"
  /\ console_putc(Head(todo))
  /\ todo' = <<"\r">> \o Tail(todo)
  /\ pc' = "putc"
  /\ UNCHANGED <<boot, done, printVars>>

(* A carriage return goes before a newline. *)
PutcCr ==
  /\ pc = "putc" /\ todo # <<>> /\ Head(todo) = "\n"
  /\ console_putc("\r")
  /\ pc' = "putc_ch"
  /\ UNCHANGED <<boot, done, printVars, todo>>

Putc ==
  /\ \/ pc = "putc" /\ todo # <<>> /\ Head(todo) # "\n"
     \/ pc = "putc_ch"
  /\ console_putc(Head(todo))
  /\ todo' = Tail(todo)
  /\ pc' = "putc"
  /\ UNCHANGED <<boot, done, printVars>>

(* No console_dev: putc does nothing. *)
PutcNone ==
  /\ pc = "putc" /\ todo # <<>>
  /\ port.device = "none"
  /\ todo' = <<>>
  /\ UNCHANGED <<boot, done, pc, printVars, wireVars>>

(* print goes on, or the call is done. *)
PutcReturn ==
  /\ pc = "putc" /\ todo = <<>> /\ drv = Idle
  /\ pc' = IF use_tbuf /\ At(pos) # NUL THEN "print" ELSE "return"
  /\ UNCHANGED <<boot, done, printVars, todo, wireVars>>

(* panic ends in zstage_hang. *)
Return ==
  /\ pc = "return"
  /\ IF Call.fn = "panic" THEN pc' = "hang" /\ UNCHANGED done
     ELSE pc' = "idle" /\ done' = done + 1
  /\ UNCHANGED <<boot, printVars, todo, wireVars>>

-----------------------------------------------------------------------------
consoleVars == <<boot, done, pc, printVars, todo>>

UartPoll == Uart!Poll /\ UNCHANGED consoleVars
UartStore == Uart!Store /\ UNCHANGED consoleVars
CadencePoll == Cadence!Poll /\ UNCHANGED consoleVars
CadenceStore == Cadence!Store /\ UNCHANGED consoleVars
SetTohost == Mailbox!SetTohost /\ UNCHANGED consoleVars
CheckFromhost == Mailbox!CheckFromhost /\ UNCHANGED consoleVars
ClearFromhost == Mailbox!ClearFromhost /\ UNCHANGED consoleVars
WriteTohost == Mailbox!WriteTohost /\ UNCHANGED consoleVars
Wait == Mailbox!Wait /\ UNCHANGED consoleVars
PutsChar == Trap!PutsChar /\ UNCHANGED consoleVars
PutsWrite == Trap!PutsWrite /\ UNCHANGED consoleVars
PutsReturn == Trap!PutsReturn /\ UNCHANGED consoleVars

UartDrain == Uart!Drain /\ UNCHANGED consoleVars
CadenceDrain == Cadence!Drain /\ UNCHANGED consoleVars
HostTake == Mailbox!Take /\ UNCHANGED consoleVars

Hart ==
  \/ CallPrint \/ Printc \/ Flush \/ Literal \/ Convert \/ Break \/ End
  \/ CallPuts \/ CallPutc \/ NputsWhole \/ Nputs
  \/ PutcCr \/ Putc \/ PutcNone \/ PutcReturn \/ Return
  \/ UartPoll \/ UartStore \/ CadencePoll \/ CadenceStore
  \/ SetTohost \/ CheckFromhost \/ ClearFromhost \/ WriteTohost \/ Wait
  \/ PutsChar \/ PutsWrite \/ PutsReturn

Device == UartDrain \/ CadenceDrain \/ HostTake

Next == Hart \/ Device

Spec == Init /\ [][Next]_vars

(* The hart runs, and so does the device while it has something to do.  *)
FairSpec == Spec /\ WF_vars(Hart) /\ WF_vars(Device)

-----------------------------------------------------------------------------
(* What a C printf makes of the items of a call, each a character or a      *)
(* conversion with its argument.                                            *)

IsInt(i) == i.conv \in {<<"d">>, <<"i">>, <<"x">>, <<"X">>, <<"u">>, <<"c">>}
IsLongLong(i) == Len(i.conv) = 3
Hex(i) == Last(i.conv) \in {"x", "X", "p", "P"}

Value(i) ==
  LET top == IF IsInt(i) THEN UInt ELSE ULong
      v == i.val % top
  IN IF Last(i.conv) \in {"d", "i"} /\ v >= top \div 2 THEN v - top ELSE v

Numeral(v, b, letbase) ==
  LET power[k \in 0 .. v + 1] == IF k = 0 THEN 1 ELSE b * power[k - 1]
      len == CHOOSE k \in 1 .. v + 1 : v < power[k] /\ (k = 1 \/ v >= power[k - 1])
  IN [j \in 1 .. len |-> digit((v \div power[len - j]) % b, letbase)]

Times(c, n) == [k \in 1 .. n |-> c]

Padded(sign, prefix, body, width, flags) ==
  LET all == sign \o prefix \o body
      free == IF width > Len(all) THEN width - Len(all) ELSE 0
  IN IF "right" \in flags THEN all \o Times(" ", free)
     ELSE IF "zero" \in flags THEN sign \o prefix \o Times("0", free) \o body
     ELSE Times(" ", free) \o all

Upper(i) == Last(i.conv) \in {"X", "P"}

Prefix(i) ==
  IF "alternate" \in i.flags THEN <<"0", IF Upper(i) THEN "X" ELSE "x">> ELSE <<>>

Standard(i) ==
  CASE i.conv = <<>>    -> <<i.val>>
    [] i.conv = <<"s">> -> Padded(<<>>, Prefix(i),
                                  IF i.val = NULL THEN <<"(","n","u","l","l",")">> ELSE i.val,
                                  i.width, i.flags)
    [] i.conv = <<"c">> -> Padded(<<>>, Prefix(i), <<i.val>>, i.width, i.flags)
    [] OTHER            -> Padded(IF Value(i) < 0 THEN <<"-">> ELSE <<>>, Prefix(i),
                                  Numeral(IF Value(i) < 0 THEN -Value(i) ELSE Value(i),
                                          IF Hex(i) THEN 16 ELSE 10,
                                          IF Upper(i) THEN "A" ELSE "a"),
                                  i.width, i.flags)

Text(c) == FlattenSeq([n \in 1 .. Len(c.items) |-> Standard(c.items[n])])

(* How the format of a call spells its items: item n stands at c.at[n], and *)
(* the arguments from it on are those from c.slots[n] on.                   *)
Convs ==
  {<<"s">>, <<"c">>, <<"d">>, <<"i">>, <<"u">>, <<"x">>, <<"X">>, <<"p">>, <<"P">>}
    \union {<<"l", k>> : k \in {"d", "i", "u", "x", "X"}}
    \union {<<"l", "l", k>> : k \in {"d", "i", "u", "x", "X"}}

Spells(f, i, p, q) ==
  LET left == IF "right" \in i.flags THEN p + 2 ELSE p + 1
      alt == IF "alternate" \in i.flags THEN left + 1 ELSE left
  IN /\ f[p] = "%"
     /\ "right" \in i.flags => f[p + 1] = "-"
     /\ "alternate" \in i.flags => f[left] = "#"
     /\ \E zeros \in alt .. q, conv \in alt .. q :
          /\ zeros <= conv
          /\ ("zero" \in i.flags) <=> (zeros # alt)
          /\ \A k \in alt .. zeros - 1 : f[k] = "0"
          /\ \A k \in zeros .. conv - 1 : f[k] \in Digits
          /\ zeros # conv => f[zeros] # "0"
          /\ i.width = Number(SubSeq(f, zeros, conv - 1))
          /\ q = conv + Len(i.conv)
          /\ \A k \in 1 .. Len(i.conv) : f[conv + (k - 1)] = i.conv[k]

SpellsItem(c, n) ==
  LET i == c.items[n]
      p == c.at[n]
      q == c.at[n + 1]
  IN /\ p \in 1 .. Len(c.format) /\ q \in 1 .. Len(c.format) + 1
     /\ \/ /\ i.conv = <<>>
           /\ i.val \in STRING \ {NUL} /\ c.format[p] = i.val
           /\ i.val # "%" => q = p + 1
           /\ i.val = "%" => q = p + 2 /\ c.format[p + 1] = "%"
           /\ c.slots[n + 1] = c.slots[n]
        \/ /\ i.conv \in Convs /\ i.width \in Nat
           /\ i.flags \subseteq {"right", "alternate", "zero"}
           /\ Spells(c.format, i, p, q)
           /\ c.slots[n] \in 1 .. Len(c.args) /\ c.args[c.slots[n]] = i.val
           /\ i.conv = <<"s">> => i.val \in Seq(STRING)
           /\ i.conv \notin {<<"s">>, <<"c">>} => i.val \in Nat
           /\ c.slots[n + 1] = c.slots[n] + 1

(* Behind the items nothing, a "%" that ends the format, or one of no       *)
(* conversion.                                                              *)
SpellsEnd(f, e) ==
  \/ e = Len(f) + 1
  \/ e = Len(f) /\ f[e] = "%"
  \/ /\ e = Len(f) - 1 /\ f[e] = "%"
     /\ f[e + 1] \notin Digits \union {NUL, "%", "-", "#", "l"} \union {k[1] : k \in Convs}

Formed(c) ==
  /\ Len(c.items) \in Nat /\ Len(c.args) \in Nat
  /\ IF c.fn \in {"puts", "putc"}
     THEN /\ Len(c.format) = Len(c.items)
          /\ \A n \in 1 .. Len(c.items) : c.items[n].conv = <<>> /\ c.format[n] = c.items[n].val
     ELSE /\ c.at[1] = 1 /\ c.slots[1] = 1
          /\ \A n \in 1 .. Len(c.items) : SpellsItem(c, n)
          /\ SpellsEnd(c.format, c.at[Len(c.items) + 1])

ASSUME FormatAssumption ==
  \A b \in Boots : \A n \in DOMAIN b.calls : Formed(b.calls[n])

(* Where zStage's printf is not C's: signed "l" and "ll"; zeros behind the  *)
(* number; a prefix behind zeros, of zero or of no base; and "ll" after an  *)
(* odd number of ints.                                                      *)
Plain(c) ==
  \A n \in 1 .. Len(c.items) :
    LET i == c.items[n] IN
    i.conv # <<>> =>
      /\ ~(Head(i.conv) = "l" /\ Last(i.conv) \in {"d", "i"})
      /\ ~({"right", "zero"} \subseteq i.flags)
      /\ "alternate" \in i.flags => Hex(i) /\ Value(i) # 0 /\ "zero" \notin i.flags
      /\ IsLongLong(i) => Cardinality({m \in 1 .. n : IsInt(c.items[m])}) % 2 = 0

(* A text that fills tbuf loses the character that fills it. *)
Short(c) == c.fn \in {"printf", "panic"} => Len(Text(c)) < PRINT_TBUF_MAX

(* What the device is asked to write for a call that makes text. *)
Crlf(t) == FlattenSeq([n \in 1 .. Len(t) |-> IF t[n] = "\n" THEN <<"\r", "\n">> ELSE <<t[n]>>])

Wanted(c) ==
  IF c.fn \in {"sprintf", "snprintf"} \/ port.device = "none" THEN <<>>
  ELSE IF port.device = "semihosting" /\ c.fn # "putc" THEN Text(c) ELSE Crlf(Text(c))

-----------------------------------------------------------------------------
room == IF use_tbuf THEN PRINT_TBUF_MAX ELSE Call.size

(* Neither tbuf nor a buffer given to snprintf is written past its end,     *)
(* whatever its size, the format and the arguments (printc writes the       *)
(* terminator before it counts).                                            *)
BufferBound ==
  pc # "idle" /\ Call.fn \in {"printf", "panic", "snprintf"} =>
    \A c \in DOMAIN mem : c < room

(* print sends no byte of the stack that it has not written (the lengths    *)
(* given to nputs count from the end of tbuf, and a full one has its last   *)
(* cell from the terminator alone).                                         *)
OnlyTextSent ==
  [][pc = "print" /\ pc' = "nputs" => \A n \in DOMAIN todo' : n - 1 \in DOMAIN mem]_vars

(* sprintf and snprintf return the length of the text C would make, and the *)
(* buffer holds as much of it as there is room for, with its terminator.    *)
TextFormatted ==
  pc = "return" /\ Call.fn \in {"sprintf", "snprintf"} /\ Plain(Call) =>
    LET t == Text(Call)
        fit == IF Bounded /\ Len(t) >= room THEN room - 1 ELSE Len(t)
    IN /\ count = Len(t)
       /\ fit > 0 => mem[fit] = NUL /\ \A n \in 1 .. fit : mem[n - 1] = t[n]

(* When calls return the driver has been asked for their texts, nothing     *)
(* else, in order and with a carriage return before each newline that goes  *)
(* through putc; unless a debugger left a part of a write undone.           *)
TextShown ==
  LET ended == 1 .. IF pc = "hang" THEN done + 1 ELSE done IN
  /\ pc \in {"idle", "hang"} /\ (port.device = "semihosting" => ~port.cut)
  /\ \A k \in ended : Plain(boot.calls[k]) /\ Short(boot.calls[k])
  => asked = FlattenSeq([k \in ended |-> Wanted(boot.calls[k])])

W == INSTANCE Wire

(* Each device shows what it is asked to write, in that order, each         *)
(* character once: THRE, TFUL and tohost are honoured whatever the device   *)
(* does between the test and the write.                                     *)
WirePromise == W!Spec

(* With 32 bits the answer is awaited in the linked mailbox, though the     *)
(* device tree named another.                                               *)
Deaf == port.device = "htif" /\ port.xlen = 32 /\ port.htif_custom

Finished == pc = "hang" \/ (pc = "idle" /\ done = Len(boot.calls))

(* A host that takes nothing before its last answer is read keeps the last  *)
(* character: nothing reads fromhost until the next putc.                   *)
Kept == IF port.device = "htif" /\ port.xlen = 64 /\ port.patient THEN 1 ELSE 0

(* Every call returns, and all it had to show is shown; panic shows its     *)
(* message and does not return.  The drivers poll without a limit: it takes *)
(* a divisor that is not zero, an enabled transmitter, a mailbox that is    *)
(* emptied.                                                                 *)
CallsEnd == (~Deaf) => <>[](Finished /\ Len(shown) + Kept >= Len(asked))
=============================================================================
