------------------------------ MODULE WireProofs ------------------------------
(***************************************************************************)
(* Console implements Wire: for every format, argument and script of calls *)
(* each device shows what it was asked to write, in that order, each       *)
(* character once; and what it was asked to write are the texts of the     *)
(* calls.                                                                  *)
(***************************************************************************)
EXTENDS ConsoleProofs

-----------------------------------------------------------------------------
(* The characters on their way are what was asked for and not yet shown. *)

OnTheWay(inside) == IsSeq(shown) /\ IsSeq(inside) /\ asked = shown \o inside

WireStep == [W!Next]_<<asked, shown>>

LEMMA Asks ==
  ASSUME NEW inside, NEW x, OnTheWay(inside),
         asked' = Append(asked, x), UNCHANGED shown
  PROVE  WireStep /\ OnTheWay(inside \o <<x>>)'
<1>1. IsSeq(asked) /\ asked = shown \o inside
  BY ConcatIsSeq DEF OnTheWay
<1>2. asked' = (shown \o inside) \o <<x>> /\ IsStrictPrefix(asked, asked')
  BY <1>1, AppendIsSeq
<1> DEFINE c == <<x>>
<1>3. IsSeq(c)
  BY SingleIsSeq
<1>4. (shown \o inside) \o c = shown \o (inside \o c) /\ IsSeq(inside \o c)
  <2> HIDE DEF c
  <2> QED BY <1>3, ConcatAssoc, ConcatIsSeq DEF OnTheWay
<1>5. WireStep
  BY <1>2 DEF WireStep, W!Next, W!Ask, W!IsStrictPrefix, W!IsPrefix, IsStrictPrefix, IsPrefix
<1> QED BY <1>2, <1>4, <1>5 DEF OnTheWay

LEMMA Shows ==
  ASSUME NEW inside, NEW x, NEW rest, OnTheWay(inside), IsSeq(rest),
         inside = <<x>> \o rest, shown' = Append(shown, x), UNCHANGED asked
  PROVE  WireStep /\ IsSeq(shown') /\ asked' = shown' \o rest
<1> DEFINE c == <<x>>
<1>1. IsSeq(c)
  BY SingleIsSeq
<1>2. shown' = shown \o c /\ IsSeq(shown') /\ IsStrictPrefix(shown, shown')
  BY AppendIsSeq DEF OnTheWay
<1>3. (shown \o c) \o rest = shown \o (c \o rest)
  <2>1. IsSeq(shown)
    BY DEF OnTheWay
  <2> HIDE DEF c
  <2> QED BY <1>1, <2>1, ConcatAssoc
<1>4. asked = shown' \o rest
  BY <1>2, <1>3 DEF OnTheWay
<1>5. IsPrefix(shown', asked)
  BY <1>2, <1>4, ConcatIsSeq
<1>6. WireStep
  BY <1>2, <1>5 DEF WireStep, W!Next, W!Show, W!IsStrictPrefix, W!IsPrefix, IsStrictPrefix, IsPrefix
<1> QED BY <1>2, <1>4, <1>6

-----------------------------------------------------------------------------
(* uart8250: a character is stored only into an empty transmitter. *)

Hand == IF drv = Idle THEN <<>> ELSE <<drv.ch>>

Polling == drv = [at |-> "poll", ch |-> drv.ch]
Storing == drv = [at |-> "store", ch |-> drv.ch]

UartInv ==
  /\ port.device = "uart8250"
  /\ {"device", "fifo", "reg"} \subseteq DOMAIN port
  /\ IsSeq(port.fifo) /\ port.reg[3] # "dlab"
  /\ drv = Idle \/ Polling \/ (Storing /\ port.fifo = <<>>)
  /\ OnTheWay(port.fifo \o Hand)

LEMMA HandCases ==
  /\ drv = Idle => Hand = <<>> /\ drv.at = "idle"
  /\ Polling => Hand = <<drv.ch>> /\ drv # Idle /\ drv.at = "poll"
  /\ Storing => Hand = <<drv.ch>> /\ drv # Idle /\ drv.at = "store"
  /\ IsSeq(Hand)
<1>1. drv.at = "idle" \/ drv # Idle
  BY DEF Idle
<1>2. Polling => drv.at = "poll"
  BY DEF Polling
<1>3. Storing => drv.at = "store"
  BY DEF Storing
<1>4. IsSeq(Hand)
  BY EmptyIsSeq, SingleIsSeq DEF Hand
<1>5. Idle.at = "idle"
  BY DEF Idle
<1> QED BY <1>1, <1>2, <1>3, <1>4, <1>5 DEF Hand

(* The first character of a FIFO comes out. *)
LEMMA FifoShows ==
  ASSUME IsSeq(port.fifo), OnTheWay(port.fifo \o Hand), port.fifo # <<>>,
         shown' = Append(shown, Head(port.fifo)), port'.fifo = Tail(port.fifo),
         UNCHANGED <<drv, asked>>
  PROVE  IsSeq(port'.fifo) /\ WireStep /\ OnTheWay(port.fifo \o Hand)'
<1> DEFINE x == Head(port.fifo)
           r == Tail(port.fifo)
           c == <<x>>
<1>1. IsSeq(r) /\ port.fifo = c \o r /\ IsSeq(c) /\ IsSeq(Hand)
  BY HeadTail, SingleIsSeq, HandCases
<1>2. (c \o r) \o Hand = c \o (r \o Hand) /\ IsSeq(r \o Hand)
  <2>1. IsSeq(c) /\ IsSeq(r) /\ IsSeq(Hand)
    BY <1>1
  <2> HIDE DEF r, c
  <2>2. (c \o r) \o Hand = c \o (r \o Hand)
    BY <2>1, ConcatAssoc
  <2> QED BY <2>1, <2>2, ConcatIsSeq
<1>3. port.fifo \o Hand = <<x>> \o (r \o Hand)
  BY <1>1, <1>2
<1> HIDE DEF r, x
<1>4. shown' = Append(shown, x) /\ UNCHANGED asked
  BY DEF x
<1>5. WireStep /\ IsSeq(shown') /\ asked' = shown' \o (r \o Hand)
  BY <1>2, <1>3, <1>4, Shows
<1>6. port'.fifo = r /\ Hand' = Hand
  BY DEF r, Hand
<1>7. (port.fifo \o Hand)' = r \o Hand
  BY <1>6
<1> QED BY <1>1, <1>2, <1>5, <1>6, <1>7 DEF OnTheWay

LEMMA UartAsks ==
  ASSUME UartInv, NEW ch, Uart!console_putc(ch)
  PROVE  UartInv' /\ WireStep
<1>1. /\ drv = Idle /\ drv' = [at |-> "poll", ch |-> ch] /\ UNCHANGED <<port, shown>>
      /\ asked' = Append(asked, ch)
  BY DEF Uart!console_putc, Uart!Idle, Idle
<1>2. Polling' /\ Hand' = <<ch>>
  BY <1>1 DEF Polling, Hand, Idle
<1>3. port.fifo \o Hand = port.fifo
  BY <1>1, HandCases, ConcatIsSeq DEF UartInv
<1>4. WireStep /\ OnTheWay(port.fifo \o <<ch>>)'
  BY <1>1, <1>3, Asks DEF UartInv
<1> QED BY <1>1, <1>2, <1>4 DEF UartInv

LEMMA UartMoves ==
  ASSUME UartInv, Uart!Poll \/ Uart!Store \/ Uart!Drain
  PROVE  UartInv' /\ WireStep
<1>1. CASE Uart!Poll
  <2>1. /\ drv.at = "poll" /\ port.fifo = <<>>
        /\ drv' = [drv EXCEPT !.at = "store"] /\ UNCHANGED <<port, asked, shown>>
    BY <1>1 DEF Uart!Poll, Uart!THRE
  <2>2. Polling
    BY <2>1, HandCases DEF UartInv
  <2>3. drv' = [at |-> "store", ch |-> drv.ch]
    BY <2>1, <2>2 DEF Polling
  <2>4. Storing' /\ Hand' = Hand
    BY <2>2, <2>3 DEF Storing, Polling, Hand, Idle
  <2>5. WireStep
    BY <2>1 DEF WireStep
  <2>6. OnTheWay(port.fifo \o Hand)'
    BY <2>1, <2>4 DEF UartInv, OnTheWay
  <2> QED BY <2>1, <2>4, <2>5, <2>6 DEF UartInv
<1>2. CASE Uart!Store
  <2>1. /\ drv.at = "store" /\ drv' = Idle /\ UNCHANGED <<asked, shown>>
        /\ port' = Uart!set_reg(port, 0, drv.ch)
    BY <1>2 DEF Uart!Store, Uart!UART_THR_OFFSET, Uart!Idle, Idle
  <2>2. Storing /\ port.fifo = <<>> /\ Hand = <<drv.ch>>
    BY <2>1, HandCases DEF UartInv
  <2>3. port' = [port EXCEPT !.fifo = Append(@, drv.ch)]
    BY <2>1, <2>2, ConsoleAssumption
    DEF UartInv, Uart!set_reg, Uart!UART_THR_OFFSET, Uart!UART_LCR_OFFSET, Uart!DLAB
  <2>4. /\ port'.device = port.device /\ port'.reg = port.reg /\ DOMAIN port' = DOMAIN port
        /\ port'.fifo = Append(port.fifo, drv.ch)
    BY <2>3 DEF UartInv
  <2>5. port'.fifo = <<>> \o Hand /\ Hand' = <<>>
    BY <2>1, <2>2, <2>4, EmptyIsSeq, AppendIsSeq, HandCases DEF Hand
  <2>6. port'.fifo = Hand /\ IsSeq(port'.fifo) /\ port'.fifo \o Hand' = port'.fifo
    BY <2>5, HandCases, ConcatIsSeq
  <2>7. OnTheWay(port.fifo \o Hand)'
    BY <2>1, <2>2, <2>5, <2>6 DEF UartInv, OnTheWay
  <2>8. WireStep
    BY <2>1 DEF WireStep
  <2> QED BY <2>1, <2>4, <2>6, <2>7, <2>8 DEF UartInv
<1>3. CASE Uart!Drain
  <2>1. /\ port.fifo # <<>> /\ shown' = Append(shown, Head(port.fifo))
        /\ port' = [port EXCEPT !.fifo = Tail(@)] /\ UNCHANGED <<drv, asked>>
    BY <1>3 DEF Uart!Drain
  <2>2. /\ port'.device = port.device /\ port'.reg = port.reg /\ DOMAIN port' = DOMAIN port
        /\ port'.fifo = Tail(port.fifo)
    BY <2>1 DEF UartInv
  <2>3. IsSeq(port'.fifo) /\ WireStep /\ OnTheWay(port.fifo \o Hand)'
    BY <2>1, <2>2, FifoShows DEF UartInv
  <2>4. drv' = Idle \/ Polling'
    BY <2>1 DEF UartInv, Polling
  <2> QED BY <2>2, <2>3, <2>4 DEF UartInv
<1> QED BY <1>1, <1>2, <1>3

-----------------------------------------------------------------------------
(* cadence_uart: a character is stored only below Depth.  Between the test  *)
(* and the write the FIFO can only shrink.                                  *)

CadenceInv ==
  /\ port.device = "cadence_uart"
  /\ {"device", "fifo"} \subseteq DOMAIN port /\ IsSeq(port.fifo)
  /\ drv = Idle \/ Polling \/ (Storing /\ Len(port.fifo) < Depth)
  /\ Len(port.fifo) <= Depth
  /\ OnTheWay(port.fifo \o Hand)

LEMMA CadenceAsks ==
  ASSUME CadenceInv, NEW ch, Cadence!console_putc(ch)
  PROVE  CadenceInv' /\ WireStep
<1>1. /\ drv = Idle /\ drv' = [at |-> "poll", ch |-> ch] /\ UNCHANGED <<port, shown>>
      /\ asked' = Append(asked, ch)
  BY DEF Cadence!console_putc, Cadence!Idle, Idle
<1>2. Polling' /\ Hand' = <<ch>>
  BY <1>1 DEF Polling, Hand, Idle
<1>3. port.fifo \o Hand = port.fifo
  BY <1>1, HandCases, ConcatIsSeq DEF CadenceInv
<1>4. WireStep /\ OnTheWay(port.fifo \o <<ch>>)'
  BY <1>1, <1>3, Asks DEF CadenceInv
<1> QED BY <1>1, <1>2, <1>4 DEF CadenceInv

LEMMA CadenceMoves ==
  ASSUME CadenceInv, Cadence!Poll \/ Cadence!Store \/ Cadence!Drain
  PROVE  CadenceInv' /\ WireStep
<1>1. CASE Cadence!Poll
  <2>1. /\ drv.at = "poll" /\ Len(port.fifo) # Depth
        /\ drv' = [drv EXCEPT !.at = "store"] /\ UNCHANGED <<port, asked, shown>>
    BY <1>1 DEF Cadence!Poll, Cadence!TFUL
  <2>2. Polling
    BY <2>1, HandCases DEF CadenceInv
  <2>3. drv' = [at |-> "store", ch |-> drv.ch]
    BY <2>1, <2>2 DEF Polling
  <2>4. Storing' /\ Hand' = Hand
    BY <2>2, <2>3 DEF Storing, Polling, Hand, Idle
  <2>5. Len(port.fifo) < Depth
    BY <2>1, LengthOf, ConsoleAssumption DEF CadenceInv
  <2>6. WireStep
    BY <2>1 DEF WireStep
  <2>7. OnTheWay(port.fifo \o Hand)'
    BY <2>1, <2>4 DEF CadenceInv, OnTheWay
  <2> QED BY <2>1, <2>4, <2>5, <2>6, <2>7 DEF CadenceInv
<1>2. CASE Cadence!Store
  <2>1. /\ drv.at = "store" /\ drv' = Idle /\ UNCHANGED <<asked, shown>>
        /\ port' = IF Len(port.fifo) = Depth THEN port ELSE [port EXCEPT !.fifo = Append(@, drv.ch)]
    BY <1>2 DEF Cadence!Store, Cadence!TFUL, Cadence!Idle, Idle
  <2>2. Storing /\ Len(port.fifo) < Depth /\ Hand = <<drv.ch>>
    BY <2>1, HandCases DEF CadenceInv
  <2>3. port' = [port EXCEPT !.fifo = Append(@, drv.ch)]
    BY <2>1, <2>2, LengthOf, ConsoleAssumption DEF CadenceInv
  <2>4. /\ port'.device = port.device /\ DOMAIN port' = DOMAIN port
        /\ port'.fifo = Append(port.fifo, drv.ch)
    BY <2>3 DEF CadenceInv
  <2>5. /\ port'.fifo = port.fifo \o Hand /\ IsSeq(port'.fifo) /\ Hand' = <<>>
        /\ Len(port'.fifo) = Len(port.fifo) + 1
    BY <2>1, <2>2, <2>4, AppendIsSeq, LengthOf DEF CadenceInv, Hand
  <2>6. port'.fifo \o Hand' = port'.fifo
    BY <2>5, ConcatIsSeq
  <2>7. OnTheWay(port.fifo \o Hand)'
    BY <2>1, <2>5, <2>6 DEF CadenceInv, OnTheWay
  <2>8. WireStep
    BY <2>1 DEF WireStep
  <2>9. Len(port'.fifo) <= Depth
    BY <2>2, <2>5, LengthOf, ConsoleAssumption DEF CadenceInv
  <2> QED BY <2>1, <2>4, <2>5, <2>7, <2>8, <2>9 DEF CadenceInv
<1>3. CASE Cadence!Drain
  <2>1. /\ port.fifo # <<>> /\ shown' = Append(shown, Head(port.fifo))
        /\ port' = [port EXCEPT !.fifo = Tail(@)] /\ UNCHANGED <<drv, asked>>
    BY <1>3 DEF Cadence!Drain
  <2>2. /\ port'.device = port.device /\ DOMAIN port' = DOMAIN port
        /\ port'.fifo = Tail(port.fifo)
    BY <2>1 DEF CadenceInv
  <2>3. IsSeq(port'.fifo) /\ WireStep /\ OnTheWay(port.fifo \o Hand)'
    BY <2>1, <2>2, FifoShows DEF CadenceInv
  <2>4. Len(port.fifo) \in Nat /\ Len(port'.fifo) = Len(port.fifo) - 1
    BY <2>1, <2>2, LengthOf DEF CadenceInv
  <2>5. drv' = Idle \/ Polling' \/ (Storing' /\ Len(port'.fifo) < Depth)
    BY <2>1, <2>4, ConsoleAssumption DEF CadenceInv, Polling, Storing
  <2>6. Len(port'.fifo) <= Depth
    BY <2>4, ConsoleAssumption DEF CadenceInv
  <2> QED BY <2>2, <2>3, <2>5, <2>6 DEF CadenceInv
<1> QED BY <1>1, <1>2, <1>3

-----------------------------------------------------------------------------
(* Semihosting: the debugger has shown what it was asked for. *)

TrapInv ==
  /\ port.device = "semihosting" /\ "device" \in DOMAIN port
  /\ drv = Idle \/ (drv = [at |-> "puts", str |-> drv.str] /\ IsSeq(drv.str))
  /\ IsSeq(asked) /\ shown = asked

LEMMA TrapWrites ==
  ASSUME NEW s, IsSeq(s), IsSeq(asked), shown = asked, Trap!Written(s)
  PROVE  WireStep /\ IsSeq(asked') /\ shown' = asked'
<1>1. asked' = asked \o s /\ shown' = asked'
  BY DEF Trap!Written
<1>2. IsSeq(asked')
  BY <1>1, ConcatIsSeq
<1>3. CASE s = <<>>
  BY <1>1, <1>3, ConcatIsSeq DEF WireStep
<1>4. CASE s # <<>>
  <2>1. IsStrictPrefix(asked, asked')
    BY <1>1, <1>4, ConcatIsSeq
  <2> QED BY <1>1, <1>2, <2>1
      DEF WireStep, W!Next, W!AskAndShow, W!IsStrictPrefix, W!IsPrefix, IsStrictPrefix, IsPrefix
<1> QED BY <1>1, <1>2, <1>3, <1>4

LEMMA TrapAsks ==
  ASSUME TrapInv, NEW ch, Trap!console_putc(ch)
  PROVE  TrapInv' /\ WireStep
<1> DEFINE c == <<ch>>
<1>1. Trap!Written(c) /\ IsSeq(c) /\ UNCHANGED <<drv, port>>
  BY SingleIsSeq DEF Trap!console_putc
<1> HIDE DEF c
<1>2. WireStep /\ IsSeq(asked') /\ shown' = asked'
  BY <1>1, TrapWrites DEF TrapInv
<1> QED BY <1>1, <1>2 DEF TrapInv

LEMMA TrapPuts ==
  ASSUME TrapInv, IsSeq(todo), Trap!console_puts(todo)
  PROVE  TrapInv' /\ WireStep
<1>1. drv' = [at |-> "puts", str |-> todo] /\ UNCHANGED <<port, asked, shown>>
  BY DEF Trap!console_puts
<1>2. drv'.str = todo /\ IsSeq(drv'.str)
  BY <1>1
<1> QED BY <1>1, <1>2 DEF TrapInv, WireStep

LEMMA TrapMoves ==
  ASSUME TrapInv, Trap!PutsChar \/ Trap!PutsWrite \/ Trap!PutsReturn
  PROVE  TrapInv' /\ WireStep
<1>1. drv.at = "puts" /\ drv = [at |-> "puts", str |-> drv.str] /\ IsSeq(drv.str)
  BY DEF TrapInv, Idle, Trap!PutsChar, Trap!PutsWrite, Trap!PutsReturn
<1>2. CASE Trap!PutsChar
  <2>1. /\ drv.str # <<>> /\ UNCHANGED port
        /\ Trap!Written(<<Head(drv.str)>>) /\ drv' = [drv EXCEPT !.str = Tail(@)]
    BY <1>2 DEF Trap!PutsChar
  <2>2. drv' = [at |-> "puts", str |-> Tail(drv.str)] /\ IsSeq(Tail(drv.str))
    BY <1>1, <2>1, HeadTail
  <2>3. drv' = [at |-> "puts", str |-> drv'.str] /\ IsSeq(drv'.str)
    BY <2>2
  <2> DEFINE c == <<Head(drv.str)>>
  <2>4. Trap!Written(c) /\ IsSeq(c)
    BY <2>1, SingleIsSeq
  <2> HIDE DEF c
  <2>5. WireStep /\ IsSeq(asked') /\ shown' = asked'
    BY <2>4, TrapWrites DEF TrapInv
  <2> QED BY <2>1, <2>3, <2>5 DEF TrapInv
<1>3. CASE Trap!PutsWrite
  <2>1. PICK n \in IF port.mean THEN 0 .. Len(drv.str) ELSE {Len(drv.str)} :
          /\ Trap!Written(SubSeq(drv.str, 1, n))
          /\ port' = [port EXCEPT !.cut = @ \/ n < Len(drv.str)]
    BY <1>3 DEF Trap!PutsWrite
  <2>2. n \in 0 .. Len(drv.str)
    BY <1>1, <2>1, LengthOf
  <2>3. IsSeq(SubSeq(drv.str, 1, n))
    <3>1. PICK T : drv.str \in Seq(T)
      BY <1>1 DEF IsSeq
    <3>2. SubSeq(drv.str, 1, n) \in Seq(T)
      BY <2>2, <3>1, LenProperties, SubSeqProperties
    <3> QED BY <3>2 DEF IsSeq
  <2>4. WireStep /\ IsSeq(asked') /\ shown' = asked'
    BY <2>1, <2>3, TrapWrites DEF TrapInv
  <2>5. drv' = [at |-> "puts", str |-> <<>>] /\ drv' = [at |-> "puts", str |-> drv'.str]
    BY <1>1, <1>3 DEF Trap!PutsWrite
  <2>6. IsSeq(drv'.str)
    BY <2>5, EmptyIsSeq
  <2>7. port'.device = "semihosting" /\ DOMAIN port' = DOMAIN port
    BY <2>1 DEF TrapInv
  <2> QED BY <2>4, <2>5, <2>6, <2>7 DEF TrapInv
<1>4. CASE Trap!PutsReturn
  BY <1>4 DEF Trap!PutsReturn, Trap!Idle, Idle, TrapInv, WireStep
<1> QED BY <1>2, <1>3, <1>4

-----------------------------------------------------------------------------
(* htif: a command is written only into an empty tohost, and with 32 bits   *)
(* the next one only when the last was answered.  A character is in the     *)
(* command or, with 32 bits, in magic_mem, or still with the driver.        *)

Box == port.tohost[port.htif_custom]

Letter == IF Box = <<>> THEN <<>> ELSE IF Box[1] = 0 THEN <<drv.ch>> ELSE <<Box[3]>>

Answering == drv # Idle /\ drv.back = "wait"

Hold == IF drv = Idle \/ Answering THEN <<>> ELSE <<drv.ch>>

MailShape ==
  /\ {"device", "xlen", "htif_custom", "patient", "tohost", "fromhost"} \subseteq DOMAIN port
  /\ port.device = "htif" /\ port.xlen \in {32, 64} /\ port.htif_custom \in BOOLEAN
  /\ DOMAIN port.tohost = BOOLEAN /\ DOMAIN port.fromhost = BOOLEAN

(* At a label of do_tohost_fromhost or __set_tohost. *)
Mailing ==
  /\ drv = [at |-> drv.at, back |-> drv.back, ch |-> drv.ch, fh |-> drv.fh]
  /\ drv.at \in {"set_tohost", "check_fromhost", "clear_fromhost", "write_tohost", "wait", "trap"}
  /\ drv.back \in {"set_tohost", "wait"}
  /\ drv.at \in {"set_tohost", "write_tohost"} => drv.back = "set_tohost"
  /\ drv.at = "wait" => drv.back = "wait"

BoxInv ==
  /\ \/ Box = <<>>
     \/ port.xlen = 64 /\ Box = <<1, 1, Box[3]>>
     \/ port.xlen = 32 /\ Box = <<0, 0, "magic_mem">> /\ Answering
  /\ drv.at = "write_tohost" => Box = <<>>
  /\ port.xlen = 64 => ~Answering
  /\ port.xlen = 32 => port.fromhost[FALSE] = <<>> \/ (Answering /\ Box = <<>>)

MailInv ==
  /\ MailShape
  /\ drv = Idle \/ Mailing
  /\ BoxInv
  /\ OnTheWay(Letter \o Hold)

LEMMA MailingLabels ==
  /\ Idle.at = "idle"
  /\ Mailing => drv # Idle /\ drv.at # "idle"
  /\ drv.at # "idle" => drv # Idle
<1>1. Idle.at = "idle"
  BY DEF Idle
<1>2. Mailing => drv.at # "idle"
  BY DEF Mailing
<1> QED BY <1>1, <1>2

(* Where the driver goes next. *)
Going(label, fh) == [at |-> label, back |-> drv.back, ch |-> drv.ch, fh |-> fh]

LEMMA MailingGoes ==
  ASSUME Mailing, NEW label
  PROVE  /\ [drv EXCEPT !.at = label] = Going(label, drv.fh)
         /\ \A fh : [drv EXCEPT !.at = label, !.fh = fh] = Going(label, fh)
<1>1. [drv EXCEPT !.at = label] = [at |-> label, back |-> drv.back, ch |-> drv.ch, fh |-> drv.fh]
  BY DEF Mailing
<1>2. ASSUME NEW fh
      PROVE  [drv EXCEPT !.at = label, !.fh = fh]
               = [at |-> label, back |-> drv.back, ch |-> drv.ch, fh |-> fh]
  <2> DEFINE d == [drv EXCEPT !.at = label]
  <2>1. [drv EXCEPT !.at = label, !.fh = fh] = [d EXCEPT !.fh = fh]
    OBVIOUS
  <2>2. d = [at |-> label, back |-> drv.back, ch |-> drv.ch, fh |-> drv.fh]
    BY <1>1
  <2> HIDE DEF d
  <2>3. [d EXCEPT !.fh = fh] = [at |-> label, back |-> drv.back, ch |-> drv.ch, fh |-> fh]
    BY <2>2
  <2> QED BY <2>1, <2>3
<1> QED BY <1>1, <1>2 DEF Going

LEMMA TohostWritten ==
  ASSUME MailShape, NEW val, port' = [port EXCEPT !.tohost[port.htif_custom] = val]
  PROVE  /\ MailShape' /\ Box' = val
         /\ port'.xlen = port.xlen /\ port'.fromhost = port.fromhost
<1>1. DOMAIN port' = DOMAIN port
  BY DEF MailShape
<1>2. /\ port'.device = port.device /\ port'.xlen = port.xlen
      /\ port'.htif_custom = port.htif_custom /\ port'.fromhost = port.fromhost
  BY DEF MailShape
<1>3. port'.tohost = [port.tohost EXCEPT ![port.htif_custom] = val]
  BY DEF MailShape
<1>4. DOMAIN port'.tohost = BOOLEAN /\ port'.tohost[port.htif_custom] = val
  BY <1>3 DEF MailShape
<1> QED BY <1>1, <1>2, <1>4 DEF MailShape, Box

LEMMA FromhostCleared ==
  ASSUME MailShape, NEW c \in BOOLEAN, port' = [port EXCEPT !.fromhost[c] = <<>>]
  PROVE  /\ MailShape' /\ Box' = Box /\ port'.xlen = port.xlen
         /\ port'.fromhost[FALSE] = port.fromhost[FALSE] \/ port'.fromhost[FALSE] = <<>>
         /\ c = FALSE => port'.fromhost[FALSE] = <<>>
<1>1. DOMAIN port' = DOMAIN port
  BY DEF MailShape
<1>2. /\ port'.device = port.device /\ port'.xlen = port.xlen
      /\ port'.htif_custom = port.htif_custom /\ port'.tohost = port.tohost
  BY DEF MailShape
<1>3. port'.fromhost = [port.fromhost EXCEPT ![c] = <<>>]
  BY DEF MailShape
<1>4. DOMAIN port'.fromhost = BOOLEAN /\ port'.fromhost[c] = <<>>
  BY <1>3 DEF MailShape
<1>5. c # FALSE => port'.fromhost[FALSE] = port.fromhost[FALSE]
  BY <1>3 DEF MailShape
<1> QED BY <1>1, <1>2, <1>4, <1>5 DEF MailShape, Box

LEMMA HoldCases ==
  ASSUME drv = Idle \/ Mailing
  PROVE  /\ drv = Idle \/ Answering => Hold = <<>>
         /\ drv # Idle /\ ~Answering => Hold = <<drv.ch>>
         /\ Box = <<>> => Letter = <<>>
         /\ IsSeq(Hold) /\ IsSeq(Letter)
<1>1. IsSeq(Hold)
  BY EmptyIsSeq, SingleIsSeq DEF Hold
<1>2. IsSeq(Letter)
  BY EmptyIsSeq, SingleIsSeq DEF Letter
<1> QED BY <1>1, <1>2 DEF Hold, Letter

(* A step between two labels that leaves tohost alone. *)
LEMMA MailingStep ==
  ASSUME MailInv, Mailing, NEW label, NEW fh,
         drv' = Going(label, fh),
         label \in {"set_tohost", "check_fromhost", "clear_fromhost", "write_tohost", "wait", "trap"},
         label \in {"set_tohost", "write_tohost"} => drv.back = "set_tohost",
         label = "wait" => drv.back = "wait",
         label = "write_tohost" => Box = <<>>,
         MailShape', Box' = Box, port'.xlen = port.xlen,
         port'.fromhost[FALSE] = port.fromhost[FALSE] \/ port'.fromhost[FALSE] = <<>>,
         UNCHANGED <<asked, shown>>
  PROVE  MailInv' /\ WireStep
<1>1. /\ drv' = [at |-> label, back |-> drv.back, ch |-> drv.ch, fh |-> fh]
      /\ drv'.at = label /\ drv'.back = drv.back /\ drv'.ch = drv.ch /\ drv'.fh = fh
  BY DEF Going
<1>2. Mailing'
  BY <1>1 DEF Mailing
<1>3. drv # Idle /\ drv' # Idle
  BY <1>1, MailingLabels
<1>4. (Answering' <=> Answering) /\ Hold' = Hold /\ Letter' = Letter
  BY <1>1, <1>3 DEF Answering, Hold, Letter
<1>5. BoxInv'
  BY <1>1, <1>4 DEF MailInv, BoxInv
<1>6. OnTheWay(Letter \o Hold)'
  BY <1>4 DEF MailInv, OnTheWay
<1> QED BY <1>2, <1>5, <1>6 DEF MailInv, WireStep

LEMMA MailAsks ==
  ASSUME MailInv, NEW ch, Mailbox!console_putc(ch)
  PROVE  MailInv' /\ WireStep
<1>1. /\ drv = Idle /\ UNCHANGED <<port, shown>> /\ asked' = Append(asked, ch)
      /\ drv' = [at |-> "set_tohost", back |-> "set_tohost", ch |-> ch, fh |-> <<>>]
  BY DEF Mailbox!console_putc, Mailbox!Idle, Mailbox!Zero, Idle
<1>2. drv'.at = "set_tohost" /\ drv'.back = "set_tohost" /\ drv'.ch = ch /\ drv'.fh = <<>>
  BY <1>1
<1>3. Mailing'
  BY <1>1, <1>2 DEF Mailing
<1>4. drv' # Idle /\ ~Answering /\ ~Answering' /\ Hold = <<>> /\ Hold' = <<ch>>
  BY <1>1, <1>2, MailingLabels DEF Answering, Hold
<1>5. /\ Box' = Box
      /\ Box = <<>> \/ Box = <<1, 1, Box[3]>>
  BY <1>1, <1>4 DEF MailInv, BoxInv, Box
<1>6. Letter' = Letter /\ IsSeq(Letter)
  <2>1. Box = <<>> \/ Box[1] = 1
    BY <1>5
  <2> QED BY <1>5, <2>1, HoldCases DEF Letter, MailInv
<1>7. Letter \o Hold = Letter
  BY <1>4, <1>6, ConcatIsSeq
<1>8. WireStep /\ OnTheWay(Letter \o <<ch>>)'
  BY <1>1, <1>6, <1>7, Asks DEF MailInv
<1>9. MailShape' /\ port' = port
  BY <1>1 DEF MailInv, MailShape
<1>10. BoxInv'
  <2>1. Box = <<>> \/ (port.xlen = 64 /\ Box = <<1, 1, Box[3]>>)
    BY <1>4 DEF MailInv, BoxInv
  <2>2. port.xlen = 32 => port.fromhost[FALSE] = <<>>
    BY <1>4 DEF MailInv, BoxInv
  <2>3. drv'.at # "write_tohost"
    BY <1>2
  <2> QED BY <1>4, <1>5, <1>9, <2>1, <2>2, <2>3 DEF BoxInv
<1> QED BY <1>3, <1>4, <1>8, <1>9, <1>10 DEF MailInv

LEMMA SetTohostKeeps ==
  ASSUME MailInv, Mailbox!SetTohost
  PROVE  MailInv' /\ WireStep
<1> DEFINE label == IF Box = <<>> THEN "write_tohost" ELSE "check_fromhost"
<1>1. drv.at = "set_tohost" /\ drv' = [drv EXCEPT !.at = label] /\ UNCHANGED <<port, asked, shown>>
  BY DEF Mailbox!SetTohost, Mailbox!Goto, Mailbox!read_tohost, Mailbox!Zero, Box
<1>2. Mailing
  BY <1>1, MailingLabels DEF MailInv
<1>3. drv' = Going(label, drv.fh)
  BY <1>1, <1>2, MailingGoes
<1>4. drv.back = "set_tohost"
  BY <1>1, <1>2 DEF Mailing
<1>5. MailShape' /\ Box' = Box /\ port' = port /\ UNCHANGED <<asked, shown>>
  BY <1>1 DEF MailInv, MailShape, Box
<1>6. label \in {"write_tohost", "check_fromhost"} /\ (label = "write_tohost" => Box = <<>>)
  OBVIOUS
<1> HIDE DEF label
<1> QED BY <1>2, <1>3, <1>4, <1>5, <1>6, MailingStep

LEMMA CheckFromhostKeeps ==
  ASSUME MailInv, Mailbox!CheckFromhost
  PROVE  MailInv' /\ WireStep
<1>1. drv.at = "check_fromhost" /\ UNCHANGED <<port, asked, shown>>
  BY DEF Mailbox!CheckFromhost
<1>2. Mailing
  BY <1>1, MailingLabels DEF MailInv
<1>3. MailShape' /\ Box' = Box /\ port' = port
  BY <1>1 DEF MailInv, MailShape, Box
<1>4. CASE drv' = [drv EXCEPT !.at = drv.back]
  <2>1. drv' = Going(drv.back, drv.fh)
    BY <1>2, <1>4, MailingGoes
  <2>2. drv.back = "set_tohost" \/ drv.back = "wait"
    BY <1>2 DEF Mailing
  <2> DEFINE label == drv.back
  <2>3. drv' = Going(label, drv.fh) /\ label \in {"set_tohost", "wait"} /\ label = drv.back
    BY <2>1, <2>2
  <2> HIDE DEF label
  <2> QED BY <1>1, <1>2, <1>3, <2>3, MailingStep
<1>5. CASE drv' = [drv EXCEPT !.at = "clear_fromhost", !.fh = Mailbox!read_fromhost]
  <2> DEFINE fh == Mailbox!read_fromhost
  <2>1. drv' = Going("clear_fromhost", fh)
    BY <1>2, <1>5, MailingGoes
  <2> HIDE DEF fh
  <2> QED BY <1>1, <1>2, <1>3, <2>1, MailingStep
<1> QED BY <1>4, <1>5 DEF Mailbox!CheckFromhost, Mailbox!Goto

LEMMA ClearFromhostKeeps ==
  ASSUME MailInv, Mailbox!ClearFromhost
  PROVE  MailInv' /\ WireStep
<1> DEFINE label == IF /\ Mailbox!FROMHOST_DEV(drv.fh) = 1
                       /\ Mailbox!FROMHOST_CMD(drv.fh) \in {0, 1}
                    THEN drv.back ELSE "trap"
<1>1. /\ drv.at = "clear_fromhost" /\ UNCHANGED <<asked, shown>>
      /\ drv' = [drv EXCEPT !.at = label]
      /\ port' = [port EXCEPT !.fromhost[port.htif_custom] = <<>>]
  BY DEF Mailbox!ClearFromhost, Mailbox!write_fromhost, Mailbox!Goto, Mailbox!Zero,
         Mailbox!HTIF_DEV_CONSOLE, Mailbox!HTIF_CONSOLE_CMD_GETC, Mailbox!HTIF_CONSOLE_CMD_PUTC
<1>2. Mailing
  BY <1>1, MailingLabels DEF MailInv
<1>3. /\ MailShape' /\ Box' = Box /\ port'.xlen = port.xlen
      /\ port'.fromhost[FALSE] = port.fromhost[FALSE] \/ port'.fromhost[FALSE] = <<>>
  <2>1. MailShape /\ port.htif_custom \in BOOLEAN
    BY DEF MailInv, MailShape
  <2> QED BY <1>1, <2>1, FromhostCleared
<1>4. drv' = Going(label, drv.fh) /\ UNCHANGED <<asked, shown>>
  BY <1>1, <1>2, MailingGoes
<1>5. label = "trap" \/ (label = drv.back /\ drv.back \in {"set_tohost", "wait"})
  BY <1>2 DEF Mailing
<1> HIDE DEF label
<1> QED BY <1>2, <1>3, <1>4, <1>5, MailingStep

(* The character goes from the hand of the driver to the mailbox. *)
LEMMA WriteTohostKeeps ==
  ASSUME MailInv, Mailbox!WriteTohost
  PROVE  MailInv' /\ WireStep
<1>1. drv.at = "write_tohost" /\ UNCHANGED <<asked, shown>>
  BY DEF Mailbox!WriteTohost
<1>2. Mailing /\ drv.back = "set_tohost" /\ drv # Idle /\ ~Answering /\ Box = <<>>
  BY <1>1, MailingLabels DEF MailInv, Mailing, Answering, BoxInv
<1>3. Letter = <<>> /\ Hold = <<drv.ch>> /\ IsSeq(Hold)
  BY <1>2, HoldCases
<1>4. Letter \o Hold = Hold
  BY <1>3, ConcatIsSeq
<1>5. CASE port.xlen = 64
  <2> DEFINE val == <<1, 1, drv.ch>>
  <2>1. drv' = Idle /\ port' = [port EXCEPT !.tohost[port.htif_custom] = val]
    BY <1>5 DEF Mailbox!WriteTohost, Mailbox!write_tohost, Mailbox!TOHOST_CMD, Mailbox!Idle, Idle,
                Mailbox!HTIF_DEV_CONSOLE, Mailbox!HTIF_CONSOLE_CMD_PUTC
  <2>2. MailShape' /\ Box' = val /\ port'.xlen = 64
    BY <1>5, <2>1, TohostWritten DEF MailInv
  <2>3. Box' = <<1, 1, Box'[3]>> /\ Box'[1] = 1 /\ Box'[3] = drv.ch /\ Box' # <<>>
    BY <2>2
  <2>4. Letter' = <<drv.ch>> /\ Hold' = <<>> /\ ~Answering'
    BY <2>1, <2>3 DEF Letter, Hold, Answering
  <2>5. Letter' \o Hold' = Letter \o Hold
    BY <1>3, <1>4, <2>4, ConcatIsSeq
  <2>6. OnTheWay(Letter \o Hold)'
    BY <1>1, <2>5 DEF MailInv, OnTheWay
  <2>7. drv'.at = "idle"
    BY <2>1, MailingLabels
  <2>8. BoxInv'
    BY <2>2, <2>3, <2>4, <2>7 DEF BoxInv
  <2> QED BY <1>1, <2>1, <2>2, <2>6, <2>8 DEF MailInv, WireStep
<1>6. CASE port.xlen = 32
  <2> DEFINE val == <<0, 0, "magic_mem">>
  <2>1. /\ port' = [port EXCEPT !.tohost[port.htif_custom] = val]
        /\ drv' = [drv EXCEPT !.at = "wait", !.back = "wait"]
    BY <1>6 DEF Mailbox!WriteTohost, Mailbox!write_tohost, Mailbox!TOHOST_CMD, Mailbox!HTIF_DEV_SYSTEM
  <2>2. /\ MailShape' /\ Box' = val /\ port'.xlen = 32
        /\ port'.fromhost[FALSE] = port.fromhost[FALSE]
    BY <1>6, <2>1, TohostWritten DEF MailInv
  <2>3. Box'[1] = 0 /\ Box' # <<>>
    BY <2>2
  <2>4. drv' = [at |-> "wait", back |-> "wait", ch |-> drv.ch, fh |-> drv.fh]
    BY <1>2, <2>1 DEF Mailing
  <2>5. drv'.at = "wait" /\ drv'.back = "wait" /\ drv'.ch = drv.ch /\ drv'.fh = drv.fh
    BY <2>4
  <2>6. Mailing' /\ drv' # Idle /\ Answering'
    BY <2>4, <2>5, MailingLabels DEF Mailing, Answering
  <2>7. Letter' = <<drv.ch>> /\ Hold' = <<>>
    BY <2>3, <2>5, <2>6 DEF Letter, Hold
  <2>8. Letter' \o Hold' = Letter \o Hold
    BY <1>3, <1>4, <2>7, ConcatIsSeq
  <2>9. OnTheWay(Letter \o Hold)'
    BY <1>1, <2>8 DEF MailInv, OnTheWay
  <2>10. port.fromhost[FALSE] = <<>>
    BY <1>2, <1>6 DEF MailInv, BoxInv
  <2>11. BoxInv'
    BY <2>2, <2>5, <2>6, <2>10 DEF BoxInv
  <2> QED BY <1>1, <2>2, <2>6, <2>9, <2>11 DEF MailInv, WireStep
<1> QED BY <1>5, <1>6 DEF MailInv, MailShape

(* With 32 bits the answer comes after the command was taken. *)
LEMMA WaitKeeps ==
  ASSUME MailInv, Mailbox!Wait
  PROVE  MailInv' /\ WireStep
<1>1. drv.at = "wait" /\ port.fromhost[FALSE] # <<>> /\ UNCHANGED <<asked, shown>>
  BY DEF Mailbox!Wait, Mailbox!Zero
<1>2. Mailing /\ drv.back = "wait" /\ drv # Idle /\ Answering
  BY <1>1, MailingLabels DEF MailInv, Mailing, Answering
<1>3. port.xlen = 32 /\ Box = <<>>
  BY <1>1, <1>2 DEF MailInv, MailShape, BoxInv
<1>4. CASE port' = [port EXCEPT !.fromhost[FALSE] = <<>>] /\ drv' = Idle
  <2>1. MailShape' /\ Box' = <<>> /\ port'.xlen = 32 /\ port'.fromhost[FALSE] = <<>>
    BY <1>3, <1>4, FromhostCleared DEF MailInv
  <2>2. Letter' = Letter /\ Hold' = Hold /\ ~Answering'
    BY <1>2, <1>3, <1>4, <2>1 DEF Letter, Hold, Answering
  <2>3. OnTheWay(Letter \o Hold)'
    BY <1>1, <2>2 DEF MailInv, OnTheWay
  <2>4. BoxInv'
    BY <2>1, <2>2 DEF BoxInv
  <2> QED BY <1>1, <1>4, <2>1, <2>3, <2>4 DEF MailInv, WireStep
<1>5. CASE drv' = [drv EXCEPT !.at = "check_fromhost"] /\ UNCHANGED port
  <2>1. drv' = Going("check_fromhost", drv.fh)
    BY <1>2, <1>5, MailingGoes
  <2>2. MailShape' /\ Box' = Box /\ port' = port
    BY <1>5 DEF MailInv, MailShape, Box
  <2> QED BY <1>1, <1>2, <2>1, <2>2, MailingStep
<1> QED BY <1>4, <1>5 DEF Mailbox!Wait, Mailbox!Goto, Mailbox!Zero, Mailbox!Idle, Idle

(* The host shows the character of the command, whatever it answers. *)
LEMMA TakeKeeps ==
  ASSUME MailInv, Mailbox!Take
  PROVE  MailInv' /\ WireStep
<1> DEFINE x == IF Box[1] = 0 THEN drv.ch ELSE Box[3]
<1>1. Box # <<>> /\ shown' = Append(shown, x) /\ UNCHANGED <<drv, asked>>
  BY DEF Mailbox!Take, Mailbox!Zero, Mailbox!HTIF_DEV_SYSTEM, Box
<1>2. PICK answer : port' = [port EXCEPT !.tohost[port.htif_custom] = <<>>,
                                         !.fromhost[port.htif_custom] = answer]
  BY DEF Mailbox!Take, Mailbox!Zero
<1>3. MailShape' /\ Box' = <<>> /\ port'.xlen = port.xlen
  <2>1. MailShape
    BY DEF MailInv
  <2>2. DOMAIN port' = DOMAIN port
    BY <1>2
  <2>3. /\ port'.device = port.device /\ port'.xlen = port.xlen
        /\ port'.htif_custom = port.htif_custom
    BY <1>2, <2>1 DEF MailShape
  <2>4. port'.tohost = [port.tohost EXCEPT ![port.htif_custom] = <<>>]
    BY <1>2, <2>1 DEF MailShape
  <2>5. port'.fromhost = [port.fromhost EXCEPT ![port.htif_custom] = answer]
    BY <1>2, <2>1 DEF MailShape
  <2>6. /\ DOMAIN port'.tohost = BOOLEAN /\ port'.tohost[port.htif_custom] = <<>>
        /\ DOMAIN port'.fromhost = BOOLEAN
    BY <2>1, <2>4, <2>5 DEF MailShape
  <2> QED BY <2>1, <2>2, <2>3, <2>6 DEF MailShape, Box
<1>4. Letter = <<x>> /\ Letter' = <<>> /\ Hold' = Hold /\ IsSeq(Hold)
      /\ (Answering' <=> Answering)
  <2>1. Letter = <<x>>
    BY <1>1 DEF Letter
  <2>2. Letter' = <<>>
    BY <1>3 DEF Letter
  <2>3. Hold' = Hold /\ (Answering' <=> Answering)
    BY <1>1 DEF Hold, Answering
  <2> QED BY <2>1, <2>2, <2>3, HoldCases DEF MailInv
<1> HIDE DEF x
<1>5. WireStep /\ IsSeq(shown') /\ asked' = shown' \o Hold
  <2> DEFINE inside == Letter \o Hold
  <2>1. OnTheWay(inside) /\ inside = <<x>> \o Hold
    BY <1>4 DEF MailInv
  <2> HIDE DEF inside
  <2> QED BY <1>1, <1>4, <2>1, Shows
<1>6. Letter' \o Hold' = Hold /\ IsSeq(Letter' \o Hold')
  BY <1>4, EmptyIsSeq, ConcatIsSeq
<1>7. OnTheWay(Letter \o Hold)'
  BY <1>5, <1>6 DEF OnTheWay
<1>8. port.xlen = 32 => Answering
  BY <1>1 DEF MailInv, BoxInv
<1>9. BoxInv'
  BY <1>1, <1>3, <1>4, <1>8 DEF MailInv, BoxInv
<1>10. drv' = Idle \/ Mailing'
  BY <1>1 DEF MailInv, Mailing
<1> QED BY <1>3, <1>5, <1>7, <1>9, <1>10 DEF MailInv

LEMMA MailMoves ==
  ASSUME MailInv, \/ Mailbox!SetTohost \/ Mailbox!CheckFromhost \/ Mailbox!ClearFromhost
                  \/ Mailbox!WriteTohost \/ Mailbox!Wait \/ Mailbox!Take
  PROVE  MailInv' /\ WireStep
BY SetTohostKeeps, CheckFromhostKeeps, ClearFromhostKeeps, WriteTohostKeeps, WaitKeeps, TakeKeeps

-----------------------------------------------------------------------------
(* What nputs and putc have to give is a sequence. *)

TodoInv == IsSeq(todo) /\ (pc = "putc_ch" => todo # <<>>)

LEMMA SentIsSeq ==
  ASSUME NEW n \in Nat
  PROVE  IsSeq(Sent(n))
<1> DEFINE f == Sent(n)
           S == {f[k] : k \in 1 .. n}
<1>1. f = [k \in 1 .. n |-> f[k]]
  BY DEF Sent
<1>2. f \in [1 .. n -> S]
  BY <1>1
<1> HIDE DEF f, S
<1>3. f \in Seq(S)
  BY <1>2
<1> QED BY <1>3 DEF IsSeq, f

LEMMA FormatIsSeq ==
  ASSUME CInv, done < Len(boot.calls)
  PROVE  IsSeq(Call.format)
<1>1. boot \in Boots /\ done + 1 \in DOMAIN boot.calls
  BY ConsoleAssumption DEF CInv
<1>2. boot.calls[done + 1].format \in Seq(STRING)
  BY <1>1, ConsoleAssumption
<1> QED BY <1>2 DEF IsSeq, Call

LEMMA TodoKeeps ==
  ASSUME CInv, TodoInv, [Next]_vars
  PROVE  TodoInv'
<1>1. CASE UNCHANGED <<pc, todo>>
  BY <1>1 DEF TodoInv
<1>2. CASE UNCHANGED todo /\ pc' # "putc_ch"
  BY <1>2 DEF TodoInv
<1>3. CASE Flush
  <2>1. todo' = Sent(PRINT_TBUF_MAX) /\ pc' = "nputs"
    BY <1>3 DEF Flush
  <2> QED BY <2>1, SentIsSeq, ConsoleAssumption DEF TodoInv
<1>4. CASE End
  <2>1. CASE use_tbuf /\ out_len < PRINT_TBUF_MAX
    <3>1. todo' = Sent(PRINT_TBUF_MAX - out_len) /\ pc' = "nputs"
      BY <1>4, <2>1 DEF End
    <3>2. out_len \in Nat
      BY <1>4, <2>1, RoomIsNat DEF End, CInv, CallInv, Counted
    <3>3. PRINT_TBUF_MAX - out_len \in Nat
      BY <2>1, <3>2, ConsoleAssumption
    <3>4. IsSeq(Sent(PRINT_TBUF_MAX - out_len))
      BY <3>3, SentIsSeq
    <3> QED BY <3>1, <3>4 DEF TodoInv
  <2>2. CASE ~(use_tbuf /\ out_len < PRINT_TBUF_MAX)
    BY <1>2, <1>4, <2>2 DEF End
  <2> QED BY <2>1, <2>2
<1>5. CASE CallPuts \/ CallPutc
  <2>1. done < Len(boot.calls) /\ todo' = Call.format /\ pc' # "putc_ch"
    BY <1>5 DEF CallPuts, CallPutc
  <2> QED BY <2>1, FormatIsSeq DEF TodoInv
<1>6. CASE NputsWhole \/ PutcNone
  <2>1. todo' = <<>> /\ pc' = "putc"
    BY <1>6 DEF NputsWhole, PutcNone
  <2> QED BY <2>1, EmptyIsSeq DEF TodoInv
<1>7. CASE Putc
  <2>1. todo # <<>> /\ todo' = Tail(todo) /\ pc' = "putc"
    BY <1>7 DEF Putc, TodoInv
  <2> QED BY <2>1, HeadTail DEF TodoInv
<1>8. CASE PutcCr
  BY <1>8 DEF PutcCr, TodoInv
<1>9. CASE CallPrint \/ Printc \/ Literal \/ Convert \/ Break \/ Nputs \/ PutcReturn \/ Return
  <2>1. UNCHANGED todo /\ (pc' = pc \/ pc' # "putc_ch")
    BY <1>9 DEF CallPrint, Printc, Literal, Convert, Break, Turn, Nputs, PutcReturn, Return
  <2> QED BY <1>1, <1>2, <2>1
<1>10. CASE \/ UartPoll \/ UartStore \/ CadencePoll \/ CadenceStore
            \/ SetTohost \/ CheckFromhost \/ ClearFromhost \/ WriteTohost \/ Wait
            \/ PutsChar \/ PutsWrite \/ PutsReturn \/ Device
  BY <1>1, <1>10 DEF UartPoll, UartStore, CadencePoll, CadenceStore, SetTohost, CheckFromhost,
                     ClearFromhost, WriteTohost, Wait, PutsChar, PutsWrite, PutsReturn,
                     Device, UartDrain, CadenceDrain, HostTake, consoleVars
<1>11. CASE UNCHANGED vars
  BY <1>1, <1>11 DEF vars
<1> QED BY <1>3, <1>4, <1>5, <1>6, <1>7, <1>8, <1>9, <1>10, <1>11 DEF Next, Hart

-----------------------------------------------------------------------------
(* The devices together. *)

WireInv == UartInv \/ CadenceInv \/ MailInv \/ TrapInv \/ port.device = "none"

(* Who moves. *)
UartMove == Uart!Poll \/ Uart!Store \/ Uart!Drain
CadenceMove == Cadence!Poll \/ Cadence!Store \/ Cadence!Drain
MailMove == \/ Mailbox!SetTohost \/ Mailbox!CheckFromhost \/ Mailbox!ClearFromhost
            \/ Mailbox!WriteTohost \/ Mailbox!Wait \/ Mailbox!Take
TrapMove == Trap!PutsChar \/ Trap!PutsWrite \/ Trap!PutsReturn

LEMMA Movers ==
  ASSUME [Next]_vars
  PROVE  \/ UNCHANGED wireVars
         \/ \E ch : console_putc(ch)
         \/ Trap!console_puts(todo)
         \/ UartMove \/ CadenceMove \/ MailMove \/ TrapMove
<1>1. CASE \/ CallPrint \/ Printc \/ Flush \/ Literal \/ Convert \/ Break \/ End
           \/ CallPuts \/ CallPutc \/ Nputs \/ PutcNone \/ PutcReturn \/ Return
  BY <1>1 DEF CallPrint, Printc, Flush, Literal, Convert, Break, Turn, End, CallPuts, CallPutc,
              Nputs, PutcNone, PutcReturn, Return
<1>2. CASE PutcCr \/ Putc
  BY <1>2 DEF PutcCr, Putc
<1>3. CASE NputsWhole
  BY <1>3 DEF NputsWhole
<1>4. CASE UartPoll \/ UartStore \/ UartDrain
  BY <1>4 DEF UartPoll, UartStore, UartDrain, UartMove
<1>5. CASE CadencePoll \/ CadenceStore \/ CadenceDrain
  BY <1>5 DEF CadencePoll, CadenceStore, CadenceDrain, CadenceMove
<1>6. CASE SetTohost \/ CheckFromhost \/ ClearFromhost \/ WriteTohost \/ Wait \/ HostTake
  BY <1>6 DEF SetTohost, CheckFromhost, ClearFromhost, WriteTohost, Wait, HostTake, MailMove
<1>7. CASE PutsChar \/ PutsWrite \/ PutsReturn
  BY <1>7 DEF PutsChar, PutsWrite, PutsReturn, TrapMove
<1>8. CASE UNCHANGED vars
  BY <1>8 DEF vars
<1> QED BY <1>1, <1>2, <1>3, <1>4, <1>5, <1>6, <1>7, <1>8 DEF Next, Hart, Device

(* A driver and its device move only if they are the console. *)
LEMMA OnlyMine ==
  /\ UartMove => port.device = "uart8250"
  /\ CadenceMove => port.device = "cadence_uart"
  /\ MailMove => port.device = "htif"
  /\ TrapMove \/ Trap!console_puts(todo) => port.device = "semihosting"
  /\ \A ch : console_putc(ch) =>
        \/ port.device = "uart8250" /\ Uart!console_putc(ch)
        \/ port.device = "cadence_uart" /\ Cadence!console_putc(ch)
        \/ port.device = "htif" /\ Mailbox!console_putc(ch)
        \/ port.device = "semihosting" /\ Trap!console_putc(ch)
<1>1. UartMove => port.device = "uart8250"
  BY DEF UartMove, Uart!Poll, Uart!Store, Uart!Drain, Uart!Mine
<1>2. CadenceMove => port.device = "cadence_uart"
  BY DEF CadenceMove, Cadence!Poll, Cadence!Store, Cadence!Drain, Cadence!Mine
<1>3. MailMove => port.device = "htif"
  BY DEF MailMove, Mailbox!SetTohost, Mailbox!CheckFromhost, Mailbox!ClearFromhost,
         Mailbox!WriteTohost, Mailbox!Wait, Mailbox!Take, Mailbox!Mine
<1>4. TrapMove \/ Trap!console_puts(todo) => port.device = "semihosting"
  BY DEF TrapMove, Trap!PutsChar, Trap!PutsWrite, Trap!PutsReturn, Trap!console_puts, Trap!Mine
<1>5. ASSUME NEW ch, console_putc(ch)
      PROVE  \/ port.device = "uart8250" /\ Uart!console_putc(ch)
             \/ port.device = "cadence_uart" /\ Cadence!console_putc(ch)
             \/ port.device = "htif" /\ Mailbox!console_putc(ch)
             \/ port.device = "semihosting" /\ Trap!console_putc(ch)
  BY <1>5 DEF console_putc, Uart!console_putc, Uart!Mine, Cadence!console_putc, Cadence!Mine,
              Mailbox!console_putc, Mailbox!Mine, Trap!console_putc, Trap!Mine
<1> QED BY <1>1, <1>2, <1>3, <1>4, <1>5

LEMMA WireKept ==
  ASSUME WireInv, UNCHANGED wireVars
  PROVE  WireInv' /\ WireStep
<1>1. drv' = drv /\ port' = port /\ asked' = asked /\ shown' = shown
  BY DEF wireVars
<1>2. WireStep
  BY <1>1 DEF WireStep
<1>3. UartInv => UartInv'
  BY <1>1 DEF UartInv, OnTheWay, Hand, Polling, Storing
<1>4. CadenceInv => CadenceInv'
  BY <1>1 DEF CadenceInv, OnTheWay, Hand, Polling, Storing
<1>5. MailInv => MailInv'
  BY <1>1 DEF MailInv, MailShape, Mailing, BoxInv, OnTheWay, Letter, Hold, Answering, Box
<1>6. TrapInv => TrapInv'
  BY <1>1 DEF TrapInv
<1> QED BY <1>1, <1>2, <1>3, <1>4, <1>5, <1>6 DEF WireInv

LEMMA WireNext ==
  ASSUME WireInv, TodoInv, [Next]_vars
  PROVE  WireInv' /\ WireStep
<1>1. /\ port.device = "uart8250" => UartInv
      /\ port.device = "cadence_uart" => CadenceInv
      /\ port.device = "htif" => MailInv
      /\ port.device = "semihosting" => TrapInv
  BY DEF WireInv, UartInv, CadenceInv, MailInv, MailShape, TrapInv
<1>2. CASE UNCHANGED wireVars
  BY <1>2, WireKept
<1>3. CASE \E ch : console_putc(ch)
  <2>1. PICK ch : console_putc(ch)
    BY <1>3
  <2>2. UartInv' \/ CadenceInv' \/ MailInv' \/ TrapInv'
    BY <1>1, <2>1, OnlyMine, UartAsks, CadenceAsks, MailAsks, TrapAsks
  <2>3. WireStep
    BY <1>1, <2>1, OnlyMine, UartAsks, CadenceAsks, MailAsks, TrapAsks
  <2> QED BY <2>2, <2>3 DEF WireInv
<1>4. CASE Trap!console_puts(todo)
  BY <1>1, <1>4, OnlyMine, TrapPuts DEF WireInv, TodoInv
<1>5. CASE UartMove
  BY <1>1, <1>5, OnlyMine, UartMoves DEF WireInv, UartMove
<1>6. CASE CadenceMove
  BY <1>1, <1>6, OnlyMine, CadenceMoves DEF WireInv, CadenceMove
<1>7. CASE MailMove
  BY <1>1, <1>7, OnlyMine, MailMoves DEF WireInv, MailMove
<1>8. CASE TrapMove
  BY <1>1, <1>8, OnlyMine, TrapMoves DEF WireInv, TrapMove
<1> QED BY <1>2, <1>3, <1>4, <1>5, <1>6, <1>7, <1>8, Movers

-----------------------------------------------------------------------------
(* What the init of a driver leaves is an empty device. *)

Registers(p) ==
  /\ {"device", "fifo", "dll", "dlm", "reg"} \subseteq DOMAIN p
  /\ DOMAIN p.reg = 0 .. 7 /\ p.device = "uart8250" /\ p.fifo = <<>>

(* Only register 0 without DLAB is the transmitter. *)
LEMMA RegisterSet ==
  ASSUME NEW p, Registers(p), NEW num \in 0 .. 7, NEW val, num # 0 \/ p.reg[3] = "dlab"
  PROVE  LET q == Uart!set_reg(p, num, val) IN
         Registers(q) /\ q.reg[3] = IF num = 3 THEN val ELSE p.reg[3]
<1> DEFINE q == Uart!set_reg(p, num, val)
<1> SUFFICES Registers(q) /\ q.reg[3] = IF num = 3 THEN val ELSE p.reg[3]
  OBVIOUS
<1>1. \/ num = 0 /\ q = [p EXCEPT !.dll = val]
      \/ num = 1 /\ q = [p EXCEPT !.dlm = val]
      \/ q = [p EXCEPT !.reg[num] = val]
  <2>1. CASE num = 0 /\ p.reg[3] = "dlab"
    BY <2>1 DEF Uart!set_reg, Uart!UART_THR_OFFSET, Uart!UART_DLL_OFFSET, Uart!UART_DLM_OFFSET,
                Uart!UART_LCR_OFFSET, Uart!DLAB
  <2>2. CASE num = 1 /\ p.reg[3] = "dlab"
    BY <2>2 DEF Uart!set_reg, Uart!UART_THR_OFFSET, Uart!UART_DLL_OFFSET, Uart!UART_DLM_OFFSET,
                Uart!UART_LCR_OFFSET, Uart!DLAB
  <2>3. CASE num # 0 /\ ~(num = 1 /\ p.reg[3] = "dlab")
    BY <2>3 DEF Uart!set_reg, Uart!UART_THR_OFFSET, Uart!UART_DLL_OFFSET, Uart!UART_DLM_OFFSET,
                Uart!UART_LCR_OFFSET, Uart!DLAB
  <2> QED BY <2>1, <2>2, <2>3
<1> HIDE DEF q
<1>2. CASE num = 0 /\ q = [p EXCEPT !.dll = val]
  <2>1. DOMAIN q = DOMAIN p
    BY <1>2
  <2>2. q.reg = p.reg /\ q.device = p.device /\ q.fifo = p.fifo
    BY <1>2 DEF Registers
  <2> QED BY <1>2, <2>1, <2>2 DEF Registers
<1>3. CASE num = 1 /\ q = [p EXCEPT !.dlm = val]
  <2>1. DOMAIN q = DOMAIN p
    BY <1>3
  <2>2. q.reg = p.reg /\ q.device = p.device /\ q.fifo = p.fifo
    BY <1>3 DEF Registers
  <2> QED BY <1>3, <2>1, <2>2 DEF Registers
<1>4. CASE q = [p EXCEPT !.reg[num] = val]
  <2>1. DOMAIN q = DOMAIN p
    BY <1>4
  <2>2. q.device = p.device /\ q.fifo = p.fifo
    BY <1>4 DEF Registers
  <2>3. q.reg = [p.reg EXCEPT ![num] = val]
    BY <1>4 DEF Registers
  <2>4. DOMAIN q.reg = 0 .. 7 /\ q.reg[3] = IF num = 3 THEN val ELSE p.reg[3]
    BY <2>3 DEF Registers
  <2> QED BY <2>1, <2>2, <2>4 DEF Registers
<1> QED BY <1>1, <1>2, <1>3, <1>4

LEMMA UartPorts ==
  ASSUME NEW p \in Uart!Ports(Nat, Nat)
  PROVE  Registers(p) /\ p.reg[3] = "8n1"
<1>1. PICK f \in Nat, b \in Nat : p \in Uart!uart8250_init(Uart!Reset(1), f, b)
  BY DEF Uart!Ports
<1>2. PICK d \in Uart!bdiv(f, b) :
        p = Uart!SetLine(Uart!SetDivisor(Uart!OpenLatch(Uart!Reset(1)), d))
  BY <1>1 DEF Uart!uart8250_init
<1> DEFINE r == Uart!Reset(1)
           ier == Uart!set_reg(r, 1, 0)
           open == Uart!set_reg(ier, 3, "dlab")
<1>3. Registers(r) /\ r.reg[3] = "reset"
  BY DEF Uart!Reset, Uart!UART_LCR_OFFSET, Registers
<1> HIDE DEF r
<1>4. Registers(ier)
  BY <1>3, RegisterSet
<1> HIDE DEF ier
<1>5. Registers(open) /\ open.reg[3] = "dlab"
  BY <1>4, RegisterSet
<1>6. open = Uart!OpenLatch(r)
  BY DEF Uart!OpenLatch, Uart!UART_IER_OFFSET, Uart!UART_LCR_OFFSET, Uart!DLAB, ier
<1> HIDE DEF open
<1> DEFINE set == Uart!SetDivisor(open, d)
<1>7. Registers(set) /\ set.reg[3] = "dlab"
  <2> DEFINE lo == d % U8
             hi == (d \div U8) % U8
             dll == Uart!set_reg(open, 0, lo)
             dlm == Uart!set_reg(dll, 1, hi)
  <2>1. set = IF d = 0 THEN open ELSE dlm
    BY DEF Uart!SetDivisor, Uart!UART_DLL_OFFSET, Uart!UART_DLM_OFFSET
  <2> HIDE DEF set, lo, hi
  <2>2. Registers(dll) /\ dll.reg[3] = "dlab"
    BY <1>5, RegisterSet
  <2> HIDE DEF dll
  <2>3. Registers(dlm) /\ dlm.reg[3] = "dlab"
    BY <2>2, RegisterSet
  <2> QED BY <1>5, <2>1, <2>3
<1>8. p = Uart!SetLine(set)
  BY <1>2, <1>6 DEF r
<1> HIDE DEF set
<1> DEFINE lcr == Uart!set_reg(set, 3, "8n1")
           fcr == Uart!set_reg(lcr, 2, 1)
           mcr == Uart!set_reg(fcr, 4, 0)
           scr == Uart!set_reg(mcr, 7, 0)
<1>9. p = scr
  BY <1>8 DEF Uart!SetLine, Uart!UART_LCR_OFFSET, Uart!UART_FCR_OFFSET, Uart!UART_MCR_OFFSET,
              Uart!UART_SCR_OFFSET
<1>10. Registers(lcr) /\ lcr.reg[3] = "8n1"
  BY <1>7, RegisterSet
<1> HIDE DEF lcr
<1>11. Registers(fcr) /\ fcr.reg[3] = "8n1"
  BY <1>10, RegisterSet
<1> HIDE DEF fcr
<1>12. Registers(mcr) /\ mcr.reg[3] = "8n1"
  BY <1>11, RegisterSet
<1> HIDE DEF mcr
<1>13. Registers(scr) /\ scr.reg[3] = "8n1"
  BY <1>12, RegisterSet
<1> QED BY <1>9, <1>13

LEMMA CadencePorts ==
  ASSUME NEW p \in Cadence!Ports(Nat, Nat)
  PROVE  {"device", "fifo"} \subseteq DOMAIN p /\ p.device = "cadence_uart" /\ p.fifo = <<>>
<1>1. PICK f \in Nat, b \in Nat : p = Cadence!cadence_uart_init(Cadence!Reset, f, b)
  BY DEF Cadence!Ports
<1> QED BY <1>1 DEF Cadence!cadence_uart_init, Cadence!Reset, Cadence!set_ctrl, Cadence!SetBaudrate

(* The consoles: what the drivers leave when they are initialised, for      *)
(* every clock, rate, mailbox and answer of the debugger, or none.          *)
Drivers ==
  \A b \in Boots :
    \/ b.port \in Uart!Ports(Nat, Nat) \/ b.port \in Cadence!Ports(Nat, Nat)
    \/ b.port \in Mailbox!Ports({32, 64}) \/ b.port \in Trap!Ports(Int, Nat)
    \/ b.port.device = "none"

LEMMA WireInit ==
  ASSUME Drivers, Init
  PROVE  WireInv /\ TodoInv /\ W!Init
<1>1. /\ drv = Idle /\ asked = <<>> /\ shown = <<>> /\ todo = <<>> /\ pc = "idle"
      /\ boot \in Boots /\ port = boot.port
  BY DEF Init
<1>2. TodoInv /\ W!Init
  BY <1>1, EmptyIsSeq DEF TodoInv, W!Init
<1>3. <<>> \o <<>> = <<>> /\ IsSeq(<<>>)
  BY EmptyIsSeq, ConcatIsSeq
<1>4. CASE port \in Uart!Ports(Nat, Nat)
  <2>1. Registers(port) /\ port.reg[3] = "8n1"
    BY <1>4, UartPorts
  <2>2. Hand = <<>>
    BY <1>1 DEF Hand
  <2> QED BY <1>1, <1>2, <1>3, <2>1, <2>2 DEF WireInv, UartInv, Registers, OnTheWay
<1>5. CASE port \in Cadence!Ports(Nat, Nat)
  <2>1. {"device", "fifo"} \subseteq DOMAIN port /\ port.device = "cadence_uart" /\ port.fifo = <<>>
    BY <1>5, CadencePorts
  <2>2. Hand = <<>>
    BY <1>1 DEF Hand
  <2>3. Len(port.fifo) <= Depth
    BY <2>1, ConsoleAssumption
  <2> QED BY <1>1, <1>2, <1>3, <2>1, <2>2, <2>3 DEF WireInv, CadenceInv, OnTheWay
<1>6. CASE port \in Mailbox!Ports({32, 64})
  <2>1. MailShape /\ Box = <<>> /\ port.fromhost[FALSE] = <<>>
    BY <1>6 DEF Mailbox!Ports, Mailbox!Zero, MailShape, Box
  <2>2. ~Answering /\ drv.at = "idle" /\ Letter = <<>> /\ Hold = <<>>
    BY <1>1, <2>1, MailingLabels DEF Answering, Letter, Hold
  <2>3. BoxInv
    BY <2>1, <2>2 DEF BoxInv
  <2> QED BY <1>1, <1>2, <1>3, <2>1, <2>2, <2>3 DEF WireInv, MailInv, OnTheWay
<1>7. CASE port \in Trap!Ports(Int, Nat)
  <2>1. port.device = "semihosting" /\ "device" \in DOMAIN port
    BY <1>7 DEF Trap!Ports
  <2> QED BY <1>1, <1>2, <1>3, <2>1 DEF WireInv, TrapInv
<1>8. CASE port.device = "none"
  BY <1>2, <1>8 DEF WireInv
<1>9. \/ port \in Uart!Ports(Nat, Nat) \/ port \in Cadence!Ports(Nat, Nat)
      \/ port \in Mailbox!Ports({32, 64}) \/ port \in Trap!Ports(Int, Nat)
      \/ port.device = "none"
  BY <1>1 DEF Drivers
<1> QED BY <1>4, <1>5, <1>6, <1>7, <1>8, <1>9

(* Whatever is printed, on whatever console, and whatever the device does   *)
(* between the test of THRE, TFUL or tohost and the write behind it: the    *)
(* drivers implement Wire, so every character that zStage asks for is       *)
(* shown, in order, once.                                                   *)
THEOREM ConsoleImplementsWire ==
  ASSUME Drivers
  PROVE  Spec => WirePromise
<1> DEFINE Inv == CInv /\ TodoInv /\ WireInv
<1>1. Init => Inv /\ W!Init
  BY WireInit, CInvInit
<1>2. Inv /\ [Next]_vars => Inv'
  BY WireNext, TodoKeeps, CInvNext
<1>3. Inv /\ [Next]_vars => [W!Next]_<<asked, shown>>
  BY WireNext DEF WireStep
<1> HIDE DEF Inv
<1> QED BY <1>1, <1>2, <1>3, PTL DEF Spec, WirePromise, W!Spec

-----------------------------------------------------------------------------
(* The texts of the calls. *)

LEMMA StandardsAre ==
  ASSUME NEW c, Formed(c)
  PROVE  Len(c.items) \in Nat /\ \A k \in 1 .. Len(c.items) : IsSeq(Standard(c.items[k]))
<1>1. Len(c.items) \in Nat
  BY DEF Formed
<1>2. ASSUME NEW k \in 1 .. Len(c.items) PROVE IsSeq(Standard(c.items[k]))
  <2>1. PICK i : i = c.items[k]
    OBVIOUS
  <2>2. i.conv = <<>> \/ ItemTyped(i)
    <3>1. CASE c.fn \in {"puts", "putc"}
      BY <2>1, <3>1 DEF Formed
    <3>2. CASE c.fn \notin {"puts", "putc"}
      <4>1. SpellsItem(c, k)
        BY <3>2 DEF Formed
      <4> QED BY <2>1, <4>1 DEF SpellsItem, ItemTyped
    <3> QED BY <3>1, <3>2
  <2>3. IsSeq(Standard(i))
    BY <2>2, StandardIsSeq
  <2> QED BY <2>1, <2>3
<1> QED BY <1>1, <1>2

LEMMA TextSeq ==
  ASSUME NEW c, Formed(c)
  PROVE  IsSeq(Text(c))
<1>1. PICK N \in Nat : N = Len(c.items)
  BY StandardsAre
<1>2. \A k \in 1 .. N : IsSeq(Standard(c.items[k]))
  BY <1>1, StandardsAre
<1>3. \A n \in 0 .. N : IsSeq(Upto(c, n))
  BY <1>2, UptoGrows
<1>4. IsSeq(Upto(c, N))
  BY <1>3
<1> QED BY <1>1, <1>4 DEF Text, Upto

(* puts and putc print what they are given. *)
LEMMA PutsText ==
  ASSUME NEW c, Formed(c), c.fn \in {"puts", "putc"}, IsSeq(c.format)
  PROVE  Text(c) = c.format
<1>1. PICK N \in Nat : N = Len(c.items)
  BY StandardsAre
<1>2. /\ Len(c.format) = N
      /\ \A n \in 1 .. N : c.items[n].conv = <<>> /\ c.format[n] = c.items[n].val
  BY <1>1 DEF Formed
<1>3. \A n \in 1 .. N : Standard(c.items[n]) = <<c.format[n]>>
  BY <1>2 DEF Standard
<1> DEFINE Same(n) == /\ IsSeq(Upto(c, n)) /\ Len(Upto(c, n)) = n
                      /\ \A k \in 1 .. n : Upto(c, n)[k] = c.format[k]
           T == {n \in Nat : n <= N => Same(n)}
<1>4. ASSUME NEW n \in Nat, \A m \in Nat : m < n => m \in T PROVE n \in T
  <2> SUFFICES ASSUME n <= N PROVE Same(n)
    OBVIOUS
  <2>1. CASE n = 0
    <3>1. Upto(c, n) = <<>>
      BY <2>1, UptoNone
    <3> QED BY <2>1, <3>1, EmptyIsSeq, EmptyLen
  <2>2. CASE n # 0
    <3>1. PICK m \in Nat : n = m + 1
      <4>1. n - 1 \in Nat /\ n = (n - 1) + 1
        BY <2>2
      <4> QED BY <4>1
    <3>2. Same(m)
      BY <1>4, <3>1
    <3>3. \A k \in 1 .. m + 1 : IsSeq(Standard(c.items[k]))
      BY <1>1, <3>1, StandardsAre
    <3>4. Upto(c, m + 1) = Upto(c, m) \o Standard(c.items[m + 1])
      BY <3>3, UptoMore
    <3>5. PICK x : x = c.format[n]
      OBVIOUS
    <3>6. Standard(c.items[n]) = <<x>>
      BY <1>3, <3>1, <3>5
    <3>7. Upto(c, n) = Append(Upto(c, m), x)
      BY <3>1, <3>2, <3>4, <3>6, AppendIsSeq
    <3>8. PICK p : p = Upto(c, m)
      OBVIOUS
    <3>9. IsSeq(p) /\ Len(p) = m /\ \A k \in 1 .. m : p[k] = c.format[k]
      BY <3>2, <3>8
    <3>10. /\ IsSeq(Append(p, x)) /\ Len(Append(p, x)) = m + 1
           /\ \A k \in 1 .. m : Append(p, x)[k] = p[k]
           /\ Append(p, x)[m + 1] = x
      BY <3>9, AppendAt
    <3>11. \A k \in 1 .. n : Append(p, x)[k] = c.format[k]
      <4> TAKE k \in 1 .. n
      <4>1. k \in 1 .. m \/ k = m + 1
        BY <3>1
      <4> QED BY <3>1, <3>5, <3>9, <3>10, <4>1
    <3> QED BY <3>1, <3>7, <3>8, <3>10, <3>11
  <2> QED BY <2>1, <2>2
<1>5. Same(N)
  <2> HIDE DEF T
  <2>1. Nat \subseteq T
    BY <1>4, AllNumbers
  <2> QED BY <2>1 DEF T
<1>6. Text(c) = Upto(c, N)
  BY <1>1 DEF Text, Upto
<1> QED BY <1>2, <1>5, <1>6, SeqSame

(* What putc asks for a character. *)
Put(x) == IF x = "\n" THEN <<"\r", "\n">> ELSE <<x>>

LEMMA PutIsSeq == \A x : IsSeq(Put(x))
<1> TAKE x
<1>1. <<"\r", "\n">> \in Seq({"\r", "\n"})
  OBVIOUS
<1>2. IsSeq(<<"\r", "\n">>) /\ IsSeq(<<x>>)
  BY <1>1, SingleIsSeq DEF IsSeq
<1> QED BY <1>2 DEF Put

LEMMA CrlfIs == \A t : Crlf(t) = FlattenSeq([n \in 1 .. Len(t) |-> Put(t[n])])
BY DEF Crlf, Put

LEMMA CrlfMore ==
  ASSUME NEW s, NEW x, IsSeq(s)
  PROVE  /\ Crlf(Append(s, x)) = Crlf(s) \o Put(x)
         /\ IsSeq(Crlf(s)) /\ Crlf(<<>>) = <<>>
<1>1. PICK N \in Nat : N = Len(s)
  BY SeqIs
<1>2. PICK t : t = Append(s, x)
  OBVIOUS
<1>3. Len(t) = N + 1 /\ t[N + 1] = x /\ \A k \in 1 .. N : t[k] = s[k]
  BY <1>1, <1>2, AppendAt
<1> DEFINE S == [n \in 1 .. N + 1 |-> Put(t[n])]
<1>4. FirstOf(S, N) = [n \in 1 .. N |-> Put(s[n])]
  BY <1>3 DEF FirstOf
<1>5. FirstOf(S, N + 1) = S /\ S[N + 1] = Put(x)
  BY <1>3 DEF FirstOf
<1>6. \A k \in 1 .. N + 1 : IsSeq(S[k])
  BY PutIsSeq
<1>7. Crlf(t) = FlattenSeq(S)
  BY <1>3, CrlfIs
<1> HIDE DEF S
<1>8. /\ FlattenSeq(FirstOf(S, N + 1)) = FlattenSeq(FirstOf(S, N)) \o S[N + 1]
      /\ IsSeq(FlattenSeq(FirstOf(S, N)))
  BY <1>6, FlattenMore
<1>9. Crlf(s) = FlattenSeq(FirstOf(S, N))
  BY <1>1, <1>4, CrlfIs
<1>10. Crlf(<<>>) = <<>>
  <2> DEFINE R == [n \in 1 .. 0 |-> Put(<<>>[n])]
  <2>1. FirstOf(R, 0) = R
    BY DEF FirstOf
  <2>2. Crlf(<<>>) = FlattenSeq(R)
    BY CrlfIs, EmptyLen
  <2> HIDE DEF R
  <2>3. FlattenSeq(R) = <<>>
    BY <2>1, FlattenNone
  <2> QED BY <2>2, <2>3
<1> QED BY <1>2, <1>5, <1>7, <1>8, <1>9, <1>10

(* What the driver is to be asked for the first n calls. *)
Wants(n) == FlattenSeq([k \in 1 .. n |-> Wanted(boot.calls[k])])

LEMMA WantedSeq ==
  ASSUME NEW c, Formed(c)
  PROVE  IsSeq(Wanted(c))
<1>1. IsSeq(Text(c))
  BY TextSeq
<1>2. IsSeq(Crlf(Text(c)))
  BY <1>1, CrlfMore
<1> QED BY <1>1, <1>2, EmptyIsSeq DEF Wanted

LEMMA WantsMore ==
  ASSUME boot \in Boots, NEW n \in Nat, \A k \in 1 .. n + 1 : k \in DOMAIN boot.calls
  PROVE  /\ Wants(n + 1) = Wants(n) \o Wanted(boot.calls[n + 1])
         /\ IsSeq(Wants(n)) /\ IsSeq(Wanted(boot.calls[n + 1]))
<1> DEFINE S == [k \in 1 .. n + 1 |-> Wanted(boot.calls[k])]
<1>1. FirstOf(S, n) = [k \in 1 .. n |-> Wanted(boot.calls[k])]
  BY DEF FirstOf
<1>2. FirstOf(S, n + 1) = S /\ S[n + 1] = Wanted(boot.calls[n + 1])
  BY DEF FirstOf
<1>3. \A k \in 1 .. n + 1 : IsSeq(S[k])
  <2> TAKE k \in 1 .. n + 1
  <2>1. Formed(boot.calls[k])
    BY FormatAssumption
  <2>2. S[k] = Wanted(boot.calls[k])
    OBVIOUS
  <2> HIDE DEF S
  <2>3. PICK c : c = boot.calls[k]
    OBVIOUS
  <2>4. IsSeq(Wanted(c))
    BY <2>1, <2>3, WantedSeq
  <2> QED BY <2>2, <2>3, <2>4
<1>4. Wants(n + 1) = FlattenSeq(S)
  BY DEF Wants
<1>5. Wants(n) = FlattenSeq(FirstOf(S, n))
  BY <1>1 DEF Wants
<1> HIDE DEF S
<1>6. /\ FlattenSeq(FirstOf(S, n + 1)) = FlattenSeq(FirstOf(S, n)) \o S[n + 1]
      /\ IsSeq(FlattenSeq(FirstOf(S, n)))
  <2>1. PICK R : R = S
    OBVIOUS
  <2>2. \A k \in 1 .. n + 1 : IsSeq(R[k])
    BY <1>3, <2>1
  <2>3. /\ FlattenSeq(FirstOf(R, n + 1)) = FlattenSeq(FirstOf(R, n)) \o R[n + 1]
        /\ IsSeq(FlattenSeq(FirstOf(R, n)))
    BY <2>2, FlattenMore
  <2> QED BY <2>1, <2>3
<1>7. n + 1 \in 1 .. n + 1
  OBVIOUS
<1> QED BY <1>2, <1>3, <1>4, <1>5, <1>6, <1>7

LEMMA WantsNone == Wants(0) = <<>>
<1> DEFINE R == [k \in 1 .. 0 |-> Wanted(boot.calls[k])]
<1>1. FirstOf(R, 0) = R
  BY DEF FirstOf
<1>2. Wants(0) = FlattenSeq(R)
  BY DEF Wants
<1> HIDE DEF R
<1>3. PICK Q : Q = R
  OBVIOUS
<1>4. FlattenSeq(FirstOf(Q, 0)) = <<>>
  BY FlattenNone
<1> QED BY <1>1, <1>2, <1>3, <1>4

-----------------------------------------------------------------------------
(* What the driver was asked for, at every step. *)

(* nputs gives the text of the call to semihosting as a whole. *)
Whole == port.device = "semihosting" /\ Call.fn # "putc"

Uncut == port.device = "semihosting" => ~port.cut

(* The calls that have returned say something of what was asked. *)
Good == Uncut /\ \A k \in 1 .. done : Clean(boot.calls[k])

TInv ==
  /\ \A k \in 1 .. done : k \in DOMAIN boot.calls
  /\ pc = "nputs" => Call.fn # "putc"
  /\ port.device = "semihosting" =>
       /\ "cut" \in DOMAIN port
       /\ pc \in {"putc", "putc_ch"} /\ Whole => pc = "putc" /\ todo = <<>>
       /\ drv # Idle => pc = "putc" /\ Whole

(* p is what putc was given. *)
ToPutc(p) == IsSeq(p) /\ p \o todo = Text(Call)

Asked ==
  /\ pc = "print" => asked = Wants(done)
  /\ pc = "nputs" => asked = Wants(done) /\ todo = Text(Call)
  /\ pc = "putc" /\ port.device = "none" => asked = Wants(done)
  /\ pc = "putc" /\ Whole =>
       (IF drv = Idle THEN asked ELSE asked \o drv.str) = Wants(done) \o Text(Call)
  /\ pc = "putc" /\ port.device # "none" /\ ~Whole =>
       \E p : ToPutc(p) /\ asked = Wants(done) \o Crlf(p)
  /\ pc = "putc_ch" =>
       /\ Head(todo) = "\n"
       /\ \E p : ToPutc(p) /\ asked = (Wants(done) \o Crlf(p)) \o <<"\r">>
  /\ pc \in {"return", "hang"} => asked = Wants(done) \o Wanted(Call)

AInv ==
  Good => IF pc = "idle" THEN asked = Wants(done) ELSE Clean(Call) => Asked

LEMMA HereKept ==
  ASSUME UNCHANGED <<boot, done>>, port'.device = port.device
  PROVE  /\ Call' = Call /\ (Wants(done))' = Wants(done) /\ (Wanted(Call))' = Wanted(Call)
         /\ (Text(Call))' = Text(Call) /\ (Clean(Call))' = Clean(Call) /\ Whole' = Whole
         /\ (\A k \in 1 .. done : Clean(boot.calls[k]))' = (\A k \in 1 .. done : Clean(boot.calls[k]))
<1>1. Call' = Call /\ (Text(Call))' = Text(Call) /\ (Clean(Call))' = Clean(Call)
  BY NowKept
<1>2. (Wants(done))' = Wants(done)
  BY DEF Wants, Wanted
<1>3. (Wanted(Call))' = Wanted(Call)
  BY <1>1 DEF Wanted
<1> QED BY <1>1, <1>2, <1>3 DEF Whole

(* A step that asks for nothing. *)
LEMMA AskedKept ==
  ASSUME TInv, AInv, UNCHANGED <<boot, done, pc, todo, asked>>, port'.device = port.device,
         port.device = "semihosting" => UNCHANGED <<drv, port>>
  PROVE  TInv' /\ AInv'
<1>1. /\ Call' = Call /\ (Wants(done))' = Wants(done) /\ (Wanted(Call))' = Wanted(Call)
      /\ (Text(Call))' = Text(Call) /\ (Clean(Call))' = Clean(Call) /\ Whole' = Whole
      /\ (\A k \in 1 .. done : Clean(boot.calls[k]))' = (\A k \in 1 .. done : Clean(boot.calls[k]))
  BY HereKept
<1>2. Good' = Good
  BY <1>1 DEF Good, Uncut
<1>3. \A p : ToPutc(p)' = ToPutc(p)
  BY <1>1 DEF ToPutc
<1>4. TInv'
  BY <1>1 DEF TInv
<1>5. Whole => UNCHANGED drv
  BY DEF Whole
<1>6. Asked => Asked'
  BY <1>1, <1>3, <1>5 DEF Asked
<1> QED BY <1>1, <1>2, <1>4, <1>6 DEF AInv

LEMMA BaseSeq ==
  ASSUME CInv, TInv, done + 1 \in DOMAIN boot.calls
  PROVE  /\ Formed(Call) /\ IsSeq(Wants(done)) /\ IsSeq(Wanted(Call)) /\ IsSeq(Text(Call))
         /\ Wants(done + 1) = Wants(done) \o Wanted(Call)
<1>1. boot \in Boots /\ done \in Nat /\ Formed(Call)
  BY CallIs DEF CInv
<1>2. \A k \in 1 .. done + 1 : k \in DOMAIN boot.calls
  <2> TAKE k \in 1 .. done + 1
  <2>1. k \in 1 .. done \/ k = done + 1
    BY <1>1
  <2> QED BY <2>1 DEF TInv
<1>3. PICK n \in Nat : n = done
  BY <1>1
<1>4. /\ Wants(n + 1) = Wants(n) \o Wanted(boot.calls[n + 1])
      /\ IsSeq(Wants(n)) /\ IsSeq(Wanted(boot.calls[n + 1]))
  BY <1>1, <1>2, <1>3, WantsMore
<1>5. PICK c : c = Call
  OBVIOUS
<1>6. IsSeq(Text(c))
  BY <1>1, <1>5, TextSeq
<1> QED BY <1>1, <1>3, <1>4, <1>5, <1>6 DEF Call

(* putc starts with nothing given. *)
LEMMA StartPutc ==
  ASSUME NEW w, IsSeq(w), NEW t, IsSeq(t)
  PROVE  \E p : IsSeq(p) /\ p \o t = t /\ w = w \o Crlf(p)
<1>1. PICK p : p = <<>>
  OBVIOUS
<1>2. IsSeq(p) /\ Crlf(p) = p
  BY <1>1, EmptyIsSeq, CrlfMore
<1>3. p \o t = t /\ w \o p = w
  BY <1>1, ConcatIsSeq
<1> QED BY <1>2, <1>3

LEMMA ABegin ==
  ASSUME CInv, TInv, AInv, CallPrint \/ CallPuts \/ CallPutc
  PROVE  TInv' /\ AInv'
<1>1. /\ pc = "idle" /\ done + 1 \in DOMAIN boot.calls /\ UNCHANGED <<boot, done, drv, port, asked>>
      /\ \/ pc' = "print"
         \/ pc' = "nputs" /\ Call.fn = "puts" /\ todo' = Call.format
         \/ pc' = "putc" /\ Call.fn = "putc" /\ todo' = Call.format
  BY ConsoleAssumption DEF CInv, CallPrint, CallPuts, CallPutc, wireVars
<1>2. /\ Call' = Call /\ (Wants(done))' = Wants(done)
      /\ (Text(Call))' = Text(Call) /\ Whole' = Whole
      /\ (\A k \in 1 .. done : Clean(boot.calls[k]))' = (\A k \in 1 .. done : Clean(boot.calls[k]))
  BY <1>1, HereKept
<1>3. Good' = Good
  BY <1>1, <1>2 DEF Good, Uncut
<1>4. TInv'
  BY <1>1, <1>2 DEF TInv, Whole
<1>5. IsSeq(Wants(done)) /\ IsSeq(Text(Call)) /\ Formed(Call)
  BY <1>1, BaseSeq
<1>6. Call.fn \in {"puts", "putc"} => Call.format = Text(Call)
  <2>1. PICK c : c = Call
    OBVIOUS
  <2>2. IsSeq(c.format)
    BY <1>1, <2>1, ConsoleAssumption DEF CInv, Call, IsSeq
  <2>3. c.fn \in {"puts", "putc"} => Text(c) = c.format
    BY <1>5, <2>1, <2>2, PutsText
  <2> QED BY <2>1, <2>3
<1>7. \E p : IsSeq(p) /\ p \o Text(Call) = Text(Call) /\ Wants(done) = Wants(done) \o Crlf(p)
  <2>1. PICK w : w = Wants(done)
    OBVIOUS
  <2>2. PICK t : t = Text(Call)
    OBVIOUS
  <2>3. IsSeq(w) /\ IsSeq(t)
    BY <1>5, <2>1, <2>2
  <2>4. \E p : IsSeq(p) /\ p \o t = t /\ w = w \o Crlf(p)
    BY <2>3, StartPutc
  <2> QED BY <2>1, <2>2, <2>4
<1>8. ASSUME asked = Wants(done) PROVE Asked'
  <2>1. CASE pc' = "print"
    BY <1>1, <1>2, <1>8, <2>1 DEF Asked
  <2>2. CASE pc' = "nputs" /\ Call.fn = "puts" /\ todo' = Call.format
    BY <1>1, <1>2, <1>6, <1>8, <2>2 DEF Asked
  <2>3. CASE pc' = "putc" /\ Call.fn = "putc" /\ todo' = Call.format
    <3>1. todo' = Text(Call) /\ ~Whole'
      BY <1>2, <1>6, <2>3 DEF Whole
    <3>2. \E p : ToPutc(p)' /\ asked' = (Wants(done))' \o Crlf(p)
      BY <1>1, <1>2, <1>7, <1>8, <3>1 DEF ToPutc
    <3> QED BY <1>1, <1>2, <1>8, <2>3, <3>1, <3>2 DEF Asked
  <2> QED BY <1>1, <2>1, <2>2, <2>3
<1> QED BY <1>1, <1>3, <1>4, <1>8 DEF AInv

(* What print hands over at the end is the text. *)
LEMMA SendsAll ==
  ASSUME CInv, FInv, Clean(Call), End
  PROVE  /\ pc' = "nputs" => todo' = Text(Call)
         /\ pc' = "return" => Call.fn \in {"sprintf", "snprintf"} \/ Text(Call) = <<>>
<1>1. /\ pc = "print" /\ Call.fn \in PrintFns /\ done + 1 \in DOMAIN boot.calls
      /\ IF use_tbuf /\ out_len < PRINT_TBUF_MAX
         THEN todo' = Sent(PRINT_TBUF_MAX - out_len) /\ pc' = "nputs"
         ELSE pc' = "return"
  BY DEF End, CInv, FInv
<1>2. Held(Text(Call)) /\ IsSeq(Text(Call))
  BY AllPrinted DEF End
<1>3. CASE ~use_tbuf
  BY <1>1, <1>3 DEF use_tbuf, PrintFns
<1>4. CASE use_tbuf
  <2>1. room = PRINT_TBUF_MAX /\ PRINT_TBUF_MAX \in Nat /\ PRINT_TBUF_MAX > 1 /\ Bounded
    BY <1>1, <1>4, RoomIsNat DEF CInv, use_tbuf, Bounded
  <2>2. Len(Text(Call)) < PRINT_TBUF_MAX
    BY <1>4 DEF Clean, Short, use_tbuf
  <2>3. PICK t : t = Text(Call)
    OBVIOUS
  <2>4. PICK n \in Nat : n = Len(t)
    BY <1>2, <2>3, SeqIs
  <2>5. n < PRINT_TBUF_MAX /\ Fit(n) = n /\ out_len = PRINT_TBUF_MAX - n
    BY <1>2, <2>1, <2>2, <2>3, <2>4 DEF Held, Fit
  <2>6. n > 0 => /\ 0 .. n \subseteq DOMAIN mem
                 /\ \A k \in 1 .. n : mem[k - 1] = t[k]
    BY <1>2, <2>3, <2>4, <2>5 DEF Held
  <2>7. CASE n = 0
    <3>1. pc' = "return"
      BY <1>1, <2>1, <2>5, <2>7
    <3>2. t = <<>>
      BY <1>2, <2>3, <2>4, <2>7, EmptyLen
    <3> QED BY <2>3, <3>1, <3>2
  <2>8. CASE n > 0
    <3>1. PRINT_TBUF_MAX - out_len = n /\ out_len < PRINT_TBUF_MAX
      BY <2>1, <2>5, <2>8
    <3>2. pc' = "nputs" /\ todo' = Sent(n)
      BY <1>1, <1>4, <3>1
    <3>3. PICK s : s = Sent(n)
      OBVIOUS
    <3>4. s = [k \in 1 .. n |-> s[k]]
      BY <3>3 DEF Sent
    <3>5. \A k \in 1 .. n : s[k] = t[k]
      <4> TAKE k \in 1 .. n
      <4>1. k - 1 \in 0 .. n
        OBVIOUS
      <4>2. k - 1 \in DOMAIN mem /\ mem[k - 1] = t[k]
        BY <2>6, <2>8, <4>1
      <4> QED BY <3>3, <4>2 DEF Sent
    <3>6. IsSeq(s) /\ Len(s) = n
      BY <3>4, SeqMade
    <3>7. s = t
      BY <1>2, <2>3, <2>4, <3>5, <3>6, SeqSame
    <3> QED BY <2>3, <3>2, <3>3, <3>7
  <2> QED BY <2>7, <2>8
<1> QED BY <1>3, <1>4

LEMMA AEnd ==
  ASSUME CInv, FInv, TInv, AInv, Flush \/ End
  PROVE  TInv' /\ AInv'
<1>1. /\ pc = "print" /\ done + 1 \in DOMAIN boot.calls /\ UNCHANGED <<boot, done, drv, port, asked>>
      /\ pc' \in {"nputs", "return"} /\ Call.fn \in PrintFns
  BY DEF CInv, FInv, Flush, End, wireVars
<1>2. /\ Call' = Call /\ (Wants(done))' = Wants(done) /\ (Wanted(Call))' = Wanted(Call)
      /\ (Text(Call))' = Text(Call) /\ (Clean(Call))' = Clean(Call) /\ Whole' = Whole
      /\ (\A k \in 1 .. done : Clean(boot.calls[k]))' = (\A k \in 1 .. done : Clean(boot.calls[k]))
  BY <1>1, HereKept
<1>3. Good' = Good
  BY <1>1, <1>2 DEF Good, Uncut
<1>4. TInv'
  BY <1>1, <1>2 DEF TInv, PrintFns
<1>5. ASSUME Clean(Call), asked = Wants(done) PROVE Asked'
  <2>1. End
    BY <1>5, NeverFull DEF Flush
  <2>2. /\ pc' = "nputs" => todo' = Text(Call)
        /\ pc' = "return" => Call.fn \in {"sprintf", "snprintf"} \/ Text(Call) = <<>>
    BY <1>5, <2>1, SendsAll
  <2>3. CASE pc' = "nputs"
    BY <1>1, <1>2, <1>5, <2>2, <2>3 DEF Asked
  <2>4. CASE pc' = "return"
    <3>1. Wanted(Call) = <<>>
      <4>1. Crlf(<<>>) = <<>>
        BY EmptyIsSeq, CrlfMore
      <4> QED BY <2>2, <2>4, <4>1 DEF Wanted
    <3>2. Wants(done) \o <<>> = Wants(done)
      <4>1. PICK w : w = Wants(done)
        OBVIOUS
      <4>2. IsSeq(w)
        BY <1>1, <4>1, BaseSeq
      <4> QED BY <4>1, <4>2, ConcatIsSeq
    <3> QED BY <1>1, <1>2, <1>5, <2>4, <3>1, <3>2 DEF Asked
  <2> QED BY <1>1, <2>3, <2>4
<1>6. Good /\ Clean(Call) => asked = Wants(done)
  BY <1>1 DEF AInv, Asked
<1> QED BY <1>1, <1>2, <1>3, <1>4, <1>5, <1>6 DEF AInv

(* nputs gives its text to semihosting, or goes on to putc. *)
LEMMA ANputs ==
  ASSUME CInv, FInv, TInv, AInv, WireInv, NputsWhole \/ Nputs
  PROVE  TInv' /\ AInv'
<1>1. pc = "nputs" /\ pc' = "putc" /\ done + 1 \in DOMAIN boot.calls
      /\ UNCHANGED <<boot, done, port, asked>> /\ Call.fn # "putc"
  BY DEF CInv, TInv, NputsWhole, Nputs, wireVars, Trap!console_puts
<1>2. /\ Call' = Call /\ (Wants(done))' = Wants(done)
      /\ (Text(Call))' = Text(Call) /\ (Clean(Call))' = Clean(Call) /\ Whole' = Whole
      /\ (\A k \in 1 .. done : Clean(boot.calls[k]))' = (\A k \in 1 .. done : Clean(boot.calls[k]))
  BY <1>1, HereKept
<1>3. Good' = Good
  BY <1>1, <1>2 DEF Good, Uncut
<1>4. Good /\ Clean(Call) => asked = Wants(done) /\ todo = Text(Call)
  BY <1>1 DEF AInv, Asked
<1>5. CASE NputsWhole
  <2>1. Whole /\ todo' = <<>> /\ drv' = [at |-> "puts", str |-> todo]
    BY <1>1, <1>5 DEF NputsWhole, Whole, Trap!console_puts, Trap!Mine
  <2>2. drv' # Idle /\ drv'.str = todo
    <3>1. drv'.at = "puts" /\ drv'.str = todo
      BY <2>1
    <3>2. Idle.at # "puts"
      BY DEF Idle
    <3> QED BY <3>1, <3>2
  <2>3. TInv'
    BY <1>1, <1>2, <2>1 DEF TInv
  <2>4. ASSUME Good, Clean(Call) PROVE Asked'
    BY <1>1, <1>2, <1>4, <2>1, <2>2, <2>4 DEF Asked, Whole
  <2> QED BY <1>1, <1>2, <1>3, <2>3, <2>4 DEF AInv
<1>6. CASE Nputs
  <2>1. port.device # "semihosting" /\ UNCHANGED todo /\ ~Whole
    BY <1>6 DEF Nputs, Whole
  <2>2. TInv'
    BY <1>1, <1>2, <2>1 DEF TInv
  <2>3. ASSUME Good, Clean(Call) PROVE Asked'
    <3>1. PICK w : w = Wants(done)
      OBVIOUS
    <3>2. PICK t : t = Text(Call)
      OBVIOUS
    <3>3. IsSeq(w) /\ IsSeq(t)
      BY <1>1, <3>1, <3>2, BaseSeq
    <3>4. \E p : IsSeq(p) /\ p \o t = t /\ w = w \o Crlf(p)
      BY <3>3, StartPutc
    <3>5. \E p : ToPutc(p)' /\ asked' = (Wants(done))' \o Crlf(p)
      BY <1>1, <1>2, <1>4, <2>1, <2>3, <3>1, <3>2, <3>4 DEF ToPutc
    <3> QED BY <1>1, <1>2, <1>4, <2>1, <2>3, <3>5 DEF Asked
  <2> QED BY <1>1, <1>2, <1>3, <2>2, <2>3 DEF AInv
<1> QED BY <1>5, <1>6

(* A call of console_putc. *)
LEMMA OneAsked ==
  ASSUME WireInv, NEW ch, console_putc(ch)
  PROVE  /\ asked' = Append(asked, ch) /\ UNCHANGED port /\ port.device # "none"
         /\ port.device = "semihosting" => UNCHANGED drv
<1>1. CASE port.device = "semihosting"
  <2>1. Trap!Written(<<ch>>) /\ UNCHANGED <<drv, port>>
    BY <1>1, OnlyMine DEF Trap!console_putc
  <2>2. asked' = asked \o <<ch>>
    BY <2>1 DEF Trap!Written
  <2>3. PICK a : a = asked
    OBVIOUS
  <2>4. IsSeq(a)
    BY <1>1, <2>3 DEF WireInv, UartInv, CadenceInv, MailInv, MailShape, TrapInv
  <2>5. Append(a, ch) = a \o <<ch>>
    BY <2>4, AppendIsSeq
  <2> QED BY <1>1, <2>1, <2>2, <2>3, <2>5
<1>2. CASE port.device # "semihosting"
  BY <1>2, OnlyMine DEF Uart!console_putc, Cadence!console_putc, Mailbox!console_putc
<1> QED BY <1>1, <1>2

LEMMA AppendConcat ==
  ASSUME NEW w, NEW d, NEW x, IsSeq(w), IsSeq(d)
  PROVE  Append(w \o d, x) = w \o Append(d, x)
<1>1. PICK c : c = <<x>>
  OBVIOUS
<1>2. IsSeq(c)
  BY <1>1, SingleIsSeq
<1>3. (w \o d) \o c = w \o (d \o c)
  BY <1>2, ConcatAssoc
<1>4. IsSeq(w \o d)
  BY ConcatIsSeq
<1>5. PICK wd : wd = w \o d
  OBVIOUS
<1>6. Append(wd, x) = wd \o c
  BY <1>1, <1>4, <1>5, AppendIsSeq
<1>7. Append(d, x) = d \o c
  BY <1>1, AppendIsSeq
<1> QED BY <1>3, <1>5, <1>6, <1>7

(* The character that putc takes, and what it asks for it. *)
LEMMA Takes ==
  ASSUME NEW p, IsSeq(p), NEW x, NEW r, IsSeq(r)
  PROVE  IsSeq(Append(p, x)) /\ Append(p, x) \o r = p \o (<<x>> \o r)
<1>1. PICK c : c = <<x>>
  OBVIOUS
<1>2. IsSeq(c)
  BY <1>1, SingleIsSeq
<1>3. (p \o c) \o r = p \o (c \o r)
  BY <1>2, ConcatAssoc
<1> QED BY <1>1, <1>3, AppendIsSeq

LEMMA AsksPlain ==
  ASSUME NEW w, IsSeq(w), NEW p, IsSeq(p), NEW x, x # "\n"
  PROVE  Append(w \o Crlf(p), x) = w \o Crlf(Append(p, x))
<1>1. PICK d : d = Crlf(p)
  OBVIOUS
<1>2. IsSeq(d) /\ Crlf(Append(p, x)) = d \o Put(x)
  BY <1>1, CrlfMore
<1>3. Put(x) = <<x>>
  BY DEF Put
<1>4. IsSeq(d)
  BY <1>2
<1>5. Append(w \o d, x) = w \o Append(d, x)
  BY <1>4, AppendConcat
<1>6. Append(d, x) = d \o <<x>>
  BY <1>4, AppendIsSeq
<1> QED BY <1>1, <1>2, <1>3, <1>5, <1>6

LEMMA AsksNewline ==
  ASSUME NEW w, IsSeq(w), NEW p, IsSeq(p)
  PROVE  /\ Append((w \o Crlf(p)) \o <<"\r">>, "\n") = w \o Crlf(Append(p, "\n"))
         /\ Append(w \o Crlf(p), "\r") = (w \o Crlf(p)) \o <<"\r">>
<1>1. PICK d : d = Crlf(p)
  OBVIOUS
<1>2. IsSeq(d) /\ Crlf(Append(p, "\n")) = d \o Put("\n")
  BY <1>1, CrlfMore
<1>3. PICK e : e = <<"\r">>
  OBVIOUS
<1>4. PICK f : f = <<"\r", "\n">>
  OBVIOUS
<1>5. Put("\n") = f
  BY <1>4 DEF Put
<1>6. IsSeq(d) /\ IsSeq(e)
  BY <1>2, <1>3, SingleIsSeq
<1>7. f = Append(e, "\n")
  <2>1. IsSeq(f)
    <3>1. f \in Seq({"\r", "\n"})
      BY <1>4
    <3> QED BY <3>1 DEF IsSeq
  <2>2. Len(f) = Len(e) + 1 /\ \A k \in 1 .. Len(e) : f[k] = e[k]
    BY <1>3, <1>4
  <2>3. f[Len(e) + 1] = "\n"
    BY <1>3, <1>4
  <2>4. IsSeq(e)
    BY <1>6
  <2> QED BY <2>1, <2>2, <2>3, <2>4, AppendSame
<1>8. PICK wd : wd = w \o d
  OBVIOUS
<1>9. IsSeq(wd)
  BY <1>6, <1>8, ConcatIsSeq
<1>10. Append(wd \o e, "\n") = wd \o Append(e, "\n")
  BY <1>6, <1>9, AppendConcat
<1>11. IsSeq(f)
  BY <1>6, <1>7, AppendIsSeq
<1>12. (w \o d) \o f = w \o (d \o f)
  BY <1>6, <1>11, ConcatAssoc
<1>13. Append(wd, "\r") = wd \o <<"\r">>
  BY <1>9, AppendIsSeq
<1> QED BY <1>1, <1>2, <1>3, <1>5, <1>7, <1>8, <1>10, <1>12, <1>13

LEMMA APutc ==
  ASSUME CInv, FInv, TInv, AInv, TodoInv, WireInv, PutcCr \/ Putc
  PROVE  TInv' /\ AInv'
<1> DEFINE x == Head(todo)
           r == Tail(todo)
<1>1. /\ pc \in {"putc", "putc_ch"} /\ todo # <<>> /\ done + 1 \in DOMAIN boot.calls
      /\ UNCHANGED <<boot, done>> /\ IsSeq(todo)
  BY DEF CInv, TodoInv, PutcCr, Putc
<1>2. PICK ch : console_putc(ch)
  BY DEF PutcCr, Putc
<1>3. /\ UNCHANGED port /\ port.device # "none"
      /\ port.device = "semihosting" => UNCHANGED drv
  BY <1>2, OneAsked
<1>4. ~Whole
  BY <1>1 DEF TInv, Whole
<1>5. /\ Call' = Call /\ (Wants(done))' = Wants(done)
      /\ (Text(Call))' = Text(Call) /\ (Clean(Call))' = Clean(Call) /\ Whole' = Whole
      /\ (\A k \in 1 .. done : Clean(boot.calls[k]))' = (\A k \in 1 .. done : Clean(boot.calls[k]))
  BY <1>1, <1>3, HereKept
<1>6. Good' = Good
  BY <1>1, <1>3, <1>5 DEF Good, Uncut
<1>7. pc' \in {"putc", "putc_ch"}
  BY DEF PutcCr, Putc
<1>8. TInv'
  BY <1>1, <1>3, <1>4, <1>5, <1>7 DEF TInv
<1>9. IsSeq(r) /\ todo = <<x>> \o r
  BY <1>1, HeadTail
<1>10. PICK w : w = Wants(done)
  OBVIOUS
<1>11. IsSeq(w)
  BY <1>1, <1>10, BaseSeq
<1>12. PICK h : h = x
  OBVIOUS
<1>13. PICK c : c = <<h>>
  OBVIOUS
<1>14. PICK s : s = r
  OBVIOUS
<1>15. IsSeq(s) /\ todo = c \o s /\ h = Head(todo)
  BY <1>9, <1>12, <1>13, <1>14
<1> HIDE DEF x, r
<1>16. ASSUME NEW p, IsSeq(p)
       PROVE  /\ IsSeq(Append(p, h)) /\ Append(p, h) \o s = p \o todo
              /\ h # "\n" => Append(w \o Crlf(p), h) = w \o Crlf(Append(p, h))
              /\ h = "\n" => Append((w \o Crlf(p)) \o <<"\r">>, h) = w \o Crlf(Append(p, h))
              /\ Append(w \o Crlf(p), "\r") = (w \o Crlf(p)) \o <<"\r">>
  <2>1. IsSeq(p) /\ IsSeq(w) /\ IsSeq(s)
    BY <1>11, <1>15, <1>16
  <2>2. IsSeq(Append(p, h)) /\ Append(p, h) \o s = p \o (<<h>> \o s)
    BY <2>1, Takes
  <2>3. h # "\n" => Append(w \o Crlf(p), h) = w \o Crlf(Append(p, h))
    BY <2>1, AsksPlain
  <2>4. /\ Append((w \o Crlf(p)) \o <<"\r">>, "\n") = w \o Crlf(Append(p, "\n"))
        /\ Append(w \o Crlf(p), "\r") = (w \o Crlf(p)) \o <<"\r">>
    BY <2>1, AsksNewline
  <2> QED BY <1>13, <1>15, <2>2, <2>3, <2>4
<1>17. ASSUME Good, Clean(Call) PROVE Asked'
  <2>1. Asked
    BY <1>1, <1>17 DEF AInv
  <2>2. CASE PutcCr
    <3>1. /\ pc = "putc" /\ Head(todo) = "\n" /\ pc' = "putc_ch" /\ UNCHANGED todo
          /\ console_putc("\r")
      BY <2>2 DEF PutcCr
    <3>2. asked' = Append(asked, "\r")
      BY <3>1, OneAsked
    <3>3. PICK p : ToPutc(p) /\ asked = w \o Crlf(p)
      BY <1>3, <1>4, <1>10, <2>1, <3>1 DEF Asked
    <3>4. asked' = (w \o Crlf(p)) \o <<"\r">>
      BY <1>16, <3>2, <3>3 DEF ToPutc
    <3>5. ToPutc(p)'
      BY <1>5, <3>1, <3>3 DEF ToPutc
    <3> QED BY <1>5, <1>10, <3>1, <3>4, <3>5 DEF Asked
  <2>3. CASE Putc
    <3>1. /\ pc' = "putc" /\ todo' = s /\ console_putc(h)
          /\ \/ pc = "putc" /\ h # "\n"
             \/ pc = "putc_ch"
      BY <1>14, <1>15, <2>3 DEF Putc, r
    <3>2. asked' = Append(asked, h)
      BY <3>1, OneAsked
    <3>3. \E q : IsSeq(q) /\ q \o s = Text(Call) /\ asked' = w \o Crlf(q)
      <4>1. CASE pc = "putc" /\ h # "\n"
        <5>1. PICK p : ToPutc(p) /\ asked = w \o Crlf(p)
          BY <1>3, <1>4, <1>10, <2>1, <4>1 DEF Asked
        <5>2. IsSeq(p) /\ p \o todo = Text(Call)
          BY <5>1 DEF ToPutc
        <5>3. /\ IsSeq(Append(p, h)) /\ Append(p, h) \o s = p \o todo
              /\ Append(w \o Crlf(p), h) = w \o Crlf(Append(p, h))
          BY <1>16, <4>1, <5>2
        <5> QED BY <3>2, <5>1, <5>2, <5>3
      <4>2. CASE pc = "putc_ch"
        <5>1. PICK p : ToPutc(p) /\ asked = (w \o Crlf(p)) \o <<"\r">>
          BY <1>10, <2>1, <4>2 DEF Asked
        <5>2. IsSeq(p) /\ p \o todo = Text(Call) /\ h = "\n"
          BY <1>15, <2>1, <4>2, <5>1 DEF ToPutc, Asked
        <5>3. /\ IsSeq(Append(p, h)) /\ Append(p, h) \o s = p \o todo
              /\ Append((w \o Crlf(p)) \o <<"\r">>, h) = w \o Crlf(Append(p, h))
          BY <1>16, <5>2
        <5> QED BY <3>2, <5>1, <5>2, <5>3
      <4> QED BY <3>1, <4>1, <4>2
    <3>4. \E q : ToPutc(q)' /\ asked' = (Wants(done))' \o Crlf(q)
      BY <1>5, <1>10, <3>1, <3>3 DEF ToPutc
    <3> QED BY <1>3, <1>4, <1>5, <3>1, <3>4 DEF Asked
  <2> QED BY <2>2, <2>3
<1> QED BY <1>5, <1>6, <1>7, <1>8, <1>17 DEF AInv

(* putc has nothing left to give. *)
LEMMA APutcEnds ==
  ASSUME CInv, FInv, TInv, AInv, TodoInv, WireInv, PutcNone \/ PutcReturn
  PROVE  TInv' /\ AInv'
<1>1. /\ pc = "putc" /\ done + 1 \in DOMAIN boot.calls
      /\ UNCHANGED <<boot, done, pos, drv, port, asked>>
      /\ pc' \in {"putc", "print", "return"}
  BY DEF CInv, PutcNone, PutcReturn, wireVars, printVars
<1>2. /\ Call' = Call /\ (Wants(done))' = Wants(done) /\ (Wanted(Call))' = Wanted(Call)
      /\ (Text(Call))' = Text(Call) /\ (Clean(Call))' = Clean(Call) /\ Whole' = Whole
      /\ (\A k \in 1 .. done : Clean(boot.calls[k]))' = (\A k \in 1 .. done : Clean(boot.calls[k]))
  BY <1>1, HereKept
<1>3. Good' = Good
  BY <1>1, <1>2 DEF Good, Uncut
<1>4. Call.fn \notin {"sprintf", "snprintf"}
  BY <1>1 DEF FInv
<1>5. CASE PutcNone
  <2>1. port.device = "none" /\ pc' = "putc" /\ ~Whole
    BY <1>1, <1>5 DEF PutcNone, Whole
  <2>2. TInv'
    BY <1>1, <1>2, <2>1 DEF TInv
  <2>3. Asked => Asked'
    BY <1>1, <1>2, <2>1 DEF Asked
  <2> QED BY <1>1, <1>2, <1>3, <2>1, <2>2, <2>3 DEF AInv
<1>6. CASE PutcReturn
  <2>1. /\ todo = <<>> /\ drv = Idle /\ UNCHANGED todo
        /\ pc' = IF use_tbuf /\ At(pos) # NUL THEN "print" ELSE "return"
    BY <1>6 DEF PutcReturn
  <2>2. TInv'
    BY <1>1, <1>2, <2>1 DEF TInv
  <2>3. ASSUME Good, Clean(Call) PROVE Asked'
    <3>1. Asked /\ pc' = "return"
      BY <1>1, <2>1, <2>3 DEF AInv, FInv
    <3>2. PICK w : w = Wants(done)
      OBVIOUS
    <3>3. IsSeq(w)
      BY <1>1, <3>2, BaseSeq
    <3>4. asked = w \o Wanted(Call)
      <4>1. CASE port.device = "none"
        <5>1. asked = w /\ Wanted(Call) = <<>>
          BY <1>1, <3>1, <3>2, <4>1 DEF Asked, Wanted
        <5> QED BY <3>3, <5>1, ConcatIsSeq
      <4>2. CASE Whole
        <5>1. asked = w \o Text(Call)
          BY <1>1, <2>1, <3>1, <3>2, <4>2 DEF Asked
        <5>2. Wanted(Call) = Text(Call)
          BY <1>4, <4>2 DEF Wanted, Whole
        <5> QED BY <5>1, <5>2
      <4>3. CASE port.device # "none" /\ ~Whole
        <5>1. PICK p : ToPutc(p) /\ asked = w \o Crlf(p)
          BY <1>1, <3>1, <3>2, <4>3 DEF Asked
        <5>2. IsSeq(p) /\ p \o <<>> = Text(Call)
          BY <2>1, <5>1 DEF ToPutc
        <5>3. p = Text(Call)
          BY <5>2, ConcatIsSeq
        <5>4. Wanted(Call) = Crlf(Text(Call))
          BY <1>4, <4>3 DEF Wanted, Whole
        <5> QED BY <5>1, <5>3, <5>4
      <4> QED BY <4>1, <4>2, <4>3
    <3> QED BY <1>1, <1>2, <3>1, <3>2, <3>4 DEF Asked
  <2> QED BY <1>1, <1>2, <1>3, <2>1, <2>2, <2>3 DEF AInv
<1> QED BY <1>5, <1>6

(* The text of the call is added to that of those before it. *)
LEMMA AReturn ==
  ASSUME CInv, FInv, TInv, AInv, Return
  PROVE  TInv' /\ AInv'
<1>1. /\ pc = "return" /\ done + 1 \in DOMAIN boot.calls /\ done \in Nat
      /\ UNCHANGED <<boot, drv, port, asked>>
      /\ \/ pc' = "hang" /\ UNCHANGED done
         \/ pc' = "idle" /\ done' = done + 1
  BY DEF CInv, Return, wireVars
<1>2. /\ Wants(done + 1) = Wants(done) \o Wanted(Call)
  BY <1>1, BaseSeq
<1>3. Good /\ Clean(Call) => asked = Wants(done) \o Wanted(Call)
  BY <1>1 DEF AInv, Asked
<1>4. CASE pc' = "hang" /\ UNCHANGED done
  <2>1. /\ Call' = Call /\ (Wants(done))' = Wants(done) /\ (Wanted(Call))' = Wanted(Call)
        /\ (Clean(Call))' = Clean(Call) /\ Whole' = Whole
        /\ (\A k \in 1 .. done : Clean(boot.calls[k]))' = (\A k \in 1 .. done : Clean(boot.calls[k]))
    BY <1>1, <1>4, HereKept
  <2>2. Good' = Good
    BY <1>1, <2>1 DEF Good, Uncut
  <2>3. TInv'
    BY <1>1, <1>4, <2>1 DEF TInv
  <2> QED BY <1>1, <1>3, <1>4, <2>1, <2>2, <2>3 DEF AInv, Asked
<1>5. CASE pc' = "idle" /\ done' = done + 1
  <2>1. \A k \in 1 .. done + 1 : k \in 1 .. done \/ k = done + 1
    BY <1>1
  <2>2. TInv'
    BY <1>1, <1>5, <2>1 DEF TInv
  <2>3. Good' => Good /\ Clean(Call)
    <3> SUFFICES ASSUME Good' PROVE Good /\ Clean(Call)
      OBVIOUS
    <3>1. \A k \in 1 .. done + 1 : Clean(boot.calls[k])
      BY <1>1, <1>5 DEF Good
    <3>2. done + 1 \in 1 .. done + 1 /\ \A k \in 1 .. done : k \in 1 .. done + 1
      BY <1>1
    <3> QED BY <1>1, <3>1, <3>2 DEF Good, Uncut, Call
  <2>4. (Wants(done))' = Wants(done + 1)
    BY <1>1, <1>5 DEF Wants, Wanted
  <2> QED BY <1>1, <1>2, <1>3, <1>5, <2>2, <2>3, <2>4 DEF AInv
<1> QED BY <1>1, <1>4, <1>5

(* Semihosting writes the string it was given. *)
LEMMA ATrap ==
  ASSUME TInv, AInv, WireInv, TrapMove, UNCHANGED consoleVars
  PROVE  TInv' /\ AInv'
<1>1. /\ TrapInv /\ port.device = "semihosting"
      /\ UNCHANGED <<boot, done, pc, todo>>
  BY OnlyMine DEF WireInv, UartInv, CadenceInv, MailInv, MailShape, consoleVars
<1>2. drv.at = "puts" /\ drv # Idle
  BY DEF TrapMove, Trap!PutsChar, Trap!PutsWrite, Trap!PutsReturn, Idle
<1>3. /\ pc = "putc" /\ Whole /\ IsSeq(drv.str) /\ IsSeq(asked) /\ "cut" \in DOMAIN port
      /\ drv = [at |-> "puts", str |-> drv.str]
  BY <1>1, <1>2 DEF TInv, TrapInv
<1>4. PICK s : s = drv.str
  OBVIOUS
<1>5. PICK a : a = asked
  OBVIOUS
<1>6. IsSeq(s) /\ IsSeq(a)
  BY <1>3, <1>4, <1>5
<1>7. ASSUME NEW t, drv' = [at |-> "puts", str |-> t]
      PROVE  drv' # Idle /\ drv'.str = t
  <2>1. drv'.at = "puts" /\ drv'.str = t
    BY <1>7
  <2>2. Idle.at # "puts"
    BY DEF Idle
  <2> QED BY <2>1, <2>2
<1> DEFINE now == IF drv = Idle THEN asked ELSE asked \o drv.str
<1>8. /\ port'.device = port.device /\ "cut" \in DOMAIN port'
      /\ ~port'.cut => ~port.cut /\ now' = now
  <2>1. CASE Trap!PutsChar
    <3>1. /\ s # <<>> /\ UNCHANGED port /\ drv' = [at |-> "puts", str |-> Tail(s)]
          /\ asked' = a \o <<Head(s)>>
      BY <1>3, <1>4, <1>5, <2>1 DEF Trap!PutsChar, Trap!Written
    <3>2. drv' # Idle /\ drv'.str = Tail(s)
      BY <1>7, <3>1
    <3>3. PICK c : c = <<Head(s)>>
      OBVIOUS
    <3>4. PICK r : r = Tail(s)
      OBVIOUS
    <3>5. IsSeq(r) /\ s = c \o r /\ IsSeq(c)
      BY <1>6, <3>1, <3>3, <3>4, HeadTail, SingleIsSeq
    <3>6. (a \o c) \o r = a \o (c \o r)
      BY <1>6, <3>5, ConcatAssoc
    <3> QED BY <1>2, <1>3, <1>4, <1>5, <3>1, <3>2, <3>3, <3>4, <3>5, <3>6
  <2>2. CASE Trap!PutsWrite
    <3>1. PICK n \in IF port.mean THEN 0 .. Len(drv.str) ELSE {Len(drv.str)} :
            /\ Trap!Written(SubSeq(drv.str, 1, n))
            /\ port' = [port EXCEPT !.cut = @ \/ n < Len(drv.str)]
      BY <2>2 DEF Trap!PutsWrite
    <3>2. drv' = [at |-> "puts", str |-> <<>>]
      BY <1>3, <2>2 DEF Trap!PutsWrite
    <3>3. drv' # Idle /\ drv'.str = <<>>
      BY <1>7, <3>2
    <3>4. port'.device = "semihosting" /\ DOMAIN port' = DOMAIN port
      BY <1>1, <3>1 DEF TrapInv
    <3>5. Len(s) \in Nat
      BY <1>6, SeqIs
    <3>6. n \in 0 .. Len(s)
      BY <1>4, <3>1, <3>5
    <3>7. port'.cut <=> (port.cut \/ n < Len(s))
      BY <1>3, <1>4, <3>1
    <3>8. ASSUME ~port'.cut PROVE ~port.cut /\ now' = now
      <4>1. ~port.cut /\ n = Len(s)
        BY <3>5, <3>6, <3>7, <3>8
      <4>2. SubSeq(s, 1, Len(s)) = s
        <5>1. PICK T : s \in Seq(T)
          BY <1>6 DEF IsSeq
        <5> QED BY <5>1, SubSeqProperties, LenProperties
      <4>3. asked' = a \o s
        BY <1>4, <1>5, <3>1, <4>1, <4>2 DEF Trap!Written
      <4>4. PICK w : w = a \o s
        OBVIOUS
      <4>5. IsSeq(w)
        BY <1>6, <4>4, ConcatIsSeq
      <4>6. w \o <<>> = w
        BY <4>5, ConcatIsSeq
      <4> QED BY <1>2, <1>4, <1>5, <3>3, <4>1, <4>3, <4>4, <4>6
    <3> QED BY <1>1, <1>3, <3>4, <3>8
  <2>3. CASE Trap!PutsReturn
    <3>1. drv' = Idle /\ UNCHANGED <<port, asked>> /\ s = <<>>
      BY <1>4, <2>3 DEF Trap!PutsReturn, Trap!Idle, Idle
    <3>2. a \o <<>> = a
      BY <1>6, ConcatIsSeq
    <3> QED BY <1>2, <1>3, <1>4, <1>5, <3>1, <3>2
  <2> QED BY <2>1, <2>2, <2>3 DEF TrapMove
<1> HIDE DEF now
<1>9. /\ Call' = Call /\ (Wants(done))' = Wants(done)
      /\ (Text(Call))' = Text(Call) /\ (Clean(Call))' = Clean(Call) /\ Whole' = Whole
      /\ (\A k \in 1 .. done : Clean(boot.calls[k]))' = (\A k \in 1 .. done : Clean(boot.calls[k]))
  BY <1>1, <1>8, HereKept
<1>10. TInv'
  BY <1>1, <1>3, <1>8, <1>9 DEF TInv
<1>11. Good' => Good /\ now' = now
  BY <1>1, <1>8, <1>9 DEF Good, Uncut
<1>12. ASSUME Asked, now' = now PROVE Asked'
  <2>1. now = Wants(done) \o Text(Call)
    BY <1>3, <1>12 DEF Asked, now
  <2>2. now' = (Wants(done) \o Text(Call))'
    BY <1>9, <1>12, <2>1
  <2>3. pc' = "putc" /\ Whole' /\ port'.device # "none"
    BY <1>1, <1>3, <1>8, <1>9
  <2> QED BY <2>2, <2>3 DEF Asked, now
<1> QED BY <1>1, <1>3, <1>9, <1>10, <1>11, <1>12 DEF AInv

(* The devices ask for nothing. *)
LEMMA DeviceKept ==
  ASSUME WireInv, UartMove \/ CadenceMove \/ MailMove
  PROVE  UNCHANGED asked /\ port'.device = port.device /\ port.device # "semihosting"
<1>1. /\ port.device = "uart8250" => UartInv
      /\ port.device = "cadence_uart" => CadenceInv
      /\ port.device = "htif" => MailInv
  BY DEF WireInv, UartInv, CadenceInv, MailInv, MailShape, TrapInv
<1>2. CASE UartMove
  <2>1. port.device = "uart8250" /\ UartInv'
    BY <1>1, <1>2, OnlyMine, UartMoves DEF UartMove
  <2> QED BY <1>2, <2>1 DEF UartMove, Uart!Poll, Uart!Store, Uart!Drain, UartInv
<1>3. CASE CadenceMove
  <2>1. port.device = "cadence_uart" /\ CadenceInv'
    BY <1>1, <1>3, OnlyMine, CadenceMoves DEF CadenceMove
  <2> QED BY <1>3, <2>1 DEF CadenceMove, Cadence!Poll, Cadence!Store, Cadence!Drain, CadenceInv
<1>4. CASE MailMove
  <2>1. port.device = "htif" /\ MailInv'
    BY <1>1, <1>4, OnlyMine, MailMoves DEF MailMove
  <2>2. port'.device = "htif"
    BY <2>1 DEF MailInv, MailShape
  <2> QED BY <1>4, <2>1, <2>2
      DEF MailMove, Mailbox!SetTohost, Mailbox!CheckFromhost, Mailbox!ClearFromhost,
          Mailbox!WriteTohost, Mailbox!Wait, Mailbox!Take
<1> QED BY <1>2, <1>3, <1>4

LEMMA ANext ==
  ASSUME CInv, FInv, TInv, AInv, TodoInv, WireInv, [Next]_vars
  PROVE  TInv' /\ AInv'
<1>1. CASE CallPrint \/ CallPuts \/ CallPutc
  BY <1>1, ABegin
<1>2. CASE Printc \/ Literal \/ Convert \/ Break
  <2>1. UNCHANGED <<boot, done, pc, todo, asked, drv, port>>
    BY <1>2 DEF Printc, Literal, Convert, Break, Turn, wireVars
  <2> QED BY <2>1, AskedKept
<1>3. CASE Flush \/ End
  BY <1>3, AEnd
<1>4. CASE NputsWhole \/ Nputs
  BY <1>4, ANputs
<1>5. CASE PutcCr \/ Putc
  BY <1>5, APutc
<1>6. CASE PutcNone \/ PutcReturn
  BY <1>6, APutcEnds
<1>7. CASE Return
  BY <1>7, AReturn
<1>8. CASE PutsChar \/ PutsWrite \/ PutsReturn
  BY <1>8, ATrap DEF PutsChar, PutsWrite, PutsReturn, TrapMove
<1>9. CASE \/ UartPoll \/ UartStore \/ CadencePoll \/ CadenceStore
           \/ SetTohost \/ CheckFromhost \/ ClearFromhost \/ WriteTohost \/ Wait \/ Device
  <2>1. UNCHANGED consoleVars
    BY <1>9 DEF UartPoll, UartStore, CadencePoll, CadenceStore, SetTohost, CheckFromhost,
                ClearFromhost, WriteTohost, Wait, Device, UartDrain, CadenceDrain, HostTake
  <2>2. UartMove \/ CadenceMove \/ MailMove
    BY <1>9 DEF UartPoll, UartStore, CadencePoll, CadenceStore, SetTohost, CheckFromhost,
                ClearFromhost, WriteTohost, Wait, Device, UartDrain, CadenceDrain, HostTake,
                UartMove, CadenceMove, MailMove
  <2> QED BY <2>1, <2>2, DeviceKept, AskedKept DEF consoleVars
<1>10. CASE UNCHANGED vars
  BY <1>10, AskedKept DEF vars, wireVars
<1> QED BY <1>1, <1>2, <1>3, <1>4, <1>5, <1>6, <1>7, <1>8, <1>9, <1>10 DEF Next, Hart

LEMMA AInit ==
  ASSUME Drivers, Init
  PROVE  TInv /\ AInv
<1>1. /\ boot \in Boots /\ done = 0 /\ pc = "idle" /\ drv = Idle /\ port = boot.port /\ asked = <<>>
  BY DEF Init
<1>2. port.device = "semihosting" => "cut" \in DOMAIN port
  <2>1. CASE port \in Uart!Ports(Nat, Nat)
    BY <2>1, UartPorts DEF Registers
  <2>2. CASE port \in Cadence!Ports(Nat, Nat)
    BY <2>2, CadencePorts
  <2>3. CASE port \in Mailbox!Ports({32, 64})
    BY <2>3 DEF Mailbox!Ports
  <2>4. CASE port \in Trap!Ports(Int, Nat)
    BY <2>4 DEF Trap!Ports
  <2>5. CASE port.device = "none"
    BY <2>5
  <2> QED BY <1>1, <2>1, <2>2, <2>3, <2>4, <2>5 DEF Drivers
<1>3. TInv
  BY <1>1, <1>2 DEF TInv
<1>4. Wants(done) = <<>>
  BY <1>1, WantsNone
<1> QED BY <1>1, <1>3, <1>4 DEF AInv

(* When calls return the driver has been asked for the text of each, in     *)
(* order, with a carriage return before each newline that goes through      *)
(* putc, and for nothing else: for every script of calls with formats whose *)
(* directives are C's and texts that fit tbuf, on every console.            *)
THEOREM TextsShown ==
  ASSUME Drivers
  PROVE  Spec => []TextShown
<1> DEFINE Inv == CInv /\ FInv /\ TInv /\ AInv /\ TodoInv /\ WireInv
<1>1. Init => Inv
  BY CInvInit, FInvInit, AInit, WireInit
<1>2. Inv /\ [Next]_vars => Inv'
  BY CInvNext, FInvNext, ANext, TodoKeeps, WireNext
<1>3. Inv => TextShown
  <2> DEFINE ended == 1 .. IF pc = "hang" THEN done + 1 ELSE done
  <2> SUFFICES ASSUME Inv, pc \in {"idle", "hang"}, port.device = "semihosting" => ~port.cut,
                      \A k \in ended : Plain(boot.calls[k]) /\ Short(boot.calls[k])
               PROVE  asked = FlattenSeq([k \in ended |-> Wanted(boot.calls[k])])
    BY DEF TextShown
  <2>1. CInv /\ TInv /\ AInv /\ done \in Nat
    BY DEF CInv
  <2>2. \A k \in ended : Clean(boot.calls[k])
    BY DEF Clean
  <2>3. \A k \in 1 .. done : k \in ended
    BY <2>1
  <2>4. Good
    BY <2>2, <2>3 DEF Good, Uncut
  <2>5. CASE pc = "idle"
    <3>1. asked = Wants(done)
      BY <2>1, <2>4, <2>5 DEF AInv
    <3> QED BY <2>5, <3>1 DEF Wants
  <2>6. CASE pc = "hang"
    <3>1. done + 1 \in ended
      BY <2>1, <2>6
    <3>2. Clean(Call)
      BY <2>2, <3>1 DEF Call
    <3>3. asked = Wants(done) \o Wanted(Call)
      BY <2>1, <2>4, <2>6, <3>2 DEF AInv, Asked
    <3>4. done + 1 \in DOMAIN boot.calls
      BY <2>1, <2>6 DEF CInv
    <3>5. asked = Wants(done + 1)
      BY <2>1, <3>3, <3>4, BaseSeq
    <3> QED BY <2>6, <3>5 DEF Wants
  <2> QED BY <2>5, <2>6
<1> HIDE DEF Inv
<1> QED BY <1>1, <1>2, <1>3, PTL DEF Spec
=============================================================================
