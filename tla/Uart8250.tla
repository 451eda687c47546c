------------------------------- MODULE Uart8250 -------------------------------
(***************************************************************************)
(* firmware/serial/uart8250.c and the part of a 16550 it uses.  Register 0 *)
(* is the transmitter or, under DLAB, half of the divisor; without a       *)
(* divisor nothing is clocked out.  Where a register is (reg_shift,        *)
(* reg_io_width) is left out.                                              *)
(***************************************************************************)
EXTENDS Integers, Sequences

CONSTANTS
  U8,     \* the number of values of a byte; 16 and 32 bits are scaled with it
  Depth   \* how many characters the device can hold

VARIABLES
  drv,    \* where the driver is: at, and what it has in hand
  port,   \* the device
  asked, shown

U16 == U8 * U8
U32 == U16 * U16

UART_THR_OFFSET == 0
UART_DLL_OFFSET == 0
UART_IER_OFFSET == 1
UART_DLM_OFFSET == 1
UART_FCR_OFFSET == 2
UART_LCR_OFFSET == 3
UART_MCR_OFFSET == 4
UART_SCR_OFFSET == 7

DLAB == "dlab"


(* Characters written to a full device are lost. *)
set_reg(p, num, val) ==
  CASE num = UART_THR_OFFSET /\ p.reg[UART_LCR_OFFSET] # DLAB ->
         IF Len(p.fifo) < Depth THEN [p EXCEPT !.fifo = Append(@, val)] ELSE p
    [] num = UART_DLL_OFFSET /\ p.reg[UART_LCR_OFFSET] = DLAB -> [p EXCEPT !.dll = val]
    [] num = UART_DLM_OFFSET /\ p.reg[UART_LCR_OFFSET] = DLAB -> [p EXCEPT !.dlm = val]
    [] OTHER -> [p EXCEPT !.reg[num] = val]

Divisor(p) == p.dlm * U8 + p.dll

THRE(p) == p.fifo = <<>>

(* The quotient, cut to a u16; 16 * baudrate wraps, and what a division by  *)
(* zero makes is anything.                                                  *)
bdiv(in_freq, baudrate) ==
  LET clock == (16 * baudrate) % U32
  IN IF clock = 0 THEN 0 .. U16 - 1 ELSE {(in_freq \div clock) % U16}

(* Mutant: the latch is written whatever the divisor. *)
SetDivisorAlways(p, b) ==
  set_reg(set_reg(p, UART_DLL_OFFSET, b % U8), UART_DLM_OFFSET, (b \div U8) % U8)

SetDivisor(p, b) ==
  IF b = 0 THEN p
  ELSE set_reg(set_reg(p, UART_DLL_OFFSET, b % U8), UART_DLM_OFFSET, (b \div U8) % U8)

(* The interrupts off and the latch open; the line, the FIFO and the rest.  *)
OpenLatch(p) == set_reg(set_reg(p, UART_IER_OFFSET, 0), UART_LCR_OFFSET, DLAB)

SetLine(p) ==
  set_reg(set_reg(set_reg(set_reg(p, UART_LCR_OFFSET, "8n1"), UART_FCR_OFFSET, 1),
                  UART_MCR_OFFSET, 0), UART_SCR_OFFSET, 0)

uart8250_init(p, in_freq, baudrate) ==
  {SetLine(SetDivisor(OpenLatch(p), b)) : b \in bdiv(in_freq, baudrate)}

(* A device as it is found: it has a divisor. *)
Reset(d) ==
  [device |-> "uart8250", fifo |-> <<>>, dll |-> d, dlm |-> d,
   reg |-> [r \in 0 .. 7 |-> IF r = UART_LCR_OFFSET THEN "reset" ELSE 0]]

Ports(Freqs, Bauds) ==
  UNION {uart8250_init(Reset(1), f, b) : f \in Freqs, b \in Bauds}

Mine == port.device = "uart8250"

Idle == [at |-> "idle"]

(* The call of console_putc. *)
console_putc(ch) ==
  /\ Mine /\ drv = Idle
  /\ drv' = [at |-> "poll", ch |-> ch]
  /\ asked' = Append(asked, ch)
  /\ UNCHANGED <<port, shown>>

(* Mutant: the loop of uart8250_putc is left whatever THRE says. *)
PollOnce ==
  /\ Mine /\ drv.at = "poll"
  /\ drv' = [drv EXCEPT !.at = "store"]
  /\ UNCHANGED <<port, asked, shown>>

Poll ==
  /\ Mine /\ drv.at = "poll"
  /\ THRE(port)
  /\ drv' = [drv EXCEPT !.at = "store"]
  /\ UNCHANGED <<port, asked, shown>>

Store ==
  /\ Mine /\ drv.at = "store"
  /\ port' = set_reg(port, UART_THR_OFFSET, drv.ch)
  /\ drv' = Idle
  /\ UNCHANGED <<asked, shown>>

(* The device clocks a character out. *)
Drain ==
  /\ Mine
  /\ port.fifo # <<>> /\ Divisor(port) # 0
  /\ shown' = Append(shown, Head(port.fifo))
  /\ port' = [port EXCEPT !.fifo = Tail(@)]
  /\ UNCHANGED <<drv, asked>>

(* The characters on their way. *)
Inside == port.fifo \o (IF drv = Idle THEN <<>> ELSE <<drv.ch>>)
=============================================================================
