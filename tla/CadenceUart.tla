----------------------------- MODULE CadenceUart ------------------------------
(***************************************************************************)
(* firmware/serial/cadence-uart.c and the part of the Cadence UART it      *)
(* uses: a transmitter with a FIFO that runs while TXEN is set.            *)
(***************************************************************************)
EXTENDS Integers, Sequences

CONSTANT Depth
VARIABLES drv, port, asked, shown

(* "Find minimum divisor divides in_freq to max_target_hz", less one. *)
uart_min_clk_divisor(in_freq, max_target_hz) ==
  LET quotient == (in_freq + max_target_hz - 1) \div max_target_hz
  IN IF quotient = 0 THEN 0 ELSE quotient - 1

(* CTRL: TXRES empties the FIFO. *)
set_ctrl(p, bits) ==
  [p EXCEPT !.txen = "TXEN" \in bits /\ "TXDIS" \notin bits,
            !.fifo = IF "TXRES" \in bits THEN <<>> ELSE @]

SetBaudrate(p, in_freq, baudrate) ==
  IF in_freq = 0 \/ baudrate = 0 THEN p
  ELSE [p EXCEPT !.brgr = 1, !.bdivr = uart_min_clk_divisor(in_freq, baudrate)]

cadence_uart_init(p, in_freq, baudrate) ==
  LET Off == set_ctrl([p EXCEPT !.idr = "all"], {"TXDIS", "RXDIS"})
      On == set_ctrl(SetBaudrate(Off, in_freq, baudrate), {"TXRES", "RXRES", "TXEN", "RXEN"})
  IN [On EXCEPT !.mode = "PAR_NONE"]

Reset ==
  [device |-> "cadence_uart", fifo |-> <<>>, txen |-> FALSE,
   idr |-> "none", brgr |-> 0, bdivr |-> 0, mode |-> "reset"]

Ports(Freqs, Bauds) == {cadence_uart_init(Reset, f, b) : f \in Freqs, b \in Bauds}

Mine == port.device = "cadence_uart"

Idle == [at |-> "idle"]

TFUL(p) == Len(p.fifo) = Depth

console_putc(ch) ==
  /\ Mine /\ drv = Idle
  /\ drv' = [at |-> "poll", ch |-> ch]
  /\ asked' = Append(asked, ch)
  /\ UNCHANGED <<port, shown>>

Poll ==
  /\ Mine /\ drv.at = "poll"
  /\ ~TFUL(port)
  /\ drv' = [drv EXCEPT !.at = "store"]
  /\ UNCHANGED <<port, asked, shown>>

(* A character written to a full FIFO is lost. *)
Store ==
  /\ Mine /\ drv.at = "store"
  /\ port' = IF TFUL(port) THEN port ELSE [port EXCEPT !.fifo = Append(@, drv.ch)]
  /\ drv' = Idle
  /\ UNCHANGED <<asked, shown>>

Drain ==
  /\ Mine
  /\ port.txen /\ port.fifo # <<>>
  /\ shown' = Append(shown, Head(port.fifo))
  /\ port' = [port EXCEPT !.fifo = Tail(@)]
  /\ UNCHANGED <<drv, asked>>

Inside == port.fifo \o (IF drv = Idle THEN <<>> ELSE <<drv.ch>>)
=============================================================================
