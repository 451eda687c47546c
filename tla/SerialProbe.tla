----------------------------- MODULE SerialProbe -----------------------------
(***************************************************************************)
(* How zStage finds its console: platform_stdio_init of the generic        *)
(* platform tries semihosting, then fdt_serial_init tries the node that    *)
(* stdout-path names with each driver, then each driver with the first     *)
(* node it matches.  A driver takes its address from "reg" through the     *)
(* "ranges" of the buses above (firmware/fdt/fdt_helper.c).                *)
(*                                                                         *)
(* A device tree is a sequence of nodes in the order of the blob, the root *)
(* first.  Properties are whole: a "reg" or "ranges" has no half entries,  *)
(* and an entry of "ranges" has as many address cells on both sides.       *)
(***************************************************************************)
EXTENDS Integers, Sequences, FiniteSetsExt

CONSTANTS
  Fdts,      \* the device trees boot_arg1 may point to
  Top,       \* one more than the largest uint64_t
  Debuggers  \* a subset of BOOLEAN: does a debugger serve semihosting

(* nodes[n].cells: #address-cells and #size-cells of n can be used; ranges  *)
(* is empty also where the property is missing, and so is reg.  stdout is   *)
(* the node stdout-path names, or 0.                                        *)
Entry == [child : 0 .. Top - 1, parent : 0 .. Top - 1, size : 0 .. Top - 1]
Window == [addr : 0 .. Top - 1, size : 0 .. Top - 1]

IsNode(nd, n) ==
  /\ nd.parent \in 0 .. n - 1 /\ (nd.parent = 0 <=> n = 1)
  /\ nd.cells \in BOOLEAN
  /\ nd.ranges \in Seq(Entry) /\ nd.reg \in Seq(Window)

ProbeAssumption ==
  /\ Top \in Nat \ {0} /\ Debuggers \subseteq BOOLEAN
  /\ \A t \in Fdts :
       /\ Len(t.nodes) \in Nat
       /\ \A n \in 1 .. Len(t.nodes) : IsNode(t.nodes[n], n)
       /\ t.stdout \in 0 .. Len(t.nodes)

ASSUME ProbeAssumed == ProbeAssumption

serial_drivers == <<"cadence_uart", "uart8250", "htif">>

Uarts == {"cadence_uart", "uart8250"}

match_table ==
  [cadence_uart |-> <<"cdns,uart-r1p12", "starfive,jh8100-uart">>,
   uart8250     |-> <<"ns16550", "ns16550a", "snps,dw-apb-uart">>,
   htif         |-> <<"ucb,htif0">>]

VARIABLES
  fdt,             \* the device tree
  debugger,        \* whether the debugger is there
  pc,              \* where platform_stdio_init is
  pos,             \* the loop counter of fdt_serial_init
  noff,            \* its node, 0 for none
  console_dev,     \* the device zstage_console_set_device took first
  current_driver,  \* of fdt_serial.c
  base,            \* uart_base and uart8250_base
  mailbox          \* htif_custom, htif_fromhost and htif_tohost

vars == <<fdt, debugger, pc, pos, noff, console_dev, current_driver, base, mailbox>>

Init ==
  /\ fdt \in Fdts
  /\ debugger \in Debuggers
  /\ pc = "platform_stdio_init"
  /\ pos = 1
  /\ noff = 0
  /\ console_dev = "none"
  /\ current_driver = "dummy"
  /\ base = [d \in Uarts |-> 0]
  /\ mailbox = [custom |-> FALSE, fromhost |-> 0, tohost |-> 0]

Node(n) == fdt.nodes[n]
Nodes == 1 .. Len(fdt.nodes)

-----------------------------------------------------------------------------
(* fdt_helper.c *)

fdt_match_node(n, d) ==
  n # 0 /\ \E k \in DOMAIN match_table[d] : match_table[d][k] \in Node(n).compatible

Compatible(c) == {n \in Nodes : c \in Node(n).compatible}

(* The first node with the first entry of the table any node has. *)
fdt_find_match(d) ==
  LET hits == {k \in DOMAIN match_table[d] : Compatible(match_table[d][k]) # {}} IN
  IF hits = {} THEN 0 ELSE Min(Compatible(match_table[d][Min(hits)]))

(* Mutant: the offset in the range is forgotten. *)
TranslateToStart(reg, parent) ==
  LET bus == Node(parent) IN
  IF ~bus.cells THEN {}
  ELSE IF bus.ranges = <<>> THEN {reg}
  ELSE IF reg < bus.ranges[1].child THEN {} ELSE {bus.ranges[1].parent}

(* What *addr is, in one bus up: nothing for -ENODEV.  The code looks at    *)
(* the first range only, and compares its start with the end of another     *)
(* one, of the same size, that starts at reg.                               *)
fdt_translate_address(reg, parent) ==
  LET bus == Node(parent) IN
  IF ~bus.cells THEN {}
  ELSE IF bus.ranges = <<>> THEN {reg}
  ELSE LET r == bus.ranges[1] IN
       IF reg < r.child \/ r.child >= (reg + r.size) % Top
       THEN {}
       ELSE {(r.parent + (reg - r.child)) % Top}

(* The translations from a bus up, until there is no parent or one fails:   *)
(* what the last that did not fail has left in *addr.                       *)
Climb ==
  LET up[p \in 0 .. Len(fdt.nodes)] ==
        [a \in 0 .. Top - 1 |->
           LET t == IF p = 0 THEN {} ELSE fdt_translate_address(a, p) IN
           IF t = {} THEN a ELSE up[Node(p).parent][CHOOSE b \in t : TRUE]]
  IN up

(* The node has a "reg" of more than index entries, under usable cells: the *)
(* return code is zero, whatever becomes of the translation.                *)
HasWindow(n, index) ==
  /\ n # 0
  /\ Node(n).parent # 0
  /\ Node(Node(n).parent).cells
  /\ index < Len(Node(n).reg)

(* The values *addr may have then, if it may be one of before on entry:     *)
(* when the first translation fails nothing has been stored.                *)
fdt_get_node_addr_size(n, index, before) ==
  LET reg == Node(n).reg[index + 1].addr
      bus == Node(n).parent
      t   == fdt_translate_address(reg, bus)
  IN IF t = {} THEN before ELSE {Climb[Node(bus).parent][a] : a \in t}

(* uart->addr, or 0 for -ENODEV.  reg_addr is not initialised, so it may be *)
(* anything where nothing is stored in it.                                  *)
fdt_parse_uart_node(n) ==
  IF HasWindow(n, 0) /\ Node(n).reg[1].size # 0
  THEN fdt_get_node_addr_size(n, 0, 0 .. Top - 1)
  ELSE {0}

-----------------------------------------------------------------------------
(* The drivers. *)

zstage_console_set_device(d) ==
  console_dev' = IF console_dev = "none" THEN d ELSE console_dev

(* Mutant: the device is set before the node is parsed. *)
UartInitSetsFirst(d, n, rc) ==
  /\ d \in Uarts
  /\ zstage_console_set_device(d)
  /\ \E a \in fdt_parse_uart_node(n) :
       \/ a = 0 /\ rc = "ENODEV" /\ UNCHANGED base
       \/ a # 0 /\ rc = "ok" /\ base' = [base EXCEPT ![d] = a]
  /\ UNCHANGED mailbox

UartInit(d, n, rc) ==
  /\ d \in Uarts
  /\ \E a \in fdt_parse_uart_node(n) :
       \/ a = 0 /\ rc = "ENODEV" /\ UNCHANGED <<console_dev, base>>
       \/ /\ a # 0 /\ rc = "ok"
          /\ base' = [base EXCEPT ![d] = a]
          /\ zstage_console_set_device(d)
  /\ UNCHANGED mailbox

(* serial_htif_init: entry 0 of "reg" is fromhost, entry 1 tohost if there  *)
(* is one, the word behind fromhost otherwise; without "reg" the addresses  *)
(* the image was linked with are used.                                      *)
HtifInit(d, n, rc) ==
  /\ d = "htif"
  /\ \E from \in IF HasWindow(n, 0) THEN fdt_get_node_addr_size(n, 0, {0}) ELSE {0} :
     \E to \in LET next == {(from + 8) % Top} IN
               IF HasWindow(n, 1) THEN fdt_get_node_addr_size(n, 1, next) ELSE next :
       LET asked == [custom |-> TRUE, fromhost |-> from, tohost |-> to] IN
       IF HasWindow(n, 0) /\ mailbox.custom /\ mailbox # asked
       THEN rc = "EINVAL" /\ UNCHANGED <<mailbox, console_dev>>
       ELSE /\ mailbox' = IF HasWindow(n, 0) THEN asked ELSE mailbox
            /\ zstage_console_set_device(d)
            /\ rc = "ok"
  /\ UNCHANGED base

-----------------------------------------------------------------------------
(* platform.c and fdt_serial.c *)

SemihostingInit ==
  /\ pc = "platform_stdio_init"
  /\ IF debugger
     THEN zstage_console_set_device("semihosting") /\ pc' = "return" /\ UNCHANGED noff
     ELSE pc' = "stdout" /\ noff' = fdt.stdout /\ UNCHANGED console_dev
  /\ UNCHANGED <<fdt, debugger, pos, current_driver, base, mailbox>>

(* Mutant: -ENODEV ends the search, as any other error does. *)
AfterInitReturns(d, rc) ==
  IF rc = "ok" THEN pc' = "return" /\ current_driver' = d /\ UNCHANGED pos
  ELSE pc' = "hang" /\ UNCHANGED <<pos, current_driver>>

(* What fdt_serial_init makes of the driver's return code.  zstage_main     *)
(* hangs on what fdt_serial_init returns, unless it is zero.                *)
AfterInit(d, rc) ==
  CASE rc = "ok"     -> pc' = "return" /\ current_driver' = d /\ UNCHANGED pos
    [] rc = "ENODEV" -> pos' = pos + 1 /\ UNCHANGED <<pc, current_driver>>
    [] rc = "EINVAL" -> pc' = "hang" /\ UNCHANGED <<pos, current_driver>>

DriverInit(d, n) ==
  \E rc \in {"ok", "ENODEV", "EINVAL"} :
    (UartInit(d, n, rc) \/ HtifInit(d, n, rc)) /\ AfterInit(d, rc)

(* Mutant: the loop body advances as well as the loop. *)
NextDriverTwice == pos' = pos + 2 /\ UNCHANGED <<pc, console_dev, current_driver, base, mailbox>>

NextDriver == pos' = pos + 1 /\ UNCHANGED <<pc, console_dev, current_driver, base, mailbox>>

StdoutLoop == pc = "stdout" /\ noff # 0 /\ pos <= Len(serial_drivers)

(* Mutant: break for continue. *)
StdoutSkipBreaks ==
  /\ StdoutLoop
  /\ ~fdt_match_node(noff, serial_drivers[pos])
  /\ pos' = Len(serial_drivers) + 1
  /\ UNCHANGED <<fdt, debugger, pc, noff, console_dev, current_driver, base, mailbox>>

StdoutSkip ==
  /\ StdoutLoop
  /\ ~fdt_match_node(noff, serial_drivers[pos])
  /\ NextDriver
  /\ UNCHANGED <<fdt, debugger, noff>>

StdoutInit ==
  /\ StdoutLoop
  /\ fdt_match_node(noff, serial_drivers[pos])
  /\ DriverInit(serial_drivers[pos], noff)
  /\ UNCHANGED <<fdt, debugger, noff>>

(* Mutant: the second pass goes on where the first one stopped. *)
StdoutDoneKeepsPos ==
  /\ pc = "stdout"
  /\ noff = 0 \/ pos > Len(serial_drivers)
  /\ pc' = "all"
  /\ UNCHANGED <<fdt, debugger, pos, noff, console_dev, current_driver, base, mailbox>>

StdoutDone ==
  /\ pc = "stdout"
  /\ noff = 0 \/ pos > Len(serial_drivers)
  /\ pc' = "all"
  /\ pos' = 1
  /\ UNCHANGED <<fdt, debugger, noff, console_dev, current_driver, base, mailbox>>

AllSkip ==
  /\ pc = "all" /\ pos <= Len(serial_drivers)
  /\ fdt_find_match(serial_drivers[pos]) = 0
  /\ noff' = 0
  /\ NextDriver
  /\ UNCHANGED <<fdt, debugger>>

AllInit ==
  /\ pc = "all" /\ pos <= Len(serial_drivers)
  /\ noff' = fdt_find_match(serial_drivers[pos])
  /\ noff' # 0
  /\ DriverInit(serial_drivers[pos], noff')
  /\ UNCHANGED <<fdt, debugger>>

(* Nothing found: no console, and no error. *)
AllDone ==
  /\ pc = "all" /\ pos > Len(serial_drivers)
  /\ pc' = "return"
  /\ noff' = 0
  /\ UNCHANGED <<fdt, debugger, pos, console_dev, current_driver, base, mailbox>>

Next ==
  \/ SemihostingInit
  \/ StdoutSkip \/ StdoutInit \/ StdoutDone
  \/ AllSkip \/ AllInit \/ AllDone

Spec == Init /\ [][Next]_vars

-----------------------------------------------------------------------------
TypeOK ==
  /\ pc \in {"platform_stdio_init", "stdout", "all", "return", "hang"}
  /\ pos \in 1 .. Len(serial_drivers) + 1
  /\ noff \in 0 .. Len(fdt.nodes)
  /\ console_dev \in Uarts \union {"none", "htif", "semihosting"}
  /\ current_driver \in Uarts \union {"dummy", "htif"}
  /\ base \in [Uarts -> 0 .. Top - 1]
  /\ mailbox \in [custom : BOOLEAN, fromhost : 0 .. Top - 1, tohost : 0 .. Top - 1]

(* What the tree says, without the code's walk: the buses above a node, the *)
(* shift each makes, and whether each lets the address through.             *)
Buses ==
  LET above[n \in Nodes] ==
        IF Node(n).parent = 0 THEN {} ELSE {Node(n).parent} \union above[Node(n).parent]
  IN above

Shift(bs) ==
  MapThenSumSet(LAMBDA b : IF Node(b).ranges = <<>> THEN 0
                           ELSE Node(b).ranges[1].parent - Node(b).ranges[1].child, bs)

AddressBelow(n, b) == (Node(n).reg[1].addr + Shift({c \in Buses[n] : c > b})) % Top

(* ... by its first range, the only one the code looks at. *)
Passes(b, a) ==
  /\ Node(b).cells
  /\ Node(b).ranges # <<>> =>
       LET r == Node(b).ranges[1] IN a \in r.child .. r.child + r.size - 1

HasAddress(n) == HasWindow(n, 0) /\ \A b \in Buses[n] : Passes(b, AddressBelow(n, b))

BusAddress(n) == AddressBelow(n, 0)

(* The end of the range the code compares with is past the last uint64_t.   *)
Wraps(n) ==
  \E b \in Buses[n] :
    Node(b).ranges # <<>> /\ AddressBelow(n, b) + Node(b).ranges[1].size >= Top

Usable(d, n) ==
  /\ fdt_match_node(n, d)
  /\ d \in Uarts => /\ HasAddress(n) /\ ~Wraps(n)
                    /\ BusAddress(n) # 0 /\ Node(n).reg[1].size # 0

Returned == pc = "return" /\ ~debugger

(* A driver that gives up leaves no console behind, and the one that is     *)
(* taken is initialised: putc never gets to a device without an address.    *)
ConsoleHasDriver ==
  Returned =>
    /\ console_dev = (IF current_driver = "dummy" THEN "none" ELSE current_driver)
    /\ console_dev \in Uarts => base[console_dev] # 0

(* A device whose buses all let its address through is used at the address  *)
(* it has on the outermost bus, however many buses there are.               *)
ConsoleAtBusAddress ==
  Returned /\ noff # 0 /\ HasAddress(noff) /\ ~Wraps(noff) =>
    IF console_dev = "htif" THEN mailbox.custom /\ mailbox.fromhost = BusAddress(noff)
    ELSE console_dev \in Uarts => base[console_dev] = BusAddress(noff)

(* "First check DT node pointed by stdout-path": if any driver can use it,  *)
(* the console is there and nowhere else.                                   *)
StdoutPathWins ==
  Returned /\ (\E d \in Uarts \union {"htif"} : Usable(d, fdt.stdout)) =>
    noff = fdt.stdout /\ console_dev # "none"

(* There is no console only if no driver can use the first node it matches. *)
EveryDriverTried ==
  Returned /\ console_dev = "none" =>
    \A d \in Uarts \union {"htif"} : ~Usable(d, fdt_find_match(d))

(* A board without a usable console boots: zstage_main is never told to     *)
(* hang by what the tree says of its UARTs.                                 *)
BootsWithoutConsole == pc # "hang"

(* "UART address is mandaotry": no UART is used where the tree gives it no  *)
(* address.                                                                 *)
AddressMandatory ==
  Returned /\ console_dev \in Uarts => HasAddress(noff)
=============================================================================
