-------------------------- MODULE SerialProbeProofs --------------------------
(***************************************************************************)
(* What the probe does whatever the device tree: the drivers and the       *)
(* console it leaves behind agree, and no tree makes zstage_main hang; the *)
(* address is the tree's, through any number of buses; stdout-path goes    *)
(* first, and no driver is forgotten.                                      *)
(***************************************************************************)
EXTENDS SerialProbe, Induction, TLAPS

(* While drivers are tried none has been taken and nothing is registered;   *)
(* so set_custom_addr of htif.c never meets addresses set before.           *)
Untaken == console_dev = "none" /\ current_driver = "dummy" /\ ~mailbox.custom

PInv ==
  /\ DOMAIN base = Uarts
  /\ pc # "hang"
  /\ pc # "return" => Untaken
  /\ ConsoleHasDriver

(* At reset nothing is registered. *)
LEMMA PInvInit == Init => PInv
BY DEF Init, PInv, Untaken, ConsoleHasDriver, Returned

(* The init function of a driver either takes the console or, with -ENODEV, *)
(* leaves everything as it was.                                             *)
LEMMA DriverTakes ==
  ASSUME PInv, Untaken, pc \in {"stdout", "all"}, NEW d, NEW n,
         DriverInit(d, n), UNCHANGED debugger
  PROVE  PInv'
<1>1. PICK rc \in {"ok", "ENODEV", "EINVAL"} :
        (UartInit(d, n, rc) \/ HtifInit(d, n, rc)) /\ AfterInit(d, rc)
  BY DEF DriverInit
<1>2. CASE UartInit(d, n, rc)
  <2>1. d \in Uarts /\ UNCHANGED mailbox
    BY <1>2 DEF UartInit
  <2>2. CASE rc = "ENODEV" /\ UNCHANGED <<console_dev, base>>
    <3>1. UNCHANGED <<pc, current_driver>>
      BY <1>1, <2>2 DEF AfterInit
    <3> QED BY <2>1, <2>2, <3>1 DEF PInv, Untaken, ConsoleHasDriver, Returned
  <2>3. CASE rc = "ok"
    <3>1. PICK a : a # 0 /\ base' = [base EXCEPT ![d] = a] /\ console_dev' = d
      BY <1>2, <2>3 DEF UartInit, Untaken, zstage_console_set_device
    <3>2. pc' = "return" /\ current_driver' = d
      BY <1>1, <2>3 DEF AfterInit
    <3>3. base'[d] = a /\ DOMAIN base' = Uarts
      BY <2>1, <3>1 DEF PInv
    <3>4. d # "dummy"
      BY <2>1 DEF Uarts
    <3> QED BY <3>1, <3>2, <3>3, <3>4 DEF PInv, ConsoleHasDriver, Returned
  <2> QED BY <1>2, <2>2, <2>3 DEF UartInit
<1>3. CASE HtifInit(d, n, rc)
  <2>1. d = "htif" /\ UNCHANGED base /\ rc = "ok" /\ console_dev' = d
    BY <1>3 DEF HtifInit, Untaken, zstage_console_set_device
  <2>2. pc' = "return" /\ current_driver' = d
    BY <1>1, <2>1 DEF AfterInit
  <2> QED BY <2>1, <2>2 DEF PInv, ConsoleHasDriver, Returned, Uarts
<1> QED BY <1>1, <1>2, <1>3

(* Every step of the probe keeps the invariant. *)
LEMMA PInvNext == PInv /\ [Next]_vars => PInv'
<1> SUFFICES ASSUME PInv, [Next]_vars PROVE PInv'
  OBVIOUS
<1>1. CASE SemihostingInit
  <2>1. UNCHANGED <<current_driver, base, mailbox, debugger>> /\ pc = "platform_stdio_init"
    BY <1>1 DEF SemihostingInit
  <2>2. CASE debugger
    BY <1>1, <2>1, <2>2 DEF SemihostingInit, PInv, ConsoleHasDriver, Returned
  <2>3. CASE ~debugger
    <3>1. pc' = "stdout" /\ UNCHANGED console_dev
      BY <1>1, <2>3 DEF SemihostingInit
    <3> QED BY <2>1, <3>1 DEF PInv, Untaken, ConsoleHasDriver, Returned
  <2> QED BY <2>2, <2>3
<1>2. CASE StdoutSkip \/ AllSkip
  BY <1>2 DEF StdoutSkip, AllSkip, NextDriver, PInv, Untaken, ConsoleHasDriver, Returned
<1>3. CASE StdoutDone \/ AllDone
  <2>1. /\ UNCHANGED <<debugger, console_dev, current_driver, base, mailbox>>
        /\ pc \in {"stdout", "all"} /\ pc' # "hang"
    BY <1>3 DEF StdoutDone, AllDone
  <2> QED BY <2>1 DEF PInv, Untaken, ConsoleHasDriver, Returned, Uarts
<1>4. CASE StdoutInit
  <2>1. /\ pc = "stdout" /\ UNCHANGED debugger
        /\ DriverInit(serial_drivers[pos], noff)
    BY <1>4 DEF StdoutInit, StdoutLoop
  <2> QED BY <2>1, DriverTakes DEF PInv
<1>5. CASE AllInit
  <2>1. /\ pc = "all" /\ UNCHANGED debugger
        /\ DriverInit(serial_drivers[pos], noff')
    BY <1>5 DEF AllInit
  <2> QED BY <2>1, DriverTakes DEF PInv
<1>6. CASE UNCHANGED vars
  <2>1. UNCHANGED <<debugger, pc, console_dev, current_driver, base, mailbox>>
    BY <1>6 DEF vars
  <2> QED BY <2>1 DEF PInv, Untaken, ConsoleHasDriver, Returned
<1> QED BY <1>1, <1>2, <1>3, <1>4, <1>5, <1>6 DEF Next

(* The invariant holds in every state of every probe. *)
THEOREM ProbeInvariance == Spec => []PInv
BY PInvInit, PInvNext, PTL DEF Spec

(* For every device tree: when fdt_serial_init returns, the console is the  *)
(* device of the driver it took, at an address that is not zero, or there   *)
(* is neither.                                                              *)
THEOREM DriverAndConsoleAgree == Spec => []ConsoleHasDriver
<1>1. PInv => ConsoleHasDriver
  BY DEF PInv
<1> QED BY <1>1, ProbeInvariance, PTL

(* For every device tree: zstage_console_init never makes zstage_main hang. *)
THEOREM NoTreeHangsTheBoot == Spec => []BootsWithoutConsole
<1>1. PInv => BootsWithoutConsole
  BY DEF PInv, BootsWithoutConsole
<1> QED BY <1>1, ProbeInvariance, PTL

(***************************************************************************)
(* What the walk from a node to the root computes, for a tree of any depth.*)
(***************************************************************************)
(* A product of Top that is smaller than Top is zero. *)
LEMMA NoMultiple ==
  ASSUME NEW T \in Nat \ {0}, NEW k \in Int, -T < T * k, T * k < T
  PROVE  k = 0
<1>1. CASE k >= 1
  <2>1. T * k >= T * 1
    BY <1>1
  <2> QED BY <2>1
<1>2. CASE k <= -1
  <2>1. T * k <= T * (-1)
    BY <1>2
  <2> QED BY <2>1
<1> QED BY <1>1, <1>2

(* Quotient and remainder. *)
LEMMA DivMod ==
  ASSUME NEW T \in Nat \ {0}, NEW x \in Int
  PROVE  x % T \in 0 .. T - 1 /\ x \div T \in Int /\ x = T * (x \div T) + (x % T)
OBVIOUS

(* The remainder is the only one. *)
LEMMA OneRemainder ==
  ASSUME NEW T \in Nat \ {0}, NEW m \in Int, NEW r \in 0 .. T - 1
  PROVE  (T * m + r) % T = r
<1> DEFINE z == T * m + r
<1>1. z \in Int
  OBVIOUS
<1>2. z % T \in 0 .. T - 1 /\ z \div T \in Int /\ z = T * (z \div T) + (z % T)
  BY <1>1, DivMod
<1>3. T * (m - (z \div T)) = (z % T) - r
  BY <1>2
<1>4. m - (z \div T) = 0
  <2> DEFINE k == m - (z \div T)
  <2>1. k \in Int /\ -T < T * k /\ T * k < T
    BY <1>2, <1>3
  <2> HIDE DEF k
  <2> QED BY <2>1, NoMultiple
<1> QED BY <1>1, <1>2, <1>4

(* An address that is in range does not wrap. *)
LEMMA NoWrap ==
  ASSUME NEW T \in Nat \ {0}, NEW x \in 0 .. T - 1
  PROVE  x % T = x
<1>1. (T * 0 + x) % T = x
  BY OneRemainder
<1>2. T * 0 + x = x
  OBVIOUS
<1> QED BY <1>1, <1>2

(* It makes no difference whether an address wraps before or after an       *)
(* offset is added.                                                         *)
LEMMA WrapTwice ==
  ASSUME NEW T \in Nat \ {0}, NEW x \in Int, NEW d \in Int
  PROVE  ((x % T) + d) % T = (x + d) % T
<1> DEFINE y == (x % T) + d
<1>1. x % T \in 0 .. T - 1 /\ x \div T \in Int /\ x = T * (x \div T) + (x % T)
  BY DivMod
<1>2. y \in Int
  BY <1>1
<1>3. y % T \in 0 .. T - 1 /\ y \div T \in Int /\ y = T * (y \div T) + (y % T)
  BY <1>2, DivMod
<1>4. x + d = T * ((x \div T) + (y \div T)) + (y % T)
  <2>1. T * ((x \div T) + (y \div T)) = T * (x \div T) + T * (y \div T)
    BY <1>1, <1>3
  <2>2. x + d = T * (x \div T) + y
    BY <1>1
  <2> HIDE DEF y
  <2> QED BY <1>1, <1>2, <1>3, <2>1, <2>2
<1>5. (x \div T) + (y \div T) \in Int
  BY <1>1, <1>3
<1> HIDE DEF y
<1>6. (T * ((x \div T) + (y \div T)) + (y % T)) % T = y % T
  BY <1>3, <1>5, OneRemainder
<1> QED BY <1>4, <1>6 DEF y

Address == 0 .. Top - 1

Depth == 0 .. Len(fdt.nodes)

(* What the assumption says of the tree that was passed. *)
LEMMA TreeFacts ==
  ASSUME fdt \in Fdts
  PROVE  /\ Top \in Nat \ {0} /\ Len(fdt.nodes) \in Nat
         /\ fdt.stdout \in Depth /\ Depth = {0} \union Nodes
         /\ \A n \in Nodes :
              /\ Node(n).parent \in 0 .. n - 1 /\ Node(n).parent \in Depth
              /\ Node(n).cells \in BOOLEAN
              /\ Node(n).ranges \in Seq(Entry) /\ Node(n).reg \in Seq(Window)
<1>1. /\ Top \in Nat \ {0} /\ Len(fdt.nodes) \in Nat
      /\ fdt.stdout \in 0 .. Len(fdt.nodes)
      /\ \A n \in 1 .. Len(fdt.nodes) : IsNode(fdt.nodes[n], n)
  BY ProbeAssumed DEF ProbeAssumption
<1>2. ASSUME NEW n \in Nodes
      PROVE  /\ Node(n).parent \in 0 .. n - 1 /\ Node(n).parent \in Depth
             /\ Node(n).cells \in BOOLEAN
             /\ Node(n).ranges \in Seq(Entry) /\ Node(n).reg \in Seq(Window)
  <2>1. IsNode(Node(n), n)
    BY <1>1 DEF Node, Nodes
  <2>2. Node(n).parent \in 0 .. n - 1
    BY <2>1 DEF IsNode
  <2>3. Node(n).parent \in Depth
    BY <1>1, <2>2 DEF Nodes, Depth
  <2> QED BY <2>1, <2>2, <2>3 DEF IsNode
<1>3. Depth = {0} \union Nodes
  BY <1>1 DEF Depth, Nodes
<1> QED BY <1>1, <1>2, <1>3 DEF Depth

(* A translation gives an address, or nothing. *)
LEMMA TranslateType ==
  ASSUME fdt \in Fdts, NEW p \in Nodes, NEW a \in Address
  PROVE  \/ fdt_translate_address(a, p) = {}
         \/ \E b \in Address : fdt_translate_address(a, p) = {b}
<1>1. /\ Top \in Nat \ {0} /\ Node(p).ranges \in Seq(Entry)
  BY TreeFacts
<1>2. CASE Node(p).ranges # <<>>
  <2> DEFINE r == Node(p).ranges[1]
  <2>1. r \in Entry
    BY <1>1, <1>2
  <2>2. r.child \in Int /\ r.parent \in Int
    BY <1>1, <2>1 DEF Entry
  <2>3. r.parent + (a - r.child) \in Int
    BY <1>1, <2>2 DEF Address
  <2>4. (r.parent + (a - r.child)) % Top \in Address
    BY <1>1, <2>3, DivMod DEF Address
  <2> HIDE DEF r
  <2> QED BY <1>2, <2>4 DEF fdt_translate_address, r
<1>3. CASE Node(p).ranges = <<>>
  BY <1>3 DEF fdt_translate_address
<1> QED BY <1>2, <1>3

(* One bus up, as Climb goes: an address is kept where no translation is.   *)
Up(g, p, a) ==
  LET t == IF p = 0 THEN {} ELSE fdt_translate_address(a, p) IN
  IF t = {} THEN a ELSE g[Node(p).parent][CHOOSE b \in t : TRUE]

(* A step up gives an address, from the values at the parent.               *)
LEMMA UpType ==
  ASSUME fdt \in Fdts, NEW g, NEW p \in Depth, NEW a \in Address,
         \A q \in Depth : \A b \in Address : q < p => g[q][b] \in Address
  PROVE  Up(g, p, a) \in Address
<1>1. CASE p = 0
  BY <1>1 DEF Up
<1>2. CASE p # 0
  <2>1. p \in Nodes
    BY <1>2, TreeFacts
  <2>2. Node(p).parent \in Depth /\ Node(p).parent < p
    BY <2>1, TreeFacts DEF Nodes
  <2>3. CASE fdt_translate_address(a, p) = {}
    BY <2>3 DEF Up
  <2>4. CASE \E b \in Address : fdt_translate_address(a, p) = {b}
    <3>1. PICK b \in Address : fdt_translate_address(a, p) = {b}
      BY <2>4
    <3>2. Up(g, p, a) = g[Node(p).parent][b]
      BY <1>2, <3>1 DEF Up
    <3> QED BY <2>2, <3>2
  <2> QED BY <2>1, <2>3, <2>4, TranslateType
<1> QED BY <1>1, <1>2

(* ... and from these only. *)
LEMMA UpLooksUp ==
  ASSUME fdt \in Fdts, NEW g, NEW h, NEW p \in Depth, NEW a \in Address,
         \A q \in Depth : q < p => g[q] = h[q]
  PROVE  Up(g, p, a) = Up(h, p, a)
<1>1. CASE p = 0
  BY <1>1 DEF Up
<1>2. CASE p # 0
  <2>1. p \in Nodes
    BY <1>2, TreeFacts
  <2>2. Node(p).parent \in Depth /\ Node(p).parent < p
    BY <2>1, TreeFacts DEF Nodes
  <2>3. g[Node(p).parent] = h[Node(p).parent]
    BY <2>2
  <2> QED BY <2>3 DEF Up
<1> QED BY <1>1, <1>2

(* Climb is the function its definition asks for. *)
LEMMA ClimbIs ==
  ASSUME fdt \in Fdts
  PROVE  Climb = [p \in Depth |-> [a \in Address |-> Up(Climb, p, a)]]
<1> DEFINE V == [Address -> Address]
           rank == [p \in Depth |-> p]
           E == [g \in [Depth -> V] |-> [p \in Depth |-> [a \in Address |-> Up(g, p, a)]]]
<1>1. rank \in [Depth -> Nat]
  BY TreeFacts DEF Depth
<1>2. E \in [[Depth -> V] -> [Depth -> V]]
  <2>1. ASSUME NEW g \in [Depth -> V], NEW p \in Depth, NEW a \in Address
        PROVE  Up(g, p, a) \in Address
    BY UpType
  <2> QED BY <2>1
<1>3. ASSUME NEW g \in [Depth -> V], NEW h \in [Depth -> V], NEW p \in Depth,
             \A q \in Depth : rank[q] < rank[p] => g[q] = h[q]
      PROVE  E[g][p] = E[h][p]
  <2>1. \A q \in Depth : q < p => g[q] = h[q]
    BY <1>3
  <2>2. \A a \in Address : Up(g, p, a) = Up(h, p, a)
    BY <2>1, UpLooksUp
  <2> QED BY <2>2
<1>4. LooksDown(E, rank, Depth, V)
  <2> HIDE DEF rank, E, V
  <2> QED BY <1>1, <1>2, <1>3 DEF LooksDown
<1>5. V # {}
  <2>1. [a \in Address |-> a] \in V
    OBVIOUS
  <2> QED BY <2>1
<1>6. PICK f \in [Depth -> V] : f = E[f]
  <2> HIDE DEF rank, E, V
  <2> QED BY <1>4, <1>5, Recursion
<1>7. f = [p \in Depth |-> [a \in Address |-> Up(f, p, a)]]
  BY <1>6
<1>8. Climb = CHOOSE g : g = [p \in Depth |-> [a \in Address |-> Up(g, p, a)]]
  BY DEF Climb, Up, Depth, Address
<1> QED BY <1>7, <1>8

(* Climbing gives an address. *)
LEMMA ClimbType ==
  ASSUME fdt \in Fdts
  PROVE  \A p \in Depth : \A a \in Address : Climb[p][a] \in Address
<1> DEFINE T == {n \in Nat : n \in Depth => \A a \in Address : Climb[n][a] \in Address}
<1>1. ASSUME NEW n \in Nat, \A m \in Nat : m < n => m \in T PROVE n \in T
  <2> SUFFICES ASSUME n \in Depth, NEW a \in Address PROVE Climb[n][a] \in Address
    OBVIOUS
  <2>1. \A q \in Depth : \A b \in Address : q < n => Climb[q][b] \in Address
    <3> SUFFICES ASSUME NEW q \in Depth, q < n
                 PROVE  \A b \in Address : Climb[q][b] \in Address
      OBVIOUS
    <3>1. q \in Nat
      BY TreeFacts DEF Depth
    <3> QED BY <1>1, <3>1
  <2>2. Up(Climb, n, a) \in Address
    BY <2>1, UpType
  <2> QED BY <2>2, ClimbIs
<1>2. Nat \subseteq T
  <2> HIDE DEF T
  <2> QED BY <1>1, AllNumbers
<1>3. Depth \subseteq Nat
  BY TreeFacts DEF Depth
<1> QED BY <1>2, <1>3

(* One bus up, as Buses goes. *)
Above(g, n) == IF Node(n).parent = 0 THEN {} ELSE {Node(n).parent} \union g[Node(n).parent]

(* The bus a node is on is a node before it. *)
LEMMA ParentBelow ==
  ASSUME fdt \in Fdts, NEW n \in Nodes, Node(n).parent # 0
  PROVE  Node(n).parent \in Nodes /\ Node(n).parent < n
<1>1. Node(n).parent \in Depth /\ Node(n).parent < n
  BY TreeFacts DEF Nodes
<1> QED BY <1>1, TreeFacts

(* Buses is the function its definition asks for. *)
LEMMA BusesIs ==
  ASSUME fdt \in Fdts
  PROVE  Buses = [n \in Nodes |-> Above(Buses, n)]
<1> DEFINE V == SUBSET Nodes
           rank == [n \in Nodes |-> n]
           E == [g \in [Nodes -> V] |-> [n \in Nodes |-> Above(g, n)]]
<1>1. rank \in [Nodes -> Nat]
  BY TreeFacts DEF Nodes
<1>2. E \in [[Nodes -> V] -> [Nodes -> V]]
  <2>1. ASSUME NEW g \in [Nodes -> V], NEW n \in Nodes PROVE Above(g, n) \in V
    BY ParentBelow DEF Above
  <2> QED BY <2>1
<1>3. ASSUME NEW g \in [Nodes -> V], NEW h \in [Nodes -> V], NEW n \in Nodes,
             \A q \in Nodes : rank[q] < rank[n] => g[q] = h[q]
      PROVE  E[g][n] = E[h][n]
  <2>1. Above(g, n) = Above(h, n)
    BY <1>3, ParentBelow DEF Above
  <2> QED BY <2>1
<1>4. LooksDown(E, rank, Nodes, V)
  <2> HIDE DEF rank, E, V
  <2> QED BY <1>1, <1>2, <1>3 DEF LooksDown
<1>5. V # {}
  OBVIOUS
<1>6. PICK f \in [Nodes -> V] : f = E[f]
  <2> HIDE DEF rank, E, V
  <2> QED BY <1>4, <1>5, Recursion
<1>7. f = [n \in Nodes |-> Above(f, n)]
  BY <1>6
<1>8. Buses = CHOOSE g : g = [n \in Nodes |-> Above(g, n)]
  BY DEF Buses, Above
<1> QED BY <1>7, <1>8

(* The buses above a node come before it. *)
LEMMA BusesBelow ==
  ASSUME fdt \in Fdts
  PROVE  \A n \in Nodes : \A b \in Buses[n] : b \in Nodes /\ b < n
<1> DEFINE T == {n \in Nat : n \in Nodes => \A b \in Buses[n] : b \in Nodes /\ b < n}
<1>1. ASSUME NEW n \in Nat, \A m \in Nat : m < n => m \in T PROVE n \in T
  <2> SUFFICES ASSUME n \in Nodes, NEW b \in Buses[n] PROVE b \in Nodes /\ b < n
    OBVIOUS
  <2> DEFINE q == Node(n).parent
  <2>1. Buses[n] = Above(Buses, n)
    BY BusesIs
  <2>2. q # 0 /\ b \in {q} \union Buses[q]
    BY <2>1 DEF Above
  <2>3. q \in Nodes /\ q < n
    BY <2>2, ParentBelow
  <2>4. q \in Nat
    BY <2>3 DEF Nodes
  <2>5. q \in T
    BY <1>1, <2>3, <2>4
  <2>6. CASE b \in Buses[q]
    <3>1. b \in Nodes /\ b < q
      BY <2>3, <2>5, <2>6
    <3>2. b \in Nat /\ n \in Nat
      BY <3>1 DEF Nodes
    <3> HIDE DEF q
    <3> QED BY <2>3, <2>4, <3>1, <3>2
  <2> QED BY <2>2, <2>3, <2>6
<1>2. Nat \subseteq T
  <2> HIDE DEF T
  <2> QED BY <1>1, AllNumbers
<1> QED BY <1>2 DEF Nodes

(* They are a chain: those above one of them are the ones before it. *)
LEMMA BusesChain ==
  ASSUME fdt \in Fdts
  PROVE  \A n \in Nodes : \A b \in Buses[n] : {c \in Buses[n] : c < b} = Buses[b]
<1> DEFINE T == {n \in Nat : n \in Nodes =>
                    \A b \in Buses[n] : {c \in Buses[n] : c < b} = Buses[b]}
<1>1. ASSUME NEW n \in Nat, \A m \in Nat : m < n => m \in T PROVE n \in T
  <2> SUFFICES ASSUME n \in Nodes, NEW b \in Buses[n]
               PROVE  {c \in Buses[n] : c < b} = Buses[b]
    OBVIOUS
  <2> DEFINE q == Node(n).parent
  <2>1. Buses[n] = Above(Buses, n)
    BY BusesIs
  <2>2. q # 0 /\ Buses[n] = {q} \union Buses[q]
    BY <2>1 DEF Above
  <2>3. q \in Nodes /\ q < n
    BY <2>2, ParentBelow
  <2>4. q \in Nat
    BY <2>3 DEF Nodes
  <2>5. q \in T
    BY <1>1, <2>3, <2>4
  <2>6. \A c \in Buses[q] : c \in Nat /\ c < q
    BY <2>3, BusesBelow DEF Nodes
  <2>7. CASE b = q
    <3> HIDE DEF q
    <3> QED BY <2>2, <2>4, <2>6, <2>7
  <2>8. CASE b \in Buses[q]
    <3>1. {c \in Buses[q] : c < b} = Buses[b]
      BY <2>3, <2>5, <2>8
    <3> HIDE DEF q, T
    <3>2. ~(q < b) /\ b \in Nat
      BY <2>4, <2>6, <2>8
    <3> QED BY <2>2, <3>1, <3>2
  <2> QED BY <2>2, <2>7, <2>8
<1>2. Nat \subseteq T
  <2> HIDE DEF T
  <2> QED BY <1>1, AllNumbers
<1> QED BY <1>2 DEF Nodes

(* The shift one bus makes, and the step by which MapThenSumSet adds it. *)
Offset(b) ==
  IF Node(b).ranges = <<>> THEN 0 ELSE Node(b).ranges[1].parent - Node(b).ranges[1].child

Adding(f, bs) ==
  [s \in SUBSET bs |-> IF s = {} THEN 0 ELSE Offset(Pick(s)) + f[s \ {Pick(s)}]]

Offsets == [b \in Nodes |-> Offset(b)]

(* The shift of a bus is a number. *)
LEMMA OffsetType ==
  ASSUME fdt \in Fdts, NEW b \in Nodes
  PROVE  Offset(b) \in Int
<1>1. Node(b).ranges \in Seq(Entry) /\ Top \in Nat
  BY TreeFacts
<1>2. CASE Node(b).ranges # <<>>
  <2>1. Node(b).ranges[1] \in Entry
    BY <1>1, <1>2
  <2> QED BY <1>1, <1>2, <2>1 DEF Offset, Entry
<1>3. CASE Node(b).ranges = <<>>
  BY <1>3 DEF Offset
<1> QED BY <1>2, <1>3

(* For a set of nodes the two ways to write the sum are one. *)
LEMMA AddingIs ==
  ASSUME fdt \in Fdts, NEW bs \in SUBSET Nodes, NEW f
  PROVE  f = Adding(f, bs) <=> SumsUp(f, Offsets, bs)
<1>1. ASSUME NEW s \in SUBSET bs, s # {} PROVE Offset(Pick(s)) = Offsets[Pick(s)]
  <2>1. Pick(s) \in Nodes
    BY <1>1 DEF Pick
  <2> QED BY <2>1 DEF Offsets
<1>2. Adding(f, bs) =
        [s \in SUBSET bs |-> IF s = {} THEN 0 ELSE Offsets[Pick(s)] + f[s \ {Pick(s)}]]
  BY <1>1 DEF Adding
<1> QED BY <1>2 DEF SumsUp

(* Shift adds up the shifts of a set of buses, in any order. *)
LEMMA ShiftIs ==
  ASSUME fdt \in Fdts
  PROVE  \E f : SumsUp(f, Offsets, Nodes) /\ \A bs \in SUBSET Nodes : Shift(bs) = f[bs]
<1>1. Offsets \in [Nodes -> Int]
  BY OffsetType DEF Offsets
<1>2. IsFiniteSet(Nodes)
  <2>1. 1 \in Int /\ Len(fdt.nodes) \in Int
    BY TreeFacts
  <2> QED BY <2>1, FS_Interval DEF Nodes
<1>3. PICK f : SumsUp(f, Offsets, Nodes)
  BY <1>1, <1>2, SumExists
<1>4. ASSUME NEW bs \in SUBSET Nodes PROVE Shift(bs) = f[bs]
  <2> DEFINE w == [b \in bs |-> Offset(b)]
             g == CHOOSE h : h = Adding(h, bs)
  <2>1. IsFiniteSet(bs)
    BY <1>2, FS_Subset
  <2>2. w \in [bs -> Int]
    BY OffsetType
  <2>3. PICK h : SumsUp(h, w, bs)
    <3> HIDE DEF w
    <3> QED BY <2>1, <2>2, SumExists
  <2>4. h = Adding(h, bs)
    <3>1. ASSUME NEW s \in SUBSET bs, s # {} PROVE Offset(Pick(s)) = w[Pick(s)]
      BY <3>1 DEF Pick
    <3> HIDE DEF w
    <3> QED BY <2>3, <3>1 DEF SumsUp, Adding
  <2>5. g = Adding(g, bs)
    BY <2>4
  <2>6. SumsUp(g, Offsets, bs)
    <3> HIDE DEF g
    <3> QED BY <2>5, AddingIs
  <2>7. g[bs] = f[bs]
    <3> HIDE DEF g
    <3> QED BY <1>2, <1>3, <2>6, SumOfPart
  <2>8. Shift(bs) = g[bs]
    BY DEF Shift, MapThenSumSet, MapThenFoldSet, Adding, Offset, Pick
  <2> QED BY <2>7, <2>8
<1> QED BY <1>3, <1>4

(* No bus, no shift; one bus more adds its own. *)
LEMMA ShiftAdds ==
  ASSUME fdt \in Fdts, NEW bs \in SUBSET Nodes
  PROVE  /\ Shift({}) = 0
         /\ Shift(bs) \in Int
         /\ \A b \in bs : Shift(bs) = Offset(b) + Shift(bs \ {b})
<1>1. Offsets \in [Nodes -> Int]
  BY OffsetType DEF Offsets
<1>2. IsFiniteSet(Nodes)
  <2>1. 1 \in Int /\ Len(fdt.nodes) \in Int
    BY TreeFacts
  <2> QED BY <2>1, FS_Interval DEF Nodes
<1>3. PICK f : SumsUp(f, Offsets, Nodes) /\ \A s \in SUBSET Nodes : Shift(s) = f[s]
  BY ShiftIs
<1>4. f[{}] = 0
  BY <1>3 DEF SumsUp
<1>5. \A s \in SUBSET Nodes : f[s] \in Int
  BY <1>1, <1>2, <1>3, SumType
<1>6. ASSUME NEW b \in bs PROVE Shift(bs) = Offset(b) + Shift(bs \ {b})
  <2>1. f[bs] = Offsets[b] + f[bs \ {b}]
    BY <1>1, <1>2, <1>3, SumAnyOrder
  <2> QED BY <1>3, <2>1 DEF Offsets
<1> QED BY <1>3, <1>4, <1>5, <1>6

(* On the bus next to a node its address is the one in its "reg". *)
LEMMA AddressAtParent ==
  ASSUME fdt \in Fdts, NEW n \in Nodes, Node(n).reg # <<>>
  PROVE  /\ Node(n).reg[1].addr \in Address
         /\ AddressBelow(n, Node(n).parent) = Node(n).reg[1].addr
<1> DEFINE q == Node(n).parent
           x == Node(n).reg[1].addr
<1>1. x \in Address /\ Top \in Nat \ {0}
  <2>1. Node(n).reg \in Seq(Window) /\ Top \in Nat \ {0}
    BY TreeFacts
  <2>2. Node(n).reg[1] \in Window
    BY <2>1
  <2> QED BY <2>1, <2>2 DEF Window, Address
<1>2. {c \in Buses[n] : c > q} = {}
  <2>1. Buses[n] = Above(Buses, n)
    BY BusesIs
  <2>2. CASE q = 0
    BY <2>1, <2>2 DEF Above
  <2>3. CASE q # 0
    <3>1. q \in Nodes /\ Buses[n] = {q} \union Buses[q]
      BY <2>1, <2>3, ParentBelow DEF Above
    <3>2. q \in Nat /\ \A c \in Buses[q] : c \in Nat /\ c < q
      BY <3>1, BusesBelow DEF Nodes
    <3> HIDE DEF q
    <3> QED BY <3>1, <3>2
  <2> QED BY <2>2, <2>3
<1>3. Shift({c \in Buses[n] : c > q}) = 0
  BY <1>2, ShiftAdds
<1>4. (x + 0) % Top = x
  <2>1. x % Top = x
    BY <1>1, NoWrap DEF Address
  <2>2. x + 0 = x
    BY <1>1 DEF Address
  <2> HIDE DEF x
  <2> QED BY <2>1, <2>2
<1> HIDE DEF x
<1> QED BY <1>1, <1>3, <1>4 DEF AddressBelow, x

(* One bus further up the address is shifted by that bus. *)
LEMMA AddressStep ==
  ASSUME fdt \in Fdts, NEW n \in Nodes, Node(n).reg # <<>>, NEW p \in Buses[n]
  PROVE  /\ AddressBelow(n, p) \in Address
         /\ AddressBelow(n, Node(p).parent) = (AddressBelow(n, p) + Offset(p)) % Top
<1> DEFINE x == Node(n).reg[1].addr
           q == Node(p).parent
           Farther == {c \in Buses[n] : c > q}
           Nearer  == {c \in Buses[n] : c > p}
<1>1. x \in Int /\ Top \in Nat \ {0}
  BY AddressAtParent, TreeFacts DEF Address
<1>2. p \in Nodes /\ p \in Nat
  BY BusesBelow DEF Nodes
<1>3. q \in Nat /\ q < p
  BY <1>2, TreeFacts
<1>4. \A c \in Buses[n] : c \in Nodes /\ c \in Nat
  BY BusesBelow DEF Nodes
<1>5. Farther \ {p} = Nearer /\ p \in Farther
  <2>1. {c \in Buses[n] : c < p} = Above(Buses, p)
    BY <1>2, BusesChain, BusesIs
  <2>2. ASSUME NEW c \in Buses[n], c > q, c < p PROVE FALSE
    <3>1. c \in Above(Buses, p)
      BY <2>1, <2>2
    <3>2. q # 0 /\ (c = q \/ c \in Buses[q])
      BY <3>1 DEF Above
    <3>3. q \in Nodes
      BY <1>2, <3>2, ParentBelow
    <3>4. c = q \/ c < q
      BY <3>2, <3>3, BusesBelow
    <3> HIDE DEF q
    <3> QED BY <1>3, <1>4, <2>2, <3>4
  <2> HIDE DEF q
  <2>3. p > q /\ \A c \in Buses[n] : c > p => c > q
    BY <1>3, <1>4
  <2> QED BY <1>2, <1>4, <2>2, <2>3
<1>6. Farther \in SUBSET Nodes /\ Nearer \in SUBSET Nodes
  BY <1>4
<1>7. Shift(Farther) = Offset(p) + Shift(Nearer) /\ Shift(Nearer) \in Int
  <2> HIDE DEF Farther, Nearer
  <2>1. Shift(Farther) = Offset(p) + Shift(Farther \ {p})
    BY <1>5, <1>6, ShiftAdds
  <2>2. Shift(Nearer) \in Int
    BY <1>6, ShiftAdds
  <2> QED BY <1>5, <2>1, <2>2
<1>8. Offset(p) \in Int
  BY <1>2, OffsetType
<1>9. AddressBelow(n, p) = (x + Shift(Nearer)) % Top
  BY DEF AddressBelow
<1>10. AddressBelow(n, q) = (x + Shift(Farther)) % Top
  BY DEF AddressBelow
<1> HIDE DEF x, q, Farther, Nearer
<1>11. x + Shift(Nearer) \in Int
  BY <1>1, <1>7
<1>12. (((x + Shift(Nearer)) % Top) + Offset(p)) % Top = ((x + Shift(Nearer)) + Offset(p)) % Top
  BY <1>1, <1>8, <1>11, WrapTwice
<1>13. x + Shift(Farther) = (x + Shift(Nearer)) + Offset(p)
  BY <1>1, <1>7, <1>8
<1>14. AddressBelow(n, p) \in Address
  BY <1>1, <1>9, <1>11, DivMod DEF Address
<1> QED BY <1>9, <1>10, <1>12, <1>13, <1>14 DEF q

(* A bus that lets the address through translates it by its shift, if the   *)
(* end the code compares with does not wrap.                                *)
LEMMA BusTranslates ==
  ASSUME fdt \in Fdts, NEW p \in Nodes, NEW a \in Address, Passes(p, a),
         Node(p).ranges # <<>> => a + Node(p).ranges[1].size < Top
  PROVE  fdt_translate_address(a, p) = {(a + Offset(p)) % Top}
<1>1. Top \in Nat \ {0} /\ Node(p).ranges \in Seq(Entry)
  BY TreeFacts
<1>2. CASE Node(p).ranges = <<>>
  <2>1. Offset(p) = 0
    BY <1>2 DEF Offset
  <2>2. a % Top = a
    BY <1>1, NoWrap DEF Address
  <2>3. a + 0 = a
    BY <1>1 DEF Address
  <2>4. (a + Offset(p)) % Top = a
    BY <2>1, <2>2, <2>3
  <2> QED BY <1>2, <2>4 DEF fdt_translate_address, Passes
<1>3. CASE Node(p).ranges # <<>>
  <2> DEFINE r == Node(p).ranges[1]
  <2>1. r \in Entry
    BY <1>1, <1>3
  <2>2. r.child \in Nat /\ r.parent \in Nat /\ r.size \in Nat
    BY <1>1, <2>1 DEF Entry
  <2>3. a \in r.child .. r.child + r.size - 1
    BY <1>3 DEF Passes
  <2>4. a + r.size < Top
    BY <1>3
  <2>5. Offset(p) = r.parent - r.child
    BY <1>3 DEF Offset
  <2>6. fdt_translate_address(a, p) =
          IF a < r.child \/ r.child >= (a + r.size) % Top
          THEN {} ELSE {(r.parent + (a - r.child)) % Top}
    BY <1>3 DEF fdt_translate_address, Passes
  <2> HIDE DEF r
  <2>7. (a + r.size) % Top = a + r.size
    <3>1. a + r.size \in 0 .. Top - 1
      BY <1>1, <2>2, <2>4 DEF Address
    <3> DEFINE e == a + r.size
    <3>2. e \in 0 .. Top - 1
      BY <3>1
    <3> HIDE DEF e
    <3>3. e % Top = e
      BY <1>1, <3>2, NoWrap
    <3> QED BY <3>3 DEF e
  <2>8. ~(a < r.child \/ r.child >= a + r.size)
    BY <1>1, <2>2, <2>3 DEF Address
  <2>9. r.parent + (a - r.child) = a + Offset(p)
    BY <1>1, <2>2, <2>5 DEF Address
  <2> QED BY <2>6, <2>7, <2>8, <2>9
<1> QED BY <1>2, <1>3

(* The walk of fdt_get_node_addr_size from bus to bus ends at the address   *)
(* the node has below the root, wherever on its way one looks.              *)
LEMMA ClimbReaches ==
  ASSUME fdt \in Fdts, NEW n \in Nodes, HasAddress(n), ~Wraps(n)
  PROVE  \A p \in Buses[n] \union {0} : Climb[p][AddressBelow(n, p)] = BusAddress(n)
<1>1. Node(n).reg # <<>> /\ Node(n).parent # 0
  <2>1. 0 < Len(Node(n).reg) /\ Node(n).parent # 0
    BY DEF HasAddress, HasWindow
  <2>2. Node(n).reg \in Seq(Window)
    BY TreeFacts
  <2> QED BY <2>1, <2>2
<1> DEFINE way == Buses[n] \union {0}
           T == {p \in Nat : p \in way => Climb[p][AddressBelow(n, p)] = BusAddress(n)}
<1>2. ASSUME NEW p \in Nat, \A q \in Nat : q < p => q \in T PROVE p \in T
  <2> SUFFICES ASSUME p \in way
               PROVE  Climb[p][AddressBelow(n, p)] = BusAddress(n)
    OBVIOUS
  <2>1. CASE p = 0
    <3>1. AddressBelow(n, 0) \in Address
      <4>1. Node(n).reg[1].addr \in Int /\ Top \in Nat \ {0}
        BY <1>1, AddressAtParent, TreeFacts DEF Address
      <4>2. {c \in Buses[n] : c > 0} \in SUBSET Nodes
        BY BusesBelow
      <4>3. Shift({c \in Buses[n] : c > 0}) \in Int
        BY <4>2, ShiftAdds
      <4>4. Node(n).reg[1].addr + Shift({c \in Buses[n] : c > 0}) \in Int
        BY <4>1, <4>3
      <4> QED BY <4>1, <4>4, DivMod DEF AddressBelow, Address
    <3>2. 0 \in Depth
      BY TreeFacts
    <3>3. Climb[0][AddressBelow(n, 0)] = Up(Climb, 0, AddressBelow(n, 0))
      BY <3>1, <3>2, ClimbIs
    <3> QED BY <2>1, <3>3 DEF Up, BusAddress
  <2>2. CASE p \in Buses[n]
    <3> DEFINE a == AddressBelow(n, p)
               q == Node(p).parent
               b == AddressBelow(n, q)
    <3>1. p \in Nodes /\ p \in Depth /\ p # 0
      <4>1. p \in Nodes
        BY <2>2, BusesBelow
      <4> QED BY <4>1, TreeFacts DEF Nodes
    <3>2. a \in Address /\ b = (a + Offset(p)) % Top
      BY <1>1, <2>2, AddressStep
    <3>3. Passes(p, a)
      BY <2>2 DEF HasAddress
    <3>4. Node(p).ranges # <<>> => a + Node(p).ranges[1].size < Top
      <4> SUFFICES ASSUME Node(p).ranges # <<>>
                   PROVE  a + Node(p).ranges[1].size < Top
        OBVIOUS
      <4>1. ~(a + Node(p).ranges[1].size >= Top)
        BY <2>2 DEF Wraps
      <4>2. Top \in Nat /\ Node(p).ranges \in Seq(Entry)
        BY <3>1, TreeFacts
      <4>3. Node(p).ranges[1] \in Entry
        BY <4>2
      <4>4. Node(p).ranges[1].size \in Nat
        BY <4>2, <4>3 DEF Entry
      <4> HIDE DEF a
      <4> QED BY <3>2, <4>1, <4>2, <4>4 DEF Address
    <3> HIDE DEF a, b
    <3>5. fdt_translate_address(a, p) = {b}
      BY <3>1, <3>2, <3>3, <3>4, BusTranslates
    <3>6. Climb[p][a] = Up(Climb, p, a)
      BY <3>1, <3>2, ClimbIs
    <3>7. Up(Climb, p, a) = Climb[q][b]
      BY <3>1, <3>5 DEF Up
    <3>8. q \in Nat /\ q < p /\ q \in way
      <4>1. q \in 0 .. p - 1 /\ p \in Nat
        BY <3>1, TreeFacts DEF Nodes
      <4>2. q # 0 => q \in Buses[n]
        <5>1. Buses[p] = Above(Buses, p)
          BY <3>1, BusesIs
        <5>2. Buses[p] = {c \in Buses[n] : c < p}
          BY <2>2, BusesChain
        <5> QED BY <5>1, <5>2 DEF Above
      <4> HIDE DEF q
      <4> QED BY <4>1, <4>2
    <3>9. Climb[q][b] = BusAddress(n)
      BY <1>2, <3>8 DEF b
    <3> QED BY <3>6, <3>7, <3>9 DEF a
  <2> QED BY <2>1, <2>2
<1>3. Nat \subseteq T
  <2> HIDE DEF T
  <2> QED BY <1>2, AllNumbers
<1>4. way \subseteq Nat
  BY BusesBelow DEF Nodes
<1> QED BY <1>3, <1>4

(* So a node whose buses all let its address through gets that address,     *)
(* whatever the caller had in *addr before.                                 *)
LEMMA WalkFindsAddress ==
  ASSUME fdt \in Fdts, NEW n \in Nodes, HasAddress(n), ~Wraps(n), NEW before
  PROVE  fdt_get_node_addr_size(n, 0, before) = {BusAddress(n)}
<1> DEFINE q == Node(n).parent
           a == AddressBelow(n, q)
<1>1. Node(n).reg # <<>> /\ q # 0
  <2>1. 0 < Len(Node(n).reg) /\ Node(n).parent # 0
    BY DEF HasAddress, HasWindow
  <2>2. Node(n).reg \in Seq(Window)
    BY TreeFacts
  <2> QED BY <2>1, <2>2
<1>2. q \in Buses[n] /\ q \in Nodes
  <2>1. Buses[n] = Above(Buses, n)
    BY BusesIs
  <2> QED BY <1>1, <2>1, ParentBelow DEF Above
<1>3. a = Node(n).reg[1].addr /\ a \in Address
  BY <1>1, AddressAtParent
<1>4. Climb[q][a] = BusAddress(n)
  BY <1>2, ClimbReaches
<1>5. q \in Depth /\ q # 0
  BY <1>1, <1>2, TreeFacts
<1>6. Climb[q][a] = Up(Climb, q, a)
  BY <1>3, <1>5, ClimbIs
<1>7. Passes(q, a)
  BY <1>2 DEF HasAddress
<1>8. Node(q).ranges # <<>> => ~(a + Node(q).ranges[1].size >= Top)
  BY <1>2 DEF Wraps
<1>9. Node(q).ranges # <<>> => a + Node(q).ranges[1].size < Top
  <2> SUFFICES ASSUME Node(q).ranges # <<>>
               PROVE  a + Node(q).ranges[1].size < Top
    OBVIOUS
  <2>1. Top \in Nat /\ Node(q).ranges \in Seq(Entry)
    BY <1>2, TreeFacts
  <2>2. Node(q).ranges[1] \in Entry
    BY <2>1
  <2>3. Node(q).ranges[1].size \in Nat
    BY <2>1, <2>2 DEF Entry
  <2> HIDE DEF a, q
  <2> QED BY <1>3, <1>8, <2>1, <2>3 DEF Address
<1>10. PICK b : fdt_translate_address(a, q) = {b}
  <2> HIDE DEF a, q
  <2> QED BY <1>2, <1>3, <1>7, <1>9, BusTranslates
<1>11. Up(Climb, q, a) = Climb[Node(q).parent][b]
  BY <1>5, <1>10 DEF Up
<1>12. fdt_get_node_addr_size(n, 0, before) = {Climb[Node(q).parent][c] : c \in {b}}
  BY <1>3, <1>10 DEF fdt_get_node_addr_size
<1> QED BY <1>4, <1>6, <1>11, <1>12

(***************************************************************************)
(* The types of what the probe computes.                                   *)
(***************************************************************************)
Drivers == Uarts \union {"htif"}

(* Min finds the least member of a set of numbers. *)
LEMMA MinMember ==
  ASSUME NEW S \in SUBSET Nat, S # {}
  PROVE  Min(S) \in S
<1>1. PICK m \in S : \A n \in S : m <= n
  BY LeastNumber
<1> QED BY <1>1 DEF Min

(* The loops go through the three drivers. *)
LEMMA DriverTable ==
  /\ Len(serial_drivers) = 3
  /\ \A k \in 1 .. 3 : serial_drivers[k] \in Drivers
  /\ \A d \in Drivers : \E k \in 1 .. 3 : serial_drivers[k] = d
<1>1. Len(serial_drivers) = 3 /\ \A k \in 1 .. 3 : serial_drivers[k] \in Drivers
  BY DEF serial_drivers, Drivers, Uarts
<1>2. /\ serial_drivers[1] = "cadence_uart" /\ serial_drivers[2] = "uart8250"
      /\ serial_drivers[3] = "htif"
  BY DEF serial_drivers
<1> QED BY <1>1, <1>2 DEF Drivers, Uarts

(* fdt_find_match gives a node or nothing. *)
LEMMA FindMatchType ==
  ASSUME fdt \in Fdts, NEW d \in Drivers
  PROVE  fdt_find_match(d) \in Depth
<1> DEFINE hits == {k \in DOMAIN match_table[d] : Compatible(match_table[d][k]) # {}}
<1>1. DOMAIN match_table[d] \subseteq Nat
  <2>1. /\ match_table["cadence_uart"] = <<"cdns,uart-r1p12", "starfive,jh8100-uart">>
        /\ match_table["uart8250"] = <<"ns16550", "ns16550a", "snps,dw-apb-uart">>
        /\ match_table["htif"] = <<"ucb,htif0">>
    BY DEF match_table
  <2>2. /\ DOMAIN <<"cdns,uart-r1p12", "starfive,jh8100-uart">> \subseteq Nat
        /\ DOMAIN <<"ns16550", "ns16550a", "snps,dw-apb-uart">> \subseteq Nat
        /\ DOMAIN <<"ucb,htif0">> \subseteq Nat
    OBVIOUS
  <2>3. d \in {"cadence_uart", "uart8250", "htif"}
    BY DEF Drivers, Uarts
  <2> HIDE DEF hits
  <2> QED BY <2>1, <2>2, <2>3
<1>2. CASE hits = {}
  BY <1>2, TreeFacts DEF fdt_find_match
<1>3. CASE hits # {}
  <2>1. Min(hits) \in hits
    BY <1>1, <1>3, MinMember
  <2> DEFINE found == Compatible(match_table[d][Min(hits)])
  <2>2. found # {} /\ found \in SUBSET Nat /\ found \subseteq Nodes
    <3>1. found # {}
      BY <2>1
    <3>2. found \subseteq Nodes
      BY DEF Compatible
    <3>3. Nodes \subseteq Nat
      BY DEF Nodes
    <3> HIDE DEF found
    <3> QED BY <3>1, <3>2, <3>3
  <2>3. Min(found) \in found
    <3> HIDE DEF found
    <3> QED BY <2>2, MinMember
  <2>4. fdt_find_match(d) = Min(found)
    BY <1>3 DEF fdt_find_match
  <2> HIDE DEF found, hits
  <2> QED BY <2>2, <2>3, <2>4, TreeFacts
<1> QED BY <1>2, <1>3

(* fdt_get_node_addr_size gives an address, or what was in *addr before. *)
LEMMA GetAddressType ==
  ASSUME fdt \in Fdts, NEW n \in Nodes, NEW index \in Nat, HasWindow(n, index),
         NEW before \in SUBSET Address
  PROVE  fdt_get_node_addr_size(n, index, before) \in SUBSET Address
<1> DEFINE bus == Node(n).parent
           reg == Node(n).reg[index + 1].addr
           t   == fdt_translate_address(reg, bus)
<1>1. bus # 0 /\ index < Len(Node(n).reg)
  BY DEF HasWindow
<1>2. bus \in Nodes
  BY <1>1, ParentBelow
<1>3. reg \in Address
  <2>1. Node(n).reg \in Seq(Window) /\ Top \in Nat
    BY TreeFacts
  <2>2. index + 1 \in 1 .. Len(Node(n).reg)
    BY <1>1, <2>1
  <2>3. Node(n).reg[index + 1] \in Window
    BY <2>1, <2>2
  <2> QED BY <2>3 DEF Window, Address
<1> HIDE DEF reg
<1>4. t \in SUBSET Address
  <2> HIDE DEF bus
  <2> QED BY <1>2, <1>3, TranslateType
<1>5. Node(bus).parent \in Depth
  BY <1>2, TreeFacts
<1>6. \A a \in t : Climb[Node(bus).parent][a] \in Address
  BY <1>4, <1>5, ClimbType
<1>7. fdt_get_node_addr_size(n, index, before) =
        IF t = {} THEN before ELSE {Climb[Node(bus).parent][a] : a \in t}
  BY DEF fdt_get_node_addr_size, reg
<1> HIDE DEF t, bus
<1> QED BY <1>6, <1>7

(* So does fdt_parse_uart_node. *)
LEMMA ParseType ==
  ASSUME fdt \in Fdts, NEW n \in Nodes
  PROVE  fdt_parse_uart_node(n) \in SUBSET Address
<1>1. 0 \in Address /\ 0 .. Top - 1 \in SUBSET Address
  BY TreeFacts DEF Address
<1> QED BY <1>1, GetAddressType DEF fdt_parse_uart_node

(* A driver's init leaves addresses behind, and no device but its own. *)
LEMMA InitTypes ==
  ASSUME fdt \in Fdts, TypeOK, NEW d \in Drivers, NEW n \in Nodes, NEW rc,
         UartInit(d, n, rc) \/ HtifInit(d, n, rc)
  PROVE  /\ base' \in [Uarts -> Address]
         /\ mailbox' \in [custom : BOOLEAN, fromhost : Address, tohost : Address]
         /\ console_dev' \in Uarts \union {"none", "htif", "semihosting"}
<1>1. /\ base \in [Uarts -> Address]
      /\ mailbox \in [custom : BOOLEAN, fromhost : Address, tohost : Address]
      /\ console_dev \in Uarts \union {"none", "htif", "semihosting"}
  BY DEF TypeOK, Address
<1>2. CASE UartInit(d, n, rc)
  <2>1. d \in Uarts /\ mailbox' = mailbox
    BY <1>2 DEF UartInit
  <2>2. PICK a \in fdt_parse_uart_node(n) :
           \/ UNCHANGED <<console_dev, base>>
           \/ base' = [base EXCEPT ![d] = a] /\ zstage_console_set_device(d)
    BY <1>2 DEF UartInit
  <2>3. a \in Address
    BY <2>2, ParseType
  <2> QED BY <1>1, <2>1, <2>2, <2>3 DEF zstage_console_set_device
<1>3. CASE HtifInit(d, n, rc)
  <2>1. base' = base /\ d = "htif"
    BY <1>3 DEF HtifInit
  <2>2. PICK from \in IF HasWindow(n, 0) THEN fdt_get_node_addr_size(n, 0, {0}) ELSE {0} :
        \E to \in LET next == {(from + 8) % Top} IN
                  IF HasWindow(n, 1) THEN fdt_get_node_addr_size(n, 1, next) ELSE next :
          LET asked == [custom |-> TRUE, fromhost |-> from, tohost |-> to] IN
          IF HasWindow(n, 0) /\ mailbox.custom /\ mailbox # asked
          THEN rc = "EINVAL" /\ UNCHANGED <<mailbox, console_dev>>
          ELSE /\ mailbox' = IF HasWindow(n, 0) THEN asked ELSE mailbox
               /\ zstage_console_set_device(d)
               /\ rc = "ok"
    BY <1>3 DEF HtifInit
  <2>3. from \in Address
    <3>1. {0} \in SUBSET Address
      BY TreeFacts DEF Address
    <3>2. HasWindow(n, 0) => fdt_get_node_addr_size(n, 0, {0}) \in SUBSET Address
      BY <3>1, GetAddressType
    <3> QED BY <2>2, <3>1, <3>2
  <2> DEFINE next == {(from + 8) % Top}
  <2>4. next \in SUBSET Address
    <3>1. Top \in Nat \ {0} /\ from + 8 \in Int
      BY <2>3, TreeFacts DEF Address
    <3> QED BY <3>1, DivMod DEF Address
  <2>5. PICK to \in IF HasWindow(n, 1) THEN fdt_get_node_addr_size(n, 1, next) ELSE next :
          \/ UNCHANGED <<mailbox, console_dev>>
          \/ /\ \/ mailbox' = [custom |-> TRUE, fromhost |-> from, tohost |-> to]
                \/ mailbox' = mailbox
             /\ zstage_console_set_device(d)
    BY <2>2
  <2> HIDE DEF next
  <2>6. to \in Address
    <3>1. HasWindow(n, 1) => fdt_get_node_addr_size(n, 1, next) \in SUBSET Address
      BY <2>4, GetAddressType
    <3> QED BY <2>4, <2>5, <3>1
  <2>7. mailbox' \in [custom : BOOLEAN, fromhost : Address, tohost : Address]
    <3>1. [custom |-> TRUE, fromhost |-> from, tohost |-> to]
            \in [custom : BOOLEAN, fromhost : Address, tohost : Address]
      BY <2>3, <2>6
    <3>2. \/ mailbox' = mailbox
          \/ mailbox' = [custom |-> TRUE, fromhost |-> from, tohost |-> to]
      BY <2>5
    <3> QED BY <1>1, <3>1, <3>2
  <2>8. console_dev' \in Uarts \union {"none", "htif", "semihosting"}
    BY <1>1, <2>1, <2>5 DEF zstage_console_set_device
  <2> QED BY <1>1, <2>1, <2>7, <2>8
<1> QED BY <1>2, <1>3

(***************************************************************************)
(* What the search has seen so far.                                        *)
(***************************************************************************)
(* A driver that gives up cannot use the node it was given.                 *)
LEMMA GivesUpRightly ==
  ASSUME fdt \in Fdts, NEW d \in Drivers, NEW n \in Nodes, NEW rc, rc = "ENODEV",
         UartInit(d, n, rc) \/ HtifInit(d, n, rc)
  PROVE  ~Usable(d, n)
<1> SUFFICES ASSUME Usable(d, n) PROVE FALSE
  OBVIOUS
<1>1. UartInit(d, n, rc) /\ d \in Uarts
  BY DEF HtifInit, UartInit
<1>2. 0 \in fdt_parse_uart_node(n)
  BY <1>1 DEF UartInit
<1>3. HasAddress(n) /\ ~Wraps(n) /\ BusAddress(n) # 0 /\ Node(n).reg[1].size # 0
  BY <1>1 DEF Usable
<1>4. fdt_get_node_addr_size(n, 0, 0 .. Top - 1) = {BusAddress(n)}
  BY <1>3, WalkFindsAddress
<1>5. fdt_parse_uart_node(n) = {BusAddress(n)}
  BY <1>3, <1>4 DEF fdt_parse_uart_node, HasAddress
<1> QED BY <1>2, <1>3, <1>5

(* The console is the driver's own, at the address the tree gives it. *)
Placed(d, n) ==
  HasAddress(n) /\ ~Wraps(n) =>
    IF d = "htif" THEN mailbox'.custom /\ mailbox'.fromhost = BusAddress(n)
    ELSE base'[d] = BusAddress(n)

LEMMA TakesRightly ==
  ASSUME fdt \in Fdts, PInv, Untaken, NEW d \in Drivers, NEW n \in Nodes,
         NEW rc, rc = "ok", UartInit(d, n, rc) \/ HtifInit(d, n, rc)
  PROVE  console_dev' = d /\ Placed(d, n)
<1>1. CASE UartInit(d, n, rc)
  <2>1. PICK a \in fdt_parse_uart_node(n) :
          a # 0 /\ base' = [base EXCEPT ![d] = a] /\ console_dev' = d
    BY <1>1 DEF UartInit, Untaken, zstage_console_set_device
  <2>2. base'[d] = a /\ d # "htif"
    BY <1>1, <2>1 DEF PInv, UartInit, Uarts
  <2>3. ASSUME HasAddress(n), ~Wraps(n) PROVE a = BusAddress(n)
    <3>1. fdt_get_node_addr_size(n, 0, 0 .. Top - 1) = {BusAddress(n)}
      BY <2>3, WalkFindsAddress
    <3> QED BY <2>1, <3>1 DEF fdt_parse_uart_node
  <2> QED BY <2>1, <2>2, <2>3 DEF Placed
<1>2. CASE HtifInit(d, n, rc)
  <2>1. d = "htif" /\ console_dev' = d
    BY <1>2 DEF HtifInit, Untaken, zstage_console_set_device
  <2>2. ASSUME HasAddress(n), ~Wraps(n)
        PROVE  mailbox'.custom /\ mailbox'.fromhost = BusAddress(n)
    <3>1. HasWindow(n, 0)
      BY <2>2 DEF HasAddress
    <3>2. fdt_get_node_addr_size(n, 0, {0}) = {BusAddress(n)}
      BY <2>2, WalkFindsAddress
    <3>3. PICK from \in {BusAddress(n)} : \E to :
            mailbox' = [custom |-> TRUE, fromhost |-> from, tohost |-> to]
      BY <1>2, <3>1, <3>2 DEF HtifInit
    <3> QED BY <3>3
  <2> QED BY <2>1, <2>2 DEF Placed
<1> QED BY <1>1, <1>2

(* In the first pass no driver before this one can use the node of          *)
(* stdout-path; in the second none can, and none before this one can use    *)
(* the first node it matches.                                               *)
Searched ==
  /\ pc = "platform_stdio_init" => pos = 1
  /\ pc = "stdout" =>
       /\ noff = fdt.stdout
       /\ \A k \in 1 .. pos - 1 : ~Usable(serial_drivers[k], fdt.stdout)
  /\ pc = "all" =>
       /\ \A d \in Drivers : ~Usable(d, fdt.stdout)
       /\ \A k \in 1 .. pos - 1 :
            ~Usable(serial_drivers[k], fdt_find_match(serial_drivers[k]))

SInv ==
  /\ fdt \in Fdts
  /\ TypeOK
  /\ PInv
  /\ Searched
  /\ ConsoleAtBusAddress /\ StdoutPathWins /\ EveryDriverTried

(* What a step leaves alone keeps its meaning: the tree does not change. *)
LEMMA SameTree ==
  ASSUME fdt' = fdt
  PROVE  /\ \A d, n : Usable(d, n)' <=> Usable(d, n)
         /\ \A n : (HasAddress(n)' <=> HasAddress(n)) /\ (Wraps(n)' <=> Wraps(n))
         /\ \A n : BusAddress(n)' = BusAddress(n)
         /\ \A d : fdt_find_match(d)' = fdt_find_match(d)
<1>1. \A bs : Shift(bs)' = Shift(bs)
  BY DEF Shift, MapThenSumSet, MapThenFoldSet, Node
<1>2. Buses' = Buses
  BY DEF Buses, Node, Nodes
<1>3. \A n, b : AddressBelow(n, b)' = AddressBelow(n, b)
  BY <1>1, <1>2 DEF AddressBelow, Node
<1>4. \A n : HasWindow(n, 0)' <=> HasWindow(n, 0)
  BY DEF HasWindow, Node
<1>5. \A b, a : Passes(b, a)' <=> Passes(b, a)
  BY DEF Passes, Node
<1>6. \A n : HasAddress(n)' <=> HasAddress(n)
  BY <1>2, <1>3, <1>4, <1>5 DEF HasAddress
<1>7. \A n : Wraps(n)' <=> Wraps(n)
  BY <1>2, <1>3 DEF Wraps, Node
<1>8. \A n : BusAddress(n)' = BusAddress(n)
  BY <1>3 DEF BusAddress
<1>9. \A d : fdt_find_match(d)' = fdt_find_match(d)
  BY DEF fdt_find_match, Compatible, Node, Nodes
<1>10. \A n, d : fdt_match_node(n, d)' <=> fdt_match_node(n, d)
  BY DEF fdt_match_node, Node
<1>11. \A d, n : Usable(d, n)' <=> Usable(d, n)
  BY <1>6, <1>7, <1>8, <1>10 DEF Usable, Node
<1> QED BY <1>6, <1>7, <1>8, <1>9, <1>11

(* At reset the search has seen nothing. *)
LEMMA SInvInit == Init => SInv
<1> SUFFICES ASSUME Init PROVE SInv
  OBVIOUS
<1>1. fdt \in Fdts /\ pc = "platform_stdio_init" /\ pos = 1 /\ noff = 0
  BY DEF Init
<1>2. TypeOK
  <2>1. 0 \in 0 .. Top - 1 /\ 0 \in 0 .. Len(fdt.nodes) /\ 1 \in 1 .. Len(serial_drivers) + 1
    BY <1>1, TreeFacts, DriverTable
  <2> QED BY <2>1 DEF Init, TypeOK
<1> QED BY <1>1, <1>2, PInvInit
        DEF SInv, Searched, Returned, ConsoleAtBusAddress, StdoutPathWins, EveryDriverTried

(* A driver is tried: it takes the console and the search is over, or it    *)
(* could not use the node and the loop goes on.                             *)
LEMMA DriverTried ==
  ASSUME SInv, pc \in {"stdout", "all"}, pos \in 1 .. 3, NEW n \in Nodes,
         DriverInit(serial_drivers[pos], n), UNCHANGED <<fdt, debugger>>, noff' = n
  PROVE  LET d == serial_drivers[pos] IN
         /\ TypeOK' /\ PInv'
         /\ \/ pc' = "return" /\ console_dev' = d /\ Placed(d, n)
            \/ UNCHANGED <<pc, console_dev>> /\ pos' = pos + 1 /\ ~Usable(d, n)
<1> DEFINE d == serial_drivers[pos]
<1>1. fdt \in Fdts /\ TypeOK /\ PInv /\ Untaken
  BY DEF SInv, PInv
<1>2. d \in Drivers
  BY DriverTable
<1>3. PICK rc \in {"ok", "ENODEV", "EINVAL"} :
        (UartInit(d, n, rc) \/ HtifInit(d, n, rc)) /\ AfterInit(d, rc)
  BY DEF DriverInit
<1>4. PInv'
  BY <1>1, DriverTakes
<1> HIDE DEF d
<1>5. /\ base' \in [Uarts -> Address]
      /\ mailbox' \in [custom : BOOLEAN, fromhost : Address, tohost : Address]
      /\ console_dev' \in Uarts \union {"none", "htif", "semihosting"}
  BY <1>1, <1>2, <1>3, InitTypes
<1>6. noff' \in 0 .. Len(fdt'.nodes)
  BY <1>1, TreeFacts DEF Depth
<1>7. rc # "EINVAL"
  BY <1>3, <1>4 DEF AfterInit, PInv
<1>8. CASE rc = "ok"
  <2>1. pc' = "return" /\ current_driver' = d /\ pos' = pos
    BY <1>3, <1>8 DEF AfterInit
  <2>2. console_dev' = d /\ Placed(d, n)
    BY <1>1, <1>2, <1>3, <1>8, TakesRightly
  <2>3. TypeOK'
    BY <1>1, <1>2, <1>5, <1>6, <2>1 DEF TypeOK, Drivers, Address
  <2> QED BY <1>4, <2>1, <2>2, <2>3 DEF d
<1>9. CASE rc = "ENODEV"
  <2>1. UNCHANGED <<pc, current_driver>> /\ pos' = pos + 1
    BY <1>3, <1>9 DEF AfterInit
  <2>2. ~Usable(d, n) /\ console_dev' = console_dev
    BY <1>1, <1>2, <1>3, <1>9, GivesUpRightly DEF UartInit, HtifInit
  <2>3. TypeOK'
    <3>1. pos' \in 1 .. Len(serial_drivers) + 1
      BY <2>1, DriverTable
    <3> QED BY <1>1, <1>5, <1>6, <2>1, <3>1 DEF TypeOK, Address
  <2> QED BY <1>4, <2>1, <2>2, <2>3 DEF d
<1> QED BY <1>3, <1>7, <1>8, <1>9

(* No driver can use a node that is not there or that it does not match. *)
LEMMA NotMatched ==
  ASSUME NEW d, NEW n, ~fdt_match_node(n, d)
  PROVE  ~Usable(d, n)
BY DEF Usable

(* Every step of the search keeps what it has seen. *)
LEMMA SInvNext == SInv /\ [Next]_vars => SInv'
<1> SUFFICES ASSUME SInv, [Next]_vars PROVE SInv'
  OBVIOUS
<1>1. fdt \in Fdts /\ TypeOK /\ PInv /\ Searched
  BY DEF SInv
<1>2. PInv'
  BY <1>1, PInvNext
<1>3. fdt' = fdt /\ debugger' = debugger
  BY DEF Next, vars, SemihostingInit, StdoutSkip, StdoutInit, StdoutDone,
         AllSkip, AllInit, AllDone
<1>4. fdt' \in Fdts
  BY <1>1, <1>3
<1>5. /\ \A d, n : Usable(d, n)' <=> Usable(d, n)
      /\ \A n : (HasAddress(n)' <=> HasAddress(n)) /\ (Wraps(n)' <=> Wraps(n))
      /\ \A n : BusAddress(n)' = BusAddress(n)
      /\ \A d : fdt_find_match(d)' = fdt_find_match(d)
  BY <1>3, SameTree
<1>6. Len(serial_drivers) = 3 /\ pos \in 1 .. 4 /\ noff \in Depth
  BY <1>1, DriverTable DEF TypeOK, Depth
<1>7. CASE SemihostingInit
  <2>1. CASE debugger
    <3>1. TypeOK'
      BY <1>1, <1>3, <1>7, <2>1 DEF SemihostingInit, TypeOK, zstage_console_set_device
    <3>2. pc' = "return" /\ debugger'
      BY <1>3, <1>7, <2>1 DEF SemihostingInit
    <3> QED BY <1>2, <1>4, <3>1, <3>2
            DEF SInv, Searched, Returned, ConsoleAtBusAddress, StdoutPathWins, EveryDriverTried
  <2>2. CASE ~debugger
    <3>1. pc' = "stdout" /\ noff' = fdt.stdout /\ UNCHANGED console_dev /\ pos = 1
          /\ UNCHANGED <<pos, current_driver, base, mailbox>>
      BY <1>1, <1>7, <2>2 DEF SemihostingInit, Searched
    <3>2. TypeOK'
      BY <1>1, <1>3, <3>1, TreeFacts DEF TypeOK, Depth
    <3> QED BY <1>2, <1>3, <1>4, <3>1, <3>2
            DEF SInv, Searched, Returned, ConsoleAtBusAddress, StdoutPathWins, EveryDriverTried
  <2> QED BY <2>1, <2>2
<1>8. CASE StdoutSkip
  <2>1. /\ pc = "stdout" /\ pos <= 3 /\ pos' = pos + 1
        /\ ~fdt_match_node(noff, serial_drivers[pos])
        /\ UNCHANGED <<pc, noff, console_dev, current_driver, base, mailbox>>
    BY <1>6, <1>8 DEF StdoutSkip, StdoutLoop, NextDriver
  <2>2. TypeOK'
    BY <1>1, <1>3, <1>6, <2>1 DEF TypeOK
  <2>3. noff = fdt.stdout /\ \A k \in 1 .. pos' - 1 : ~Usable(serial_drivers[k], fdt.stdout)
    <3>1. ~Usable(serial_drivers[pos], noff)
      BY <2>1, NotMatched
    <3> QED BY <1>1, <1>6, <2>1, <3>1 DEF Searched
  <2>4. Searched'
    BY <1>3, <1>5, <2>1, <2>3 DEF Searched
  <2> QED BY <1>2, <1>4, <2>1, <2>2, <2>4
          DEF SInv, Returned, ConsoleAtBusAddress, StdoutPathWins, EveryDriverTried
<1>9. CASE StdoutInit
  <2> DEFINE d == serial_drivers[pos]
  <2>1. /\ pc = "stdout" /\ noff # 0 /\ pos \in 1 .. 3
        /\ DriverInit(d, noff) /\ noff' = noff
    BY <1>6, <1>9 DEF StdoutInit, StdoutLoop
  <2>2. noff \in Nodes
    BY <1>1, <1>6, <2>1, TreeFacts
  <2>3. /\ TypeOK'
        /\ \/ pc' = "return" /\ console_dev' = d /\ Placed(d, noff)
           \/ UNCHANGED <<pc, console_dev>> /\ pos' = pos + 1 /\ ~Usable(d, noff)
    BY <1>3, <2>1, <2>2, DriverTried
  <2>4. d \in Drivers /\ d # "none"
    BY <2>1, DriverTable DEF Drivers, Uarts
  <2> HIDE DEF d
  <2>5. noff = fdt.stdout /\ \A k \in 1 .. pos - 1 : ~Usable(serial_drivers[k], fdt.stdout)
    BY <1>1, <2>1 DEF Searched
  <2>6. CASE pc' = "return" /\ console_dev' = d /\ Placed(d, noff)
    <3>1. Searched'
      BY <2>6 DEF Searched
    <3>2. StdoutPathWins' /\ EveryDriverTried'
      BY <1>3, <2>1, <2>4, <2>5, <2>6 DEF StdoutPathWins, EveryDriverTried
    <3>3. ConsoleAtBusAddress'
      BY <1>5, <2>1, <2>4, <2>6 DEF ConsoleAtBusAddress, Placed, Drivers
    <3> QED BY <1>2, <1>4, <2>3, <3>1, <3>2, <3>3 DEF SInv
  <2>7. CASE UNCHANGED <<pc, console_dev>> /\ pos' = pos + 1 /\ ~Usable(d, noff)
    <3>1. \A k \in 1 .. pos' - 1 : ~Usable(serial_drivers[k], fdt.stdout)
      BY <1>6, <2>5, <2>7 DEF d
    <3>2. Searched'
      BY <1>3, <1>5, <2>1, <2>5, <2>7, <3>1 DEF Searched
    <3> QED BY <1>2, <1>4, <2>1, <2>3, <2>7, <3>2
            DEF SInv, Returned, ConsoleAtBusAddress, StdoutPathWins, EveryDriverTried
  <2> QED BY <2>3, <2>6, <2>7
<1>10. CASE StdoutDone
  <2>1. /\ pc = "stdout" /\ (noff = 0 \/ pos > 3)
        /\ pc' = "all" /\ pos' = 1
        /\ UNCHANGED <<noff, console_dev, current_driver, base, mailbox>>
    BY <1>6, <1>10 DEF StdoutDone
  <2>2. noff = fdt.stdout /\ \A k \in 1 .. pos - 1 : ~Usable(serial_drivers[k], fdt.stdout)
    BY <1>1, <1>10 DEF StdoutDone, Searched
  <2>3. ASSUME NEW d \in Drivers PROVE ~Usable(d, fdt.stdout)
    <3>1. CASE noff = 0
      BY <2>2, <3>1 DEF Usable, fdt_match_node
    <3>2. CASE pos > 3
      <4>1. PICK k \in 1 .. 3 : serial_drivers[k] = d
        BY DriverTable
      <4> QED BY <1>6, <2>2, <3>2, <4>1
    <3> QED BY <1>6, <1>10, <3>1, <3>2 DEF StdoutDone
  <2>4. TypeOK'
    BY <1>1, <1>3, <1>6, <2>1 DEF TypeOK
  <2>5. pc' = "all" /\ pos' = 1
    BY <2>1
  <2>6. Searched'
    BY <1>3, <1>5, <2>3, <2>5 DEF Searched
  <2> QED BY <1>2, <1>4, <2>4, <2>5, <2>6
          DEF SInv, Returned, ConsoleAtBusAddress, StdoutPathWins, EveryDriverTried
<1>11. CASE AllSkip
  <2> DEFINE d == serial_drivers[pos]
  <2>1. /\ pc = "all" /\ pos <= 3 /\ pos' = pos + 1 /\ noff' = 0
        /\ fdt_find_match(d) = 0
        /\ UNCHANGED <<pc, console_dev, current_driver, base, mailbox>>
    BY <1>6, <1>11 DEF AllSkip, NextDriver
  <2>2. ~Usable(d, fdt_find_match(d))
    BY <2>1 DEF Usable, fdt_match_node
  <2>3. \A k \in 1 .. pos' - 1 : ~Usable(serial_drivers[k], fdt_find_match(serial_drivers[k]))
    BY <1>1, <1>6, <2>1, <2>2 DEF Searched
  <2>4. TypeOK'
    BY <1>1, <1>3, <1>6, <2>1, TreeFacts DEF TypeOK, Depth
  <2>5. Searched'
    BY <1>1, <1>3, <1>5, <2>1, <2>3 DEF Searched
  <2> QED BY <1>2, <1>4, <2>1, <2>4, <2>5
          DEF SInv, Returned, ConsoleAtBusAddress, StdoutPathWins, EveryDriverTried
<1>12. CASE AllInit
  <2> DEFINE d == serial_drivers[pos]
             n == fdt_find_match(d)
  <2>1. /\ pc = "all" /\ pos \in 1 .. 3 /\ noff' = n /\ n # 0
        /\ DriverInit(d, n)
    BY <1>6, <1>12 DEF AllInit
  <2>2. d \in Drivers /\ d # "none"
    BY <2>1, DriverTable DEF Drivers, Uarts
  <2> HIDE DEF d
  <2>3. n \in Nodes
    BY <1>1, <2>1, <2>2, FindMatchType, TreeFacts
  <2> HIDE DEF n
  <2>4. /\ TypeOK'
        /\ \/ pc' = "return" /\ console_dev' = d /\ Placed(d, n)
           \/ UNCHANGED <<pc, console_dev>> /\ pos' = pos + 1 /\ ~Usable(d, n)
    BY <1>3, <2>1, <2>3, DriverTried DEF d
  <2>5. /\ \A e \in Drivers : ~Usable(e, fdt.stdout)
        /\ \A k \in 1 .. pos - 1 :
             ~Usable(serial_drivers[k], fdt_find_match(serial_drivers[k]))
    BY <1>1, <2>1 DEF Searched
  <2>6. CASE pc' = "return" /\ console_dev' = d /\ Placed(d, n)
    <3>1. Searched'
      BY <2>6 DEF Searched
    <3>2. EveryDriverTried'
      BY <2>2, <2>6 DEF EveryDriverTried
    <3>3. StdoutPathWins'
      BY <1>3, <1>5, <2>5 DEF StdoutPathWins, Drivers
    <3>4. ConsoleAtBusAddress'
      BY <1>5, <2>1, <2>2, <2>6 DEF ConsoleAtBusAddress, Placed, Drivers
    <3> QED BY <1>2, <1>4, <2>4, <3>1, <3>2, <3>3, <3>4 DEF SInv
  <2>7. CASE UNCHANGED <<pc, console_dev>> /\ pos' = pos + 1 /\ ~Usable(d, n)
    <3>1. \A k \in 1 .. pos' - 1 :
            ~Usable(serial_drivers[k], fdt_find_match(serial_drivers[k]))
      BY <1>6, <2>5, <2>7 DEF d, n
    <3>2. Searched'
      BY <1>3, <1>5, <2>1, <2>5, <2>7, <3>1 DEF Searched
    <3> QED BY <1>2, <1>4, <2>1, <2>4, <2>7, <3>2
            DEF SInv, Returned, ConsoleAtBusAddress, StdoutPathWins, EveryDriverTried
  <2> QED BY <2>4, <2>6, <2>7
<1>13. CASE AllDone
  <2>1. /\ pc = "all" /\ pos > 3 /\ pc' = "return" /\ noff' = 0
        /\ UNCHANGED <<pos, console_dev, current_driver, base, mailbox>>
    BY <1>6, <1>13 DEF AllDone
  <2>2. TypeOK'
    BY <1>1, <1>3, <2>1, TreeFacts DEF TypeOK, Depth
  <2>3. Searched'
    BY <2>1 DEF Searched
  <2>4. ConsoleAtBusAddress'
    BY <2>1 DEF ConsoleAtBusAddress
  <2>5. StdoutPathWins'
    BY <1>1, <1>3, <1>5, <2>1 DEF StdoutPathWins, Searched, Drivers
  <2>6. ASSUME NEW d \in Drivers PROVE ~Usable(d, fdt_find_match(d))
    <3>1. PICK k \in 1 .. 3 : serial_drivers[k] = d
      BY DriverTable
    <3> QED BY <1>1, <1>6, <2>1, <3>1 DEF Searched
  <2>7. EveryDriverTried'
    BY <1>5, <2>6 DEF EveryDriverTried, Drivers
  <2> QED BY <1>2, <1>4, <2>2, <2>3, <2>4, <2>5, <2>7 DEF SInv
<1>14. CASE UNCHANGED vars
  <2>1. UNCHANGED <<fdt, debugger, pc, pos, noff, console_dev, current_driver, base, mailbox>>
    BY <1>14 DEF vars
  <2>2. TypeOK'
    BY <1>1, <2>1 DEF TypeOK
  <2>3. Searched'
    BY <1>1, <1>5, <2>1 DEF Searched
  <2>4. ConsoleAtBusAddress'
    BY <1>5, <2>1 DEF SInv, ConsoleAtBusAddress, Returned
  <2>5. StdoutPathWins' /\ EveryDriverTried'
    BY <1>5, <2>1 DEF SInv, StdoutPathWins, EveryDriverTried, Returned
  <2> QED BY <1>2, <1>4, <2>2, <2>3, <2>4, <2>5 DEF SInv
<1> QED BY <1>7, <1>8, <1>9, <1>10, <1>11, <1>12, <1>13, <1>14 DEF Next

(* What the search has seen holds in every state of every probe. *)
THEOREM SearchInvariance == Spec => []SInv
BY SInvInit, SInvNext, PTL DEF Spec

(* For every device tree whose nodes are before their children: the probe   *)
(* keeps to its labels, its loops inside the table and its addresses in     *)
(* range, through any number of buses.                                      *)
THEOREM TypeCorrect == Spec => []TypeOK
<1>1. SInv => TypeOK
  BY DEF SInv
<1> QED BY <1>1, SearchInvariance, PTL

(* For every device tree, whatever the depth: a device whose buses all let  *)
(* its address through is used at the address it has on the outermost bus.  *)
THEOREM AddressIsTheTrees == Spec => []ConsoleAtBusAddress
<1>1. SInv => ConsoleAtBusAddress
  BY DEF SInv
<1> QED BY <1>1, SearchInvariance, PTL

(* For every device tree: if any driver can use the node of stdout-path,    *)
(* the console is there.                                                    *)
THEOREM StdoutPathFirst == Spec => []StdoutPathWins
<1>1. SInv => StdoutPathWins
  BY DEF SInv
<1> QED BY <1>1, SearchInvariance, PTL

(* For every device tree: there is no console only if no driver can use the *)
(* first node it matches.                                                   *)
THEOREM NoDriverForgotten == Spec => []EveryDriverTried
<1>1. SInv => EveryDriverTried
  BY DEF SInv
<1> QED BY <1>1, SearchInvariance, PTL
=============================================================================
