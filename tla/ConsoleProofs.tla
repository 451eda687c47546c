---------------------------- MODULE ConsoleProofs ----------------------------
(***************************************************************************)
(* print, for every size of tbuf and of the caller's buffer, every format  *)
(* and every argument: it writes nothing behind the buffers and sends      *)
(* nothing it has not written; and the text it makes of directives that    *)
(* are C's is C's.                                                         *)
(***************************************************************************)
EXTENDS Console, Induction, TLAPS

BoundedFns == {"printf", "panic", "snprintf"}

(* out and *out_len go together: printc stops one short of the end, where   *)
(* the terminator is, and takes the last of *out_len for it.                *)
Counted ==
  /\ room \in Nat /\ out \in Nat /\ out_len \in Nat
  /\ out_len > 0 => out + out_len = room
  /\ out_len = 0 /\ room > 0 => out + 1 = room

(* Of tbuf all below out is written, and the terminator once something was. *)
Filled ==
  use_tbuf =>
    /\ \A c \in 0 .. out - 1 : c \in DOMAIN mem
    /\ out_len < PRINT_TBUF_MAX => out \in DOMAIN mem

CallInv ==
  Call.fn \in BoundedFns =>
    /\ Counted
    /\ \A c \in DOMAIN mem : c \in Nat /\ c < room
    /\ Filled

CInv ==
  /\ boot \in Boots /\ done \in Nat
  /\ pc # "idle" => done + 1 \in DOMAIN boot.calls /\ CallInv

bufferVars == <<boot, done, mem, out, out_len>>

LEMMA CInvInit == Init => CInv
BY DEF Init, CInv

(* room does not change within a call. *)
LEMMA RoomIsNat ==
  ASSUME boot \in Boots, done + 1 \in DOMAIN boot.calls
  PROVE  /\ room \in Nat
         /\ use_tbuf => room = PRINT_TBUF_MAX /\ Call.fn \in BoundedFns
         /\ PRINT_TBUF_MAX \in Nat /\ PRINT_TBUF_MAX > 1
BY ConsoleAssumption DEF room, use_tbuf, Call, BoundedFns

(* A step that leaves the buffer alone, within a call. *)
LEMMA BufferKept ==
  ASSUME CInv, UNCHANGED bufferVars, pc # "idle" \/ pc' = "idle"
  PROVE  CInv'
<1>1. Call' = Call /\ room' = room /\ use_tbuf' = use_tbuf
  BY DEF bufferVars, Call, room, use_tbuf
<1>2. CallInv' = CallInv
  BY <1>1 DEF CallInv, Counted, Filled, bufferVars
<1> QED BY <1>2 DEF CInv, bufferVars

(* A call of print begins with an empty buffer. *)
LEMMA CallPrintKeeps == CInv /\ CallPrint => CInv'
<1> SUFFICES ASSUME CInv, CallPrint PROVE CInv'
  OBVIOUS
<1>1. done + 1 \in DOMAIN boot.calls
  BY ConsoleAssumption DEF CInv, CallPrint
<1>2. Call' = Call /\ room' = room /\ use_tbuf' = use_tbuf
  BY DEF CallPrint, Call, room, use_tbuf
<1>3. /\ room \in Nat /\ PRINT_TBUF_MAX \in Nat /\ PRINT_TBUF_MAX > 1
      /\ use_tbuf => room = PRINT_TBUF_MAX
  BY <1>1, RoomIsNat DEF CInv
<1>4. mem' = Unwritten /\ out' = 0 /\ out_len' = room /\ boot' = boot /\ done' = done
  BY DEF CallPrint, room
<1>5. DOMAIN Unwritten = {}
  BY DEF Unwritten
<1>6. CASE room > 0
  BY <1>1, <1>2, <1>3, <1>4, <1>5, <1>6 DEF CInv, CallInv, Counted, Filled
<1>7. CASE room = 0
  BY <1>1, <1>2, <1>3, <1>4, <1>5, <1>7 DEF CInv, CallInv, Counted, Filled
<1> QED BY <1>3, <1>6, <1>7

(* printc writes a character and its terminator, or nothing. *)
LEMMA PrintcKeeps == CInv /\ Printc => CInv'
<1> SUFFICES ASSUME CInv, Printc PROVE CInv'
  OBVIOUS
<1>1. /\ pc # "idle" /\ done + 1 \in DOMAIN boot.calls /\ CallInv
      /\ boot' = boot /\ done' = done /\ pc' = pc
  BY DEF CInv, Printc
<1>2. Call' = Call /\ room' = room /\ use_tbuf' = use_tbuf
  BY <1>1 DEF Call, room, use_tbuf
<1>3. CASE Call.fn \notin BoundedFns
  BY <1>1, <1>2, <1>3 DEF CInv, CallInv
<1>4. CASE Call.fn \in BoundedFns
  <2>1. /\ Counted /\ Filled /\ \A c \in DOMAIN mem : c \in Nat /\ c < room
        /\ Bounded
    BY <1>1, <1>4 DEF CallInv, BoundedFns, Bounded
  <2>2. /\ room \in Nat /\ PRINT_TBUF_MAX \in Nat /\ PRINT_TBUF_MAX > 1
        /\ use_tbuf => room = PRINT_TBUF_MAX
    BY <1>1, RoomIsNat DEF CInv
  <2>3. CASE out_len > 1
    <3>1. mem' = Written(Head(text)) /\ out' = out + 1 /\ out_len' = out_len - 1
      BY <2>1, <2>3 DEF Printc, Counted
    <3>2. DOMAIN mem' = DOMAIN mem \union {out, out + 1}
      BY <3>1 DEF Written
    <3>3. Counted' /\ out + 1 < room
      BY <1>2, <2>1, <2>3, <3>1 DEF Counted
    <3>4. \A c \in DOMAIN mem' : c \in Nat /\ c < room
      BY <2>1, <3>2, <3>3 DEF Counted
    <3>5. Filled'
      BY <1>2, <2>1, <3>1, <3>2 DEF Filled, Counted
    <3> QED BY <1>1, <1>2, <3>3, <3>4, <3>5 DEF CInv, CallInv
  <2>4. CASE out_len <= 1
    <3>1. /\ mem' = mem /\ out' = out
          /\ out_len' = IF out_len > 0 THEN out_len - 1 ELSE out_len
      BY <2>1, <2>4 DEF Printc, Counted
    <3>2. out_len' = 0
      BY <2>1, <2>4, <3>1 DEF Counted
    <3>3. Counted'
      BY <1>2, <2>1, <2>2, <2>4, <3>1, <3>2 DEF Counted
    <3>4. use_tbuf => out_len < PRINT_TBUF_MAX
      BY <2>1, <2>2, <2>4 DEF Counted
    <3>5. Filled'
      BY <1>2, <2>1, <3>1, <3>4 DEF Filled
    <3> QED BY <1>1, <1>2, <2>1, <3>1, <3>3, <3>5 DEF CInv, CallInv
  <2> QED BY <2>1, <2>3, <2>4 DEF Counted
<1> QED BY <1>3, <1>4

(* The flush starts tbuf again, and leaves the old bytes in it. *)
LEMMA FlushKeeps == CInv /\ Flush => CInv'
<1> SUFFICES ASSUME CInv, Flush PROVE CInv'
  OBVIOUS
<1>1. /\ pc # "idle" /\ pc' # "idle" /\ done + 1 \in DOMAIN boot.calls /\ CallInv
      /\ boot' = boot /\ done' = done /\ mem' = mem
      /\ use_tbuf /\ out' = 0 /\ out_len' = PRINT_TBUF_MAX
  BY DEF CInv, Flush
<1>2. Call' = Call /\ room' = room /\ use_tbuf' = use_tbuf
  BY <1>1 DEF Call, room, use_tbuf
<1>3. /\ room \in Nat /\ room = PRINT_TBUF_MAX /\ PRINT_TBUF_MAX > 1
      /\ Call.fn \in BoundedFns
  BY <1>1, RoomIsNat DEF CInv
<1>4. Counted' /\ Filled'
  BY <1>1, <1>2, <1>3 DEF Counted, Filled
<1> QED BY <1>1, <1>2, <1>3, <1>4 DEF CInv, CallInv

LEMMA CInvNext == CInv /\ [Next]_vars => CInv'
<1> SUFFICES ASSUME CInv, [Next]_vars PROVE CInv'
  OBVIOUS
<1>1. CASE CallPrint
  BY <1>1, CallPrintKeeps
<1>2. CASE Printc
  BY <1>2, PrintcKeeps
<1>3. CASE Flush
  BY <1>3, FlushKeeps
<1>4. CASE CallPuts \/ CallPutc
  <2>1. /\ done + 1 \in DOMAIN boot.calls /\ boot' = boot /\ done' = done
        /\ Call.fn \notin BoundedFns
    BY <1>4, ConsoleAssumption DEF CInv, CallPuts, CallPutc, BoundedFns
  <2>2. Call' = Call
    BY <2>1 DEF Call
  <2> QED BY <2>1, <2>2 DEF CInv, CallInv
<1>5. CASE Literal \/ Convert \/ Break \/ End
  <2>1. UNCHANGED bufferVars /\ pc # "idle"
    BY <1>5 DEF Literal, Convert, Break, Turn, End, bufferVars, printVars
  <2> QED BY <2>1, BufferKept
<1>6. CASE NputsWhole \/ Nputs \/ PutcCr \/ Putc \/ PutcNone \/ PutcReturn
  <2>1. UNCHANGED bufferVars /\ pc # "idle"
    BY <1>6 DEF NputsWhole, Nputs, PutcCr, Putc, PutcNone, PutcReturn, bufferVars, printVars
  <2> QED BY <2>1, BufferKept
<1>7. CASE Return
  <2>1. pc = "return" /\ boot' = boot /\ UNCHANGED printVars
    BY <1>7 DEF Return
  <2>2. CASE pc' = "hang" /\ done' = done
    BY <2>1, <2>2, BufferKept DEF bufferVars, printVars
  <2>3. CASE pc' = "idle" /\ done' = done + 1
    BY <2>1, <2>3 DEF CInv
  <2> QED BY <1>7, <2>2, <2>3 DEF Return
<1>8. CASE \/ UartPoll \/ UartStore \/ CadencePoll \/ CadenceStore
           \/ SetTohost \/ CheckFromhost \/ ClearFromhost \/ WriteTohost \/ Wait
           \/ PutsChar \/ PutsWrite \/ PutsReturn \/ Device
  <2>1. UNCHANGED consoleVars
    BY <1>8 DEF UartPoll, UartStore, CadencePoll, CadenceStore, SetTohost, CheckFromhost,
                ClearFromhost, WriteTohost, Wait, PutsChar, PutsWrite, PutsReturn,
                Device, UartDrain, CadenceDrain, HostTake
  <2> QED BY <2>1, BufferKept DEF consoleVars, printVars, bufferVars
<1>9. CASE UNCHANGED vars
  BY <1>9, BufferKept DEF vars, printVars, bufferVars
<1> QED BY <1>1, <1>2, <1>3, <1>4, <1>5, <1>6, <1>7, <1>8, <1>9 DEF Next, Hart

THEOREM CInvAlways == Spec => []CInv
BY CInvInit, CInvNext, PTL DEF Spec

-----------------------------------------------------------------------------
(* Whatever the format, the arguments and the sizes, printc writes nothing  *)
(* behind tbuf or behind the buffer given to snprintf.                      *)
THEOREM BuffersKept == Spec => []BufferBound
<1>1. CInv => BufferBound
  BY DEF CInv, CallInv, BufferBound, BoundedFns
<1> QED BY <1>1, CInvAlways, PTL

(* What is sent has been written: below out, or the terminator at the end   *)
(* of a tbuf that is full.                                                  *)
LEMMA SendsText ==
  ASSUME CInv, [Next]_vars, pc = "print", pc' = "nputs"
  PROVE  \A n \in DOMAIN todo' : n - 1 \in DOMAIN mem
<1>1. done + 1 \in DOMAIN boot.calls /\ CallInv
  BY DEF CInv
<1>2. CASE Flush
  <2>1. use_tbuf /\ out_len = 0 /\ todo' = Sent(PRINT_TBUF_MAX)
    BY <1>2 DEF Flush
  <2>2. Counted /\ Filled /\ room = PRINT_TBUF_MAX /\ PRINT_TBUF_MAX \in Nat /\ PRINT_TBUF_MAX > 1
    BY <1>1, <2>1, RoomIsNat DEF CInv, CallInv
  <2>3. \A c \in 0 .. PRINT_TBUF_MAX - 1 : c \in DOMAIN mem
    BY <2>1, <2>2 DEF Counted, Filled
  <2>4. DOMAIN todo' = 1 .. PRINT_TBUF_MAX
    BY <2>1 DEF Sent
  <2> QED BY <2>2, <2>3, <2>4
<1>3. CASE End
  <2>1. use_tbuf /\ out_len < PRINT_TBUF_MAX /\ todo' = Sent(PRINT_TBUF_MAX - out_len)
    BY <1>3 DEF End
  <2>2. Counted /\ Filled /\ room = PRINT_TBUF_MAX /\ PRINT_TBUF_MAX \in Nat /\ PRINT_TBUF_MAX > 1
    BY <1>1, <2>1, RoomIsNat DEF CInv, CallInv
  <2>3. \A c \in 0 .. PRINT_TBUF_MAX - out_len - 1 : c \in DOMAIN mem
    BY <2>1, <2>2 DEF Counted, Filled
  <2>4. DOMAIN todo' = 1 .. PRINT_TBUF_MAX - out_len
    BY <2>1 DEF Sent
  <2> QED BY <2>2, <2>3, <2>4 DEF Counted
<1>4. Flush \/ End
  BY DEF Next, Hart, Device, vars, CallPrint, Printc, Literal, Convert, Break, Turn, CallPuts,
         CallPutc, NputsWhole, Nputs, PutcCr, Putc, PutcNone, PutcReturn, Return, consoleVars,
         UartPoll, UartStore, CadencePoll, CadenceStore, SetTohost, CheckFromhost,
         ClearFromhost, WriteTohost, Wait, PutsChar, PutsWrite, PutsReturn,
         UartDrain, CadenceDrain, HostTake
<1> QED BY <1>2, <1>3, <1>4

(* Every byte printf and panic hand to the device is one that print has     *)
(* written in this call.                                                    *)
THEOREM NoStackSent == Spec => OnlyTextSent
<1>1. CInv /\ [Next]_vars =>
        [pc = "print" /\ pc' = "nputs" => \A n \in DOMAIN todo' : n - 1 \in DOMAIN mem]_vars
  BY SendsText
<1> QED BY <1>1, CInvAlways, PTL DEF Spec, OnlyTextSent

-----------------------------------------------------------------------------
(* The digits of a number: the division loop of printi makes the numeral.   *)

LEMMA DivIs ==
  ASSUME NEW u \in Nat, NEW b \in Nat \ {0}
  PROVE  u \div b \in Nat /\ u % b \in 0 .. b - 1 /\ u = b * (u \div b) + (u % b)
<1> DEFINE d == u \div b
           r == u % b
<1>1. r \in 0 .. b - 1 /\ d \in Int /\ u = b * d + r
  OBVIOUS
<1> HIDE DEF d, r
<1>2. ASSUME d < 0 PROVE FALSE
  <2> DEFINE e == -1 - d
  <2>1. e \in Nat /\ d = -1 - e
    BY <1>1, <1>2
  <2> HIDE DEF e
  <2> DEFINE m == b * e
  <2>2. m \in Nat
    BY <2>1
  <2>3. b * d = -b - m
    <3>1. b * (-1 - e) = -b - b * e
      BY <2>1
    <3> QED BY <2>1, <3>1
  <2> HIDE DEF m
  <2>4. u < 0
    BY <1>1, <2>2, <2>3
  <2> QED BY <2>4
<1>3. d \in Nat
  <2>1. d \in Int
    BY <1>1
  <2> QED BY <1>2, <2>1
<1> QED BY <1>1, <1>3 DEF d, r

LEMMA DivBetween ==
  ASSUME NEW u \in Nat, NEW b \in Nat \ {0}, NEW q \in Nat, u \div b >= q
  PROVE  b * q <= u
<1> DEFINE d == u \div b
<1>1. d \in Nat /\ b * d <= u /\ d >= q
  BY DivIs
<1> HIDE DEF d
<1>2. b * q <= b * d
  BY <1>1
<1> QED BY <1>1, <1>2

LEMMA DivBelow ==
  ASSUME NEW u \in Nat, NEW b \in Nat \ {0}, NEW q \in Nat, u \div b < q
  PROVE  u < b * q
<1> DEFINE d == u \div b
           r == u % b
<1>1. d \in Nat /\ r \in 0 .. b - 1 /\ u = b * d + r
  BY DivIs
<1>5. d < q
  OBVIOUS
<1> HIDE DEF d, r
<1>6. d + 1 <= q
  BY <1>1, <1>5
<1>2. b * (d + 1) <= b * q
  <2> DEFINE e == q - (d + 1)
  <2>1. e \in Nat /\ q = (d + 1) + e
    BY <1>1, <1>6
  <2> HIDE DEF e
  <2>2. b * e \in Nat
    BY <2>1
  <2>3. b * ((d + 1) + e) = b * (d + 1) + b * e
    BY <1>1, <2>1
  <2>4. b * (d + 1) \in Nat
    BY <1>1
  <2> QED BY <2>1, <2>2, <2>3, <2>4
<1>4. b * (d + 1) = b * d + b
  BY <1>1
<1>3. u < b * d + b
  <2>1. b * d \in Nat
    BY <1>1
  <2> QED BY <1>1, <2>1
<1> QED BY <1>1, <1>2, <1>3, <1>4

LEMMA DivDiv ==
  ASSUME NEW u \in Nat, NEW b \in Nat \ {0}, NEW m \in Nat \ {0}
  PROVE  (u \div b) \div m = u \div (b * m)
OBVIOUS

(* The powers of b. *)
Powers(P, b) == P \in [Nat -> Nat \ {0}] /\ P[0] = 1 /\ \A k \in Nat : P[k + 1] = b * P[k]

LEMMA PowersExist ==
  ASSUME NEW b \in Nat \ {0}
  PROVE  \E P : Powers(P, b)
<1> DEFINE V == Nat \ {0}
           rank == [k \in Nat |-> k]
           at(f, k) == IF k = 0 THEN 1 ELSE b * f[k - 1]
           E == [f \in [Nat -> V] |-> [k \in Nat |-> at(f, k)]]
<1>1. ASSUME NEW f \in [Nat -> V], NEW k \in Nat PROVE at(f, k) \in V
  <2>1. CASE k # 0
    <3>1. k - 1 \in Nat
      BY <2>1
    <3>2. f[k - 1] \in Nat /\ f[k - 1] > 0
      BY <3>1
    <3>3. b * f[k - 1] \in Nat /\ b * f[k - 1] > 0
      BY <3>2
    <3> QED BY <2>1, <3>3
  <2> QED BY <2>1
<1>2. E \in [[Nat -> V] -> [Nat -> V]]
  <2> HIDE DEF at, V
  <2> QED BY <1>1
<1>3. ASSUME NEW g \in [Nat -> V], NEW h \in [Nat -> V], NEW k \in Nat,
             \A y \in Nat : rank[y] < rank[k] => g[y] = h[y]
      PROVE  E[g][k] = E[h][k]
  <2>1. at(g, k) = at(h, k)
    <3>1. k # 0 => k - 1 \in Nat /\ rank[k - 1] < rank[k]
      OBVIOUS
    <3> QED BY <1>3, <3>1
  <2> HIDE DEF at, V
  <2> QED BY <2>1
<1>4. LooksDown(E, rank, Nat, V)
  <2>1. rank \in [Nat -> Nat]
    OBVIOUS
  <2> HIDE DEF E, rank, V
  <2> QED BY <1>2, <1>3, <2>1 DEF LooksDown
<1>5. PICK f \in [Nat -> V] : f = E[f]
  <2>1. V # {}
    BY 1 \in V
  <2> HIDE DEF E, rank, V
  <2> QED BY <1>4, <2>1, Recursion
<1>6. f = [k \in Nat |-> at(f, k)]
  <2> HIDE DEF at, V
  <2> QED BY <1>5
<1>7. f[0] = 1
  BY <1>6
<1>8. ASSUME NEW k \in Nat PROVE f[k + 1] = b * f[k]
  <2>1. k + 1 \in Nat /\ k + 1 # 0 /\ k + 1 - 1 = k
    OBVIOUS
  <2>2. f[k + 1] = at(f, k + 1)
    BY <1>6, <2>1
  <2> QED BY <2>1, <2>2
<1> QED BY <1>5, <1>7, <1>8 DEF Powers

(* They grow, and pass every number. *)
LEMMA PowersGrow ==
  ASSUME NEW b \in Nat, b > 1, NEW P, Powers(P, b)
  PROVE  /\ \A k \in Nat : P[k] > k
         /\ \A k, l \in Nat : k <= l => P[k] <= P[l]
<1>1. ASSUME NEW k \in Nat PROVE P[k + 1] > P[k] /\ P[k + 1] \in Nat /\ P[k] \in Nat
  <2>1. P[k] \in Nat /\ P[k] > 0 /\ P[k + 1] = b * P[k] /\ P[k + 1] \in Nat
    BY DEF Powers
  <2>2. b * P[k] > P[k]
    BY <2>1
  <2> QED BY <2>1, <2>2
<1>2. \A k \in Nat : P[k] > k
  <2> DEFINE T == {k \in Nat : P[k] > k}
  <2>1. ASSUME NEW k \in Nat, \A m \in Nat : m < k => m \in T PROVE k \in T
    <3>1. CASE k = 0
      BY <3>1 DEF Powers
    <3>2. CASE k > 0
      <4>1. k - 1 \in Nat /\ k - 1 < k /\ k - 1 + 1 = k
        BY <3>2
      <4>2. P[k - 1] > k - 1 /\ P[k] > P[k - 1] /\ P[k] \in Nat /\ P[k - 1] \in Nat
        BY <1>1, <2>1, <4>1
      <4> QED BY <4>1, <4>2
    <3> QED BY <3>1, <3>2
  <2>2. Nat \subseteq T
    <3> HIDE DEF T
    <3> QED BY <2>1, AllNumbers
  <2> QED BY <2>2
<1>3. \A k, l \in Nat : k <= l => P[k] <= P[l]
  <2> SUFFICES ASSUME NEW k \in Nat PROVE \A l \in Nat : k <= l => P[k] <= P[l]
    OBVIOUS
  <2> DEFINE T == {l \in Nat : k <= l => P[k] <= P[l]}
  <2>1. ASSUME NEW l \in Nat, \A m \in Nat : m < l => m \in T PROVE l \in T
    <3>1. CASE l <= k
      <4>1. k <= l => l = k
        BY <3>1
      <4>2. P[k] <= P[k]
        BY DEF Powers
      <4> QED BY <4>1, <4>2
    <3>2. CASE l > k
      <4>1. l - 1 \in Nat /\ l - 1 < l /\ l - 1 + 1 = l /\ k <= l - 1
        BY <3>2
      <4>2. P[k] <= P[l - 1] /\ P[l] > P[l - 1]
        BY <1>1, <2>1, <4>1
      <4>3. P[l] \in Nat /\ P[l - 1] \in Nat /\ P[k] \in Nat
        BY <4>1 DEF Powers
      <4> QED BY <4>2, <4>3
    <3> QED BY <3>1, <3>2
  <2>2. Nat \subseteq T
    <3> HIDE DEF T
    <3> QED BY <2>1, AllNumbers
  <2> QED BY <2>2
<1> QED BY <1>2, <1>3

(* How many digits v has. *)
IsLen(l, v, P) == l \in Nat /\ l > 0 /\ v < P[l] /\ (l = 1 \/ v >= P[l - 1])

LEMMA LenOnce ==
  ASSUME NEW b \in Nat, b > 1, NEW P, Powers(P, b), NEW v \in Nat,
         NEW k, NEW l, IsLen(k, v, P), IsLen(l, v, P)
  PROVE  k = l
<1>1. k \in Nat /\ l \in Nat /\ k > 0 /\ l > 0 /\ P[k] \in Nat /\ P[l] \in Nat
  BY DEF IsLen, Powers
<1>2. ASSUME k < l PROVE FALSE
  <2>1. l - 1 \in Nat /\ k <= l - 1 /\ l # 1
    BY <1>1, <1>2
  <2>2. P[k] <= P[l - 1] /\ P[l - 1] \in Nat
    BY <1>1, <2>1, PowersGrow DEF Powers
  <2> QED BY <1>1, <2>1, <2>2 DEF IsLen
<1>3. ASSUME l < k PROVE FALSE
  <2>1. k - 1 \in Nat /\ l <= k - 1 /\ k # 1
    BY <1>1, <1>3
  <2>2. P[l] <= P[k - 1] /\ P[k - 1] \in Nat
    BY <1>1, <2>1, PowersGrow DEF Powers
  <2> QED BY <1>1, <2>1, <2>2 DEF IsLen
<1> QED BY <1>1, <1>2, <1>3

(* A number has at most as many digits as the next one counts. *)
LEMMA LenExists ==
  ASSUME NEW b \in Nat, b > 1, NEW P, Powers(P, b), NEW v \in Nat
  PROVE  \E l \in 1 .. v + 1 : IsLen(l, v, P)
<1> DEFINE T == {k \in Nat : k > 0 /\ v < P[k]}
<1>1. P[v + 1] > v + 1 /\ P[v + 1] \in Nat
  <2> DEFINE m == v + 1
  <2>1. m \in Nat
    OBVIOUS
  <2> HIDE DEF m
  <2>2. P[m] > m
    BY <2>1, PowersGrow
  <2>3. P[m] \in Nat
    BY <2>1 DEF Powers
  <2> QED BY <2>2, <2>3 DEF m
<1>2. v + 1 \in T
  BY <1>1
<1>3. PICK l \in T : \A k \in T : l <= k
  BY <1>2, LeastNumber
<1>4. l \in 1 .. v + 1
  BY <1>2, <1>3
<1>5. l = 1 \/ v >= P[l - 1]
  <2> SUFFICES ASSUME l # 1, v < P[l - 1] PROVE FALSE
    BY <1>3 DEF Powers
  <2>1. l - 1 \in T
    OBVIOUS
  <2> QED BY <1>3, <2>1
<1> QED BY <1>4, <1>5 DEF IsLen

Figures(v, b, letbase, l, P) == [j \in 1 .. l |-> digit((v \div P[l - j]) % b, letbase)]

LEMMA NumeralIs ==
  ASSUME NEW b \in Nat, b > 1, NEW P, Powers(P, b), NEW v \in Nat, NEW letbase,
         NEW l, IsLen(l, v, P)
  PROVE  Numeral(v, b, letbase) = Figures(v, b, letbase, l, P)
<1> DEFINE good(p) == p = [k \in 0 .. v + 1 |-> IF k = 0 THEN 1 ELSE b * p[k - 1]]
           p == CHOOSE p : good(p)
           len == CHOOSE k \in 1 .. v + 1 : v < p[k] /\ (k = 1 \/ v >= p[k - 1])
<1>1. good(p)
  <2> DEFINE q == [k \in 0 .. v + 1 |-> P[k]]
  <2>1. ASSUME NEW k \in 0 .. v + 1 PROVE P[k] = IF k = 0 THEN 1 ELSE b * q[k - 1]
    <3>1. CASE k # 0
      <4>1. k - 1 \in Nat /\ k - 1 \in 0 .. v + 1 /\ k - 1 + 1 = k
        BY <3>1
      <4> QED BY <3>1, <4>1 DEF Powers
    <3> QED BY <3>1 DEF Powers
  <2>2. q = [k \in 0 .. v + 1 |-> IF k = 0 THEN 1 ELSE b * q[k - 1]]
    BY <2>1
  <2> HIDE DEF q
  <2>3. good(q)
    BY <2>2
  <2> HIDE DEF good
  <2> QED BY <2>3
<1>2. Numeral(v, b, letbase) = [j \in 1 .. len |-> digit((v \div p[len - j]) % b, letbase)]
  BY DEF Numeral
<1> HIDE DEF p
<1>3. \A k \in 0 .. v + 1 : p[k] = P[k]
  <2> DEFINE T == {k \in Nat : k <= v + 1 => p[k] = P[k]}
  <2>1. ASSUME NEW k \in Nat, \A m \in Nat : m < k => m \in T PROVE k \in T
    <3> SUFFICES ASSUME k <= v + 1 PROVE p[k] = P[k]
      OBVIOUS
    <3>1. k \in 0 .. v + 1
      OBVIOUS
    <3>2. p[k] = IF k = 0 THEN 1 ELSE b * p[k - 1]
      BY <1>1, <3>1
    <3>3. CASE k # 0
      <4>1. k - 1 \in Nat /\ k - 1 < k /\ k - 1 + 1 = k /\ k - 1 <= v + 1
        BY <3>1, <3>3
      <4>2. p[k - 1] = P[k - 1]
        BY <2>1, <4>1
      <4>3. P[k - 1 + 1] = b * P[k - 1]
        BY <4>1 DEF Powers
      <4> QED BY <3>2, <3>3, <4>1, <4>2, <4>3
    <3> QED BY <3>2, <3>3 DEF Powers
  <2>2. Nat \subseteq T
    <3> HIDE DEF T
    <3> QED BY <2>1, AllNumbers
  <2> QED BY <2>2
<1>4. \A k \in 1 .. v + 1 : (v < p[k] /\ (k = 1 \/ v >= p[k - 1])) <=> IsLen(k, v, P)
  <2> TAKE k \in 1 .. v + 1
  <2>1. k \in 0 .. v + 1 /\ k - 1 \in 0 .. v + 1 /\ k \in Nat /\ k > 0
    OBVIOUS
  <2> QED BY <1>3, <2>1 DEF IsLen
<1>5. IsLen(len, v, P) /\ len \in 1 .. v + 1
  BY <1>4, LenExists
<1> HIDE DEF len
<1>6. len = l
  BY <1>5, LenOnce
<1>7. \A j \in 1 .. l : p[l - j] = P[l - j]
  <2> TAKE j \in 1 .. l
  <2>1. l - j \in 0 .. v + 1
    BY <1>5, <1>6
  <2> QED BY <1>3, <2>1
<1> QED BY <1>2, <1>6, <1>7 DEF Figures

LEMMA NumeralSmall ==
  ASSUME NEW b \in Nat, b > 1, NEW v \in Nat, v < b, NEW letbase
  PROVE  Numeral(v, b, letbase) = <<digit(v, letbase)>>
<1>1. PICK P : Powers(P, b)
  BY PowersExist
<1>2. P[0] = 1 /\ P[1] = b
  <2>1. P[0 + 1] = b * P[0] /\ P[0] = 1
    BY <1>1 DEF Powers
  <2> QED BY <2>1
<1>3. IsLen(1, v, P)
  BY <1>2 DEF IsLen
<1>4. Numeral(v, b, letbase) = [j \in 1 .. 1 |-> digit((v \div P[1 - j]) % b, letbase)]
  <2> DEFINE l == 1
  <2>1. IsLen(l, v, P)
    BY <1>3
  <2> HIDE DEF l
  <2>2. Numeral(v, b, letbase) = Figures(v, b, letbase, l, P)
    BY <1>1, <2>1, NumeralIs
  <2> QED BY <2>2 DEF l, Figures
<1>5. v \div 1 = v /\ v % b = v
  OBVIOUS
<1>6. [j \in 1 .. 1 |-> digit((v \div P[1 - j]) % b, letbase)] = [j \in 1 .. 1 |-> digit(v, letbase)]
  <2>1. \A j \in 1 .. 1 : (v \div P[1 - j]) % b = v
    BY <1>2, <1>5
  <2> QED BY <2>1
<1> DEFINE d == digit(v, letbase)
           s == [j \in 1 .. 1 |-> d]
<1> HIDE DEF d
<1>7. s = <<d>>
  <2>1. IsSeq(s) /\ Len(s) = 1 /\ s[1] = d
    <3>1. s = [j \in 1 .. 1 |-> s[j]] /\ 1 \in Nat
      OBVIOUS
    <3>2. s[1] = d
      OBVIOUS
    <3> HIDE DEF s
    <3> QED BY <3>1, <3>2, SeqMade
  <2>2. IsSeq(<<d>>) /\ Len(<<d>>) = 1 /\ <<d>>[1] = d
    BY SingleAt
  <2> DEFINE t == <<d>>
  <2> HIDE DEF s, t
  <2>3. IsSeq(t) /\ Len(t) = 1 /\ t[1] = d
    BY <2>2 DEF t
  <2>4. s = t
    BY <2>1, <2>3, SeqSame
  <2> QED BY <2>4 DEF t
<1> QED BY <1>4, <1>6, <1>7 DEF d, s

LEMMA NumeralStep ==
  ASSUME NEW b \in Nat, b > 1, NEW v \in Nat, v >= b, NEW letbase
  PROVE  /\ Numeral(v, b, letbase) = Append(Numeral(v \div b, b, letbase), digit(v % b, letbase))
         /\ IsSeq(Numeral(v \div b, b, letbase))
<1> DEFINE u == v \div b
<1>1. PICK P : Powers(P, b)
  BY PowersExist
<1>2. u \in Nat /\ v % b \in Nat
  BY DivIs
<1>3. PICK l : IsLen(l, u, P)
  BY <1>1, <1>2, LenExists
<1>4. l \in Nat /\ l > 0 /\ l + 1 \in Nat /\ l + 1 - 1 = l /\ P[l] \in Nat
  BY <1>1, <1>3 DEF IsLen, Powers
<1>5. IsLen(l + 1, v, P)
  <2>1. v < b * P[l] /\ P[l + 1] = b * P[l]
    <3> DEFINE q == P[l]
    <3>1. q \in Nat /\ v \div b < q /\ b \in Nat \ {0}
      BY <1>3, <1>4 DEF IsLen
    <3> HIDE DEF q
    <3>2. v < b * q
      BY <3>1, DivBelow
    <3>3. P[l + 1] = b * P[l]
      BY <1>1, <1>4 DEF Powers
    <3> QED BY <3>2, <3>3 DEF q
  <2>2. v >= P[l]
    <3>1. CASE l = 1
      <4>1. P[0 + 1] = b * P[0] /\ P[0] = 1
        BY <1>1 DEF Powers
      <4> QED BY <3>1, <4>1
    <3>2. CASE l # 1
      <4>1. l - 1 \in Nat /\ l - 1 + 1 = l /\ u >= P[l - 1] /\ P[l - 1] \in Nat
        BY <1>1, <1>3, <1>4, <3>2 DEF IsLen, Powers
      <4>2. b * P[l - 1] <= v
        BY <4>1, DivBetween
      <4>3. P[l - 1 + 1] = b * P[l - 1]
        BY <1>1, <4>1 DEF Powers
      <4> QED BY <4>1, <4>2, <4>3
    <3> QED BY <3>1, <3>2
  <2> QED BY <1>4, <2>1, <2>2 DEF IsLen
<1> DEFINE N == Numeral(v, b, letbase)
           M == Numeral(u, b, letbase)
<1>6. N = [j \in 1 .. l + 1 |-> digit((v \div P[(l + 1) - j]) % b, letbase)]
  <2> DEFINE m == l + 1
  <2>1. IsLen(m, v, P)
    BY <1>5
  <2> HIDE DEF m
  <2>2. N = Figures(v, b, letbase, m, P)
    BY <1>1, <2>1, NumeralIs
  <2> HIDE DEF N
  <2> QED BY <2>2 DEF m, Figures
<1>7. M = [j \in 1 .. l |-> digit((u \div P[l - j]) % b, letbase)]
  <2> HIDE DEF u
  <2>1. u \in Nat /\ IsLen(l, u, P)
    BY <1>2, <1>3
  <2>2. M = Figures(u, b, letbase, l, P)
    BY <1>1, <2>1, NumeralIs
  <2> HIDE DEF M
  <2> QED BY <2>2 DEF Figures
<1>8. IsSeq(N) /\ Len(N) = l + 1 /\ IsSeq(M) /\ Len(M) = l
  <2> HIDE DEF N, M, u
  <2>1. N = [j \in 1 .. l + 1 |-> N[j]]
    BY <1>6
  <2>2. M = [j \in 1 .. l |-> M[j]]
    BY <1>7
  <2> QED BY <1>4, <2>1, <2>2, SeqMade
<1>9. \A j \in 1 .. l : N[j] = M[j]
  <2> TAKE j \in 1 .. l
  <2>1. l - j \in Nat /\ (l - j) + 1 = (l + 1) - j /\ j \in 1 .. l + 1
    BY <1>4
  <2>2. P[l - j + 1] = b * P[l - j] /\ P[l - j] \in Nat \ {0}
    BY <1>1, <2>1 DEF Powers
  <2>3. u \div P[l - j] = v \div P[(l + 1) - j]
    BY <2>1, <2>2, DivDiv
  <2>4. N[j] = digit((v \div P[(l + 1) - j]) % b, letbase)
    BY <1>6, <2>1
  <2>5. M[j] = digit((u \div P[l - j]) % b, letbase)
    BY <1>7
  <2> HIDE DEF N, M, u
  <2> QED BY <2>3, <2>4, <2>5
<1>10. N[l + 1] = digit(v % b, letbase)
  <2>1. P[(l + 1) - (l + 1)] = 1 /\ v \div 1 = v /\ l + 1 \in 1 .. l + 1
    BY <1>1, <1>4 DEF Powers
  <2>2. N[l + 1] = digit((v \div P[(l + 1) - (l + 1)]) % b, letbase)
    BY <1>6, <2>1
  <2> HIDE DEF N
  <2> QED BY <2>1, <2>2
<1> DEFINE x == digit(v % b, letbase)
<1>11. N[l + 1] = x
  BY <1>10
<1> HIDE DEF N, M, x, u
<1>12. N = Append(M, x)
  BY <1>8, <1>9, <1>11, AppendSame
<1> QED BY <1>8, <1>12 DEF N, M, x, u

(* The digit loop of printi gives the numeral of its argument, whatever the *)
(* base, the case of the letters and the width of an unsigned long.         *)
THEOREM DigitsAreNumeral ==
  ASSUME NEW b \in Nat, b > 1, NEW letbase, NEW u \in 0 .. ULong - 1
  PROVE  digits(u, b, letbase) = Numeral(u, b, letbase)
<1> USE ConsoleAssumption
<1> DEFINE S == 0 .. ULong - 1
           good(f) == f = [v \in S |-> IF v < b THEN <<digit(v, letbase)>>
                                       ELSE Append(f[v \div b], digit(v % b, letbase))]
           f == CHOOSE f : good(f)
<1>1. ASSUME NEW v \in S, v >= b PROVE v \div b \in S /\ v \div b < v
  <2>1. v \in Nat /\ b \in Nat \ {0}
    OBVIOUS
  <2>2. v \div b \in Nat /\ v % b \in 0 .. b - 1 /\ v = b * (v \div b) + (v % b)
    BY <2>1, DivIs
  <2> DEFINE q == v \div b
  <2> HIDE DEF q
  <2>3. q \in Nat /\ b * q <= v
    BY <2>2 DEF q
  <2>4. q < v
    <3>1. q > 0 => b * q > q
      BY <2>3
    <3> QED BY <1>1, <2>1, <2>3, <3>1
  <2> QED BY <2>3, <2>4 DEF q
<1>2. good(f)
  <2> DEFINE g == [v \in S |-> Numeral(v, b, letbase)]
  <2>1. ASSUME NEW v \in S
        PROVE  Numeral(v, b, letbase)
                 = IF v < b THEN <<digit(v, letbase)>>
                   ELSE Append(g[v \div b], digit(v % b, letbase))
    <3>1. CASE v < b
      BY <3>1, NumeralSmall
    <3>2. CASE v >= b
      <4>1. g[v \div b] = Numeral(v \div b, b, letbase)
        BY <1>1, <3>2
      <4>2. v \in Nat /\ v >= b /\ ~(v < b)
        BY <3>2
      <4>3. Numeral(v, b, letbase) = Append(Numeral(v \div b, b, letbase), digit(v % b, letbase))
        BY <4>2, NumeralStep
      <4> HIDE DEF g
      <4> QED BY <4>1, <4>2, <4>3
    <3>3. v < b \/ v >= b
      OBVIOUS
    <3> QED BY <3>1, <3>2, <3>3
  <2>2. good(g)
    BY <2>1
  <2> HIDE DEF good, g
  <2> QED BY <2>2
<1>3. digits(u, b, letbase) = f[u]
  BY DEF digits
<1> HIDE DEF f
<1>4. \A v \in S : f[v] = Numeral(v, b, letbase)
  <2> DEFINE T == {v \in Nat : v \in S => f[v] = Numeral(v, b, letbase)}
  <2>1. ASSUME NEW v \in Nat, \A m \in Nat : m < v => m \in T PROVE v \in T
    <3> SUFFICES ASSUME v \in S PROVE f[v] = Numeral(v, b, letbase)
      OBVIOUS
    <3>1. f[v] = IF v < b THEN <<digit(v, letbase)>>
                 ELSE Append(f[v \div b], digit(v % b, letbase))
      BY <1>2
    <3>2. CASE v < b
      BY <3>1, <3>2, NumeralSmall
    <3>3. CASE v >= b
      <4>1. f[v \div b] = Numeral(v \div b, b, letbase)
        BY <1>1, <2>1, <3>3
      <4> QED BY <3>1, <3>3, <4>1, NumeralStep
    <3> QED BY <3>2, <3>3
  <2>2. Nat \subseteq T
    <3> HIDE DEF T
    <3> QED BY <2>1, AllNumbers
  <2> QED BY <2>2
<1> QED BY <1>3, <1>4

-----------------------------------------------------------------------------
(* A number, padded: printi writes what C writes, unless the case is one    *)
(* that Plain leaves out.                                                   *)

LEMMA TimesIs ==
  ASSUME NEW x, NEW n \in Nat
  PROVE  /\ IsSeq(Times(x, n)) /\ Len(Times(x, n)) = n
         /\ n = 0 => Times(x, n) = <<>>
<1> DEFINE t == Times(x, n)
<1>1. t = [k \in 1 .. n |-> t[k]]
  BY DEF Times
<1> HIDE DEF t
<1>2. IsSeq(t) /\ Len(t) = n
  BY <1>1, SeqMade
<1>3. n = 0 => t = <<>>
  BY <1>2, EmptyLen
<1> QED BY <1>2, <1>3 DEF t

PadFrom(width, s) == IF width > Len(s) THEN width - Len(s) ELSE 0

PadWith(flags) == IF "zero" \in flags THEN "0" ELSE " "

LEMMA PrintsIs ==
  ASSUME NEW s, NEW width, NEW flags
  PROVE  prints(s, width, flags)
           = IF "right" \in flags THEN s \o Times(PadWith(flags), PadFrom(width, s))
             ELSE Times(PadWith(flags), PadFrom(width, s)) \o s
BY DEF prints, Times, PadWith, PadFrom

LEMMA PrintsPads ==
  ASSUME NEW sign, NEW prefix, NEW body, IsSeq(sign), IsSeq(prefix), IsSeq(body),
         NEW width \in Nat, NEW flags, ~({"right", "zero"} \subseteq flags),
         "zero" \in flags => sign \o prefix = <<>> \/ width = 0
  PROVE  prints((sign \o prefix) \o body, width, flags) = Padded(sign, prefix, body, width, flags)
<1> DEFINE front == sign \o prefix
           all == front \o body
           free == PadFrom(width, all)
           zeros == Times("0", free)
<1>1. IsSeq(front) /\ IsSeq(all)
  BY ConcatIsSeq
<1>2. free \in Nat
  BY <1>1, SeqIs DEF PadFrom
<1>3. Padded(sign, prefix, body, width, flags)
        = IF "right" \in flags THEN all \o Times(" ", free)
          ELSE IF "zero" \in flags THEN (front \o zeros) \o body
          ELSE Times(" ", free) \o all
  BY DEF Padded, PadFrom
<1>4. prints(all, width, flags)
        = IF "right" \in flags THEN all \o Times(PadWith(flags), free)
          ELSE Times(PadWith(flags), free) \o all
  BY PrintsIs
<1>5. IsSeq(zeros)
  BY <1>2, TimesIs
<1>6. CASE "zero" \notin flags
  BY <1>3, <1>4, <1>6 DEF PadWith
<1>7. CASE "zero" \in flags
  <2>1. "right" \notin flags /\ prints(all, width, flags) = zeros \o all
    BY <1>4, <1>7 DEF PadWith
  <2>2. zeros \o all = (front \o zeros) \o body
    <3>1. CASE front = <<>>
      <4> HIDE DEF zeros, front
      <4>1. all = body /\ front \o zeros = zeros
        BY <1>5, <3>1, ConcatIsSeq
      <4> QED BY <4>1
    <3>2. CASE width = 0
      <4>1. free = 0
        BY <1>1, <3>2, SeqIs DEF PadFrom
      <4>2. zeros = <<>>
        BY <1>2, <4>1, TimesIs
      <4> HIDE DEF zeros, front
      <4>3. zeros \o all = all /\ front \o zeros = front
        BY <1>1, <4>2, ConcatIsSeq
      <4> QED BY <4>3
    <3> QED BY <1>7, <3>1, <3>2
  <2> QED BY <1>3, <1>7, <2>1, <2>2
<1> QED BY <1>6, <1>7

(* Zeros go behind the sign. *)
LEMMA SignBeforeZeros ==
  ASSUME NEW sign, NEW body, IsSeq(sign), Len(sign) = 1, IsSeq(body),
         NEW width \in Nat, width # 0, NEW flags, "right" \notin flags, "zero" \in flags
  PROVE  sign \o prints(body, width - 1, flags) = Padded(sign, <<>>, body, width, flags)
<1> DEFINE all == sign \o body
           free == PadFrom(width, all)
           zeros == Times("0", free)
<1>1. sign \o <<>> = sign /\ IsSeq(all) /\ Len(all) = Len(body) + 1 /\ Len(body) \in Nat
  <2>1. Len(all) = Len(sign) + Len(body)
    BY ConcatAt
  <2> QED BY <2>1, ConcatIsSeq, SeqIs
<1>2. free \in Nat /\ PadFrom(width - 1, body) = free
  BY <1>1 DEF PadFrom
<1>3. prints(body, width - 1, flags) = zeros \o body
  BY <1>2, PrintsIs DEF PadWith
<1>4. Padded(sign, <<>>, body, width, flags) = (sign \o zeros) \o body
  BY <1>1 DEF Padded, PadFrom
<1>5. IsSeq(zeros)
  BY <1>2, TimesIs
<1> HIDE DEF zeros
<1>6. (sign \o zeros) \o body = sign \o (zeros \o body)
  BY <1>5, ConcatAssoc
<1> QED BY <1>3, <1>4, <1>6

(* The letters for the digits matter only above nine. *)
LEMMA NumeralCase ==
  ASSUME NEW v, NEW b
  PROVE  Numeral(v, b, "0") = Numeral(v, b, "a")
<1>1. \A t : digit(t, "0") = digit(t, "a")
  BY DEF digit
<1> QED BY <1>1 DEF Numeral

LEMMA NumeralIsSeq ==
  ASSUME NEW b \in Nat, b > 1, NEW v \in Nat, NEW letbase
  PROVE  IsSeq(Numeral(v, b, letbase))
<1>1. PICK P : Powers(P, b)
  BY PowersExist
<1>2. PICK l : IsLen(l, v, P)
  BY <1>1, LenExists
<1> DEFINE N == Numeral(v, b, letbase)
<1>3. N = Figures(v, b, letbase, l, P)
  BY <1>1, <1>2, NumeralIs
<1>4. l \in Nat
  BY <1>2 DEF IsLen
<1> HIDE DEF N
<1>5. N = [k \in 1 .. l |-> N[k]]
  BY <1>3 DEF Figures
<1>6. IsSeq(N)
  BY <1>4, <1>5, SeqMade
<1> QED BY <1>6 DEF N

LEMMA PairIsSeq ==
  ASSUME NEW x, NEW y
  PROVE  IsSeq(<<x, y>>)
<1>1. <<x, y>> \in Seq({x, y})
  OBVIOUS
<1> QED BY <1>1 DEF IsSeq

(* The sign of printi is that of a long long. *)
LEMMA PrintiUnsigned ==
  ASSUME NEW v \in 0 .. ULong - 1, NEW b \in {10, 16}, NEW sg \in BOOLEAN,
         sg => v < ULong \div 2,
         NEW width \in Nat, NEW flags, ~({"right", "zero"} \subseteq flags),
         "alternate" \in flags => b = 16 /\ "zero" \notin flags, NEW letbase, NEW prefix,
         prefix = IF "alternate" \in flags
                  THEN <<"0", IF letbase = "A" THEN "X" ELSE "x">> ELSE <<>>
  PROVE  printi(v, b, sg, width, flags, letbase)
           = Padded(<<>>, prefix, Numeral(v, b, letbase), width, flags)
<1> DEFINE body == Numeral(v, b, letbase)
           none == <<>>
<1>1. b \in Nat /\ b > 1 /\ v \in Nat /\ ULong \in Nat /\ ULong \div 2 \in Nat
  BY ConsoleAssumption
<1>2. digits(v, b, letbase) = body /\ IsSeq(body)
  BY <1>1, DigitsAreNumeral, NumeralIsSeq
<1>3. IsSeq(prefix) /\ IsSeq(none) /\ none \o prefix = prefix
  <2>1. IsSeq(prefix)
    BY PairIsSeq, EmptyIsSeq
  <2> QED BY <2>1, EmptyIsSeq, ConcatIsSeq
<1>4. printi(v, b, sg, width, flags, letbase) = prints(prefix \o body, width, flags)
  <2>1. ~(sg /\ b = 10 /\ v >= ULong \div 2)
    BY <1>1
  <2> QED BY <1>2, <2>1 DEF printi
<1>5. "zero" \in flags => none \o prefix = <<>>
  BY <1>3
<1> HIDE DEF body, none
<1>6. prints((none \o prefix) \o body, width, flags) = Padded(none, prefix, body, width, flags)
  BY <1>2, <1>3, <1>5, PrintsPads
<1> QED BY <1>3, <1>4, <1>6 DEF none, body

LEMMA PrintiNegative ==
  ASSUME NEW v \in 0 .. ULong - 1, v >= ULong \div 2,
         NEW width \in Nat, NEW flags, ~({"right", "zero"} \subseteq flags),
         "alternate" \notin flags
  PROVE  printi(v, 10, TRUE, width, flags, "0")
           = Padded(<<"-">>, <<>>, Numeral(ULong - v, 10, "0"), width, flags)
<1> DEFINE w == ULong - v
           body == Numeral(w, 10, "0")
           none == <<>>
           sign == <<"-">>
<1>1. w \in Nat /\ w \in 0 .. ULong - 1 /\ v \in Nat
  <2>1. ULong \in Nat /\ ULong >= 2
    <3>1. UInt \in Nat /\ UInt % 2 = 0 /\ UInt > 0 /\ ULong \in Nat /\ UInt <= ULong
      BY ConsoleAssumption
    <3>2. UInt # 1
      BY <3>1
    <3> QED BY <3>1, <3>2
  <2>2. v \in Nat /\ v < ULong /\ v > 0
    BY <2>1
  <2> QED BY <2>1, <2>2
<1>2. digits(w, 10, "0") = body /\ IsSeq(body)
  <2> HIDE DEF w
  <2> QED BY <1>1, DigitsAreNumeral, NumeralIsSeq
<1>3. IsSeq(sign) /\ IsSeq(none) /\ none \o body = body /\ Len(sign) = 1 /\ sign \o none = sign
  <2>1. IsSeq(sign) /\ Len(sign) = 1
    BY SingleAt
  <2> HIDE DEF body, sign
  <2> QED BY <1>2, <2>1, EmptyIsSeq, ConcatIsSeq
<1>4. printi(v, 10, TRUE, width, flags, "0")
        = IF width # 0 /\ "zero" \in flags THEN sign \o prints(none \o body, width - 1, flags)
          ELSE prints(sign \o (none \o body), width, flags)
  <2>1. digits(ULong - v, 10, "0") = body
    BY <1>2
  <2> HIDE DEF body, w
  <2> QED BY <2>1 DEF printi
<1> HIDE DEF w, body, none, sign
<1>5. CASE width # 0 /\ "zero" \in flags
  <2>1. "right" \notin flags
    BY <1>5
  <2>2. sign \o prints(body, width - 1, flags) = Padded(sign, <<>>, body, width, flags)
    BY <1>2, <1>3, <1>5, <2>1, SignBeforeZeros
  <2> QED BY <1>3, <1>4, <1>5, <2>2 DEF w, body, sign
<1>6. CASE ~(width # 0 /\ "zero" \in flags)
  <2>1. "zero" \in flags => sign \o none = <<>> \/ width = 0
    BY <1>6
  <2>2. IsSeq(sign) /\ IsSeq(none) /\ IsSeq(body)
    BY <1>2, <1>3
  <2>3. prints((sign \o none) \o body, width, flags) = Padded(sign, none, body, width, flags)
    BY <2>1, <2>2, PrintsPads
  <2> QED BY <1>3, <1>4, <1>6, <2>3 DEF w, body, none, sign
<1> QED BY <1>5, <1>6

-----------------------------------------------------------------------------
(* What a directive writes is what C writes for its item. *)

ItemTyped(i) ==
  /\ i.conv \in Convs /\ i.width \in Nat
  /\ i.flags \subseteq {"right", "alternate", "zero"}
  /\ i.conv = <<"s">> => i.val \in Seq(STRING)
  /\ i.conv \notin {<<"s">>, <<"c">>} => i.val \in Nat

PlainItem(i) ==
  /\ ~(Head(i.conv) = "l" /\ Last(i.conv) \in {"d", "i"})
  /\ ~({"right", "zero"} \subseteq i.flags)
  /\ "alternate" \in i.flags => Hex(i) /\ Value(i) # 0 /\ "zero" \notin i.flags

UnsignedConvs ==
  {<<"u">>, <<"x">>, <<"X">>, <<"p">>, <<"P">>,
   <<"l", "u">>, <<"l", "x">>, <<"l", "X">>, <<"l", "l", "u">>, <<"l", "l", "x">>, <<"l", "l", "X">>}

LEMMA Letters ==
  ASSUME NEW k
  PROVE  /\ Len(<<k>>) = 1 /\ Head(<<k>>) = k /\ Last(<<k>>) = k
         /\ Len(<<"l", k>>) = 2 /\ Head(<<"l", k>>) = "l" /\ Last(<<"l", k>>) = k
         /\ Len(<<"l", "l", k>>) = 3 /\ Head(<<"l", "l", k>>) = "l" /\ Last(<<"l", "l", k>>) = k
BY DEF Last

LEMMA PlainConvs ==
  ASSUME NEW i, i.conv \in Convs, ~(Head(i.conv) = "l" /\ Last(i.conv) \in {"d", "i"})
  PROVE  \/ i.conv \in {<<"s">>, <<"c">>, <<"d">>, <<"i">>}
         \/ i.conv \in UnsignedConvs
<1>1. CASE i.conv \in {<<"l", k>> : k \in {"d", "i", "u", "x", "X"}}
  <2>1. PICK k \in {"d", "i", "u", "x", "X"} : i.conv = <<"l", k>>
    BY <1>1
  <2>2. Head(<<"l", k>>) = "l" /\ Last(<<"l", k>>) = k
    BY DEF Last
  <2> QED BY <2>1, <2>2 DEF UnsignedConvs
<1>2. CASE i.conv \in {<<"l", "l", k>> : k \in {"d", "i", "u", "x", "X"}}
  <2>1. PICK k \in {"d", "i", "u", "x", "X"} : i.conv = <<"l", "l", k>>
    BY <1>2
  <2>2. Head(<<"l", "l", k>>) = "l" /\ Last(<<"l", "l", k>>) = k
    BY DEF Last
  <2> QED BY <2>1, <2>2 DEF UnsignedConvs
<1> QED BY <1>1, <1>2 DEF Convs, UnsignedConvs

(* The last letter of a conversion, and what it says. *)
LEMMA UnsignedLast ==
  ASSUME NEW i, i.conv \in UnsignedConvs
  PROVE  /\ Last(i.conv) \in {"u", "x", "X", "p", "P"} /\ i.conv \notin {<<>>, <<"s">>, <<"c">>}
         /\ Hex(i) <=> Last(i.conv) # "u"
         /\ IsInt(i) <=> i.conv \in {<<"u">>, <<"x">>, <<"X">>}
<1>1. Last(i.conv) \in {"u", "x", "X", "p", "P"}
  <2>1. PICK k \in {"u", "x", "X", "p", "P"} : i.conv \in {<<k>>, <<"l", k>>, <<"l", "l", k>>}
    BY DEF UnsignedConvs
  <2> QED BY <2>1, Letters
<1>2. i.conv \notin {<<>>, <<"s">>, <<"c">>, <<"d">>, <<"i">>}
  BY DEF UnsignedConvs
<1> QED BY <1>1, <1>2 DEF Hex, IsInt

LEMMA UnsignedIsStandard ==
  ASSUME NEW i, ItemTyped(i), PlainItem(i), i.conv \in UnsignedConvs
  PROVE  printi(i.val % (IF IsInt(i) THEN UInt ELSE ULong), IF Hex(i) THEN 16 ELSE 10,
                FALSE, i.width, i.flags, IF Upper(i) THEN "A" ELSE "a") = Standard(i)
<1> DEFINE top == IF IsInt(i) THEN UInt ELSE ULong
           v == i.val % top
           b == IF Hex(i) THEN 16 ELSE 10
           letbase == IF Upper(i) THEN "A" ELSE "a"
<1>1. Last(i.conv) \notin {"d", "i"} /\ i.conv \notin {<<>>, <<"s">>, <<"c">>}
  BY UnsignedLast
<1>2. i.val \in Nat /\ top \in Nat /\ top > 0 /\ top <= ULong
  BY <1>1, ConsoleAssumption DEF ItemTyped
<1>3. v \in 0 .. top - 1
  <2> HIDE DEF top
  <2> QED BY <1>2
<1>4. v \in Nat /\ v \in 0 .. ULong - 1 /\ ~(v < 0) /\ b \in {10, 16}
  <2>1. ULong \in Nat
    BY ConsoleAssumption
  <2> HIDE DEF v, top
  <2>2. v \in Nat /\ v \in 0 .. ULong - 1 /\ ~(v < 0)
    BY <1>2, <1>3, <2>1
  <2> QED BY <2>2
<1>5. Value(i) = v
  BY <1>1 DEF Value
<1>6. Standard(i) = Padded(<<>>, Prefix(i), Numeral(v, b, letbase), i.width, i.flags)
  <2> HIDE DEF v
  <2> QED BY <1>1, <1>4, <1>5 DEF Standard
<1>7. Prefix(i) = IF "alternate" \in i.flags
                  THEN <<"0", IF letbase = "A" THEN "X" ELSE "x">> ELSE <<>>
  BY DEF Prefix
<1>8. "alternate" \in i.flags => b = 16 /\ "zero" \notin i.flags
  BY DEF PlainItem
<1>9. i.width \in Nat /\ ~({"right", "zero"} \subseteq i.flags)
  BY DEF PlainItem, ItemTyped
<1> HIDE DEF v, b, letbase
<1> DEFINE sg == FALSE
           prefix == Prefix(i)
<1>10. sg \in BOOLEAN /\ (sg => v < ULong \div 2)
  OBVIOUS
<1> HIDE DEF sg, prefix
<1>11. prefix = IF "alternate" \in i.flags
                THEN <<"0", IF letbase = "A" THEN "X" ELSE "x">> ELSE <<>>
  BY <1>7 DEF prefix
<1>12. printi(v, b, sg, i.width, i.flags, letbase)
         = Padded(<<>>, prefix, Numeral(v, b, letbase), i.width, i.flags)
  BY <1>4, <1>8, <1>9, <1>10, <1>11, PrintiUnsigned
<1> QED BY <1>6, <1>12 DEF v, b, letbase, sg, prefix

(* An int is made a long long by copying its sign. *)
LEMMA SignedIsStandard ==
  ASSUME NEW i, ItemTyped(i), PlainItem(i), i.conv \in {<<"d">>, <<"i">>},
         NEW u, u = i.val % UInt,
         NEW v, v = IF u >= UInt \div 2 THEN ULong - UInt + u ELSE u
  PROVE  printi(v, 10, TRUE, i.width, i.flags, "0") = Standard(i)
<1>1. Last(i.conv) \in {"d", "i"} /\ i.conv \notin {<<>>, <<"s">>, <<"c">>} /\ IsInt(i)
  <2>1. PICK k \in {"d", "i"} : i.conv = <<k>>
    OBVIOUS
  <2>2. Last(i.conv) \in {"d", "i"}
    BY <2>1, Letters
  <2> QED BY <2>2 DEF IsInt
<1>2. ~Hex(i) /\ ~Upper(i)
  BY <1>1 DEF Hex, Upper
<1>3. "alternate" \notin i.flags /\ ~({"right", "zero"} \subseteq i.flags) /\ i.width \in Nat
  BY <1>2 DEF PlainItem, ItemTyped
<1>4. i.val \in Nat /\ UInt \in Nat /\ UInt > 0 /\ UInt % 2 = 0 /\ ULong \in Nat /\ UInt <= ULong
  BY <1>1, ConsoleAssumption DEF ItemTyped
<1>5. u \in 0 .. UInt - 1
  BY <1>4
<1>6. Value(i) = IF u >= UInt \div 2 THEN u - UInt ELSE u
  BY <1>1 DEF Value
<1>7. Prefix(i) = <<>>
  BY <1>3 DEF Prefix
<1>8. CASE u >= UInt \div 2
  <2>1. v \in 0 .. ULong - 1 /\ v >= ULong \div 2 /\ ULong - v = UInt - u
    <3> DEFINE h == UInt \div 2
               g == ULong \div 2
    <3>1. h \in Nat /\ UInt = 2 * h /\ g \in Nat /\ 2 * g <= ULong /\ u >= h
      BY <1>4, <1>8
    <3> HIDE DEF h, g
    <3>2. v = (ULong - UInt) + u
      BY <1>8
    <3>3. v \in 0 .. ULong - 1 /\ v >= g /\ ULong - v = UInt - u
      BY <1>4, <1>5, <3>1, <3>2
    <3> QED BY <3>3 DEF g
  <2>2. Value(i) < 0 /\ -Value(i) = UInt - u
    BY <1>4, <1>5, <1>6, <1>8
  <2>3. Standard(i) = Padded(<<"-">>, <<>>, Numeral(UInt - u, 10, "a"), i.width, i.flags)
    BY <1>1, <1>2, <1>7, <2>2 DEF Standard
  <2>4. printi(v, 10, TRUE, i.width, i.flags, "0")
          = Padded(<<"-">>, <<>>, Numeral(ULong - v, 10, "0"), i.width, i.flags)
    BY <1>3, <2>1, PrintiNegative
  <2> QED BY <2>1, <2>3, <2>4, NumeralCase
<1>9. CASE ~(u >= UInt \div 2)
  <2>1. v = u /\ v \in 0 .. ULong - 1 /\ v < ULong \div 2
    BY <1>4, <1>5, <1>9
  <2>2. Value(i) = v /\ ~(Value(i) < 0)
    BY <1>5, <1>6, <1>9, <2>1
  <2>3. Standard(i) = Padded(<<>>, <<>>, Numeral(v, 10, "a"), i.width, i.flags)
    BY <1>1, <1>2, <1>7, <2>2 DEF Standard
  <2>4. printi(v, 10, TRUE, i.width, i.flags, "0")
          = Padded(<<>>, <<>>, Numeral(v, 10, "0"), i.width, i.flags)
    <3> DEFINE b == 10
               none == <<>>
               sg == TRUE
    <3>1. /\ b \in {10, 16} /\ sg \in BOOLEAN
          /\ none = IF "alternate" \in i.flags
                    THEN <<"0", IF "0" = "A" THEN "X" ELSE "x">> ELSE <<>>
      BY <1>3
    <3> HIDE DEF b, none, sg
    <3>2. printi(v, b, sg, i.width, i.flags, "0")
            = Padded(<<>>, none, Numeral(v, b, "0"), i.width, i.flags)
      BY <1>3, <2>1, <3>1, PrintiUnsigned
    <3> QED BY <3>2 DEF b, none, sg
  <2> QED BY <2>3, <2>4, NumeralCase
<1> QED BY <1>8, <1>9

(* A string or a character. *)
LEMMA StringIsStandard ==
  ASSUME NEW i, ItemTyped(i), PlainItem(i), i.conv \in {<<"s">>, <<"c">>}, NEW string, IsSeq(string),
         string = IF i.conv = <<"c">> THEN <<i.val>>
                  ELSE IF i.val = NULL THEN <<"(","n","u","l","l",")">> ELSE i.val
  PROVE  prints(string, i.width, i.flags) = Standard(i)
<1>1. Last(i.conv) \in {"s", "c"}
  BY Letters
<1>2. "alternate" \notin i.flags /\ ~({"right", "zero"} \subseteq i.flags) /\ i.width \in Nat
  BY <1>1 DEF PlainItem, ItemTyped, Hex
<1> DEFINE none == <<>>
<1>3. Prefix(i) = none
  BY <1>2 DEF Prefix
<1>4. IsSeq(none) /\ none \o none = none /\ none \o string = string
  BY EmptyIsSeq, ConcatIsSeq
<1>5. Standard(i) = Padded(none, none, string, i.width, i.flags)
  BY <1>3 DEF Standard
<1>6. "zero" \in i.flags => none \o none = <<>> \/ i.width = 0
  BY <1>4
<1> HIDE DEF none
<1>7. prints((none \o none) \o string, i.width, i.flags) = Padded(none, none, string, i.width, i.flags)
  <2>1. IsSeq(none)
    BY <1>4
  <2> QED BY <1>2, <1>6, <2>1, PrintsPads
<1> QED BY <1>4, <1>5, <1>7

LEMMA DirectiveIs ==
  ASSUME NEW s, NEW i, ItemTyped(i), PlainItem(i), s.flags = i.flags, s.width = i.width,
         s.conv \in Nat, At(s.conv) = i.conv[1],
         Len(i.conv) > 1 => At(s.conv + 1) = i.conv[2],
         Len(i.conv) > 2 => At(s.conv + 2) = i.conv[3],
         arg \in Nat, Slot(arg) = i.val, IsLongLong(i) => acnt % 8 = 0
  PROVE  \E bytes \in {0, 4, 8} :
           /\ bytes = 4 <=> IsInt(i)
           /\ Directive(s) = Effect(Standard(i), s.conv + Len(i.conv), 1, bytes)
<1> DEFINE Done(bytes) == Directive(s) = Effect(Standard(i), s.conv + Len(i.conv), 1, bytes)
<1>1. CASE i.conv = <<"s">>
  <2> DEFINE string == IF Slot(arg) = NULL THEN <<"(","n","u","l","l",")">> ELSE Slot(arg)
  <2>1. Len(i.conv) = 1 /\ At(s.conv) = "s"
    BY <1>1
  <2>2. IsSeq(string)
    <3>1. <<"(","n","u","l","l",")">> \in Seq({"(", "n", "u", "l", ")"})
      OBVIOUS
    <3> QED BY <1>1, <3>1 DEF ItemTyped, IsSeq
  <2>3. Directive(s) = Effect(prints(string, i.width, i.flags), s.conv + 1, 1, 8)
    BY <2>1 DEF Directive
  <2>4. string = IF i.conv = <<"c">> THEN <<i.val>>
                 ELSE IF i.val = NULL THEN <<"(","n","u","l","l",")">> ELSE i.val
    BY <1>1
  <2> HIDE DEF string
  <2>5. prints(string, i.width, i.flags) = Standard(i)
    BY <1>1, <2>2, <2>4, StringIsStandard
  <2>6. Done(8) /\ ~IsInt(i)
    BY <1>1, <2>1, <2>3, <2>5 DEF IsInt
  <2> QED BY <2>6
<1>2. CASE i.conv = <<"c">>
  <2> DEFINE string == <<i.val>>
  <2>1. Len(i.conv) = 1 /\ At(s.conv) = "c"
    BY <1>2
  <2>2. IsSeq(string)
    BY SingleIsSeq
  <2>3. Directive(s) = Effect(prints(string, i.width, i.flags), s.conv + 1, 1, 4)
    BY <2>1 DEF Directive
  <2>4. string = IF i.conv = <<"c">> THEN <<i.val>>
                 ELSE IF i.val = NULL THEN <<"(","n","u","l","l",")">> ELSE i.val
    BY <1>2
  <2> HIDE DEF string
  <2>5. prints(string, i.width, i.flags) = Standard(i)
    BY <1>2, <2>2, <2>4, StringIsStandard
  <2>6. Done(4) /\ IsInt(i)
    BY <1>2, <2>1, <2>3, <2>5 DEF IsInt
  <2> QED BY <2>6
<1>3. CASE i.conv \in {<<"d">>, <<"i">>}
  <2>1. Len(i.conv) = 1 /\ At(s.conv) \in {"d", "i"} /\ IsInt(i)
    BY <1>3 DEF IsInt
  <2>2. Directive(s) = Effect(printi(va_int(arg), 10, TRUE, i.width, i.flags, "0"), s.conv + 1, 1, 4)
    BY <2>1 DEF Directive
  <2>3. printi(va_int(arg), 10, TRUE, i.width, i.flags, "0") = Standard(i)
    BY <1>3, SignedIsStandard DEF va_int, va_uint
  <2>4. Done(4)
    BY <2>1, <2>2, <2>3
  <2> QED BY <2>1, <2>4
<1>4. CASE i.conv \in UnsignedConvs
  <2> DEFINE v == i.val % (IF IsInt(i) THEN UInt ELSE ULong)
             text0 == printi(v, IF Hex(i) THEN 16 ELSE 10, FALSE, i.width, i.flags,
                             IF Upper(i) THEN "A" ELSE "a")
  <2>1. text0 = Standard(i)
    BY <1>4, UnsignedIsStandard
  <2>2. va_uint(arg) = i.val % UInt /\ va_long(arg) = i.val % ULong
    BY DEF va_uint, va_long
  <2>3. CASE i.conv \in {<<"u">>, <<"x">>, <<"X">>, <<"p">>, <<"P">>}
    <3>1. PICK k \in {"u", "x", "X", "p", "P"} : i.conv = <<k>>
      BY <2>3
    <3>2. Len(i.conv) = 1 /\ At(s.conv) = k /\ Last(i.conv) = k
      <4>1. Len(i.conv) = 1 /\ i.conv[1] = k
        BY <3>1
      <4>2. Last(<<k>>) = k
        BY Letters
      <4>3. Last(i.conv) = k
        BY <3>1, <4>2
      <4> QED BY <4>1, <4>3
    <3>3. (Hex(i) <=> k # "u") /\ (Upper(i) <=> k \in {"X", "P"}) /\ (IsInt(i) <=> k \in {"u", "x", "X"})
      BY <1>4, <3>1, <3>2, UnsignedLast DEF Upper
    <3>4. Directive(s) = Effect(text0, s.conv + 1, 1, IF IsInt(i) THEN 4 ELSE 8)
      <4>1. CASE k = "u"
        BY <2>2, <3>2, <3>3, <4>1 DEF Directive
      <4>2. CASE k = "x"
        BY <2>2, <3>2, <3>3, <4>2 DEF Directive
      <4>3. CASE k = "X"
        BY <2>2, <3>2, <3>3, <4>3 DEF Directive
      <4>4. CASE k = "p"
        BY <2>2, <3>2, <3>3, <4>4 DEF Directive
      <4>5. CASE k = "P"
        BY <2>2, <3>2, <3>3, <4>5 DEF Directive
      <4> QED BY <4>1, <4>2, <4>3, <4>4, <4>5
    <3> HIDE DEF text0
    <3>5. Done(IF IsInt(i) THEN 4 ELSE 8)
      BY <2>1, <3>2, <3>4
    <3> QED BY <3>5
  <2>4. CASE i.conv \in {<<"l", "u">>, <<"l", "x">>, <<"l", "X">>}
    <3>1. PICK k \in {"u", "x", "X"} : i.conv = <<"l", k>>
      BY <2>4
    <3>2. Len(i.conv) = 2 /\ At(s.conv) = "l" /\ At(s.conv + 1) = k /\ Last(i.conv) = k
      <4>1. Len(i.conv) = 2 /\ i.conv[1] = "l" /\ i.conv[2] = k
        BY <3>1
      <4>2. Last(<<"l", k>>) = k
        BY Letters
      <4>3. Last(i.conv) = k
        BY <3>1, <4>2
      <4> QED BY <4>1, <4>3
    <3>3. (Hex(i) <=> k # "u") /\ (Upper(i) <=> k = "X") /\ ~IsInt(i)
      BY <1>4, <3>1, <3>2, UnsignedLast DEF Upper
    <3>4. Directive(s) = Effect(text0, s.conv + 2, 1, IF k = "u" THEN 0 ELSE 8)
      <4>1. Directive(s) = Long(s)
        BY <3>2 DEF Directive
      <4>2. CASE k = "u"
        BY <2>2, <3>2, <3>3, <4>1, <4>2 DEF Long
      <4>3. CASE k = "x"
        BY <2>2, <3>2, <3>3, <4>1, <4>3 DEF Long
      <4>4. CASE k = "X"
        BY <2>2, <3>2, <3>3, <4>1, <4>4 DEF Long
      <4> QED BY <4>2, <4>3, <4>4
    <3> HIDE DEF text0
    <3>5. Done(IF k = "u" THEN 0 ELSE 8)
      BY <2>1, <3>2, <3>4
    <3> QED BY <3>3, <3>5
  <2>5. CASE i.conv \in {<<"l", "l", "u">>, <<"l", "l", "x">>, <<"l", "l", "X">>}
    <3>1. PICK k \in {"u", "x", "X"} : i.conv = <<"l", "l", k>>
      BY <2>5
    <3>2. /\ Len(i.conv) = 3 /\ At(s.conv) = "l" /\ At(s.conv + 1) = "l" /\ At(s.conv + 2) = k
          /\ Last(i.conv) = k
      <4>1. Len(i.conv) = 3 /\ i.conv[1] = "l" /\ i.conv[2] = "l" /\ i.conv[3] = k
        BY <3>1
      <4>2. Last(<<"l", "l", k>>) = k
        BY Letters
      <4>3. Last(i.conv) = k
        BY <3>1, <4>2
      <4> QED BY <4>1, <4>3
    <3>3. (Hex(i) <=> k # "u") /\ (Upper(i) <=> k = "X") /\ ~IsInt(i)
      BY <1>4, <3>1, <3>2, UnsignedLast DEF Upper
    <3>4. acnt % 8 = 0 /\ arg + 0 = arg
      BY <3>2 DEF IsLongLong
    <3>5. Directive(s) = Effect(text0, s.conv + 3, 1, 8)
      <4>1. Directive(s) = LongLong(s)
        BY <3>2 DEF Directive
      <4> DEFINE skip == IF acnt % 8 = 0 THEN 0 ELSE (8 - (acnt % 8)) \div 4
                 w == va_long(arg + skip)
                 c == At(s.conv + 2)
                 n == skip + 1
                 bytes == 4 * skip + 8
      <4>2. LongLong(s) =
              CASE c = "u" -> Effect(printi(w, 10, FALSE, s.width, s.flags, "a"), s.conv + 3, n, bytes)
                [] c = "x" -> Effect(printi(w, 16, FALSE, s.width, s.flags, "a"), s.conv + 3, n, bytes)
                [] c = "X" -> Effect(printi(w, 16, FALSE, s.width, s.flags, "A"), s.conv + 3, n, bytes)
                [] OTHER   -> Effect(printi(w, 10, TRUE, s.width, s.flags, "0"), s.conv + 2, n, bytes)
        BY DEF LongLong
      <4>3. skip = 0
        BY <3>4
      <4> HIDE DEF skip
      <4>4. n = 1 /\ bytes = 8 /\ w = v
        BY <2>2, <3>3, <3>4, <4>3
      <4> HIDE DEF w, n, bytes, v
      <4>5. CASE k = "u"
        BY <3>2, <3>3, <4>1, <4>2, <4>4, <4>5
      <4>6. CASE k = "x"
        BY <3>2, <3>3, <4>1, <4>2, <4>4, <4>6
      <4>7. CASE k = "X"
        BY <3>2, <3>3, <4>1, <4>2, <4>4, <4>7
      <4> QED BY <4>5, <4>6, <4>7
    <3> HIDE DEF text0
    <3>6. Done(8)
      BY <2>1, <3>2, <3>5
    <3> QED BY <3>3, <3>6
  <2> QED BY <1>4, <2>3, <2>4, <2>5 DEF UnsignedConvs
<1> QED BY <1>1, <1>2, <1>3, <1>4, PlainConvs DEF ItemTyped, PlainItem

-----------------------------------------------------------------------------
(* The parser of a directive finds the item that is spelled there. *)

ConvLetters == {"s", "c", "d", "i", "u", "x", "X", "p", "P", "l"}

LEMMA ConvParts ==
  ASSUME NEW w \in Convs
  PROVE  Len(w) \in 1 .. 3 /\ w[1] \in ConvLetters /\ w # <<>>
<1>1. CASE w \in {<<"l", k>> : k \in {"d", "i", "u", "x", "X"}}
  BY <1>1 DEF ConvLetters
<1>2. CASE w \in {<<"l", "l", k>> : k \in {"d", "i", "u", "x", "X"}}
  BY <1>2 DEF ConvLetters
<1>3. CASE w \in {<<"s">>, <<"c">>, <<"d">>, <<"i">>, <<"u">>, <<"x">>, <<"X">>, <<"p">>, <<"P">>}
  <2>1. PICK k \in ConvLetters : w = <<k>>
    BY <1>3 DEF ConvLetters
  <2>2. Len(<<k>>) = 1 /\ <<k>>[1] = k
    OBVIOUS
  <2>3. Len(w) = 1 /\ w[1] = k
    BY <2>1, <2>2
  <2> QED BY <2>1, <2>3
<1> QED BY <1>1, <1>2, <1>3 DEF Convs

LEMMA ConvFirsts == {k[1] : k \in Convs} = ConvLetters
<1>1. \A k \in Convs : k[1] \in ConvLetters
  BY ConvParts
<1>2. \A x \in ConvLetters : \E k \in Convs : k[1] = x
  <2> TAKE x \in ConvLetters
  <2>1. CASE x = "l"
    <3>1. <<"l", "d">> \in Convs /\ <<"l", "d">>[1] = "l"
      BY DEF Convs
    <3> QED BY <2>1, <3>1
  <2>2. CASE x # "l"
    <3>1. <<x>> \in Convs /\ <<x>>[1] = x
      BY <2>2 DEF Convs, ConvLetters
    <3> QED BY <3>1
  <2> QED BY <2>1, <2>2
<1> QED BY <1>1, <1>2

LEMMA AfterIs ==
  ASSUME NEW n \in Nat, NEW m \in Nat, NEW cs, Len(Call.format) \in Nat,
         n <= m, m <= Len(Call.format) + 1,
         At(m) \notin cs, \A k \in n .. m - 1 : At(k) \in cs
  PROVE  After(n, cs) = m
<1> DEFINE N == Len(Call.format)
           good(l) == At(l) \notin cs /\ \A k \in n .. l - 1 : At(k) \in cs
           a == CHOOSE l \in n .. N + 1 : good(l)
<1>1. m \in n .. N + 1 /\ good(m)
  OBVIOUS
<1> HIDE DEF N
<1>2. a \in n .. N + 1 /\ good(a)
  <2> HIDE DEF good
  <2> QED BY <1>1
<1> HIDE DEF a
<1>3. ~(a < m)
  <2> SUFFICES ASSUME a < m PROVE FALSE
    OBVIOUS
  <2>1. a \in n .. m - 1
    BY <1>2
  <2> QED BY <1>2, <2>1
<1>4. ~(m < a)
  <2> SUFFICES ASSUME m < a PROVE FALSE
    OBVIOUS
  <2>1. m \in n .. a - 1
    BY <1>2
  <2> QED BY <1>2, <2>1
<1>5. a = m
  BY <1>2, <1>3, <1>4
<1> QED BY <1>5 DEF After, a, N

LEMMA ParsedIs ==
  ASSUME NEW i, ItemTyped(i), NEW p \in Nat, NEW q \in Nat, p >= 1,
         Len(Call.format) \in Nat, q <= Len(Call.format) + 1, Spells(Call.format, i, p, q)
  PROVE  /\ At(p) = "%" /\ At(p + 1) \notin {"%", NUL}
         /\ \E conv \in Nat :
              /\ q = conv + Len(i.conv)
              /\ Parsed(p) = [flags |-> i.flags, width |-> i.width, conv |-> conv]
              /\ At(conv) = i.conv[1]
              /\ Len(i.conv) > 1 => At(conv + 1) = i.conv[2]
              /\ Len(i.conv) > 2 => At(conv + 2) = i.conv[3]
<1> DEFINE f == Call.format
           N == Len(f)
           L == Len(i.conv)
           left == IF "right" \in i.flags THEN p + 2 ELSE p + 1
           alt == IF "alternate" \in i.flags THEN left + 1 ELSE left
<1>1. L \in 1 .. 3 /\ i.conv[1] \in ConvLetters
  BY ConvParts DEF ItemTyped
<1>2. /\ f[p] = "%"
      /\ "right" \in i.flags => f[p + 1] = "-"
      /\ "alternate" \in i.flags => f[left] = "#"
  BY DEF Spells
<1>3. PICK zeros \in alt .. q, conv \in alt .. q :
        /\ zeros <= conv
        /\ ("zero" \in i.flags) <=> (zeros # alt)
        /\ \A k \in alt .. zeros - 1 : f[k] = "0"
        /\ \A k \in zeros .. conv - 1 : f[k] \in Digits
        /\ zeros # conv => f[zeros] # "0"
        /\ i.width = Number(SubSeq(f, zeros, conv - 1))
        /\ q = conv + L
        /\ \A k \in 1 .. L : f[conv + (k - 1)] = i.conv[k]
  BY DEF Spells
<1>4. left \in Nat /\ alt \in Nat /\ zeros \in Nat /\ conv \in Nat /\ p < left /\ left <= alt /\ alt <= zeros
  OBVIOUS
<1>5. conv <= N
  BY <1>1, <1>3, <1>4
<1>6. \A k \in 1 .. N : At(k) = f[k]
  BY DEF At
<1>7. /\ At(conv) = i.conv[1]
      /\ L > 1 => At(conv + 1) = i.conv[2]
      /\ L > 2 => At(conv + 2) = i.conv[3]
  <2>1. \A k \in 1 .. L : At(conv + (k - 1)) = i.conv[k]
    <3> TAKE k \in 1 .. L
    <3>1. conv + (k - 1) \in 1 .. N
      BY <1>1, <1>3, <1>4
    <3> QED BY <1>3, <1>6, <3>1
  <2> DEFINE A(k) == At(conv + (k - 1)) = i.conv[k]
  <2>2. A(1) /\ (L > 1 => A(2)) /\ (L > 2 => A(3))
    BY <1>1, <2>1
  <2>3. conv + (1 - 1) = conv /\ conv + (2 - 1) = conv + 1 /\ conv + (3 - 1) = conv + 2
    BY <1>4
  <2> QED BY <2>2, <2>3
<1> HIDE DEF L
<1>8. At(conv) \in ConvLetters
  BY <1>1, <1>7
<1>9. At(p) = "%"
  BY <1>2, <1>4, <1>5, <1>6
<1>10. \A k \in zeros .. conv - 1 : At(k) \in Digits /\ k \in 1 .. N
  BY <1>3, <1>4, <1>5, <1>6
<1>11. At(zeros) \in (Digits \ {"0"}) \union ConvLetters
  <2>1. CASE zeros = conv
    BY <1>8, <2>1
  <2>2. CASE zeros # conv
    <3>1. zeros \in zeros .. conv - 1
      BY <1>3, <1>4, <2>2
    <3> QED BY <1>3, <1>6, <1>10, <2>2, <3>1
  <2> QED BY <2>1, <2>2
<1>12. \A k \in alt .. zeros - 1 : At(k) = "0"
  <2> TAKE k \in alt .. zeros - 1
  <2>1. k \in 1 .. N
    BY <1>3, <1>4, <1>5
  <2> QED BY <1>3, <1>6, <2>1
<1>13. At(alt) \in Digits \union ConvLetters
  <2>1. CASE zeros = alt
    BY <1>11, <2>1
  <2>2. CASE zeros # alt
    <3>1. alt \in alt .. zeros - 1
      BY <1>4, <2>2
    <3> QED BY <1>12, <3>1 DEF Digits
  <2> QED BY <2>1, <2>2
<1>14. At(left) = "#" <=> "alternate" \in i.flags
  <2>1. CASE "alternate" \in i.flags
    <3>1. left \in 1 .. N
      BY <1>3, <1>4, <1>5
    <3> QED BY <1>2, <1>6, <2>1, <3>1
  <2>2. CASE "alternate" \notin i.flags
    <3>1. alt = left
      BY <2>2
    <3> QED BY <1>13, <2>2, <3>1 DEF Digits, ConvLetters
  <2> QED BY <2>1, <2>2
<1>15. At(left) \in Digits \union ConvLetters \union {"#"}
  BY <1>13, <1>14
<1>16. (At(p + 1) = "-" <=> "right" \in i.flags) /\ At(p + 1) \in Digits \union ConvLetters \union {"#", "-"}
  <2>1. CASE "right" \in i.flags
    <3>1. p + 1 \in 1 .. N
      BY <1>3, <1>4, <1>5, <2>1
    <3> QED BY <1>2, <1>6, <2>1, <3>1
  <2>2. CASE "right" \notin i.flags
    <3>1. left = p + 1
      BY <2>2
    <3> QED BY <1>15, <2>2, <3>1 DEF Digits, ConvLetters
  <2> QED BY <2>1, <2>2
<1>17. At(p + 1) \notin {"%", NUL}
  BY <1>16 DEF Digits, ConvLetters, NUL
<1>18. After(alt, {"0"}) = zeros
  <2>1. At(zeros) \notin {"0"} /\ \A k \in alt .. zeros - 1 : At(k) \in {"0"}
    BY <1>11, <1>12 DEF ConvLetters
  <2> HIDE DEF alt, f, N
  <2> QED BY <1>3, <1>4, <1>5, <2>1, AfterIs DEF N, f
<1>19. After(zeros, Digits) = conv
  <2>1. At(conv) \notin Digits /\ \A k \in zeros .. conv - 1 : At(k) \in Digits
    BY <1>8, <1>10 DEF ConvLetters, Digits
  <2> HIDE DEF alt, f, N
  <2> QED BY <1>3, <1>4, <1>5, <2>1, AfterIs DEF N, f
<1> DEFINE flags == (IF left = p + 2 THEN {"right"} ELSE {})
                      \union (IF alt # left THEN {"alternate"} ELSE {})
                      \union (IF zeros # alt THEN {"zero"} ELSE {})
<1>20. flags = i.flags
  <2>1. left = p + 2 <=> "right" \in i.flags
    BY <1>4
  <2>2. alt # left <=> "alternate" \in i.flags
    BY <1>4
  <2>3. zeros # alt <=> "zero" \in i.flags
    BY <1>3
  <2>4. i.flags \subseteq {"right", "alternate", "zero"}
    BY DEF ItemTyped
  <2> HIDE DEF left, alt
  <2> QED BY <2>1, <2>2, <2>3, <2>4
<1>21. Parsed(p) = [flags |-> flags, width |-> Number(SubSeq(f, zeros, conv - 1)), conv |-> conv]
  <2>1. left = IF At(p + 1) = "-" THEN p + 2 ELSE p + 1
    BY <1>16
  <2>2. alt = IF At(left) = "#" THEN left + 1 ELSE left
    BY <1>14
  <2> HIDE DEF left, alt
  <2> QED BY <1>18, <1>19, <2>1, <2>2 DEF Parsed
<1>22. Parsed(p) = [flags |-> i.flags, width |-> i.width, conv |-> conv]
  BY <1>3, <1>20, <1>21
<1> QED BY <1>3, <1>4, <1>7, <1>9, <1>17, <1>22 DEF L

(* A directive of no conversion. *)
LEMMA NoConversion ==
  ASSUME NEW e \in Nat, e >= 1, Len(Call.format) \in Nat, e + 1 <= Len(Call.format),
         Call.format[e + 1] \notin Digits \union {NUL, "%", "-", "#", "l"} \union {k[1] : k \in Convs}
  PROVE  At(e + 1) \notin {"%", NUL} /\ Directive(Parsed(e)) = Effect(<<>>, e + 2, 0, 0)
<1> DEFINE m == e + 1
<1>1. m \in Nat /\ m <= Len(Call.format) /\ m >= 1 /\ m + 1 = e + 2
  OBVIOUS
<1> HIDE DEF m
<1>2. At(m) = Call.format[m]
  BY <1>1 DEF At
<1>3. At(m) \notin Digits /\ At(m) \notin {NUL, "%", "-", "#", "l"} /\ At(m) \notin ConvLetters
  BY <1>2, ConvFirsts DEF m
<1>4. \A k \in m .. m - 1 : At(k) \in {"0"} /\ At(k) \in Digits
  BY <1>1
<1>5. After(m, {"0"}) = m
  <2>1. At(m) \notin {"0"}
    BY <1>3 DEF Digits
  <2> QED BY <1>1, <1>4, <2>1, AfterIs
<1>6. After(m, Digits) = m
  BY <1>1, <1>3, <1>4, AfterIs
<1>7. Parsed(e).conv = m
  BY <1>3, <1>5, <1>6 DEF Parsed, m
<1>8. Directive(Parsed(e)) = Effect(<<>>, Parsed(e).conv + 1, 0, 0)
  BY <1>3, <1>7 DEF Directive, ConvLetters
<1> QED BY <1>1, <1>3, <1>7, <1>8 DEF m

-----------------------------------------------------------------------------
(* The text of a call, item by item. *)

Upto(c, n) == FlattenSeq([k \in 1 .. n |-> Standard(c.items[k])])

Ints(c, n) == Cardinality({m \in 1 .. n : IsInt(c.items[m])})

PrintFns == {"printf", "panic", "sprintf", "snprintf"}

Clean(c) == Plain(c) /\ Short(c)

LEMMA PaddedIsSeq ==
  ASSUME NEW sign, NEW prefix, NEW body, IsSeq(sign), IsSeq(prefix), IsSeq(body),
         NEW width \in Nat, NEW flags
  PROVE  IsSeq(Padded(sign, prefix, body, width, flags))
<1> DEFINE front == sign \o prefix
           all == front \o body
           free == PadFrom(width, all)
           zeros == Times("0", free)
           blanks == Times(" ", free)
<1>1. IsSeq(front) /\ IsSeq(all)
  BY ConcatIsSeq
<1>2. free \in Nat
  BY <1>1, SeqIs DEF PadFrom
<1>3. IsSeq(zeros) /\ IsSeq(blanks)
  BY <1>2, TimesIs
<1>4. Padded(sign, prefix, body, width, flags)
        = IF "right" \in flags THEN all \o blanks
          ELSE IF "zero" \in flags THEN (front \o zeros) \o body ELSE blanks \o all
  BY DEF Padded, PadFrom
<1> HIDE DEF front, all, zeros, blanks
<1>5. IsSeq(all \o blanks) /\ IsSeq(front \o zeros) /\ IsSeq(blanks \o all)
  BY <1>1, <1>3, ConcatIsSeq
<1>6. IsSeq((front \o zeros) \o body)
  BY <1>5, ConcatIsSeq
<1> QED BY <1>4, <1>5, <1>6

LEMMA StandardIsSeq ==
  ASSUME NEW i, i.conv = <<>> \/ ItemTyped(i)
  PROVE  IsSeq(Standard(i))
<1> DEFINE none == <<>>
           minus == <<"-">>
           null == <<"(","n","u","l","l",")">>
           char == <<i.val>>
           sign == IF Value(i) < 0 THEN minus ELSE none
           v == IF Value(i) < 0 THEN -Value(i) ELSE Value(i)
           b == IF Hex(i) THEN 16 ELSE 10
           body == Numeral(v, b, IF Upper(i) THEN "A" ELSE "a")
           string == IF i.val = NULL THEN null ELSE i.val
<1>1. IsSeq(none) /\ IsSeq(minus) /\ IsSeq(char) /\ IsSeq(null)
  <2>1. null \in Seq({"(", "n", "u", "l", ")"})
    OBVIOUS
  <2>2. IsSeq(null)
    BY <2>1 DEF IsSeq
  <2> QED BY <2>2, EmptyIsSeq, SingleIsSeq
<1>2. IsSeq(Prefix(i))
  BY PairIsSeq, EmptyIsSeq DEF Prefix
<1>3. CASE i.conv = <<>>
  BY <1>1, <1>3 DEF Standard
<1>4. CASE i.conv # <<>>
  <2>1. ItemTyped(i) /\ i.width \in Nat
    BY <1>4 DEF ItemTyped
  <2>2. CASE i.conv = <<"s">>
    <3>1. IsSeq(string)
      BY <1>1, <2>1, <2>2 DEF ItemTyped, IsSeq
    <3>2. Standard(i) = Padded(none, Prefix(i), string, i.width, i.flags)
      BY <2>2 DEF Standard
    <3> HIDE DEF string, none
    <3> QED BY <1>1, <1>2, <2>1, <3>1, <3>2, PaddedIsSeq
  <2>3. CASE i.conv = <<"c">>
    <3>1. Standard(i) = Padded(none, Prefix(i), char, i.width, i.flags)
      BY <2>3 DEF Standard
    <3> HIDE DEF char, none
    <3> QED BY <1>1, <1>2, <2>1, <3>1, PaddedIsSeq
  <2>4. CASE i.conv \notin {<<"s">>, <<"c">>}
    <3>1. Standard(i) = Padded(sign, Prefix(i), body, i.width, i.flags)
      BY <1>4, <2>4 DEF Standard
    <3>2. Value(i) \in Int
      <4> DEFINE top == IF IsInt(i) THEN UInt ELSE ULong
                 w == i.val % top
      <4>1. top \in Nat /\ top > 0 /\ i.val \in Nat
        BY <2>1, <2>4, ConsoleAssumption DEF ItemTyped
      <4> HIDE DEF top
      <4>2. w \in Int /\ w - top \in Int
        BY <4>1
      <4> HIDE DEF w
      <4>3. Value(i) \in {w, w - top}
        BY DEF Value, w, top
      <4> QED BY <4>2, <4>3
    <3>3. v \in Nat /\ b \in Nat /\ b > 1
      BY <3>2
    <3> HIDE DEF v, b
    <3>4. IsSeq(body)
      BY <3>3, NumeralIsSeq
    <3>5. IsSeq(sign)
      BY <1>1
    <3> HIDE DEF sign, body
    <3> QED BY <1>2, <2>1, <3>1, <3>4, <3>5, PaddedIsSeq
  <2> QED BY <2>2, <2>3, <2>4
<1> QED BY <1>3, <1>4

LEMMA UptoMore ==
  ASSUME NEW c, NEW n \in Nat, \A k \in 1 .. n + 1 : IsSeq(Standard(c.items[k]))
  PROVE  /\ Upto(c, n + 1) = Upto(c, n) \o Standard(c.items[n + 1])
         /\ IsSeq(Upto(c, n)) /\ IsSeq(Upto(c, n + 1))
<1> DEFINE S == [k \in 1 .. n + 1 |-> Standard(c.items[k])]
<1>1. FirstOf(S, n) = [k \in 1 .. n |-> Standard(c.items[k])]
  BY DEF FirstOf
<1>2. FirstOf(S, n + 1) = S
  BY DEF FirstOf
<1>3. S[n + 1] = Standard(c.items[n + 1])
  OBVIOUS
<1>4. \A k \in 1 .. n + 1 : IsSeq(S[k])
  OBVIOUS
<1> HIDE DEF S
<1>5. /\ FlattenSeq(FirstOf(S, n + 1)) = FlattenSeq(FirstOf(S, n)) \o S[n + 1]
      /\ IsSeq(FlattenSeq(FirstOf(S, n)))
  BY <1>4, FlattenMore
<1>6. Upto(c, n + 1) = FlattenSeq(S)
  BY DEF Upto, S
<1>7. Upto(c, n) = FlattenSeq(FirstOf(S, n))
  BY <1>1 DEF Upto
<1>8. n + 1 \in 1 .. n + 1
  OBVIOUS
<1>9. IsSeq(Standard(c.items[n + 1]))
  BY <1>8
<1>10. Upto(c, n + 1) = Upto(c, n) \o Standard(c.items[n + 1]) /\ IsSeq(Upto(c, n))
  BY <1>2, <1>3, <1>5, <1>6, <1>7
<1> QED BY <1>9, <1>10, ConcatIsSeq

LEMMA UptoNone == \A c : Upto(c, 0) = <<>>
<1> TAKE c
<1> DEFINE S == [k \in 1 .. 0 |-> Standard(c.items[k])]
<1>1. FirstOf(S, 0) = S
  BY DEF FirstOf
<1> HIDE DEF S
<1>2. FlattenSeq(S) = <<>>
  BY <1>1, FlattenNone
<1> QED BY <1>2 DEF Upto, S

(* It grows. *)
LEMMA UptoGrows ==
  ASSUME NEW c, NEW N \in Nat, \A k \in 1 .. N : IsSeq(Standard(c.items[k]))
  PROVE  \A n \in 0 .. N : IsSeq(Upto(c, n)) /\ Len(Upto(c, n)) <= Len(Upto(c, N))
<1> DEFINE len(n) == Len(Upto(c, n))
<1>1. ASSUME NEW n \in 0 .. N PROVE IsSeq(Upto(c, n)) /\ len(n) \in Nat
  <2>1. CASE n = 0
    BY <2>1, UptoNone, EmptyIsSeq, EmptyLen
  <2>2. CASE n # 0
    <3> DEFINE m == n - 1
    <3>1. m \in Nat /\ m + 1 = n
      BY <2>2
    <3> HIDE DEF m
    <3>2. \A k \in 1 .. m + 1 : IsSeq(Standard(c.items[k]))
      BY <3>1
    <3>3. IsSeq(Upto(c, m + 1))
      BY <3>1, <3>2, UptoMore
    <3> QED BY <3>1, <3>3, SeqIs
  <2> QED BY <2>1, <2>2
<1>2. ASSUME NEW n \in 0 .. N - 1 PROVE len(n) <= len(n + 1)
  <2>1. n \in Nat /\ \A k \in 1 .. n + 1 : IsSeq(Standard(c.items[k]))
    OBVIOUS
  <2>2. Upto(c, n + 1) = Upto(c, n) \o Standard(c.items[n + 1]) /\ n + 1 \in 1 .. n + 1
    BY <2>1, UptoMore
  <2>3. IsSeq(Upto(c, n)) /\ IsSeq(Standard(c.items[n + 1]))
    BY <1>1, <2>1, <2>2
  <2>4. Len(Upto(c, n + 1)) = Len(Upto(c, n)) + Len(Standard(c.items[n + 1]))
    BY <2>2, <2>3, ConcatAt
  <2>5. Len(Standard(c.items[n + 1])) \in Nat /\ Len(Upto(c, n)) \in Nat
    BY <2>3, SeqIs
  <2> QED BY <2>4, <2>5
<1> HIDE DEF len
<1>3. \A n \in 0 .. N : len(n) <= len(N)
  <2> DEFINE T == {d \in Nat : d <= N => len(N - d) <= len(N)}
  <2>1. ASSUME NEW d \in Nat, \A m \in Nat : m < d => m \in T PROVE d \in T
    <3> SUFFICES ASSUME d <= N PROVE len(N - d) <= len(N)
      OBVIOUS
    <3>1. CASE d = 0
      <4>1. N - d = N /\ N \in 0 .. N
        BY <3>1
      <4>2. len(N) \in Nat
        BY <1>1, <4>1
      <4> QED BY <4>1, <4>2
    <3>2. CASE d # 0
      <4>1. d - 1 \in Nat /\ d - 1 < d /\ d - 1 <= N /\ N - d \in 0 .. N - 1 /\ (N - d) + 1 = N - (d - 1)
        BY <3>2
      <4>2. len(N - (d - 1)) <= len(N)
        BY <2>1, <4>1
      <4>3. len(N - d) <= len((N - d) + 1)
        BY <1>2, <4>1
      <4>4. N - d \in 0 .. N /\ N - (d - 1) \in 0 .. N /\ N \in 0 .. N
        BY <4>1
      <4>5. len(N - d) \in Nat /\ len(N - (d - 1)) \in Nat /\ len(N) \in Nat
        BY <1>1, <4>4
      <4> QED BY <4>1, <4>2, <4>3, <4>5
    <3> QED BY <3>1, <3>2
  <2>2. Nat \subseteq T
    <3> HIDE DEF T
    <3> QED BY <2>1, AllNumbers
  <2>3. ASSUME NEW n \in 0 .. N PROVE len(n) <= len(N)
    <3>1. N - n \in Nat /\ N - n <= N /\ N - (N - n) = n
      OBVIOUS
    <3>2. N - n \in T
      BY <2>2, <3>1
    <3>3. len(N - (N - n)) <= len(N)
      BY <3>1, <3>2
    <3> QED BY <3>1, <3>3
  <2> QED BY <2>3
<1> QED BY <1>1, <1>3 DEF len

LEMMA IntsMore ==
  ASSUME NEW c, NEW n \in Nat
  PROVE  /\ Ints(c, n) \in Nat /\ Ints(c, 0) = 0
         /\ Ints(c, n + 1) = Ints(c, n) + IF IsInt(c.items[n + 1]) THEN 1 ELSE 0
<1> DEFINE S == {m \in 1 .. n : IsInt(c.items[m])}
           R == {m \in 1 .. n + 1 : IsInt(c.items[m])}
<1>1. IsFiniteSet(S)
  <2>1. IsFiniteSet(1 .. n) /\ S \subseteq 1 .. n
    BY FS_Interval
  <2> QED BY <2>1, FS_Subset
<1>2. Cardinality(S) \in Nat
  BY <1>1, FS_CardinalityType
<1>3. R = IF IsInt(c.items[n + 1]) THEN S \union {n + 1} ELSE S
  OBVIOUS
<1>4. n + 1 \notin S
  OBVIOUS
<1>5. {m \in 1 .. 0 : IsInt(c.items[m])} = {}
  OBVIOUS
<1>6. Ints(c, 0) = 0
  BY <1>5, FS_EmptySet DEF Ints
<1>7. Ints(c, n) = Cardinality(S) /\ Ints(c, n + 1) = Cardinality(R)
  BY DEF Ints
<1> HIDE DEF S, R
<1>8. Cardinality(S \union {n + 1}) = Cardinality(S) + 1
  BY <1>1, <1>4, FS_AddElement
<1> QED BY <1>2, <1>3, <1>6, <1>7, <1>8

-----------------------------------------------------------------------------
(* print, item by item.  Before the text of item n is written, or while it  *)
(* is, pos, arg and acnt are those of the next one.                         *)

Items == Len(Call.items)

Place(n) ==
  /\ n \in 1 .. Items + 1
  /\ pos = Call.at[n] /\ arg = Call.slots[n]
  /\ acnt \in Nat /\ acnt % 8 = 4 * (Ints(Call, n - 1) % 2)

(* Behind what follows the items. *)
Behind(n) == n = Items + 1 /\ pos = Len(Call.format) + 1

(* p is what printc was given. *)
Printed(n, p) ==
  /\ Place(n) \/ Behind(n)
  /\ IsSeq(p) /\ IsSeq(text) /\ p \o text = Upto(Call, n - 1)
  /\ count = Len(p)

(* How much of k characters there is room for. *)
Fit(k) == IF Bounded /\ k >= room THEN room - 1 ELSE k

(* The buffer holds it. *)
Held(p) ==
  /\ Fit(Len(p)) >= 0 => out = Fit(Len(p))
  /\ Bounded => out_len = IF Len(p) >= room THEN 0 ELSE room - Len(p)
  /\ Fit(Len(p)) > 0 =>
       /\ 0 .. Fit(Len(p)) \subseteq DOMAIN mem /\ mem[Fit(Len(p))] = NUL
       /\ \A n \in 1 .. Fit(Len(p)) : mem[n - 1] = p[n]

FInv ==
  pc # "idle" =>
    /\ pc = "print" => Call.fn \in PrintFns
    /\ Call.fn \in {"sprintf", "snprintf"} => pc \in {"print", "return"}
    /\ Clean(Call) =>
         /\ pc = "print" => \E n, p : n \in Nat /\ Printed(n, p) /\ Held(p)
         /\ pc = "return" /\ Call.fn \in {"sprintf", "snprintf"} =>
              count = Len(Text(Call)) /\ Held(Text(Call))
         /\ pc \in {"nputs", "putc", "putc_ch"} /\ use_tbuf => At(pos) = NUL

(* What the assumptions say of a call of print. *)
LEMMA CallIs ==
  ASSUME boot \in Boots, done + 1 \in DOMAIN boot.calls
  PROVE  /\ Formed(Call) /\ Items \in Nat /\ Len(Call.format) \in Nat /\ Len(Call.args) \in Nat
         /\ room \in Nat
<1>1. Formed(Call) /\ room \in Nat
  BY FormatAssumption, RoomIsNat DEF Call
<1>2. Call.format \in Seq(STRING)
  BY ConsoleAssumption DEF Call
<1>3. Len(Call.format) \in Nat
  BY <1>2, LenProperties
<1> QED BY <1>1, <1>3 DEF Formed, Items

LEMMA ItemIs ==
  ASSUME boot \in Boots, done + 1 \in DOMAIN boot.calls, Call.fn \in PrintFns
  PROVE  /\ \A n \in 1 .. Items : SpellsItem(Call, n)
         /\ \A n \in 1 .. Items : IsSeq(Standard(Call.items[n]))
         /\ Call.at[1] = 1 /\ Call.slots[1] = 1
         /\ SpellsEnd(Call.format, Call.at[Items + 1])
         /\ Call.at[Items + 1] \in 1 .. Len(Call.format) + 1
<1>1. Formed(Call) /\ Items \in Nat /\ Len(Call.format) \in Nat
  BY CallIs
<1>2. /\ Call.at[1] = 1 /\ Call.slots[1] = 1
      /\ \A n \in 1 .. Items : SpellsItem(Call, n)
      /\ SpellsEnd(Call.format, Call.at[Items + 1])
  BY <1>1 DEF Formed, PrintFns, Items
<1>3. ASSUME NEW n \in 1 .. Items PROVE IsSeq(Standard(Call.items[n]))
  <2> DEFINE i == Call.items[n]
  <2>1. i.conv = <<>> \/ ItemTyped(i)
    BY <1>2 DEF SpellsItem, ItemTyped
  <2> HIDE DEF i
  <2>2. IsSeq(Standard(i))
    BY <2>1, StandardIsSeq
  <2> QED BY <2>2 DEF i
<1>4. Call.at[Items + 1] \in 1 .. Len(Call.format) + 1
  <2>1. CASE Items = 0
    BY <1>1, <1>2, <2>1
  <2>2. CASE Items # 0
    <3>1. Items \in 1 .. Items
      BY <1>1, <2>2
    <3> QED BY <1>2, <3>1 DEF SpellsItem
  <2> QED BY <2>1, <2>2
<1> QED BY <1>2, <1>3, <1>4

LEMMA PlainIs ==
  ASSUME Plain(Call), NEW n \in 1 .. Items, Call.items[n].conv # <<>>
  PROVE  PlainItem(Call.items[n]) /\ (IsLongLong(Call.items[n]) => Ints(Call, n) % 2 = 0)
BY DEF Plain, PlainItem, Items, Ints

(* The text of a call is that of all its items. *)
LEMMA TextIs == Text(Call) = Upto(Call, Items)
BY DEF Text, Upto, Items

(* What is at the place of an item, and behind the last one. *)
LEMMA AtItem ==
  ASSUME boot \in Boots, done + 1 \in DOMAIN boot.calls, Call.fn \in PrintFns,
         NEW n \in 1 .. Items, NEW i, i = Call.items[n], pos = Call.at[n]
  PROVE  /\ pos \in 1 .. Len(Call.format) /\ Call.at[n + 1] \in 1 .. Len(Call.format) + 1
         /\ At(pos) # NUL
         /\ \/ /\ i.conv = <<>> /\ At(pos) = i.val /\ Call.slots[n + 1] = Call.slots[n]
               /\ At(pos) = "%" => At(pos + 1) = "%" /\ Call.at[n + 1] = pos + 2
               /\ At(pos) # "%" => Call.at[n + 1] = pos + 1
            \/ /\ ItemTyped(i) /\ i.conv # <<>>
               /\ At(pos) = "%" /\ At(pos + 1) \notin {"%", NUL}
               /\ Spells(Call.format, i, pos, Call.at[n + 1])
               /\ Call.slots[n] \in 1 .. Len(Call.args) /\ Call.args[Call.slots[n]] = i.val
               /\ Call.slots[n + 1] = Call.slots[n] + 1
<1> DEFINE q == Call.at[n + 1]
           N == Len(Call.format)
<1>1. SpellsItem(Call, n) /\ N \in Nat
  BY ItemIs, CallIs
<1>2. pos \in 1 .. N /\ q \in 1 .. N + 1 /\ pos \in Nat /\ q \in Nat /\ pos >= 1
  BY <1>1 DEF SpellsItem
<1>3. At(pos) = Call.format[pos]
  BY <1>2 DEF At
<1>4. CASE i.conv = <<>>
  <2>1. i.conv \notin Convs
    BY <1>4, ConvParts
  <2>2. /\ i.val # NUL /\ Call.format[pos] = i.val
        /\ i.val # "%" => q = pos + 1
        /\ i.val = "%" => q = pos + 2 /\ Call.format[pos + 1] = "%"
        /\ Call.slots[n + 1] = Call.slots[n]
    BY <1>1, <2>1 DEF SpellsItem
  <2>3. i.val = "%" => At(pos + 1) = "%"
    <3> SUFFICES ASSUME i.val = "%" PROVE At(pos + 1) = "%"
      OBVIOUS
    <3>1. q = pos + 2 /\ Call.format[pos + 1] = "%"
      BY <2>2
    <3>2. N \in Nat /\ q <= N + 1 /\ pos \in Nat
      BY <1>1, <1>2
    <3>3. pos + 1 \in 1 .. N
      <4> HIDE DEF q, N
      <4> QED BY <3>1, <3>2
    <3> QED BY <3>1, <3>3 DEF At
  <2> QED BY <1>2, <1>3, <1>4, <2>2, <2>3
<1>5. CASE i.conv # <<>>
  <2>1. /\ ItemTyped(i) /\ Spells(Call.format, i, pos, q)
        /\ Call.slots[n] \in 1 .. Len(Call.args) /\ Call.args[Call.slots[n]] = i.val
        /\ Call.slots[n + 1] = Call.slots[n] + 1
    BY <1>1, <1>5 DEF SpellsItem, ItemTyped
  <2>2. q <= N + 1
    BY <1>1, <1>2
  <2> HIDE DEF q, N
  <2>3. At(pos) = "%" /\ At(pos + 1) \notin {"%", NUL}
    BY <1>1, <1>2, <2>1, <2>2, ParsedIs DEF N
  <2> QED BY <1>2, <1>5, <2>1, <2>3 DEF NUL, q, N
<1> QED BY <1>4, <1>5

LEMMA AtEnd ==
  ASSUME boot \in Boots, done + 1 \in DOMAIN boot.calls, Call.fn \in PrintFns,
         pos = Call.at[Items + 1]
  PROVE  /\ pos \in 1 .. Len(Call.format) + 1
         /\ \/ pos = Len(Call.format) + 1 /\ At(pos) = NUL
            \/ pos = Len(Call.format) /\ At(pos) = "%" /\ At(pos + 1) = NUL
            \/ /\ pos + 2 = Len(Call.format) + 1 /\ At(pos) = "%" /\ At(pos + 1) \notin {"%", NUL}
               /\ Directive(Parsed(pos)) = Effect(<<>>, pos + 2, 0, 0)
<1> DEFINE N == Len(Call.format)
<1>1. N \in Nat /\ pos \in 1 .. N + 1 /\ SpellsEnd(Call.format, pos)
  BY ItemIs, CallIs
<1>2. pos \in Nat /\ pos >= 1
  BY <1>1
<1>3. CASE pos = N + 1
  BY <1>1, <1>3 DEF At
<1>4. CASE pos = N /\ Call.format[pos] = "%"
  BY <1>1, <1>2, <1>4 DEF At
<1>5. CASE /\ pos = N - 1 /\ Call.format[pos] = "%"
           /\ Call.format[pos + 1] \notin Digits \union {NUL, "%", "-", "#", "l"} \union {k[1] : k \in Convs}
  <2>1. pos + 1 <= N /\ pos + 2 = N + 1 /\ pos \in 1 .. N
    BY <1>1, <1>2, <1>5
  <2>2. At(pos) = "%"
    BY <1>5, <2>1 DEF At
  <2> HIDE DEF N
  <2>3. At(pos + 1) \notin {"%", NUL} /\ Directive(Parsed(pos)) = Effect(<<>>, pos + 2, 0, 0)
    BY <1>1, <1>2, <1>5, <2>1, NoConversion DEF N
  <2> QED BY <1>1, <2>1, <2>2, <2>3 DEF N
<1> QED BY <1>1, <1>3, <1>4, <1>5 DEF SpellsEnd

-----------------------------------------------------------------------------
(* The steps. *)

printNow == <<boot, done, pc, printVars>>

LEMMA NowKept ==
  ASSUME UNCHANGED <<boot, done>>
  PROVE  /\ Call' = Call /\ Items' = Items /\ room' = room /\ use_tbuf' = use_tbuf
         /\ Bounded' = Bounded /\ (Clean(Call))' = Clean(Call) /\ (Text(Call))' = Text(Call)
         /\ \A m : At(m)' = At(m)
         /\ \A n : (Upto(Call, n))' = Upto(Call, n)
         /\ \A n : (Ints(Call, n))' = Ints(Call, n)
<1>1. Call' = Call
  BY DEF Call
<1>2. Items' = Items /\ room' = room /\ use_tbuf' = use_tbuf /\ Bounded' = Bounded
  BY <1>1 DEF Items, room, use_tbuf, Bounded
<1>3. (Clean(Call))' = Clean(Call) /\ (Text(Call))' = Text(Call)
  BY <1>1
<1>4. \A m : At(m)' = At(m)
  BY <1>1 DEF At
<1>5. \A n : (Upto(Call, n))' = Upto(Call, n)
  BY <1>1
<1>6. \A n : (Ints(Call, n))' = Ints(Call, n)
  BY <1>1
<1> QED BY <1>1, <1>2, <1>3, <1>4, <1>5, <1>6

LEMMA PrintedKept ==
  ASSUME UNCHANGED <<boot, done, printVars>>
  PROVE  \A n, p : Printed(n, p)' = Printed(n, p) /\ Held(p)' = Held(p)
<1>1. UNCHANGED <<boot, done>> /\ UNCHANGED <<pos, arg, acnt, count, text, mem, out, out_len>>
  BY DEF printVars
<1>2. /\ Call' = Call /\ Items' = Items /\ room' = room /\ Bounded' = Bounded
      /\ \A n : (Upto(Call, n))' = Upto(Call, n)
      /\ \A n : (Ints(Call, n))' = Ints(Call, n)
  BY <1>1, NowKept
<1>3. \A k : Fit(k)' = Fit(k)
  BY <1>2 DEF Fit
<1>4. \A n : Place(n)' = Place(n) /\ Behind(n)' = Behind(n)
  BY <1>1, <1>2 DEF Place, Behind
<1>5. \A n, p : Printed(n, p)' = Printed(n, p)
  BY <1>1, <1>2, <1>4 DEF Printed
<1>6. \A p : Held(p)' = Held(p)
  BY <1>1, <1>2, <1>3 DEF Held
<1> QED BY <1>5, <1>6

LEMMA FKept ==
  ASSUME FInv, UNCHANGED printNow
  PROVE  FInv'
<1>1. UNCHANGED <<boot, done, pc>> /\ UNCHANGED <<pos, arg, acnt, count, text, mem, out, out_len>>
  BY DEF printNow, printVars
<1>2. /\ Call' = Call /\ use_tbuf' = use_tbuf
      /\ (Clean(Call))' = Clean(Call) /\ (Text(Call))' = Text(Call) /\ At(pos)' = At(pos)
  BY <1>1, NowKept
<1>3. /\ \A n, p : Printed(n, p)' = Printed(n, p)
      /\ Held(Text(Call))' = Held(Text(Call)) /\ \A p : Held(p)' = Held(p)
  BY <1>1, <1>2, PrintedKept DEF printVars
<1> QED BY <1>1, <1>2, <1>3 DEF FInv

(* print starts before the first item. *)
LEMMA FCallPrint ==
  ASSUME CInv, FInv, CallPrint
  PROVE  FInv'
<1> DEFINE p == <<>>
<1>1. /\ boot \in Boots /\ done + 1 \in DOMAIN boot.calls /\ UNCHANGED <<boot, done>>
      /\ Call.fn \in PrintFns /\ pc' = "print"
      /\ pos' = 1 /\ arg' = 1 /\ acnt' = 0 /\ count' = 0 /\ text' = <<>>
      /\ mem' = Unwritten /\ out' = 0 /\ out_len' = room
  BY ConsoleAssumption DEF CInv, CallPrint, PrintFns, room
<1>2. /\ Call' = Call /\ Items' = Items /\ room' = room /\ Bounded' = Bounded
      /\ (Clean(Call))' = Clean(Call)
      /\ \A n : (Upto(Call, n))' = Upto(Call, n)
      /\ \A n : (Ints(Call, n))' = Ints(Call, n)
  BY <1>1, NowKept
<1>3. Call.at[1] = 1 /\ Call.slots[1] = 1 /\ Items \in Nat /\ room \in Nat
  BY <1>1, ItemIs, CallIs
<1>4. IsSeq(p) /\ Len(p) = 0 /\ p \o p = p
  BY EmptyIsSeq, EmptyLen, ConcatIsSeq
<1>5. Ints(Call, 0) = 0 /\ Upto(Call, 0) = p
  BY IntsMore, UptoNone
<1>6. Place(1)'
  <2>1. 1 \in 1 .. Items + 1 /\ 0 \in Nat /\ 0 % 8 = 4 * (Ints(Call, 1 - 1) % 2)
    BY <1>3, <1>5
  <2> QED BY <1>1, <1>2, <1>3, <2>1 DEF Place
<1>7. Printed(1, p)'
  <2>1. Upto(Call, 1 - 1) = p
    BY <1>5
  <2> QED BY <1>1, <1>2, <1>4, <1>6, <2>1 DEF Printed
<1>8. Held(p)'
  <2>1. Fit(0)' = IF Bounded /\ 0 >= room THEN room - 1 ELSE 0
    BY <1>2 DEF Fit
  <2>2. ~(Fit(0)' > 0) /\ (Fit(0)' >= 0 => Fit(0)' = 0)
    BY <1>3, <2>1
  <2> HIDE DEF p
  <2>3. out_len' = IF 0 >= room THEN 0 ELSE room - 0
    BY <1>1, <1>3
  <2> QED BY <1>1, <1>2, <1>4, <2>2, <2>3 DEF Held
<1> QED BY <1>1, <1>2, <1>7, <1>8 DEF FInv

(* printc writes a character where there is room for it and the terminator. *)
LEMMA HeldPrintc ==
  ASSUME room \in Nat, NEW p, IsSeq(p), Held(p), Printc, NEW q, q = Append(p, Head(text))
  PROVE  Held(q)'
<1> DEFINE x == Head(text)
           k == Len(p)
<1>1. UNCHANGED <<boot, done>>
  BY DEF Printc
<1>2. room' = room /\ Bounded' = Bounded
  BY <1>1, NowKept
<1>3. /\ Len(q) = k + 1 /\ q[k + 1] = x /\ k \in Nat
      /\ \A n \in 1 .. k : q[n] = p[n]
  BY AppendAt, SeqIs
<1> DEFINE fit == Fit(k)
           fit2 == Fit(k + 1)
<1>5. /\ fit = IF Bounded /\ k >= room THEN room - 1 ELSE k
      /\ fit2 = IF Bounded /\ k + 1 >= room THEN room - 1 ELSE k + 1
  BY DEF Fit
<1>6. /\ fit >= 0 => out = fit
      /\ Bounded => out_len = IF k >= room THEN 0 ELSE room - k
      /\ fit > 0 =>
           /\ 0 .. fit \subseteq DOMAIN mem /\ mem[fit] = NUL
           /\ \A n \in 1 .. fit : mem[n - 1] = p[n]
  BY DEF Held
<1>7. /\ IF Bounded => out_len > 1
         THEN mem' = Written(x) /\ out' = out + 1
         ELSE mem' = mem /\ out' = out
      /\ out_len' = IF Bounded /\ out_len > 0 THEN out_len - 1 ELSE out_len
  BY DEF Printc
<1> HIDE DEF x, k, fit, fit2
<1>8. Bounded => out_len' = IF k + 1 >= room THEN 0 ELSE room - (k + 1)
  BY <1>3, <1>6, <1>7
<1>9. /\ fit2 >= 0 => out' = fit2
      /\ fit2 > 0 =>
           /\ 0 .. fit2 \subseteq DOMAIN mem' /\ mem'[fit2] = NUL
           /\ \A n \in 1 .. fit2 : mem'[n - 1] = q[n]
  <2>1. CASE Bounded => out_len > 1
    <3>1. (Bounded => k + 1 < room) /\ fit = k /\ fit2 = k + 1 /\ out = k
      BY <1>3, <1>5, <1>6, <2>1
    <3>2. mem' = Written(x) /\ out' = k + 1
      BY <1>7, <2>1, <3>1
    <3>3. DOMAIN mem' = DOMAIN mem \union {k, k + 1}
      BY <3>1, <3>2 DEF Written
    <3>4. \A c \in DOMAIN mem' : mem'[c] = IF c = k THEN x ELSE IF c = k + 1 THEN NUL ELSE mem[c]
      BY <3>1, <3>2 DEF Written
    <3>5. mem'[k + 1] = NUL
      <4>1. k + 1 # k /\ k + 1 \in DOMAIN mem'
        BY <1>3, <3>3
      <4> QED BY <3>4, <4>1
    <3>6. 0 .. k + 1 \subseteq DOMAIN mem'
      <4>1. CASE k = 0
        BY <3>3, <4>1
      <4>2. CASE k > 0
        <5>1. 0 .. k \subseteq DOMAIN mem
          BY <1>6, <3>1, <4>2
        <5> QED BY <1>3, <3>3, <5>1
      <4> QED BY <1>3, <4>1, <4>2
    <3>7. ASSUME NEW n \in 1 .. k + 1 PROVE mem'[n - 1] = q[n]
      <4>1. n - 1 \in 0 .. k + 1
        BY <1>3
      <4>2. n - 1 \in DOMAIN mem'
        BY <3>6, <4>1
      <4>3. CASE n = k + 1
        <5>1. n - 1 = k
          BY <1>3, <4>3
        <5> QED BY <1>3, <3>4, <4>2, <4>3, <5>1
      <4>4. CASE n # k + 1
        <5>1. n \in 1 .. k /\ k > 0 /\ n - 1 # k /\ n - 1 # k + 1
          BY <1>3, <4>4
        <5>2. mem[n - 1] = p[n]
          BY <1>6, <3>1, <5>1
        <5>3. mem'[n - 1] = mem[n - 1]
          BY <3>4, <4>2, <5>1
        <5> QED BY <1>3, <5>1, <5>2, <5>3
      <4> QED BY <4>3, <4>4
    <3> QED BY <3>1, <3>2, <3>5, <3>6, <3>7
  <2>2. CASE ~(Bounded => out_len > 1)
    <3>1. Bounded /\ k + 1 >= room /\ mem' = mem /\ out' = out
      BY <1>3, <1>6, <1>7, <2>2
    <3>2. fit2 = room - 1
      BY <1>5, <3>1
    <3>3. fit = fit2 /\ fit <= k
      BY <1>3, <1>5, <3>1, <3>2
    <3>4. \A n \in 1 .. fit2 : mem[n - 1] = p[n] => mem[n - 1] = q[n]
      BY <1>3, <3>2, <3>3
    <3> QED BY <1>6, <3>1, <3>3, <3>4
  <2> QED BY <2>1, <2>2
<1>10. \A l : Fit(l)' = Fit(l)
  BY <1>2 DEF Fit
<1>11. Fit(Len(q)) = fit2
  BY <1>3 DEF fit2
<1>12. Fit(Len(q))' = fit2
  BY <1>10, <1>11
<1> QED BY <1>2, <1>3, <1>8, <1>9, <1>12 DEF Held

LEMMA FPrintc ==
  ASSUME CInv, FInv, Printc
  PROVE  FInv'
<1>1. /\ boot \in Boots /\ done + 1 \in DOMAIN boot.calls /\ UNCHANGED <<boot, done>>
      /\ pc = "print" /\ pc' = pc /\ Call.fn \in PrintFns
      /\ UNCHANGED <<pos, arg, acnt>> /\ text # <<>> /\ text' = Tail(text) /\ count' = count + 1
  BY DEF CInv, FInv, Printc
<1>2. /\ Call' = Call /\ Items' = Items
      /\ (Clean(Call))' = Clean(Call)
      /\ \A n : (Upto(Call, n))' = Upto(Call, n)
      /\ \A n : (Ints(Call, n))' = Ints(Call, n)
  BY <1>1, NowKept
<1>3. ASSUME Clean(Call) PROVE \E n, p : n \in Nat /\ Printed(n, p)' /\ Held(p)'
  <2>1. PICK n, p : n \in Nat /\ Printed(n, p) /\ Held(p)
    BY <1>1, <1>3 DEF FInv
  <2>2. /\ IsSeq(p) /\ IsSeq(text) /\ p \o text = Upto(Call, n - 1) /\ count = Len(p)
        /\ Place(n) \/ Behind(n)
    BY <2>1 DEF Printed
  <2>3. PICK x : x = Head(text)
    OBVIOUS
  <2>4. PICK t : t = Tail(text)
    OBVIOUS
  <2>5. PICK q : q = Append(p, x)
    OBVIOUS
  <2> DEFINE c == <<x>>
  <2>6. IsSeq(t) /\ text = c \o t
    BY <1>1, <2>2, <2>3, <2>4, HeadTail
  <2>7. IsSeq(q) /\ q = p \o c /\ Len(q) = Len(p) + 1
    BY <2>2, <2>5, AppendIsSeq, AppendAt
  <2>8. IsSeq(c)
    BY SingleIsSeq
  <2> HIDE DEF c
  <2>9. q \o t = p \o text
    <3>1. IsSeq(p) /\ IsSeq(c) /\ IsSeq(t)
      BY <2>2, <2>6, <2>8
    <3>2. (p \o c) \o t = p \o (c \o t)
      BY <3>1, ConcatAssoc
    <3> QED BY <2>6, <2>7, <3>2
  <2>10. Place(n)' = Place(n) /\ Behind(n)' = Behind(n)
    BY <1>1, <1>2 DEF Place, Behind
  <2>11. Printed(n, q)'
    BY <1>1, <1>2, <2>2, <2>4, <2>6, <2>7, <2>9, <2>10 DEF Printed
  <2>12. room \in Nat
    BY <1>1, CallIs
  <2>13. Held(q)'
    BY <2>1, <2>2, <2>3, <2>5, <2>12, HeldPrintc
  <2> QED BY <2>1, <2>11, <2>13
<1> QED BY <1>1, <1>2, <1>3 DEF FInv

(* The text of the next item, or none behind the last. *)
LEMMA NextText ==
  ASSUME CInv, NEW n \in Nat, NEW p, IsSeq(p), p = Upto(Call, n - 1),
         UNCHANGED <<boot, done, count>>, count = Len(p), Items \in Nat,
         \/ /\ n \in 1 .. Items /\ IsSeq(Standard(Call.items[n]))
            /\ \A k \in 1 .. n : IsSeq(Standard(Call.items[k]))
            /\ text' = Standard(Call.items[n]) /\ Place(n + 1)'
         \/ n = Items + 1 /\ text' = <<>> /\ Behind(n)'
  PROVE  \E m \in Nat : Printed(m, p)'
<1>1. /\ Call' = Call /\ \A k : (Upto(Call, k))' = Upto(Call, k)
  BY NowKept
<1>2. CASE /\ n \in 1 .. Items /\ IsSeq(Standard(Call.items[n]))
           /\ \A k \in 1 .. n : IsSeq(Standard(Call.items[k]))
           /\ text' = Standard(Call.items[n]) /\ Place(n + 1)'
  <2> DEFINE m == n - 1
  <2>1. m \in Nat /\ m + 1 = n /\ (n + 1) - 1 = n
    BY <1>2
  <2> HIDE DEF m
  <2>2. \A k \in 1 .. m + 1 : IsSeq(Standard(Call.items[k]))
    BY <1>2, <2>1
  <2>3. Upto(Call, m + 1) = Upto(Call, m) \o Standard(Call.items[m + 1])
    BY <2>1, <2>2, UptoMore
  <2>4. Upto(Call, n) = p \o Standard(Call.items[n])
    BY <2>1, <2>3 DEF m
  <2>5. (Upto(Call, (n + 1) - 1))' = Upto(Call, n)
    BY <1>1, <2>1
  <2>6. Printed(n + 1, p)'
    BY <1>2, <2>4, <2>5 DEF Printed
  <2> QED BY <2>1, <2>6
<1>3. CASE n = Items + 1 /\ text' = <<>> /\ Behind(n)'
  <2> DEFINE none == <<>>
  <2>1. IsSeq(none) /\ p \o none = p
    BY EmptyIsSeq, ConcatIsSeq
  <2>2. text' = none /\ (Upto(Call, n - 1))' = p
    BY <1>1, <1>3
  <2> HIDE DEF none
  <2>3. Printed(n, p)'
    BY <1>3, <2>1, <2>2 DEF Printed
  <2> QED BY <2>3
<1> QED BY <1>2, <1>3

LEMMA ParsedHere ==
  ASSUME NEW i, ItemTyped(i), NEW q, q \in Nat, q <= Len(Call.format) + 1,
         pos \in Nat, pos >= 1, Len(Call.format) \in Nat, Spells(Call.format, i, pos, q)
  PROVE  \E conv \in Nat :
           /\ q = conv + Len(i.conv)
           /\ Parsed(pos) = [flags |-> i.flags, width |-> i.width, conv |-> conv]
           /\ At(conv) = i.conv[1]
           /\ Len(i.conv) > 1 => At(conv + 1) = i.conv[2]
           /\ Len(i.conv) > 2 => At(conv + 2) = i.conv[3]
<1>1. PICK x \in Nat : x = pos
  OBVIOUS
<1>2. x >= 1 /\ Spells(Call.format, i, x, q)
  BY <1>1
<1>3. \E conv \in Nat :
        /\ q = conv + Len(i.conv)
        /\ Parsed(x) = [flags |-> i.flags, width |-> i.width, conv |-> conv]
        /\ At(conv) = i.conv[1]
        /\ Len(i.conv) > 1 => At(conv + 1) = i.conv[2]
        /\ Len(i.conv) > 2 => At(conv + 2) = i.conv[3]
  BY <1>2, ParsedIs
<1> QED BY <1>1, <1>3

LEMMA ConvertItem ==
  ASSUME CInv, Call.fn \in PrintFns, Clean(Call), done + 1 \in DOMAIN boot.calls,
         NEW n \in 1 .. Items, Place(n), NEW i, i = Call.items[n], i.conv # <<>>,
         ItemTyped(i), Spells(Call.format, i, pos, Call.at[n + 1]),
         pos \in 1 .. Len(Call.format), Call.at[n + 1] \in 1 .. Len(Call.format) + 1,
         Call.slots[n] \in 1 .. Len(Call.args), Call.args[Call.slots[n]] = i.val
  PROVE  \E bytes \in {0, 4, 8} :
           /\ bytes = 4 <=> IsInt(i)
           /\ Directive(Parsed(pos)) = Effect(Standard(i), Call.at[n + 1], 1, bytes)
<1>1. Len(Call.format) \in Nat /\ Len(Call.args) \in Nat /\ boot \in Boots /\ Items \in Nat
  BY CallIs DEF CInv
<1> DEFINE q == Call.at[n + 1]
           s == Parsed(pos)
<1>2. pos \in Nat /\ pos >= 1 /\ q \in Nat /\ q <= Len(Call.format) + 1
  BY <1>1
<1>3. \E conv \in Nat :
        /\ q = conv + Len(i.conv)
        /\ s = [flags |-> i.flags, width |-> i.width, conv |-> conv]
        /\ At(conv) = i.conv[1]
        /\ Len(i.conv) > 1 => At(conv + 1) = i.conv[2]
        /\ Len(i.conv) > 2 => At(conv + 2) = i.conv[3]
  <2>1. Spells(Call.format, i, pos, q)
    OBVIOUS
  <2> HIDE DEF q
  <2> QED BY <1>1, <1>2, <2>1, ParsedHere
<1> HIDE DEF s
<1>4. PICK conv \in Nat :
        /\ q = conv + Len(i.conv)
        /\ s = [flags |-> i.flags, width |-> i.width, conv |-> conv]
        /\ At(conv) = i.conv[1]
        /\ Len(i.conv) > 1 => At(conv + 1) = i.conv[2]
        /\ Len(i.conv) > 2 => At(conv + 2) = i.conv[3]
  BY <1>3
<1>5. s.flags = i.flags /\ s.width = i.width /\ s.conv = conv
  BY <1>4
<1>6. PlainItem(i) /\ (IsLongLong(i) => Ints(Call, n) % 2 = 0)
  BY PlainIs DEF Clean
<1>7. IsLongLong(i) => acnt % 8 = 0
  <2> SUFFICES ASSUME IsLongLong(i) PROVE acnt % 8 = 0
    OBVIOUS
  <2>1. ~IsInt(i)
    <3>1. Len(i.conv) = 3
      BY DEF IsLongLong
    <3>2. ASSUME NEW x, i.conv = <<x>> PROVE FALSE
      BY <3>1, <3>2
    <3> QED BY <3>2 DEF IsInt
  <2> DEFINE m == n - 1
  <2>2. m \in Nat /\ m + 1 = n
    BY <1>1
  <2> HIDE DEF m
  <2>3. Ints(Call, m + 1) = Ints(Call, m) + (IF IsInt(Call.items[m + 1]) THEN 1 ELSE 0)
        /\ Ints(Call, m) \in Nat
    BY <2>2, IntsMore
  <2>4. Ints(Call, n) = Ints(Call, m)
    BY <2>1, <2>2, <2>3
  <2>5. acnt % 8 = 4 * (Ints(Call, m) % 2)
    BY DEF Place, m
  <2> QED BY <1>6, <2>4, <2>5
<1>8. arg \in Nat /\ Slot(arg) = i.val
  BY <1>1 DEF Place, Slot
<1>9. \E bytes \in {0, 4, 8} :
        /\ bytes = 4 <=> IsInt(i)
        /\ Directive(s) = Effect(Standard(i), s.conv + Len(i.conv), 1, bytes)
  <2>1. /\ s.conv \in Nat /\ At(s.conv) = i.conv[1]
        /\ Len(i.conv) > 1 => At(s.conv + 1) = i.conv[2]
        /\ Len(i.conv) > 2 => At(s.conv + 2) = i.conv[3]
    BY <1>4, <1>5
  <2> QED BY <1>5, <1>6, <1>7, <1>8, <2>1, DirectiveIs
<1> QED BY <1>4, <1>5, <1>9 DEF s

(* acnt counts ints in halves of a slot. *)
LEMMA AcntMore ==
  ASSUME NEW n \in 1 .. Items, Items \in Nat, acnt \in Nat,
         acnt % 8 = 4 * (Ints(Call, n - 1) % 2), NEW bytes \in {0, 4, 8},
         bytes = 4 <=> IsInt(Call.items[n])
  PROVE  (acnt + bytes) % 8 = 4 * (Ints(Call, n) % 2) /\ acnt + bytes \in Nat
<1> DEFINE m == n - 1
           a == Ints(Call, m)
           b == Ints(Call, n)
<1>1. m \in Nat /\ m + 1 = n
  OBVIOUS
<1>2. a \in Nat /\ b = a + (IF IsInt(Call.items[n]) THEN 1 ELSE 0)
  <2> HIDE DEF m
  <2>1. Ints(Call, m) \in Nat
    BY <1>1, IntsMore
  <2>2. Ints(Call, m + 1) = Ints(Call, m) + (IF IsInt(Call.items[m + 1]) THEN 1 ELSE 0)
    BY <1>1, IntsMore
  <2> QED BY <1>1, <2>1, <2>2
<1>3. acnt % 8 = 4 * (a % 2)
  OBVIOUS
<1> HIDE DEF m, a, b
<1>4. CASE bytes = 4
  BY <1>2, <1>3, <1>4 DEF b
<1>5. CASE bytes \in {0, 8}
  BY <1>2, <1>3, <1>5 DEF b
<1> QED BY <1>4, <1>5

(* The place behind an item, once print has taken it. *)
LEMMA PlaceMore ==
  ASSUME NEW n \in 1 .. Items, Items \in Nat, Place(n), NEW bytes \in {0, 4, 8},
         bytes = 4 <=> IsInt(Call.items[n]), UNCHANGED <<boot, done>>,
         pos' = Call.at[n + 1], arg' = Call.slots[n + 1], acnt' = acnt + bytes
  PROVE  Place(n + 1)'
<1>1. /\ Call' = Call /\ Items' = Items /\ \A k : (Ints(Call, k))' = Ints(Call, k)
  BY NowKept
<1>2. acnt \in Nat /\ acnt % 8 = 4 * (Ints(Call, n - 1) % 2)
  BY DEF Place
<1>3. (acnt + bytes) % 8 = 4 * (Ints(Call, n) % 2) /\ acnt + bytes \in Nat
  BY <1>2, AcntMore
<1>4. n + 1 \in 1 .. Items + 1 /\ (n + 1) - 1 = n
  OBVIOUS
<1>5. (Ints(Call, (n + 1) - 1))' = Ints(Call, n)
  BY <1>1, <1>4
<1> QED BY <1>1, <1>3, <1>4, <1>5 DEF Place

LEMMA ItemStep ==
  ASSUME CInv, Call.fn \in PrintFns, Clean(Call), done + 1 \in DOMAIN boot.calls,
         NEW n \in Nat, Place(n) \/ Behind(n), text = <<>>,
         Literal \/ Convert \/ Break
  PROVE  \/ n \in 1 .. Items /\ text' = Standard(Call.items[n]) /\ Place(n + 1)'
         \/ n = Items + 1 /\ text' = <<>> /\ Behind(n)'
<1>1. /\ boot \in Boots /\ Items \in Nat /\ Len(Call.format) \in Nat
      /\ UNCHANGED <<boot, done>> /\ At(pos) # NUL
  BY CallIs DEF CInv, Literal, Convert, Break, Turn
<1>2. Call' = Call /\ Items' = Items
  BY <1>1, NowKept
<1>3. Place(n)
  <2>1. ASSUME Behind(n) PROVE FALSE
    BY <1>1, <2>1 DEF Behind, At
  <2> QED BY <2>1
<1>4. n \in 1 .. Items + 1 /\ pos = Call.at[n] /\ arg = Call.slots[n] /\ acnt \in Nat
  BY <1>3 DEF Place
<1>5. CASE n \in 1 .. Items
  <2> DEFINE i == Call.items[n]
             q == Call.at[n + 1]
  <2>1. /\ pos \in 1 .. Len(Call.format) /\ q \in 1 .. Len(Call.format) + 1
        /\ \/ /\ i.conv = <<>> /\ At(pos) = i.val /\ Call.slots[n + 1] = Call.slots[n]
              /\ At(pos) = "%" => At(pos + 1) = "%" /\ q = pos + 2
              /\ At(pos) # "%" => q = pos + 1
           \/ /\ ItemTyped(i) /\ i.conv # <<>>
              /\ At(pos) = "%" /\ At(pos + 1) \notin {"%", NUL}
              /\ Spells(Call.format, i, pos, q)
              /\ Call.slots[n] \in 1 .. Len(Call.args) /\ Call.args[Call.slots[n]] = i.val
              /\ Call.slots[n + 1] = Call.slots[n] + 1
    BY <1>1, <1>4, <1>5, AtItem
  <2>2. CASE i.conv = <<>>
    <3>1. /\ At(pos) = i.val /\ Call.slots[n + 1] = arg
          /\ At(pos) = "%" => At(pos + 1) = "%" /\ q = pos + 2
          /\ At(pos) # "%" => q = pos + 1
      BY <1>4, <2>1, <2>2
    <3>2. Literal
      BY <1>1, <3>1 DEF Convert, Break, NUL
    <3>3. pos' = q /\ text' = <<i.val>> /\ arg' = arg /\ acnt' = acnt
      BY <3>1, <3>2 DEF Literal
    <3>4. text' = Standard(i)
      BY <2>2, <3>3 DEF Standard
    <3>5. ~IsInt(i)
      BY <2>2 DEF IsInt
    <3>6. Place(n + 1)'
      <4>1. 0 \in {0, 4, 8} /\ (0 = 4 <=> IsInt(i)) /\ acnt' = acnt + 0
        BY <1>4, <3>3, <3>5
      <4> QED BY <1>1, <1>3, <1>5, <3>1, <3>3, <4>1, PlaceMore
    <3> QED BY <1>5, <3>4, <3>6
  <2>3. CASE i.conv # <<>>
    <3>1. /\ ItemTyped(i) /\ At(pos) = "%" /\ At(pos + 1) \notin {"%", NUL}
          /\ Spells(Call.format, i, pos, q)
          /\ Call.slots[n] \in 1 .. Len(Call.args) /\ Call.args[Call.slots[n]] = i.val
          /\ Call.slots[n + 1] = arg + 1
      BY <1>4, <2>1, <2>3
    <3>2. Convert
      BY <3>1 DEF Literal, Break
    <3>3. PICK bytes \in {0, 4, 8} :
            /\ bytes = 4 <=> IsInt(i)
            /\ Directive(Parsed(pos)) = Effect(Standard(i), q, 1, bytes)
      <4>1. PICK j : j = i
        OBVIOUS
      <4>2. /\ j = Call.items[n] /\ j.conv # <<>> /\ ItemTyped(j)
            /\ Spells(Call.format, j, pos, Call.at[n + 1]) /\ Call.args[Call.slots[n]] = j.val
        BY <2>3, <3>1, <4>1
      <4>3. \E bytes \in {0, 4, 8} :
              /\ bytes = 4 <=> IsInt(j)
              /\ Directive(Parsed(pos)) = Effect(Standard(j), Call.at[n + 1], 1, bytes)
        BY <1>3, <1>5, <2>1, <3>1, <4>2, ConvertItem
      <4> QED BY <4>1, <4>3
    <3>4. text' = Standard(i) /\ pos' = q /\ arg' = arg + 1 /\ acnt' = acnt + bytes
      BY <3>2, <3>3 DEF Convert, Effect
    <3>5. Place(n + 1)'
      BY <1>1, <1>3, <1>5, <3>1, <3>3, <3>4, PlaceMore
    <3> QED BY <1>5, <3>4, <3>5
  <2> QED BY <2>2, <2>3
<1>6. CASE n = Items + 1
  <2>1. /\ pos \in 1 .. Len(Call.format) + 1
        /\ \/ pos = Len(Call.format) /\ At(pos) = "%" /\ At(pos + 1) = NUL
           \/ /\ pos + 2 = Len(Call.format) + 1 /\ At(pos) = "%" /\ At(pos + 1) \notin {"%", NUL}
              /\ Directive(Parsed(pos)) = Effect(<<>>, pos + 2, 0, 0)
    BY <1>1, <1>4, <1>6, AtEnd
  <2>2. CASE pos = Len(Call.format) /\ At(pos) = "%" /\ At(pos + 1) = NUL
    <3>1. Break
      BY <2>2 DEF Literal, Convert, NUL
    <3>2. pos' = Len(Call.format) + 1 /\ text' = <<>>
      BY <2>2, <3>1 DEF Break
    <3> QED BY <1>2, <1>6, <3>2 DEF Behind
  <2>3. CASE /\ pos + 2 = Len(Call.format) + 1 /\ At(pos) = "%" /\ At(pos + 1) \notin {"%", NUL}
             /\ Directive(Parsed(pos)) = Effect(<<>>, pos + 2, 0, 0)
    <3>1. Convert
      BY <2>3 DEF Literal, Break
    <3>2. text' = <<>> /\ pos' = pos + 2
      BY <2>3, <3>1 DEF Convert, Effect
    <3> QED BY <1>2, <1>6, <2>3, <3>2 DEF Behind
  <2> QED BY <2>1, <2>2, <2>3
<1> QED BY <1>1, <1>4, <1>5, <1>6

LEMMA HeldKept ==
  ASSUME UNCHANGED <<boot, done, mem, out, out_len>>
  PROVE  \A p : Held(p)' = Held(p)
<1>1. room' = room /\ Bounded' = Bounded
  BY NowKept
<1>2. \A k : Fit(k)' = Fit(k)
  BY <1>1 DEF Fit
<1> QED BY <1>1, <1>2 DEF Held

(* A turn of print takes the next item, or what follows the last. *)
LEMMA FItem ==
  ASSUME CInv, FInv, Literal \/ Convert \/ Break
  PROVE  FInv'
<1>1. /\ UNCHANGED <<boot, done, pc, count, mem, out, out_len>>
      /\ pc = "print" /\ text = <<>> /\ Call.fn \in PrintFns
      /\ boot \in Boots /\ done + 1 \in DOMAIN boot.calls
  BY DEF FInv, CInv, Literal, Convert, Break, Turn
<1>2. /\ Call' = Call /\ (Clean(Call))' = Clean(Call)
      /\ \A p : Held(p)' = Held(p)
  BY <1>1, NowKept, HeldKept
<1>3. ASSUME Clean(Call) PROVE \E n, p : n \in Nat /\ Printed(n, p)' /\ Held(p)'
  <2>1. PICK n, p : n \in Nat /\ Printed(n, p) /\ Held(p)
    BY <1>1, <1>3 DEF FInv
  <2>2. /\ Place(n) \/ Behind(n)
        /\ IsSeq(p) /\ p \o text = Upto(Call, n - 1) /\ count = Len(p)
    BY <2>1 DEF Printed
  <2>3. p = Upto(Call, n - 1)
    <3>1. p \o <<>> = p
      BY <2>2, EmptyIsSeq, ConcatIsSeq
    <3> QED BY <1>1, <2>2, <3>1
  <2>4. \/ n \in 1 .. Items /\ text' = Standard(Call.items[n]) /\ Place(n + 1)'
        \/ n = Items + 1 /\ text' = <<>> /\ Behind(n)'
    BY <1>1, <2>1, <1>3, <2>2, ItemStep
  <2>5. Items \in Nat /\ \A k \in 1 .. Items : IsSeq(Standard(Call.items[k]))
    BY <1>1, CallIs, ItemIs
  <2>6. n \in 1 .. Items => \A k \in 1 .. n : IsSeq(Standard(Call.items[k]))
    BY <2>5
  <2>7. \E m \in Nat : Printed(m, p)'
    <3>1. \/ /\ n \in 1 .. Items /\ IsSeq(Standard(Call.items[n]))
             /\ \A k \in 1 .. n : IsSeq(Standard(Call.items[k]))
             /\ text' = Standard(Call.items[n]) /\ Place(n + 1)'
          \/ n = Items + 1 /\ text' = <<>> /\ Behind(n)'
      BY <2>4, <2>5, <2>6
    <3> QED BY <1>1, <2>1, <2>2, <2>3, <2>5, <3>1, NextText
  <2> QED BY <1>2, <2>1, <2>7
<1> QED BY <1>1, <1>2, <1>3 DEF FInv

(* A text with room for it never fills tbuf. *)
LEMMA NeverFull ==
  ASSUME CInv, FInv, Clean(Call), pc = "print", use_tbuf
  PROVE  out_len # 0
<1>1. /\ boot \in Boots /\ done + 1 \in DOMAIN boot.calls /\ Call.fn \in PrintFns /\ Bounded
      /\ room = PRINT_TBUF_MAX /\ PRINT_TBUF_MAX \in Nat /\ PRINT_TBUF_MAX > 1
  BY RoomIsNat DEF CInv, FInv, use_tbuf, Bounded
<1>2. PICK n, p : n \in Nat /\ Printed(n, p) /\ Held(p)
  BY DEF FInv
<1>3. IsSeq(p) /\ IsSeq(text) /\ p \o text = Upto(Call, n - 1) /\ n \in 1 .. Items + 1
  BY <1>1, <1>2, CallIs DEF Printed, Place, Behind
<1>4. Items \in Nat /\ \A k \in 1 .. Items : IsSeq(Standard(Call.items[k]))
  BY <1>1, CallIs, ItemIs
<1> DEFINE m == n - 1
           t == Text(Call)
<1>5. m \in 0 .. Items
  BY <1>3, <1>4
<1>6. t = Upto(Call, Items)
  BY TextIs
<1>7. p \o text = Upto(Call, m)
  BY <1>3
<1>8. Len(t) < PRINT_TBUF_MAX
  BY DEF Clean, Short, use_tbuf
<1> HIDE DEF m, t
<1>9. IsSeq(Upto(Call, m)) /\ Len(Upto(Call, m)) <= Len(t) /\ IsSeq(t)
  <2>1. PICK N \in Nat : N = Items
    BY <1>4
  <2>2. \A k \in 1 .. N : IsSeq(Standard(Call.items[k]))
    BY <1>4, <2>1
  <2>3. \A k \in 0 .. N : IsSeq(Upto(Call, k)) /\ Len(Upto(Call, k)) <= Len(Upto(Call, N))
    BY <2>2, UptoGrows
  <2>4. N \in 0 .. N /\ m \in 0 .. N
    BY <1>5, <2>1
  <2> QED BY <1>6, <2>1, <2>3, <2>4
<1>10. Len(p \o text) = Len(p) + Len(text)
  BY <1>3, ConcatAt
<1>11. Len(p) \in Nat /\ Len(text) \in Nat /\ Len(t) \in Nat /\ Len(Upto(Call, m)) \in Nat
  BY <1>3, <1>9, SeqIs
<1>12. Len(p) < PRINT_TBUF_MAX
  BY <1>1, <1>7, <1>8, <1>9, <1>10, <1>11
<1>13. out_len = IF Len(p) >= room THEN 0 ELSE room - Len(p)
  BY <1>1, <1>2 DEF Held
<1> QED BY <1>1, <1>11, <1>12, <1>13

(* At the end of the format all the text was given to printc. *)
LEMMA AllPrinted ==
  ASSUME CInv, FInv, Clean(Call), pc = "print", text = <<>>, At(pos) = NUL
  PROVE  /\ count = Len(Text(Call)) /\ Held(Text(Call)) /\ IsSeq(Text(Call))
<1>1. boot \in Boots /\ done + 1 \in DOMAIN boot.calls /\ Call.fn \in PrintFns
  BY DEF CInv, FInv
<1>2. PICK n, p : n \in Nat /\ Printed(n, p) /\ Held(p)
  BY DEF FInv
<1>3. /\ IsSeq(p) /\ p \o text = Upto(Call, n - 1) /\ count = Len(p)
      /\ Place(n) \/ Behind(n)
  BY <1>2 DEF Printed
<1>4. Items \in Nat /\ \A k \in 1 .. Items : IsSeq(Standard(Call.items[k]))
  BY <1>1, CallIs, ItemIs
<1>5. n = Items + 1
  <2>1. CASE Place(n)
    <3>1. n \in 1 .. Items + 1 /\ pos = Call.at[n]
      BY <2>1 DEF Place
    <3>2. ASSUME n \in 1 .. Items PROVE FALSE
      <4>1. At(pos) # NUL
        BY <1>1, <3>1, <3>2, AtItem
      <4> QED BY <4>1
    <3> QED BY <1>4, <3>1, <3>2
  <2>2. CASE Behind(n)
    BY <2>2 DEF Behind
  <2> QED BY <1>3, <2>1, <2>2
<1>6. n - 1 = Items
  BY <1>4, <1>5
<1>7. p \o <<>> = p
  BY <1>3, EmptyIsSeq, ConcatIsSeq
<1>8. p = Text(Call)
  BY <1>3, <1>6, <1>7, TextIs
<1> QED BY <1>2, <1>3, <1>8

LEMMA FInvInit == Init => FInv
BY DEF Init, FInv

LEMMA FInvNext ==
  ASSUME CInv, FInv, [Next]_vars
  PROVE  FInv'
<1>1. CASE CallPrint
  BY <1>1, FCallPrint
<1>2. CASE Printc
  BY <1>2, FPrintc
<1>3. CASE Literal \/ Convert \/ Break
  BY <1>3, FItem
<1>4. CASE Flush
  <2>1. /\ UNCHANGED <<boot, done>> /\ pc = "print" /\ use_tbuf /\ out_len = 0 /\ pc' = "nputs"
    BY <1>4 DEF Flush
  <2>2. Call' = Call /\ (Clean(Call))' = Clean(Call)
    BY <2>1, NowKept
  <2>3. ~Clean(Call)
    BY <2>1, NeverFull
  <2> QED BY <2>1, <2>2, <2>3 DEF FInv, use_tbuf
<1>5. CASE End
  <2>1. /\ UNCHANGED <<boot, done, pos, count, mem, out, out_len>>
        /\ pc = "print" /\ text = <<>> /\ At(pos) = NUL
        /\ (pc' = "nputs" /\ use_tbuf) \/ pc' = "return"
    BY <1>5 DEF End, printVars
  <2>2. /\ Call' = Call /\ (Clean(Call))' = Clean(Call) /\ use_tbuf' = use_tbuf
        /\ (Text(Call))' = Text(Call) /\ At(pos)' = At(pos) /\ \A p : Held(p)' = Held(p)
    BY <2>1, NowKept, HeldKept
  <2>3. Clean(Call) => count = Len(Text(Call)) /\ Held(Text(Call))
    BY <2>1, AllPrinted
  <2>4. (Held(Text(Call)))' = Held(Text(Call))
    BY <2>2
  <2> QED BY <2>1, <2>2, <2>3, <2>4 DEF FInv, use_tbuf
<1>6. CASE CallPuts \/ CallPutc
  <2>1. /\ UNCHANGED <<boot, done>> /\ Call.fn \in {"puts", "putc"} /\ pc' \in {"nputs", "putc"}
    BY <1>6 DEF CallPuts, CallPutc
  <2>2. Call' = Call /\ use_tbuf' = use_tbuf
    BY <2>1, NowKept
  <2> QED BY <2>1, <2>2 DEF FInv, use_tbuf
<1>7. CASE NputsWhole \/ Nputs \/ PutcCr \/ Putc \/ PutcNone \/ PutcReturn
  <2>1. /\ UNCHANGED <<boot, done, pos>> /\ pc \in {"nputs", "putc", "putc_ch"}
        /\ \/ pc' \in {"putc", "putc_ch", "return"}
           \/ pc' = "print" /\ use_tbuf /\ At(pos) # NUL
    BY <1>7 DEF NputsWhole, Nputs, PutcCr, Putc, PutcNone, PutcReturn, printVars
  <2>2. /\ Call' = Call /\ (Clean(Call))' = Clean(Call) /\ use_tbuf' = use_tbuf
        /\ At(pos)' = At(pos)
    BY <2>1, NowKept
  <2> QED BY <2>1, <2>2 DEF FInv, use_tbuf, PrintFns
<1>8. CASE Return
  <2>1. CASE pc' = "hang" /\ done' = done /\ Call.fn = "panic"
    <3>1. UNCHANGED <<boot, done>>
      BY <1>8, <2>1 DEF Return
    <3>2. Call' = Call
      BY <3>1, NowKept
    <3> QED BY <2>1, <3>2 DEF FInv
  <2>2. CASE pc' = "idle"
    BY <2>2 DEF FInv
  <2> QED BY <1>8, <2>1, <2>2 DEF Return
<1>9. CASE \/ UartPoll \/ UartStore \/ CadencePoll \/ CadenceStore
           \/ SetTohost \/ CheckFromhost \/ ClearFromhost \/ WriteTohost \/ Wait
           \/ PutsChar \/ PutsWrite \/ PutsReturn \/ Device
  <2>1. UNCHANGED consoleVars
    BY <1>9 DEF UartPoll, UartStore, CadencePoll, CadenceStore, SetTohost, CheckFromhost,
                ClearFromhost, WriteTohost, Wait, PutsChar, PutsWrite, PutsReturn,
                Device, UartDrain, CadenceDrain, HostTake
  <2> QED BY <2>1, FKept DEF consoleVars, printNow
<1>10. CASE UNCHANGED vars
  BY <1>10, FKept DEF vars, printNow
<1> QED BY <1>1, <1>2, <1>3, <1>4, <1>5, <1>6, <1>7, <1>8, <1>9, <1>10 DEF Next, Hart

LEMMA FInvAlways == Spec => []FInv
<1>1. Init => FInv
  BY FInvInit
<1>2. CInv /\ FInv /\ [Next]_vars => FInv'
  BY FInvNext
<1> QED BY <1>1, <1>2, CInvAlways, PTL DEF Spec

(* sprintf and snprintf return the length of what C's printf makes of the   *)
(* same format and arguments, and leave of it what there is room for, with  *)
(* the terminator behind it if that is a character or more: for every       *)
(* format of directives that are C's, every value of every argument and     *)
(* every size of the buffer.                                                *)
THEOREM StringsFormatted == Spec => []TextFormatted
<1>1. FInv => TextFormatted
  <2> SUFFICES ASSUME FInv, pc = "return", Call.fn \in {"sprintf", "snprintf"}, Plain(Call)
               PROVE  LET t == Text(Call)
                          fit == IF Bounded /\ Len(t) >= room THEN room - 1 ELSE Len(t)
                      IN /\ count = Len(t)
                         /\ fit > 0 => mem[fit] = NUL /\ \A n \in 1 .. fit : mem[n - 1] = t[n]
    BY DEF TextFormatted
  <2>1. Clean(Call)
    BY DEF Clean, Short
  <2>2. count = Len(Text(Call)) /\ Held(Text(Call))
    BY <2>1 DEF FInv
  <2> QED BY <2>2 DEF Held, Fit
<1> QED BY <1>1, FInvAlways, PTL
=============================================================================
