# zStage in TLA+

zStage is a zero-stage loader for RISC-V: an earlier stage (a ROM, a debugger,
QEMU) loads one image anywhere in RAM and lets all harts jump to its first word.
zStage moves itself to the address it was linked for, finds a console, copies
blobs, the device tree and the next booting stage to their places, and sends all
harts there. This directory holds models of that program, the TLC runs that check
them, and proofs for TLAPS.

## Inventory

| Component | Code | State | Operations |
| --- | --- | --- | --- |
| Boot path | `firmware/head.S`, `firmware/zstage.elf.ldS` | the image in RAM (lottery, load address, boot argument, status, spin word), the registers of each hart | the lottery, the overlap checks, the two copy loops, the wait loop, clearing `.bss`, the spin loop, the jump |
| `zstage_main` and the generic platform | `firmware/main.c`, `platform/generic/platform.c` | blobs, device tree and payload in RAM | header check, console, blob loop, tree copy, payload copy, hang on error |
| Memory order | the fences of `head.S` | stores not yet seen by other harts | store, fence, poll |
| Serial probe | `firmware/serial/fdt_serial*.c`, `platform_stdio_init` | the current driver, the bases of the UARTs, the HTIF mailbox, the console device | semihosting first, then `stdout-path`, then every driver |
| FDT helper | `firmware/fdt/fdt_helper.c` | none | match, find, `reg` through `ranges`, UART properties |
| Console | `firmware/console.c` | the console device, the line buffer of `printf` | `putc`, `nputs`, `print`, `snprintf`, `panic` |
| UART drivers | `serial/uart8250.c`, `serial/cadence-uart.c` | base, clock, speed, register layout | set-up, polled transmit |
| HTIF | `serial/htif.c` | the mailbox addresses | `tohost` / `fromhost` handshake |
| Semihosting | `serial/semihosting.c` | whether a debugger answers, the output handle | test, open, write |
| C library subset | `firmware/string.c` | none | copy, compare, search |
| libfdt | `firmware/libfdt/` | a blob: header, reserve map, structure block, strings block; the buffer it lies in | read and search, change in place or by splices, write from nothing, move, pack, check |
| Build | `Makefile`, `objects.mk`, `scripts/` | none | link addresses, blobs, `ZSTAGE_NO_SPIN` |

How they interact: the harts share RAM and nothing else. `head.S` calls
`zstage_main` on the hart that won the lottery; the others poll a status word of
the copy that was loaded, then a spin word of the copy that was linked. The boot
hart calls the probe, which reads the device tree through the FDT helper,
initialises one driver and registers one console device; everything printed
afterwards goes through that device. Probe and FDT helper only read the tree;
the half of libfdt that writes is linked in and has no caller in the generic platform.
The next stage is external: with `ZSTAGE_NO_SPIN` zStage releases the other harts itself, without it the next stage
writes the spin word.

What is hard here: harts that are at any label while another copies code over the
label; copies whose source and destination overlap; stores that become visible in
another order; a stop half way, after which nobody may go on; failures of an
address translation that are reported as success; loops that wait for a device or
for another hart; lengths that are counted in two places at once (`tbuf`,
the blocks of a blob); buffers that overlap; calls that fail after a part of their
work. `hazards` in `PROJECT.json` lists them line by line, with the
properties that would catch each.

What makes each component correct:

- *boot path*: one hart boots; nobody executes a word that is not the code it was
  sent to; nobody runs the linked copy before all of it is there; nobody enters the
  next stage before everything is in its place; a hang releases nobody; everybody
  arrives.
- *memory order*: a hart that has seen the status sees the image, a hart that has
  followed the spin word sees the payload.
- *probe and FDT helper*: the registered console belongs to the driver that was
  taken, at the address the tree says it has; `stdout-path` wins; no tree hangs
  the boot.
- *console*: no buffer is overrun and no stale byte sent; the text is the one C's
  `printf` would make, as long as there is room.
- *drivers, HTIF, semihosting*: what is printed arrives, once and in order; a device
  that keeps draining is never waited for for ever.
- *C library subset*: each function returns what its C definition says.
- *libfdt*: a call changes the tree as promised or not at all, inside its buffer, and
  leaves a blob that passes `fdt_check_full` and in which every search finds what is
  there.

## Modules

| Module | What it is |
| --- | --- |
| `Head` | `head.S` on all harts with the memory effects of `zstage_main` |
| `BootPromise` | the abstract specification `Head` implements |
| `MCHead` | small machines for `Head` |
| `HeadProofs` | theorems about `Head`: types, the lottery, and the code the harts execute |
| `HandoffProofs` | theorems about `Head`: what is in place at the jump, and a hang |
| `PromiseProofs` | the theorem that `Head` implements `BootPromise` |
| `HeadOrder` | the same hand-over with a store buffer |
| `HeadOrderProofs` | theorems about `HeadOrder` |
| `SerialProbe` | `platform_stdio_init`, `fdt_serial_init`, the drivers' init functions, the FDT helper on a tree of records |
| `MCSerialProbe` | small device trees for `SerialProbe` |
| `SerialProbeProofs` | theorems about `SerialProbe` |
| `Induction` | lemmas about numbers, finite sets, recursions, sums and sequences, for the proofs |
| `CString` | `string.c`, function by function |
| `FdtMem` | the blob as bytes: loads and stores, header, tags, the walk over them (`fdt.c`, `fdt.h`, `libfdt.h`) |
| `FdtRo` | reading and searching (`fdt_ro.c`, `fdt_addresses.c`, `fdt_check.c`) |
| `FdtRw` | changing a finished tree (`fdt_rw.c`, `fdt_wip.c`, `fdt_addresses.c`) |
| `FdtSw` | writing a tree, moving and packing it (`fdt_sw.c`, `fdt_empty_tree.c`, the end of `fdt_rw.c`) |
| `FdtHelper` | `fdt_helper.c` on the bytes of a blob |
| `FdtTree` | the abstract tree libfdt implements |
| `Fdt` | a program that calls libfdt, and the properties of what it gets |
| `MCFdt` | small trees, byte by byte, for `Fdt` |
| `Uart8250`, `CadenceUart`, `Htif`, `Semihosting` | a driver each, with its device |
| `Wire` | the abstract console device all four implement |
| `Console` | `console.c` above the four drivers |
| `MCConsole` | formats, sizes and scripts of calls for `Console` |
| `ConsoleProofs` | theorems about `Console`: buffers, digits and text |
| `WireProofs` | theorems that `Console` and the drivers implement `Wire`, and that the device is asked for the texts of the calls |

`Fdt` extends `FdtSw` and `FdtHelper`, which extend `FdtRw` and `FdtRo`, `FdtMem` and
`CString`; it instantiates `FdtTree`, which it implements, and `SerialProbe`, with
which it compares `FdtHelper`. `Console` instantiates the four drivers and `Wire`.

### Head

A label of `head.S` is a value of `pc`, and the code from a label to the next
one is an action of that name. Memory is a function from word addresses to
integers. The image has one word for each thing `head.S` names: `_start`, the
header fields, the spin word, four stretches of code, the C code, the `.data`
words; then `.bss`, the payload, the blobs. One word stands for a stretch of code:
a hart can take a step only if the word it executes (`CodeOf`) still holds its
value in the copy it executes (`base`), and is `lost` otherwise (`Derail`). So a
copy over running code does in the model what it does in the machine. Copies go
word by word, in the direction of the loop, with other harts in between. Every
address the code reads from the header or from `.data` is read from memory in the
model too, in the copy the instruction addresses: the status word is found by the
same sum (run address, load address, offset) as at `head.S:180-188`.

`zstage_main` is its five steps with an effect on memory: check, blobs, tree,
payload, final hook. What the console and the platform hooks return is free, so
every error path is taken. `reg` holds the registers of the copy loops and of the
calls. `NextStageReleases` is the next stage, and is external.

Abstracted: sequential consistency (see `HeadOrder`), instruction fetch without
caches, addresses without a width, words for instruction stretches, the device
tree as a magic and a length.

### BootPromise

Each hart is in zStage, hung, or in the next stage; one hart is elected; things
are placed; the others are released; entering needs placed things, and for all but
the elected hart a release; a hang is the elected hart's and excludes a release.
`Head!Promise` gives the mapping. `bootHart` is the set of harts at a label only
the winner can reach; `released` is a non-zero spin word once the boot hart is
past `_release_spin`, because before the copy that address holds anything.

### HeadOrder

Only the shape of the hand-over: the boot hart stores the image, the status, the
payload, the spin word, with the fences of `head.S:189` and `218` where they are.
A store goes to a buffer and drains in order (`InOrder`, Ztso) or in any order
that keeps the stores to one word apart (RVWMO). A fence waits for an empty
buffer. Under RVWMO a secondary may also perform the load of the spin word ahead
of the load of the status. A secondary that executes an image word it does not see
yet is lost.

### SerialProbe

A device tree is a sequence of nodes, in blob order, with parent, compatible
strings, whether its cells can be used, `ranges` and `reg`. One action is one turn
of a loop of `fdt_serial_init`; a driver's init function is one operator with its
return code, and `AfterInit` is what the caller makes of it. Where the code leaves
`*addr` as it was although it returns 0, the model takes what the caller had there:
any value for the uninitialised `reg_addr` of `fdt_parse_uart_node`, 0 or the word
behind `fromhost` for HTIF. Addresses wrap at `Top`.

Abstracted: entries of `reg` and `ranges` are whole, and a `ranges` entry has as
many address cells on both sides. `HelperAgrees` (below) is the link from these
records to the bytes of a blob.

### libfdt: CString, FdtMem, FdtRo, FdtRw, FdtSw, FdtHelper

A blob is the sequence of its bytes, and each function of libfdt is an operator of
its name that takes the bytes and returns what the C function returns, with the new
bytes if it writes. A load outside the blob is an evaluation error, so that every run
of `Fdt` also shows that the code reads inside the buffer it was given. To keep blobs
short a 32-bit word has two bytes, and every size made of words is halved with it:
alignment, padding and the wrap of unsigned arithmetic stay, at 2^16 instead of 2^32;
`uint64_t`, which holds two words in C, has 28 bits, because that is what TLC can
add. Property names are single letters where the code only passes them on. A loop is the
set of its states and a function, `step`, on those in which it goes on (`Loop`), or the
first number at which its counter stops (`First`); the exits are in their order. Two
bounds are named: a loop over tags or nodes takes at most as many turns as the blob has
bytes (`Turns`; a tag is a word, so no walk over a sound blob is cut), and
`fdt_path_offset` follows `MaxAliases` = 3 aliases of aliases. The `_namelen` forms are
those of their callers with the length of the name.

`CString` has the loops of `string.c`, with its own quirks: `strnlen` stops half way
to its bound, `strcpy` and `strncpy` write no terminator. The libfdt modules call
`strnlen` as it is; for the other functions they use a slice or an update of the
sequence, and `LibraryAgrees` shows that these are what `string.c` computes.

### FdtTree and Fdt

`FdtTree` knows no bytes: a tree is a function from paths to properties, with a stage
(being written or finished), the cursor of the writer and the reserve map. For each
call it gives the outcomes allowed: the change, or an error that changes nothing.
`Fdt` is one action for each call, on the blob in a memory with guard bytes around it.
`seen` is what a reader finds in the new blob, tag by tag, and is the refinement
mapping of `T == INSTANCE FdtTree`. The caller keeps to what `libfdt.h` asks
for (offsets of nodes, aligned buffers, unique names); it need not have room.

### Console, Wire and the drivers

`Console` has the format loop of `print` one directive at a time, `printc` one
character at a time with `out` and `*out_len`, and `nputs`/`putc` one character at a
time above one of four drivers or none. A driver's polling loop and its store are two
steps, and the device takes its steps in between. Only semihosting has a
`console_puts`, which `nputs` hands the whole text to. `Wire` is two sequences: what
the driver was asked to write and what came out; each device promises that the second
follows the first.

Abstracted: a char is a string of length one; integers have 16 (`int`) and 256
(`long`) values, a byte of the UART's divisor latch 4, and the wider types what
follows from these; where a register lies (`reg-shift`, `reg-io-width`) is left out.

What the model shows of `console.c` beside the properties, and the properties leave
out by name: a text that fills `tbuf` loses the character that fills it and sends a
NUL in its place (`Short`); `%ld` and `%lld` print a stray `d`, `%ll` after an odd
number of ints skips an argument on LP64, `%-0` pads with zeros on the right, and
zeros go before an `0x` prefix (`Plain`); `snprintf` with a size of 0 or 1 leaves no
NUL. Of the drivers: with 32 bits and a mailbox from the device tree HTIF awaits
its answer in the linked one, for ever (`Deaf`); a host that waits for its last answer
to be read keeps the last character of a message (`Kept`); a SYSWRITE that was
partial is not repeated (`cut`).

## Runs

| Run | Bounds | What it shows |
| --- | --- | --- |
| `head_safe` | 3 harts; image of 19 words linked at 30; loaded at 30, 8, 50, 16, 20, 32; both builds; good and bad tree | safety, liveness, and `BootPromise` |
| `head_overlap` | the same, loaded at 42, 45, 48 | overlaps the checks accept: harts may be lost, the boot hart is not, and nobody sees an incomplete next stage |
| `head_loser` (violated) | as `head_overlap` | a losing hart leaves its path |
| `head_reuse` (violated) | 2 harts; loaded at the next stage's address, payload of 9 words | a slow hart is overwritten |
| `order_tso` | 3 secondaries, 2 code words, 2 payload words | flags mean what they say where memory is in order |
| `order_rvwmo` | 2 secondaries, the same | what the two fences give on every machine |
| `order_flag` (violated) | as `order_rvwmo` | the status can be seen before the image |
| `probe` | about 16,000 trees, 4-bit addresses, with and without a debugger | address, priority and failure rules of the probe |
| `probe_address` (violated) | trees with a UART below its bus's range | an uninitialised address is used |
| `console` | `tbuf` of 6; one conversion with every flag and 3 widths, pairs and triples of conversions, buffer sizes 0 to 6, six scripts on each device; FIFO of 2 | buffers, text, order and loss on the wire, and that every call ends |
| `fdt` | memories of 90 to 180 bytes; 8 instances of 1 to 8 calls | libfdt implements `FdtTree`, stays in its buffer, and reads back what it wrote; `fdt_helper.c` sees the same tree |
| `fdt_strings` (violated) | one call, strings of 3 characters | `fdt_stringlist_count` counts too many strings |

Why the bounds are enough. A third hart lets one loser be ahead of the copy and
another behind it while the boot hart works. Each load address stands for a case
of the branch structure at `head.S:104-150`: 30 runs in place; 8 and 50 do not
overlap; 16 (below) overlaps only `.bss` and what follows, which is accepted; 20 and
32 overlap used words and are refused; 42, 45 and 48 overlap by up to seven words
from above, which `BRANGE` accepts although the header lies there. Two words are
the shortest `.bss` and payload whose loops run more than once. In `head_reuse`
the payload covers the code words of the load copy. Two image words and two
payload words are the fewest that can be seen in an order that was not theirs.
The trees have no range, an identity, shifts that wrap and that do not, ranges too
short, at the end of the address space and doubled, nested buses, unusable cells,
and each way `reg` can be missing, zero or doubled.

Widths and values of `console` are chosen on both sides of each comparison of
`prints` and `printi` (no width, less than, equal to and more than the text; zero,
positive, the most negative number). A `tbuf` of 6 is filled, and filled again, by
texts of one line; a FIFO of 2 can be full, half full and empty. The clocks and
speeds give divisors that are zero, that are cut to zero by the width of the latch,
and that are not.

The instances of `fdt`: a tree with a NOP before a property and room behind it, and
one of version 16 with its strings first and no size of the structure block, both
changed by up to three calls and copied into buffers that overlap them from below and
above or do not have the room; a tree written from nothing by up to eight calls, in
a buffer too small for most of them and in one with room, with a name that is the tail of
another; lists of strings and `/aliases`; a UART below a bus with `ranges`, in one
cell and in two, and the same with the cell counts changed, which is enough for
windows that are missing, zero, in and out of range, and phandle lists whose entries
do not fit. Three calls are enough to make a hole, fill it and pack. States are
compared by `Situation`, which leaves out `last`: no later step reads it.

Each property of a passing run has a mutant in `PROJECT.json`: a plausible bug in
a definition, with which TLC finds that property violated.

Deadlock is checked for `Head`, whose harts rest in `wfi` or in the next stage by
an explicit step. `HeadOrder`, `SerialProbe`, `Console` and `Fdt` end (a script of
calls, a bound on calls), so it is off there; that `Console` does not end early is
`CallsEnd`.

### Fairness

`Head!FairSpec` gives weak fairness to each hart separately: harts fetch
independently, and none waits for a lock another hart holds. Nothing is assumed of
the next stage, so `EveryHartJoins` is stated for `ZSTAGE_NO_SPIN`, where zStage
itself releases the others. `HeadOrder!FairSpec` adds that a store does not stay
invisible for ever. `Console!FairSpec` gives weak fairness to the hart, which has
nothing to wait for but its device, and to the device, which
clocks characters out, or takes commands, while it has any. `SerialProbe` and `Fdt` are
one thread each, with loops over a finite tree, and have no liveness property.

### Where code and comments disagree

- `order_flag`: `head.S:177` says "Mark relocate copy done", and the waiting harts
  rely on it, but the fence is after the store of the status (`188-189`), and the
  waiting side has none. On Ztso, or with harts that order loads and stores,
  `order_tso` shows nothing is lost.
- `head_loser`: the checks before a copy to a lower address protect the lottery,
  the status and the loops, not the run address a loser still reads from the load
  copy (`157-158`).
- `head_reuse`: the next stage is copied without waiting for the harts that still
  execute the load copy (`main.c:90`), which matters where both have the same address.
- `probe_address`: `fdt_get_node_addr_size` drops the `-ENODEV` of a translation
  (`fdt_helper.c:173-175`), so a UART is used at an uninitialised address,
  while `fdt_helper.c:229` says the address is mandatory.
- `fdt_strings`: `libfdt.h:1101` says `fdt_stringlist_count` counts the strings of a
  list; with the `strnlen` of `string.c:53`, which increments its result and decrements
  its bound in one loop, it counts the rest of a longer string as strings of its own.

## Proofs

TLAPS proves, for every number of harts, every address, image, blob table, tree (of
any depth), format and buffer:

| Theorem | Statement |
| --- | --- |
| `HeadProofs!TypeCorrect` | `Spec => []TypeOK` for any layout |
| `HeadProofs!OneHartBoots` | at most one hart boots, in a safe layout |
| `HeadProofs!HartsKeepTheirCode` | no hart is lost, in a safe layout |
| `HeadProofs!CopyBeforeUse` | the linked copy is complete when it is executed, in a safe layout |
| `HeadProofs!WinnerSurvives`, `LosersWaitForCopy` | the boot hart is not lost, and a losing hart waits for the whole copy, in a safe layout |
| `HandoffProofs!HandoffIsComplete` | a hart in the next stage has come to `NextRun` with `a1` at `NextFdt`, and payload, tree and blobs are there, whole |
| `HandoffProofs!HangHolds` | once the boot hart hangs no hart is in the next stage, or comes there |
| `PromiseProofs!HeadKeepsPromise` | `Head` implements `BootPromise` |
| `HeadOrderProofs!PayloadFollowsImage`, `JumpFollowsRelease` | what the two fences give, on any machine |
| `HeadOrderProofs!StatusIsTrue`, `SpinIsTrue` | what the flags mean, if `InOrder` |
| `SerialProbeProofs!DriverAndConsoleAgree` | console and driver are one, at a non-zero address |
| `SerialProbeProofs!NoTreeHangsTheBoot` | no tree makes the probe return an error |
| `SerialProbeProofs!TypeCorrect` | `Spec => []TypeOK` |
| `SerialProbeProofs!AddressIsTheTrees` | the address used is the tree's, through any number of buses, or the tree has none |
| `SerialProbeProofs!StdoutPathFirst` | a driver for the node of `stdout-path` is taken before any other |
| `SerialProbeProofs!NoDriverForgotten` | without a console every driver was tried on its first node, and had no device |
| `ConsoleProofs!BuffersKept` | no byte is written behind `tbuf` or the caller's buffer, for any size, format and argument |
| `ConsoleProofs!NoStackSent` | no byte is sent that `print` has not written |
| `ConsoleProofs!DigitsAreNumeral` | the digit loop of `printi` gives the numeral of its argument, in every base and width |
| `ConsoleProofs!StringsFormatted` | `sprintf` and `snprintf` leave and count what C's `printf` makes of the same format, for directives that are C's |
| `WireProofs!ConsoleImplementsWire` | every character asked for is shown, in order, once, on every console |
| `WireProofs!TextsShown` | what the driver is asked for is the texts of the calls, in order, and nothing else, for directives that are C's and texts that fit `tbuf` |

Assumptions. `HeadAssumption`, `OrderAssumption`, `ProbeAssumption` and
`ConsoleAssumption` give the
constants their types and say that images and destinations are RAM, and that an
`unsigned int` has an even number of values and not more than an `unsigned long`; TLC
evaluates them on every run. `FormatAssumption`, in `Console`, says that the format and
the arguments of each call spell its items (`Formed`): flags, zeros, width, length and
conversion where the item says, literals and `%%` as they are, one argument for each
conversion, in order, and behind the last item the end of the format or a directive
without a conversion. It gives the theorems a text to compare with, and leaves out
formats that have directives C does not define before their end, or break off within
one; the run `console` evaluates it for its formats. `SafeLayout`, in `HeadProofs`, is a hypothesis of its five
safety theorems: the destinations of the copies of `zstage_main` miss both copies
of the image, and the image is not loaded where the accepted overlap of
`head_loser` occurs. Both halves are needed: `head_reuse` breaks the first and
`head_loser` the second. `HandoffLayout` adds for the content of what is copied that the
blobs are not empty, lie in `.payload` and go to places apart from each other, from the
tree and from the payload (`BlobsApart`), and that the tree lies outside the images,
can be moved by a `memcpy` that copies upwards, and that an `a1` which is no tree points
at a word no boot writes (`TreeApart`): the code checks none of this, a build and the
earlier stage do. `FreshTree`, for the refinement only, says that the tree is moved to
memory it does not overlap: `BootPromise` begins with nothing placed. `LayoutsKnown` in `MCHead` makes TLC evaluate that
the layouts of `head_safe` satisfy all of these and those of `head_overlap` and
`head_loser` are not safe. `Drivers`, in
`WireProofs`, says that the console is what the init of one of the four drivers leaves,
for any clock, rate, mailbox and answer of the debugger, or none; the devices of
`console` are of these.

*Head.* `OneBootHart` alone is not inductive: it needs the lottery word to stay
positive once someone drew (`LotteryHeld`), and that word lies in memory that copies
write to. `IInv` therefore says what no copy touches (`LoadCopyKept`), how far the
relocation of the winner has come and that its words are right up to there
(`LowerInv`, `UpperInv` in `HartInv`), that a positive status word means a complete
copy apart from the words the losers use (`StatusMeansRelocated`), that words the
copy has not reached yet are as they were loaded (`Untouched`), and where the
cursors of `memcpy` may be. `OverlapHangs` gives the step that
matters most: a layout that passes the checks keeps the copy off the words in use.
`WinnerSurvives` and `LosersWaitForCopy` follow step by step from it (`LabelNext`).

*Hand-over.* `HInv` adds to `IInv` the content of the copies. For each copy loop of
`zstage_main` it says how many words have arrived and that the others still wait
unchanged at the source (`CopyProgress`), for the tree that it waits where the
earlier stage left it until it is moved (`TreeWaits`), and for the spin word that
nobody has released before everything is placed (`SpinHeld`). What a finished copy
has placed the later ones leave alone, by `HandoffLayout`.

*Refinement.* Lottery to `Elect`, the word of a `memcpy` that completes what has to be placed to `Place`, `ReleaseSpin`
and `NextStageReleases` to `Release`, the jumps to `Enter`, the hangs to `Hang`; all
other steps stutter. Hard is that `Place` happens once, and not before the election: the
last word of the tree is `Junk` until the copy of the tree brings it (`Unplaced`); and `released`, which
the mapping reads from a word that copies write to, changes with nothing else.

*HeadOrder.* `IInv` places every buffered store between the two fences of its phase
(`Entries`, `Relocating`, `Placing`, `Releasing`, `Released`), on any machine. In
program order `StatusLast` and `SpinLast` add that the stores a flag announces are
visible or ahead of it in the buffer, and `SecondariesFollow` what a secondary that
has read a flag has seen.

*SerialProbe.* `PInv` says that nothing is registered until a driver returns
success (`Untaken`). HTIF's `-EINVAL` needs an earlier success and so never occurs.
`Searched` is the loop invariant of the two passes: the drivers before `pos` cannot use
the node of `stdout-path`, or the first node they match. `SInv` puts the two together
with the types and the three properties. For the address `ClimbReaches` shows, by
induction over the depth, that the loop of the FDT helper, which translates bus by bus
and wraps each time, arrives where the sum of the shifts of all buses leads, or stops
where a range is missing. `Induction` has what this takes without an operator as a parameter: that
a set of numbers with what follows from its smaller members is all numbers, that a recursion which
looks at smaller ranks has one solution, and that a sum over a finite set does not depend on
the order.

*Console.* `BufferBound` is not inductive: it needs what `out` and `*out_len` have to do
with each other, although they are not counted alike (`Counted`: together they make
the room, until the last character leaves `*out_len` at 0 and `out` one below the end).
`Filled` adds that everything below `out`, and the terminator at `out`, was written,
which gives `NoStackSent` from the lengths `Flush` and `End` hand to `nputs`. `CInv` is
their conjunction for the call that is being made.

For the text there are three parts. `DigitsAreNumeral` says that the quotients and
remainders of `printi` are the digits of the numeral, by induction over the value:
`v \div b` has the numeral of `v` but for its last digit. With it `DirectiveIs` shows,
conversion by conversion, that the text of a directive is that of its item (`Standard`);
`Plain` keeps out the four combinations where this is false. `ParsedIs` and `AtItem` show
that `print` finds the items in the format, one after the other, with flags, width and
argument as they were meant. `FInv` is the loop invariant: what `printc` was given and what
it still will be are together the text up to an item (`Printed`), `pos`, `arg` and `acnt`
are those of the next (`Place`), where `acnt` modulo 8 counts the ints, because the
`%ll` conversions round it up; and the buffer holds of what was given as much as fits, with
the terminator behind (`Held`).

*Wire.* What was asked for is what was shown, then the characters in the device, then
the one in the driver's hand (`OnTheWay`). For `uart8250` the step from the poll to the
store needs that the FIFO is still empty, for `cadence_uart` that it is below its depth:
only the driver fills it (`UartInv`, `CadenceInv`). HTIF needs that `tohost` is empty
when it is written, and with 32 bits, where the command only names `magic_mem`, that no
answer is in the linked `fromhost` before the command is taken (`BoxInv`); this holds in
the case `Deaf` too, where no answer ever comes. Under semihosting both sequences are
equal. That each driver starts with an empty device is proved from its init
(`UartPorts`, `CadencePorts`): register 0 is written under DLAB only.

`TextsShown` needs `FInv` and says at each step what was asked for (`Asked`): what the calls
before wanted (`Wants`), then what `putc` was given of this one, with the carriage
returns (`Crlf`); given and `todo` are the text of the call. Semihosting takes a text
as a whole, and what is left of it is in the hand of the driver. `NeverFull` shows that
a text that fits `tbuf` is never flushed before its end, so that what `nputs` gets is all of
it. A debugger that cuts a write ends the claim from there (`Uncut`), as it does in the
property.

Only model-checked: all of `Fdt`, the comparisons with reference definitions as well as
the refinement of `FdtTree`.
Out of the prover's reach are the liveness properties (`BootEnds`, `EveryHartJoins`,
`EverySecondaryJoins`, `CallsEnd`) and `ENABLED`. 

## Not modelled

- `fdt_overlay.c` and `fdt_strerror.c`: zStage applies no overlay and prints no error
  of libfdt; nothing calls them.
- The build is make and shell, and what it decides are constants of `Head`.
- `fence.i` and separate instruction caches; warm reset; addresses of `Head` with a
  width; a blob of size zero in the table (`CopyBlob` ends there as the code does, no
  run has one).
- Where a UART's registers lie, and input: nothing in zStage reads a console.
- Trees whose `ranges` have different cell counts on both sides (`Whole`), string lists
  with strings longer than `strnlen` measures (`Measured`) outside `fdt_strings`, and the
  search for an empty compatible string.

## Plan

Done: every part of the inventory but overlays and the build. Next, in this order:

1. The loads, stores and splices of `FdtMem` and `FdtRw` as recursive functions in a module
   of their own, with the lemmas that need no walk over the tree: a splice keeps the
   bytes outside it, and stays in the buffer (`InsideTheBuffer`).
2. `Head` with an empty blob in the table, and a fetch view apart from the load view
   for the missing `fence.i`.
3. Overlays, should zStage come to apply them.
