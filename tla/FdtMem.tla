------------------------------- MODULE FdtMem -------------------------------
(* A flattened device tree as the bytes it is: the header, the tags of the *)
(* structure block and the walk over them (libfdt/fdt.c and its headers).  *)
(*                                                                         *)
(* A blob is the sequence of its bytes, from address 0 on.  To keep blobs  *)
(* short a 32-bit word is modelled by two bytes instead of four, and every *)
(* size made of words is halved with it: alignment, padding and the wrap   *)
(* of unsigned arithmetic (here at 2^16) stay what they are.  An int is a  *)
(* value below 2^15; a pointer that may be NULL is an address or NULL.     *)
(* A load outside the blob is an evaluation error of TLC, so every run     *)
(* also shows that the code reads inside the buffer.                       *)
EXTENDS CString, SequencesExt

FDT_TAGSIZE == 2
CELL64      == 2 * FDT_TAGSIZE      \* the size of an fdt64_t
RSVSIZE     == 2 * CELL64           \* of a struct fdt_reserve_entry
PROPSIZE    == 3 * FDT_TAGSIZE      \* of a struct fdt_property without its data
INT_MAX     == 32767
U(x)   == x % 65536                                 \* int to unsigned
ToInt(u) == IF U(u) > INT_MAX THEN U(u) - 65536 ELSE U(u)

FDT_BEGIN_NODE == 1
FDT_END_NODE   == 2
FDT_PROP       == 3
FDT_NOP        == 4
FDT_END        == 9
FDT_MAGIC      == 53261
FDT_SW_MAGIC   == 65535 - FDT_MAGIC
FDT_FIRST_SUPPORTED_VERSION == 2
FDT_LAST_COMPATIBLE_VERSION == 16
FDT_LAST_SUPPORTED_VERSION  == 17

FDT_ERR_NOTFOUND     == -1
FDT_ERR_EXISTS       == -2
FDT_ERR_NOSPACE      == -3
FDT_ERR_BADOFFSET    == -4
FDT_ERR_BADPATH      == -5
FDT_ERR_BADPHANDLE   == -6
FDT_ERR_BADSTATE     == -7
FDT_ERR_TRUNCATED    == -8
FDT_ERR_BADMAGIC     == -9
FDT_ERR_BADVERSION   == -10
FDT_ERR_BADSTRUCTURE == -11
FDT_ERR_BADLAYOUT    == -12
FDT_ERR_INTERNAL     == -13
FDT_ERR_BADNCELLS    == -14
FDT_ERR_BADVALUE     == -15
FDT_ERR_NOPHANDLES   == -17
FDT_ERR_BADFLAGS     == -18

-----------------------------------------------------------------------------
(* Loads and stores *)

Bytes(m, a, n)    == SubSeq(m, a + 1, a + n)
Put(m, a, bytes)  == SubSeq(m, 1, a) \o bytes \o SubSeq(m, a + Len(bytes) + 1, Len(m))
Move(m, to, from, n) == Put(m, to, Bytes(m, from, n))      \* memmove

fdt32_ld(m, a)    == m[a + 1] * 256 + m[a + 2]
fdt32_st(m, a, v) == Put(m, a, <<U(v) \div 256, v % 256>>)
fdt64_st(m, a, v) == fdt32_st(fdt32_st(m, a, 0), a + FDT_TAGSIZE, v)
fdt64_ld(m, a)    == fdt32_ld(m, a + FDT_TAGSIZE)

FDT_ALIGN(x, a) == ((x + a - 1) \div a) * a
FDT_TAGALIGN(x) == FDT_ALIGN(x, FDT_TAGSIZE)

-----------------------------------------------------------------------------
(* The header: ten words, the later ones since version 2, 3 and 17 *)

MAGIC             == 0
TOTALSIZE         == 1
OFF_DT_STRUCT     == 2
OFF_DT_STRINGS    == 3
OFF_MEM_RSVMAP    == 4
VERSION           == 5
LAST_COMP_VERSION == 6
BOOT_CPUID_PHYS   == 7
SIZE_DT_STRINGS   == 8
SIZE_DT_STRUCT    == 9

fdt_get_header(m, f)    == fdt32_ld(m, FDT_TAGSIZE * f)
fdt_set_header(m, f, v) == fdt32_st(m, FDT_TAGSIZE * f, v)

fdt_magic(m)           == fdt_get_header(m, MAGIC)
fdt_totalsize(m)       == fdt_get_header(m, TOTALSIZE)
fdt_off_dt_struct(m)   == fdt_get_header(m, OFF_DT_STRUCT)
fdt_off_dt_strings(m)  == fdt_get_header(m, OFF_DT_STRINGS)
fdt_off_mem_rsvmap(m)  == fdt_get_header(m, OFF_MEM_RSVMAP)
fdt_version(m)         == fdt_get_header(m, VERSION)
fdt_size_dt_strings(m) == fdt_get_header(m, SIZE_DT_STRINGS)
fdt_size_dt_struct(m)  == fdt_get_header(m, SIZE_DT_STRUCT)

fdt_header_size_(version) ==
    FDT_TAGSIZE * (CASE version <= 1  -> 7
                     [] version <= 2  -> 8
                     [] version <= 16 -> 9
                     [] OTHER         -> 10)
HDRSIZE == FDT_ALIGN(fdt_header_size_(17), CELL64)

\* The version range both the read-only probe and the header check accept.
SupportedVersion(m) ==
    /\ fdt_version(m) >= FDT_FIRST_SUPPORTED_VERSION
    /\ fdt_get_header(m, LAST_COMP_VERSION) <= FDT_LAST_SUPPORTED_VERSION

\* The total size, or why the buffer holds no tree that can be read.
fdt_ro_probe_(m) ==
    CASE fdt_magic(m) = FDT_MAGIC /\ ~SupportedVersion(m) -> FDT_ERR_BADVERSION
      [] fdt_magic(m) = FDT_SW_MAGIC /\ fdt_size_dt_struct(m) = 0 -> FDT_ERR_BADSTATE
      [] fdt_magic(m) \notin {FDT_MAGIC, FDT_SW_MAGIC} -> FDT_ERR_BADMAGIC
      [] fdt_totalsize(m) >= INT_MAX -> FDT_ERR_TRUNCATED
      [] OTHER -> fdt_totalsize(m)

check_off_(hdrsize, totalsize, off) == off >= hdrsize /\ off <= totalsize

check_block_(hdrsize, totalsize, base, size) ==
    /\ check_off_(hdrsize, totalsize, base)
    /\ U(base + size) >= base
    /\ check_off_(hdrsize, totalsize, U(base + size))

fdt_check_header(m) ==
    LET hdrsize == fdt_header_size_(fdt_version(m))
        total   == fdt_totalsize(m)
    IN CASE fdt_magic(m) # FDT_MAGIC -> FDT_ERR_BADMAGIC
         [] \/ ~SupportedVersion(m)
            \/ fdt_version(m) < fdt_get_header(m, LAST_COMP_VERSION) -> FDT_ERR_BADVERSION
         [] \/ total < hdrsize \/ total > INT_MAX
            \/ ~check_off_(hdrsize, total, fdt_off_mem_rsvmap(m))
            \/ fdt_version(m) < 17 /\ ~check_off_(hdrsize, total, fdt_off_dt_struct(m))
            \/ fdt_version(m) >= 17 /\ ~check_block_(hdrsize, total,
                                            fdt_off_dt_struct(m), fdt_size_dt_struct(m))
            \/ ~check_block_(hdrsize, total,
                             fdt_off_dt_strings(m), fdt_size_dt_strings(m)) -> FDT_ERR_TRUNCATED
         [] OTHER -> 0

-----------------------------------------------------------------------------
(* Loops *)

\* Where a loop gets from the state s in at most n turns: step maps each state
\* of S in which the loop goes on to the next one.
Loop(S, step, n, s) ==
    LET run[k \in 0..n] ==
            [t \in S |-> IF k = 0 \/ t \notin DOMAIN step THEN t ELSE run[k - 1][step[t]]]
    IN run[n][s]

\* f[start], f[f[start]], ... up to the first one that is negative.
Chain(f, n, start) ==
    LET Onward(s) == s = <<>> \/ Last(s) >= 0
        step == [s \in {q \in Seq(Int) : Onward(q)} |->
                     Append(s, f[IF s = <<>> THEN start ELSE Last(s)])]
    IN Loop(Seq(Int), step, n, <<>>)

-----------------------------------------------------------------------------
(* The tags of the structure block.  A loop over them takes at most as many *)
(* turns as the blob has bytes, and one over nodes does: a tag is a word.   *)

Turns(m) == Len(m)

At(m, offset) == fdt_off_dt_struct(m) + offset              \* fdt_offset_ptr_

\* Whether len bytes at offset lie inside the structure block.
fdt_offset_ptr(m, offset, len) ==
    LET Fits(from, end, limit) == from <= end /\ end <= limit
        Inside(abs) == abs >= offset /\ Fits(abs, U(abs + len), fdt_totalsize(m))
    IN /\ offset >= 0 /\ Inside(U(offset + fdt_off_dt_struct(m)))
       /\ fdt_version(m) >= 17 => Fits(offset, U(offset + len), fdt_size_dt_struct(m))

\* The offset behind the NUL that ends the name at offset, or -1.
BehindName(m, offset) ==
    LET Behind(o) == IF fdt_offset_ptr(m, o, 1) THEN o + 1 ELSE -1
    IN Behind(offset + First({k \in Nat : \/ ~fdt_offset_ptr(m, offset + k, 1)
                                          \/ Byte(m, At(m, offset + k)) = NUL}))

\* Before version 16 a value of eight bytes or more is aligned to eight.
Realigned(m, data, len) ==
    fdt_version(m) < 16 /\ len >= CELL64 /\ data % CELL64 # 0

BehindValue(m, data, len) == ToInt(data + len + (IF Realigned(m, data, len) THEN FDT_TAGSIZE ELSE 0))

\* Behind the part of the tag that has no fixed size, -1 if it runs out.
BehindTag(m, offset, tag) ==
    CASE tag = FDT_BEGIN_NODE -> BehindName(m, offset)
      [] tag = FDT_PROP -> IF fdt_offset_ptr(m, offset, FDT_TAGSIZE)
                           THEN BehindValue(m, offset + PROPSIZE - FDT_TAGSIZE,
                                            fdt32_ld(m, At(m, offset)))
                           ELSE -1
      [] tag \in {FDT_END_NODE, FDT_NOP, FDT_END} -> offset
      [] OTHER -> -1

\* A tag, the offset it is at and that of the next one, which is an error with
\* FDT_END when the block stops too early.
Tags == [at : Int, tag : Int, next : Int]

TagUntil(m, start, tag, end) ==
    IF end # -1 /\ fdt_offset_ptr(m, start, U(end - start))
    THEN [at |-> start, tag |-> tag, next |-> FDT_TAGALIGN(end)]
    ELSE [at |-> start, tag |-> FDT_END, next |-> FDT_ERR_BADSTRUCTURE]

TagAt(m, start, tag) == TagUntil(m, start, tag, BehindTag(m, start + FDT_TAGSIZE, tag))

fdt_next_tag(m, start) ==
    IF fdt_offset_ptr(m, start, FDT_TAGSIZE) THEN TagAt(m, start, fdt32_ld(m, At(m, start)))
    ELSE [at |-> start, tag |-> FDT_END, next |-> FDT_ERR_TRUNCATED]

\* A walk from offset on begins as if a NOP had led there.
TagBefore(offset) == [at |-> offset, tag |-> FDT_NOP, next |-> offset]

\* The first tag from offset on that is not in skip, which has the NOP in it.
TagBehind(m, offset, skip) ==
    Loop(Tags, [t \in {u \in Tags : u.tag \in skip} |-> fdt_next_tag(m, t.next)],
         Turns(m), TagBefore(offset))

NextIf(t, tag) == IF t.tag = tag THEN t.next ELSE FDT_ERR_BADOFFSET
CheckTagAt(m, offset, tag) ==
    IF offset < 0 \/ offset % FDT_TAGSIZE # 0 THEN FDT_ERR_BADOFFSET
    ELSE NextIf(fdt_next_tag(m, offset), tag)
fdt_check_node_offset_(m, offset) == CheckTagAt(m, offset, FDT_BEGIN_NODE)
fdt_check_prop_offset_(m, offset) == CheckTagAt(m, offset, FDT_PROP)

\* An offset or error, and the depth there, <<>> for a caller that passes NULL.
Places == [offset : Int, depth : Seq(Int)]
Place(offset, depth) == [offset |-> offset, depth |-> depth]
Deeper(depth, k) == [i \in DOMAIN depth |-> depth[i] + k]

\* fdt_next_node from the tag at offset on: past everything but a node or the
\* end of the one the walk began in.
NextNodeFrom(m, offset, depth) ==
    LET Walks   == [t : Tags, depth : Seq(Int)]
        Leaves(w) == w.t.tag = FDT_END_NODE /\ w.depth # <<>> /\ w.depth[1] <= 0
        Onward(w) == w.t.tag \in {FDT_END_NODE, FDT_PROP, FDT_NOP} /\ ~Leaves(w)
        Up(w)   == Deeper(w.depth, IF w.t.tag = FDT_END_NODE THEN -1 ELSE 0)
        Here(w) ==
            CASE w.t.tag = FDT_BEGIN_NODE -> Place(w.t.at, Deeper(w.depth, 1))
              [] /\ w.t.tag = FDT_END
                 /\ w.t.next >= 0 \/ (w.t.next = FDT_ERR_TRUNCATED /\ w.depth = <<>>)
                     -> Place(FDT_ERR_NOTFOUND, w.depth)
              [] OTHER -> Place(w.t.next, Up(w))
    IN Here(Loop(Walks, [w \in {v \in Walks : Onward(v)} |->
                             [t |-> fdt_next_tag(m, w.t.next), depth |-> Up(w)]],
                 Turns(m), [t |-> TagBefore(offset), depth |-> depth]))

NextNodeBehind(m, next, depth) ==
    IF next < 0 THEN Place(next, depth) ELSE NextNodeFrom(m, next, depth)
fdt_next_node(m, offset, depth) ==
    NextNodeBehind(m, IF offset >= 0 THEN fdt_check_node_offset_(m, offset) ELSE 0, depth)

\* fdt_next_node from place on until one is in Stop.
NodeUntil(m, place, Stop) ==
    Loop(Places, [p \in Places \ Stop |-> fdt_next_node(m, p.offset, p.depth)], Turns(m), place)

OffsetAtDepth1(n) == IF n.offset < 0 \/ n.depth # <<1>> THEN FDT_ERR_NOTFOUND ELSE n.offset
fdt_first_subnode(m, offset) == OffsetAtDepth1(fdt_next_node(m, offset, <<0>>))

fdt_next_subnode(m, offset) ==
    LET Behind(node) ==
            NodeUntil(m, node, {p \in Places : p.offset < 0 \/ p.depth[1] <= 1} \ {node})
    IN OffsetAtDepth1(Behind(Place(offset, <<1>>)))

\* The end of the last tag below the node: libfdt's fdt_node_end_offset_.
fdt_node_end_offset_(m, offset) ==
    NodeUntil(m, Place(offset, <<0>>), {p \in Places : p.offset < 0 \/ p.depth[1] < 0}).offset

\* The first place of the string s (with its NUL) in a table of size bytes.
fdt_find_string_(m, strtab, size, s) ==
    LET Least(hits) == IF hits = {} THEN NULL ELSE CHOOSE p \in hits : \A q \in hits : p <= q
    IN Least({p \in strtab..(strtab + size - Len(s) - 1) :
                  Bytes(m, p, Len(s) + 1) = Append(s, NUL)})
=============================================================================
