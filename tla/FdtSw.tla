------------------------------- MODULE FdtSw -------------------------------
(* A tree written from front to back (libfdt's fdt_sw.c) and the calls    *)
(* that carry a tree from one buffer to another (fdt_resize, fdt_move,    *)
(* fdt_open_into, fdt_pack).  While it is written the structure grows up  *)
(* from the reserve map and the strings grow down from the end of the     *)
(* buffer; the state of the writer is kept in three header fields.        *)
EXTENDS FdtRw

FDT_CREATE_FLAG_NO_NAME_DEDUP == 1

-----------------------------------------------------------------------------
(* The three states *)

fdt_sw_probe_(m) ==
    CASE fdt_magic(m) = FDT_MAGIC    -> FDT_ERR_BADSTATE
      [] fdt_magic(m) # FDT_SW_MAGIC -> FDT_ERR_BADMAGIC
      [] OTHER -> 0
fdt_sw_probe_memrsv_(m) ==
    IF fdt_sw_probe_(m) = 0 /\ fdt_off_dt_strings(m) # 0 THEN FDT_ERR_BADSTATE ELSE fdt_sw_probe_(m)
fdt_sw_probe_struct_(m) ==
    IF fdt_sw_probe_(m) = 0 /\ fdt_off_dt_strings(m) # fdt_totalsize(m)
    THEN FDT_ERR_BADSTATE ELSE fdt_sw_probe_(m)
sw_flags(m) == fdt_get_header(m, LAST_COMP_VERSION)

\* Room for len bytes behind the structure: the memory and the address.
fdt_grab_space_(m, len) ==
    LET left == U(fdt_totalsize(m) - fdt_off_dt_struct(m) - fdt_size_dt_strings(m))
        Grab(offset) ==
            IF offset + len > left THEN [m |-> m, at |-> NULL]
            ELSE [m |-> fdt_set_header(m, SIZE_DT_STRUCT, offset + len), at |-> At(m, offset)]
    IN Grab(fdt_size_dt_struct(m))

fdt_create_with_flags(m, buf, bufsize, flags) ==
    LET Hdr(mem, f, v) == fdt32_st(mem, buf + FDT_TAGSIZE * f, v)
        zero == Put(m, buf, [i \in 1..bufsize |-> 0])
    IN CASE bufsize < FDT_ALIGN(HDRSIZE, RSVSIZE) -> Ret(m, FDT_ERR_NOSPACE)
         [] flags \notin {0, FDT_CREATE_FLAG_NO_NAME_DEDUP} -> Ret(m, FDT_ERR_BADFLAGS)
         [] OTHER -> Ret(Hdr(Hdr(Hdr(Hdr(Hdr(Hdr(zero, MAGIC, FDT_SW_MAGIC),
                VERSION, FDT_LAST_SUPPORTED_VERSION), LAST_COMP_VERSION, flags),
                TOTALSIZE, bufsize),
                OFF_MEM_RSVMAP, FDT_ALIGN(HDRSIZE, RSVSIZE)),
                OFF_DT_STRUCT, FDT_ALIGN(HDRSIZE, RSVSIZE)), 0)

-----------------------------------------------------------------------------
(* Writing *)

fdt_add_reservemap_entry(m, addr, size) ==
    LET offset == fdt_off_dt_struct(m)
    IN CASE fdt_sw_probe_memrsv_(m) # 0 -> Ret(m, fdt_sw_probe_memrsv_(m))
         [] offset + RSVSIZE > fdt_totalsize(m) -> Ret(m, FDT_ERR_NOSPACE)
         [] OTHER -> Ret(fdt_set_header(PutRsv(m, offset, addr, size),
                                        OFF_DT_STRUCT, offset + RSVSIZE), 0)

fdt_finish_reservemap(m) ==
    LET Ended(e) == Then(e, fdt_set_header(e.m, OFF_DT_STRINGS, fdt_totalsize(e.m)))
    IN Ended(fdt_add_reservemap_entry(m, 0, 0))

fdt_begin_node(m, name) ==
    LET Named(nh) == IF nh.at = NULL THEN Ret(m, FDT_ERR_NOSPACE)
                     ELSE Ret(Put(nh.m, nh.at, <<0, FDT_BEGIN_NODE>> \o Append(name, NUL)), 0)
        Probed2(err) ==
            IF err # 0 THEN Ret(m, err)
            ELSE Named(fdt_grab_space_(m, FDT_TAGSIZE + FDT_TAGALIGN(Len(name) + 1)))
    IN Probed2(fdt_sw_probe_struct_(m))

fdt_end_node(m) ==
    LET Ended(en) == IF en.at = NULL THEN Ret(m, FDT_ERR_NOSPACE)
                     ELSE Ret(fdt32_st(en.m, en.at, FDT_END_NODE), 0)
        Probed2(err) == IF err # 0 THEN Ret(m, err) ELSE Ended(fdt_grab_space_(m, FDT_TAGSIZE))
    IN Probed2(fdt_sw_probe_struct_(m))

\* The new string lies before the others; its offset from the end of the
\* buffer, negative, is what the property records, and 0 means no room.
fdt_add_string_(m, s) ==
    LET top == fdt_off_dt_struct(m) + fdt_size_dt_struct(m)
        Before(total, offset) ==
            IF U(total - offset) < top THEN Ret(m, 0)
            ELSE Ret(fdt_set_header(Put(m, total - offset, Append(s, NUL)),
                                    SIZE_DT_STRINGS, offset), -offset)
    IN Before(fdt_totalsize(m), fdt_size_dt_strings(m) + Len(s) + 1)

Allocated(call) == [m |-> call.m, r |-> call.r, allocated |-> TRUE]
sw_find_add_string_(m, s) ==
    LET Or(p) == IF p # NULL THEN [m |-> m, r |-> p - fdt_totalsize(m), allocated |-> FALSE]
                 ELSE Allocated(fdt_add_string_(m, s))
        In(size) == Or(fdt_find_string_(m, fdt_totalsize(m) - size, size, s))
    IN In(fdt_size_dt_strings(m))

fdt_property_placeholder(m, name, len) ==
    LET Put2(str, prop) ==
            IF prop.at = NULL
            THEN RetAt(Ret(IF str.allocated THEN fdt_del_last_string_(str.m, name) ELSE str.m,
                           FDT_ERR_NOSPACE), NULL)
            ELSE RetAt(Ret(fdt32_st(fdt32_st(fdt32_st(prop.m, prop.at, FDT_PROP),
                           prop.at + 2 * FDT_TAGSIZE, str.r), prop.at + FDT_TAGSIZE, len), 0),
                       prop.at + PROPSIZE)
        Named(str) == IF str.r = 0 THEN RetAt(Ret(m, FDT_ERR_NOSPACE), NULL)
                      ELSE Put2(str, fdt_grab_space_(str.m, PROPSIZE + FDT_TAGALIGN(len)))
        Probed2(err) ==
            CASE err # 0 -> RetAt(Ret(m, err), NULL)
              [] sw_flags(m) = FDT_CREATE_FLAG_NO_NAME_DEDUP ->
                     Named(Allocated(fdt_add_string_(m, name)))
              [] OTHER -> Named(sw_find_add_string_(m, name))
    IN Probed2(fdt_sw_probe_struct_(m))

fdt_property(m, name, val) ==
    Filled(fdt_property_placeholder(m, name, Len(val)), val)

\* The walk of fdt_finish: string offsets count from the start of the strings
\* again.  The result is the offset at which the walk ended, or the error.
FixNames(m, offset) ==
    LET Walks == [b : Seq(Int), t : Tags]
        Name(w) == At(w.b, w.t.at) + 2 * FDT_TAGSIZE
        Fixed(w) == IF w.t.tag # FDT_PROP THEN w.b
                    ELSE fdt32_st(w.b, Name(w), fdt32_ld(w.b, Name(w)) + fdt_size_dt_strings(w.b))
        Onward(b, next) == [b |-> b, t |-> fdt_next_tag(b, next)]
        step == [w \in {v \in Walks : v.t.tag # FDT_END} |-> Onward(Fixed(w), w.t.next)]
        Here(w) == Ret(w.b, w.t.next)
    IN Here(Loop(Walks, step, Turns(m), [b |-> m, t |-> TagBefore(offset)]))

fdt_finish(m) ==
    LET size == fdt_size_dt_strings(m)
        Sealed(fixed, newoff) ==
            IF fixed.r < 0 THEN fixed
            ELSE Ret(fdt_set_header(fdt_set_header(fdt_set_header(fixed.m,
                         TOTALSIZE, newoff + size),
                         LAST_COMP_VERSION, FDT_LAST_COMPATIBLE_VERSION),
                         MAGIC, FDT_MAGIC), 0)
        Joined(b, newoff) ==
            Sealed(FixNames(fdt_set_header(Move(b, newoff, fdt_totalsize(m) - size, size),
                                           OFF_DT_STRINGS, newoff), 0), newoff)
        Ended(end) ==
            IF end.at = NULL THEN Ret(m, FDT_ERR_NOSPACE)
            ELSE Joined(fdt32_st(end.m, end.at, FDT_END),
                        fdt_off_dt_struct(end.m) + fdt_size_dt_struct(end.m))
    IN IF fdt_sw_probe_struct_(m) # 0 THEN Ret(m, fdt_sw_probe_struct_(m))
       ELSE Ended(fdt_grab_space_(m, FDT_TAGSIZE))

-----------------------------------------------------------------------------
(* From one buffer to another.  Both lie in one memory, the tree at fdt    *)
(* and the buffer at buf, and they may overlap.                            *)

\* The bytes from fdt on, the memory with these changed, and with the header
\* at buf changed.
View(mem, fdt) == SubSeq(mem, fdt + 1, Len(mem))
Back(mem, fdt, m) == SubSeq(mem, 1, fdt) \o m
HeaderAt(mem, buf, f, v) == fdt32_st(mem, buf + FDT_TAGSIZE * f, v)

fdt_resize(mem, fdt, buf, bufsize) ==
    LET m    == View(mem, fdt)
        head == fdt_off_dt_struct(m) + fdt_size_dt_struct(m)
        tail == fdt_size_dt_strings(m)
        MoveHead(a) == Move(a, buf, fdt, head)
        MoveTail(a) == Move(a, buf + bufsize - tail, fdt + fdt_totalsize(m) - tail, tail)
        moved == IF buf <= fdt THEN MoveTail(MoveHead(mem)) ELSE MoveHead(MoveTail(mem))
        Sized(a) == IF fdt_off_dt_strings(View(a, buf)) # 0
                    THEN HeaderAt(a, buf, OFF_DT_STRINGS, bufsize) ELSE a
    IN CASE fdt_sw_probe_(m) # 0 -> Ret(mem, fdt_sw_probe_(m))
         [] bufsize < 0 -> Ret(mem, FDT_ERR_NOSPACE)
         [] head + tail > fdt_totalsize(m) -> Ret(mem, FDT_ERR_INTERNAL)
         [] head + tail > bufsize -> Ret(mem, FDT_ERR_NOSPACE)
         [] OTHER -> Ret(Sized(HeaderAt(moved, buf, TOTALSIZE, bufsize)), 0)

fdt_move(mem, fdt, buf, bufsize) ==
    LET m == View(mem, fdt)
    IN CASE bufsize < 0 -> Ret(mem, FDT_ERR_NOSPACE)
         [] fdt_ro_probe_(m) < 0 -> Ret(mem, fdt_ro_probe_(m))
         [] fdt_totalsize(m) > bufsize -> Ret(mem, FDT_ERR_NOSPACE)
         [] OTHER -> Ret(Move(mem, buf, fdt, fdt_totalsize(m)), 0)

\* The three blocks of the tree at old, one behind the other at new.
fdt_packblocks_(mem, old, new, mem_rsv_size, struct_size, strings_size) ==
    LET struct_off  == HDRSIZE + mem_rsv_size
        Old(a, f)   == fdt_get_header(View(a, old), f)
        \* The block whose old offset field f holds, to off, and the field.
        Block(a, f, off, size) ==
            HeaderAt(Move(a, new + off, old + Old(a, f), size), new, f, off)
        Rsv(a) == Block(a, OFF_MEM_RSVMAP, HDRSIZE, mem_rsv_size)
        Str(a) == HeaderAt(Block(a, OFF_DT_STRUCT, struct_off, struct_size),
                           new, SIZE_DT_STRUCT, struct_size)
        All(a) == Block(a, OFF_DT_STRINGS, struct_off + struct_size, strings_size)
        Sized(a) == HeaderAt(a, new, SIZE_DT_STRINGS, Old(a, SIZE_DT_STRINGS))
    IN Sized(All(Str(Rsv(mem))))

\* The offset behind FDT_END, or the error of the walk.
StructEnd(m, offset) == TagBehind(m, offset, Int \ {FDT_END}).next

fdt_open_into(mem, fdt, buf, bufsize) ==
    LET m      == View(mem, fdt)
        fdtend == fdt + fdt_totalsize(m)
        Hdr(a, f, v) == HeaderAt(a, buf, f, v)
        Moved(c, struct_size) ==
            Then(c, Hdr(Hdr(Hdr(c.m, VERSION, 17), SIZE_DT_STRUCT, struct_size),
                        TOTALSIZE, bufsize))
        Rebuilt(a) ==
            Hdr(Hdr(Hdr(Hdr(Hdr(a, MAGIC, FDT_MAGIC), TOTALSIZE, bufsize), VERSION, 17),
                LAST_COMP_VERSION, 16), BOOT_CPUID_PHYS,
                fdt_get_header(View(a, fdt), BOOT_CPUID_PHYS))
        \* By way of tmp, behind the tree when the new one would lie over it.
        Built(tmp, rsv_size, struct_size, newsize) ==
            CASE bufsize < newsize -> Ret(mem, FDT_ERR_NOSPACE)
              [] tmp = fdtend /\ tmp + newsize > buf + bufsize -> Ret(mem, FDT_ERR_NOSPACE)
              [] OTHER -> Ret(Rebuilt(Move(fdt_packblocks_(mem, fdt, tmp, rsv_size, struct_size,
                                                           fdt_size_dt_strings(m)),
                                           buf, tmp, newsize)), 0)
        Sized(newsize, rsv_size, struct_size) ==
            Built(IF buf + newsize > fdt /\ buf < fdtend THEN fdtend ELSE buf,
                  rsv_size, struct_size, newsize)
        Into(rsv_size, struct_size) ==
            CASE struct_size < 0 -> Ret(mem, struct_size)
              [] ~fdt_blocks_misordered_(m, rsv_size, struct_size) ->
                     Moved(fdt_move(mem, fdt, buf, bufsize), struct_size)
              [] OTHER -> Sized(HDRSIZE + rsv_size + struct_size + fdt_size_dt_strings(m),
                                rsv_size, struct_size)
    IN CASE fdt_ro_probe_(m) < 0 -> Ret(mem, fdt_ro_probe_(m))
         [] fdt_version(m) < 16  -> Ret(mem, FDT_ERR_BADVERSION)
         [] OTHER -> Into((fdt_num_mem_rsv(m) + 1) * RSVSIZE,
                          IF fdt_version(m) >= 17 THEN fdt_size_dt_struct(m) ELSE StructEnd(m, 0))

\* Mutant: the entry that ends the reserve map is forgotten.
PackCutsRsv(mem, fdt) ==
    LET Cut(m) == Ret(fdt_set_header(m, TOTALSIZE, fdt_data_size_(m)), 0)
        Op(m)  == Cut(fdt_packblocks_(m, 0, 0, fdt_num_mem_rsv(m) * RSVSIZE,
                                      fdt_size_dt_struct(m), fdt_size_dt_strings(m)))
        Done(c) == Ret(Back(mem, fdt, c.m), c.r)
    IN Done(Probed(View(mem, fdt), Op))

fdt_pack(mem, fdt) ==
    LET Cut(m) == Ret(fdt_set_header(m, TOTALSIZE, fdt_data_size_(m)), 0)
        Op(m)  == Cut(fdt_packblocks_(m, 0, 0, (fdt_num_mem_rsv(m) + 1) * RSVSIZE,
                                      fdt_size_dt_struct(m), fdt_size_dt_strings(m)))
        Done(c) == Ret(Back(mem, fdt, c.m), c.r)
    IN Done(Probed(View(mem, fdt), Op))

\* fdt_create_empty_tree: the calls one after the other, until one fails.
fdt_create_empty_tree(mem, buf, bufsize) ==
    LET Answered(c, o) == Ret(Back(c.m, buf, o.m), o.r)
        Step(c, Op(_)) == IF c.r # 0 THEN c ELSE Answered(c, Op(View(c.m, buf)))
        Root(m)  == fdt_begin_node(m, <<>>)
        Open(c)  == IF c.r # 0 THEN c ELSE fdt_open_into(c.m, buf, buf, bufsize)
    IN Open(Step(Step(Step(Step(fdt_create_with_flags(mem, buf, bufsize, 0),
                fdt_finish_reservemap), Root), fdt_end_node), fdt_finish))
=============================================================================
