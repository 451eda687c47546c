------------------------------ MODULE FdtTree ------------------------------
(* What libfdt promises of a tree, whatever bytes it is kept in: a node is *)
(* a path, a property a name with a value, and a call that fails changes   *)
(* neither.  A path is the sequence of the names from the root's, which is *)
(* empty, down.  last is the call made last and what it returned.          *)
EXTENDS Integers, Sequences, SequencesExt

VARIABLES stage,    \* "raw", "memrsv", "struct", "finished", or "foreign": a
                    \* tree whose version or layout is not the one of libfdt
          tree,     \* the properties of each node, name to value
          cursor,   \* the path of the node being written, <<>> when none is
          rsv,      \* the reserved regions, in order
          last      \* [op, path, name, val, ret]

vars == <<stage, tree, cursor, rsv, last>>

NOTFOUND == -1
UNFIT    == {-10, -12}      \* BADVERSION, BADLAYOUT
EXISTS   == -2
NOSPACE  == -3
BADSTATE == -7
AT == 64

Empty  == << >>
Root   == << <<>> >>
Fn(k, v) == [x \in {k} |-> v]
Over(f, k, v) == [x \in DOMAIN f \cup {k} |-> IF x = k THEN v ELSE f[x]]
Without(f, S) == [x \in DOMAIN f \ S |-> f[x]]
Below(p) == {q \in DOMAIN tree : IsPrefix(p, q)}

\* A child answers to its name, and to its name without the unit address.
Answers(child, name) ==
    \/ child = name
    \/ AT \notin Range(name) /\ IsPrefix(Append(name, AT), child)
Taken(p, name) == \E q \in DOMAIN tree : /\ Len(q) = Len(p) + 1 /\ IsPrefix(p, q)
                                         /\ Answers(Last(q), name)

\* Nothing yet, or a finished tree from elsewhere.
Init == /\ \/ stage = "raw" /\ tree = Empty /\ rsv = <<>>
           \/ stage \in {"finished", "foreign"} /\ Root \in DOMAIN tree
        /\ cursor = <<>>
        /\ last = [op |-> "none", path |-> <<>>, name |-> <<>>, val |-> <<>>, ret |-> 0]

\* The outcomes of a call: success with an effect, or an error without one.
Keep(ret)  == last'.ret = ret /\ UNCHANGED <<stage, tree, cursor, rsv>>
Done(op)   == last'.op = op /\ last'.ret >= 0
Full(op)   == last'.op = op /\ Keep(NOSPACE)
OnlyTree   == UNCHANGED <<stage, cursor, rsv>>

-----------------------------------------------------------------------------
(* Changes of a finished tree *)

AddSubnode(p, n) ==
    \/ /\ Done("add_subnode") /\ p \in DOMAIN tree /\ ~Taken(p, n)
       /\ tree' = Over(tree, Append(p, n), Empty) /\ OnlyTree
    \/ last'.op = "add_subnode" /\ Taken(p, n) /\ Keep(EXISTS)
    \/ ~Taken(p, n) /\ Full("add_subnode")

DelNode(p) == /\ last'.op \in {"del_node", "nop_node"} /\ last'.ret = 0
              /\ tree' = Without(tree, Below(p)) /\ OnlyTree

SetName(p, n) ==
    LET to(q) == [i \in DOMAIN q |-> IF i = Len(p) /\ IsPrefix(p, q) THEN n ELSE q[i]]
    IN \/ /\ Done("set_name") /\ OnlyTree
          /\ tree' = [r \in {to(q) : q \in DOMAIN tree} |->
                          tree[CHOOSE q \in DOMAIN tree : to(q) = r]]
       \/ Full("set_name")

PutProp(p, k, v) == tree' = [tree EXCEPT ![p] = Over(@, k, v)] /\ OnlyTree

SetProp(p, k, v) == \/ Done("setprop") /\ PutProp(p, k, v)
                    \/ Full("setprop")

AppendProp(p, k, v) ==
    \/ /\ Done("appendprop")
       /\ PutProp(p, k, (IF k \in DOMAIN tree[p] THEN tree[p][k] ELSE <<>>) \o v)
    \/ Full("appendprop")

Missing(op, p, k) == last'.op = op /\ k \notin DOMAIN tree[p] /\ Keep(NOTFOUND)

DelProp(p, k) ==
    \E op \in {"delprop", "nop_property"} :
        \/ /\ Done(op) /\ k \in DOMAIN tree[p]
           /\ tree' = [tree EXCEPT ![p] = Without(@, {k})] /\ OnlyTree
        \/ Missing(op, p, k)

SetInplace(p, k, v) ==
    \/ /\ Done("setprop_inplace") /\ k \in DOMAIN tree[p] /\ Len(tree[p][k]) = Len(v)
       /\ PutProp(p, k, v)
    \/ Full("setprop_inplace") /\ k \in DOMAIN tree[p] /\ Len(tree[p][k]) # Len(v)
    \/ Missing("setprop_inplace", p, k)

AddMemRsv(e) == \/ /\ last'.op \in {"add_mem_rsv", "add_reservemap_entry"} /\ last'.ret = 0
                   /\ rsv' = Append(rsv, e) /\ UNCHANGED <<stage, tree, cursor>>
                \/ Full("add_mem_rsv")
                \/ Full("add_reservemap_entry")

DelMemRsv(n) == \/ /\ Done("del_mem_rsv") /\ n < Len(rsv) /\ rsv' = RemoveAt(rsv, n + 1)
                   /\ UNCHANGED <<stage, tree, cursor>>
                \/ last'.op = "del_mem_rsv" /\ n >= Len(rsv) /\ Keep(NOTFOUND)

\* To another buffer, or into less space: the tree is the same, and
\* open_into makes any tree fit for changes.
Carry == \/ last'.op \in {"pack", "move", "resize"} /\ Keep(0)
         \/ last'.op \in {"open_into", "move", "resize"} /\ Keep(NOSPACE)
         \/ /\ Done("open_into") /\ stage' = "finished" /\ UNCHANGED <<tree, cursor, rsv>>

-----------------------------------------------------------------------------
(* A tree written from front to back; a call in the wrong state is refused *)

Create == \/ Done("create") /\ stage' = "memrsv" /\ UNCHANGED <<tree, cursor, rsv>>
          \/ /\ Done("create_empty_tree") /\ stage' = "finished"
             /\ tree' = Fn(Root, Empty) /\ UNCHANGED <<cursor, rsv>>
          \/ Full("create")

FinishReserve == \/ /\ Done("finish_reservemap") /\ stage = "memrsv" /\ stage' = "struct"
                    /\ UNCHANGED <<tree, cursor, rsv>>
                 \/ Full("finish_reservemap")

BeginNode(n) == \/ /\ Done("begin_node") /\ stage = "struct"
                   /\ cursor' = Append(cursor, n) /\ tree' = Over(tree, Append(cursor, n), Empty)
                   /\ UNCHANGED <<stage, rsv>>
                \/ Full("begin_node")

EndNode == \/ /\ Done("end_node") /\ stage = "struct" /\ cursor' = Front(cursor)
              /\ UNCHANGED <<stage, tree, rsv>>
           \/ Full("end_node")

Property(k, v) == \/ Done("property") /\ stage = "struct" /\ PutProp(cursor, k, v)
                  \/ Full("property")

Finish == \/ /\ Done("finish") /\ stage = "struct" /\ stage' = "finished"
             /\ UNCHANGED <<tree, cursor, rsv>>
          \/ Full("finish")

Unfit == /\ stage = "foreign" /\ last'.ret \in UNFIT /\ Keep(last'.ret)
         /\ last'.op \in {"add_subnode", "del_node", "set_name", "setprop", "appendprop",
                          "delprop", "add_mem_rsv", "del_mem_rsv", "pack"}

Refused ==
    /\ Keep(BADSTATE)
    /\ \/ last'.op = "add_reservemap_entry" /\ stage # "memrsv"
       \/ last'.op = "finish_reservemap" /\ stage # "memrsv"
       \/ last'.op \in {"begin_node", "end_node", "property", "finish"} /\ stage # "struct"
       \/ last'.op = "resize" /\ stage \in {"finished", "foreign"}

Next ==
    LET c == last'
    IN \/ AddSubnode(c.path, c.name) \/ DelNode(c.path) \/ SetName(c.path, c.name)
       \/ SetProp(c.path, c.name, c.val) \/ AppendProp(c.path, c.name, c.val)
       \/ DelProp(c.path, c.name) \/ SetInplace(c.path, c.name, c.val)
       \/ AddMemRsv(c.val) \/ DelMemRsv(c.val) \/ Carry
       \/ Create \/ FinishReserve \/ BeginNode(c.name) \/ EndNode
       \/ Property(c.name, c.val) \/ Finish \/ Refused \/ Unfit

Spec == Init /\ [][Next]_vars
=============================================================================
