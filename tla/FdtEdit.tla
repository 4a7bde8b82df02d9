------------------------------ MODULE FdtEdit ------------------------------
(***************************************************************************)
(* The device-tree editing helpers of arch/src/aarch64/fdt_edit.rs.        *)
(*                                                                         *)
(* A DeviceTree is a record of functions over node ids, the root being     *)
(* node 1: name[n], props[n] (the Vec of (key, value) pairs, values as     *)
(* byte sequences) and kids[n] (the Vec of children, in order). The        *)
(* FdtWriter output is the sequence of its calls: <<"begin", name>>,        *)
(* <<"prop", key, bytes>> and <<"end">>. A u32 or u64 is kept as its       *)
(* bytes, most significant first, so that the byte swaps of to_be() on a   *)
(* little-endian host are modelled by what they do.                        *)
(*                                                                         *)
(* The one operation that changes a tree in place, edit_fdt_tree, is the   *)
(* action; the writer-based functions and the lookups are operators,       *)
(* checked against reference definitions on every tree the edits reach.   *)
(***************************************************************************)
EXTENDS Naturals, Sequences, SequencesExt

CONSTANTS
    InitialTrees,  \* device trees as parsed from a DTB
    NodeNames,     \* node names a caller looks up
    PropNames,     \* property names a caller edits
    CellValues,    \* Vec<u32> values passed to edit_fdt_tree
    RegValues      \* u64 addresses and sizes passed to modify_prop_regs

VARIABLE tree

Root == 1

\* u32::to_be_bytes of a small cell value.
U32Bytes(c) == <<(c \div 16777216) % 256, (c \div 65536) % 256,
                 (c \div 256) % 256, c % 256>>

\* The bytes of a Vec<u32> pushed by to_be_bytes, cell after cell.
CellsBytes(cells) == FlattenSeq([i \in 1..Len(cells) |-> U32Bytes(cells[i])])

-----------------------------------------------------------------------------
(* Lookups.                                                                *)

RECURSIVE find_node_util(_, _, _), FindInKids(_, _, _)

\* Mutant: direct children are checked before descending, as
\* find_parent_node does.
find_node_util_bfs(t, n, name) ==
    LET ks == t.kids[n]
        k  == SelectInSeq(ks, LAMBDA m : t.name[m] = name)
    IN IF t.name[n] = name THEN n
       ELSE IF k /= 0 THEN ks[k]
       ELSE FindInKids(t, ks, name)

\* find_node_util: the node itself, else the first hit in its children.
find_node_util(t, n, name) ==
    IF t.name[n] = name THEN n ELSE FindInKids(t, t.kids[n], name)

FindInKids(t, ks, name) ==
    IF ks = <<>> THEN 0
    ELSE LET r == find_node_util(t, Head(ks), name)
         IN IF r /= 0 THEN r ELSE FindInKids(t, Tail(ks), name)

find_node(t, name) == find_node_util(t, Root, name)

\* Mutant: a parent whose own name matches is returned as its own parent.
RECURSIVE find_parent_node_self(_, _, _), ParentInKidsSelf(_, _, _)
find_parent_node_self(t, n, name) ==
    IF t.name[n] = name THEN n
    ELSE IF \E i \in DOMAIN t.kids[n] : t.name[t.kids[n][i]] = name THEN n
    ELSE ParentInKidsSelf(t, t.kids[n], name)

ParentInKidsSelf(t, ks, name) ==
    IF ks = <<>> THEN 0
    ELSE LET r == find_parent_node_self(t, Head(ks), name)
         IN IF r /= 0 THEN r ELSE ParentInKidsSelf(t, Tail(ks), name)

\* find_parent_node: None for a matching node itself; the node if one of
\* its direct children matches; else the first hit below its children.
RECURSIVE find_parent_node(_, _, _), ParentInKids(_, _, _)
find_parent_node(t, n, name) ==
    IF t.name[n] = name THEN 0
    ELSE IF \E i \in DOMAIN t.kids[n] : t.name[t.kids[n][i]] = name THEN n
    ELSE ParentInKids(t, t.kids[n], name)

ParentInKids(t, ks, name) ==
    IF ks = <<>> THEN 0
    ELSE LET r == find_parent_node(t, Head(ks), name)
         IN IF r /= 0 THEN r ELSE ParentInKids(t, Tail(ks), name)

find_parent(t, name) == find_parent_node(t, Root, name)

-----------------------------------------------------------------------------
(* In-place edit.                                                          *)

\* Mutant: the cells are written little-endian (to_le_bytes).
edit_node_int_le(t, n, p, cells) ==
    LET le == FlattenSeq([i \in 1..Len(cells) |-> Reverse(U32Bytes(cells[i]))])
    IN [t EXCEPT !.props[n] = [i \in DOMAIN @ |->
                   IF @[i][1] = p THEN <<p, le>> ELSE @[i]]]

\* edit_node_int: every property of the node named p gets the new bytes.
edit_node_int(t, n, p, cells) ==
    [t EXCEPT !.props[n] = [i \in DOMAIN @ |->
                   IF @[i][1] = p THEN <<p, CellsBytes(cells)>> ELSE @[i]]]

\* edit_fdt_tree: edit the node find_node returns, if any.
edit_fdt_tree(t, name, p, cells) ==
    LET n == find_node(t, name)
    IN IF n /= 0 THEN edit_node_int(t, n, p, cells) ELSE t

-----------------------------------------------------------------------------
(* Writer-based copies.                                                    *)

PropCalls(t, n) == [i \in DOMAIN t.props[n] |-> <<"prop">> \o t.props[n][i]]

\* add_node_writer: begin_node, the properties, the children, end_node.
RECURSIVE add_node_writer(_, _)
add_node_writer(t, n) ==
    <<<<"begin", t.name[n]>>>> \o PropCalls(t, n)
    \o FlattenSeq([i \in DOMAIN t.kids[n] |-> add_node_writer(t, t.kids[n][i])])
    \o <<<<"end">>>>

\* copy_from_fdt_tree: the root is written as the unnamed node "".
copy_from_fdt_tree(t) ==
    <<<<"begin", "">>>> \o PropCalls(t, Root)
    \o FlattenSeq([i \in DOMAIN t.kids[Root] |-> add_node_writer(t, t.kids[Root][i])])
    \o <<<<"end">>>>

\* edit_node_with_writer: as add_node_writer, with the value of property
\* prop_name of every node named node_name replaced.
RECURSIVE edit_node_with_writer(_, _, _, _, _)
edit_node_with_writer(t, n, name, p, v) ==
    <<<<"begin", t.name[n]>>>>
    \o [i \in DOMAIN t.props[n] |->
          IF t.name[n] = name /\ t.props[n][i][1] = p
          THEN <<"prop", p, v>> ELSE <<"prop">> \o t.props[n][i]]
    \o FlattenSeq([i \in DOMAIN t.kids[n] |->
                     edit_node_with_writer(t, t.kids[n][i], name, p, v)])
    \o <<<<"end">>>>

\* edit_fdt_tree_with_writer: the root's own properties are copied unedited.
edit_fdt_tree_with_writer(t, name, p, v) ==
    <<<<"begin", "">>>> \o PropCalls(t, Root)
    \o FlattenSeq([i \in DOMAIN t.kids[Root] |->
                     edit_node_with_writer(t, t.kids[Root][i], name, p, v)])
    \o <<<<"end">>>>

-----------------------------------------------------------------------------
(* The reg property.                                                       *)

Panic == [r |-> "panic"]
Err   == [r |-> "err"]

\* The loop of create_vector_for_reg over ys = [acells, adress, scells,
\* size] (counts as numbers, u64 values as 8 bytes) with propcells, a Vec
\* of u32 (as 4 bytes each) made by with_capacity, hence of length 0.
\* Indexing past the end of ys or propcells panics.
RECURSIVE RegLoop(_, _, _, _)
RegLoop(ys, vnum, cellnum, propcells) ==
    IF vnum >= 4 THEN [r |-> "ok", cells |-> propcells]
    ELSE IF vnum * 2 >= 4 THEN Panic
    ELSE LET ncells == ys[vnum * 2 + 1]
             value  == ys[vnum * 2 + 2]
             hival  == Reverse(SubSeq(value, 1, 4))   \* ((value >> 32) as u32).to_be()
             low    == Reverse(SubSeq(value, 1, 4))   \* value.to_be() as u32:
                                                      \* the low half of the swap
             Store(cs, k, x) == [cs EXCEPT ![k + 1] = x]
         IN IF ncells /= 1 /\ ncells /= 2 THEN Err
            ELSE IF ncells > 1
                 THEN IF cellnum >= Len(propcells) THEN Panic
                      ELSE IF cellnum + 1 >= Len(propcells) THEN Panic
                      ELSE RegLoop(ys, vnum + 1, cellnum + 1,
                                   Store(Store(propcells, cellnum, hival),
                                         cellnum + 1, low))
                 ELSE IF hival /= <<0, 0, 0, 0>> THEN Err
                 ELSE IF cellnum >= Len(propcells) THEN Panic
                 ELSE RegLoop(ys, vnum + 1, cellnum,
                              Store(propcells, cellnum, low))

create_vector_for_reg(acells, adress, scells, size) ==
    RegLoop(<<acells, adress, scells, size>>, 0, 0, <<>>)

\* modify_prop_regs: the cells, as to_be_bytes, written by
\* edit_fdt_tree_with_writer; an Err or a panic is the result itself.
modify_prop_regs(t, name, p, acells, adress, scells, size) ==
    LET rv == create_vector_for_reg(acells, adress, scells, size)
    IN IF rv.r /= "ok" THEN rv
       ELSE [r |-> "ok",
             out |-> edit_fdt_tree_with_writer(t, name, p, FlattenSeq(rv.cells))]

-----------------------------------------------------------------------------
(* The specification: edit_fdt_tree called with any inputs.               *)

Init == tree \in InitialTrees

EditFdtTree(name, p, cells) == tree' = edit_fdt_tree(tree, name, p, cells)

Next == \E name \in NodeNames, p \in PropNames, c \in CellValues :
            EditFdtTree(name, p, c)

Spec == Init /\ [][Next]_tree

-----------------------------------------------------------------------------
(* Reference definitions.                                                  *)

\* The nodes in document order.
RECURSIVE Preorder(_, _)
Preorder(t, n) == <<n>> \o FlattenSeq([i \in DOMAIN t.kids[n] |->
                                           Preorder(t, t.kids[n][i])])

\* The node that lists m among its children (0 for the root).
ParentOf(t, m) ==
    IF \E p \in DOMAIN t.name : m \in Range(t.kids[p])
    THEN CHOOSE p \in DOMAIN t.name : m \in Range(t.kids[p]) ELSE 0

UniqueName(t, name) == \A a, b \in DOMAIN t.name :
                          t.name[a] = name /\ t.name[b] = name => a = b

\* The reg cells of a node: acells cells of address, then scells of size,
\* each u32 in big-endian byte order.
RegBytes(acells, adress, scells, size) ==
    SubSeq(adress, 9 - 4 * acells, 8) \o SubSeq(size, 9 - 4 * scells, 8)

Fits(cnt, v) == cnt = 2 \/ SubSeq(v, 1, 4) = <<0, 0, 0, 0>>

-----------------------------------------------------------------------------
(* Properties.                                                             *)

\* find_node returns the first node in document order with the name, or
\* None, whatever names repeat in the tree.
FindNodeIsFirstInOrder ==
    \A name \in NodeNames :
        LET order == Preorder(tree, Root)
            k == SelectInSeq(order, LAMBDA m : tree.name[m] = name)
        IN find_node(tree, name) = IF k = 0 THEN 0 ELSE order[k]

\* For a name that one node carries, find_parent returns that node's
\* parent, and None for the root.
FindParentIsParent ==
    \A name \in NodeNames :
        UniqueName(tree, name) /\ find_node(tree, name) /= 0
        => find_parent(tree, name) = ParentOf(tree, find_node(tree, name))

\* For a non-root node with a unique name, the writer-based edit
\* (edit_fdt_tree_with_writer with the cells' bytes) writes the same blob
\* as copy_from_fdt_tree of the tree edited in place by edit_fdt_tree.
WriterEditMatchesInPlace ==
    \A name \in NodeNames, p \in PropNames, c \in CellValues :
        UniqueName(tree, name) /\ find_node(tree, name) \notin {0, Root}
        => edit_fdt_tree_with_writer(tree, name, p, CellsBytes(c))
           = copy_from_fdt_tree(edit_fdt_tree(tree, name, p, c))

\* modify_prop_regs writes a reg value of acells address cells and scells
\* size cells, for every cell count of 1 or 2 whose value fits.
ModifyPropRegsWritesReg ==
    \A name \in NodeNames, ac, sc \in {1, 2}, a, s \in RegValues :
        Fits(ac, a) /\ Fits(sc, s)
        => modify_prop_regs(tree, name, "reg", ac, a, sc, s)
           = [r |-> "ok",
              out |-> edit_fdt_tree_with_writer(tree, name, "reg",
                                                RegBytes(ac, a, sc, s))]

====
