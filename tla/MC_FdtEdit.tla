----------------------------- MODULE MC_FdtEdit -----------------------------
(* Small device trees for FdtEdit.                                         *)
EXTENDS FdtEdit

B(c) == U32Bytes(c)

\* / { cpus { cpu { reg } } memory { reg status } }
MCTree1 ==
    [name  |-> <<"", "cpus", "cpu", "memory">>,
     props |-> <<<<<<"model", B(7)>>>>, <<<<"reg", B(0)>>>>,
                 <<<<"reg", B(1)>>>>,
                 <<<<"reg", B(2)>>, <<"status", B(0)>>>>>>,
     kids  |-> <<<<2, 4>>, <<3>>, <<>>, <<>>>>]

\* / { intc { cpu { reg } } cpu { reg reg } memory { status } }:
\* two nodes named cpu, the second a direct child of the root and one
\* with a repeated key.
MCTree2 ==
    [name  |-> <<"", "intc", "cpu", "cpu", "memory">>,
     props |-> <<<<>>, <<<<"status", B(1)>>>>, <<<<"reg", B(3)>>>>,
                 <<<<"reg", B(0)>>, <<"reg", B(1)>>>>,
                 <<<<"status", B(0)>>>>>>,
     kids  |-> <<<<2, 4, 5>>, <<3>>, <<>>, <<>>, <<>>>>]

MCTrees == {MCTree1, MCTree2}
MCNodeNames == {"", "cpus", "cpu", "memory", "intc", "absent"}
MCPropNames == {"reg", "status"}
MCCellValues == {<<5>>, <<1, 2>>}

U64(hi, lo) == U32Bytes(hi) \o U32Bytes(lo)
MCRegValues == {U64(0, 0), U64(0, 4096), U64(1, 0)}
====
