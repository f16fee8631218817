---------------------------- MODULE MCAsmCheck ----------------------------
(***************************************************************************)
(* The functions AsmCheck is checked on: every body of up to BodyLen (or   *)
(* one more) lines from six small instruction sets, one set per question,  *)
(* and the copy function of src/util/memcpy.S.                             *)
(***************************************************************************)
EXTENDS AsmCheck

CONSTANTS BodyLen

Body(s) == <<Label("f")>> \o s \o <<Code(Insn("ret", <<>>, <<>>))>>
Seqs(lines, max) == UNION {[1..n -> lines] : n \in 1..max}
Over(lines, max) == {Body(s) : s \in Seqs(lines, max)}

x0 == X(0)
x1 == X(1)
x2 == X(2)
x19 == X(19)
x29 == X(29)
x30 == X(30)
One == {Label("1")}
Back(op, s) == Code(Branch(op, s, "b", "1"))
Ahead(op, s) == Code(Branch(op, s, "f", "1"))
Call == Code(Branch("bl", <<>>, "", "g"))

(* Frames: save, restore, use and copy callee-saved registers, branches     *)
(* over them.                                                               *)
Frames == One \cup {
    Code(Mem("stp", <<x19, x30>>, SP, -16, -16)), Code(Mem("ldp", <<x19, x30>>, SP, 0, 16)),
    Code(Insn("movz", <<x19>>, <<>>)), Call, Ahead("cbz", <<x0>>), Back("cbz", <<x0>>)}

Pointers == {
    Code(Insn("mov", <<x29>>, <<SP>>)),
    Code(Insn("mov", <<SP>>, <<x29>>)), Code(Insn("add", <<x29>>, <<x0>>)),
    Code(Insn("mov", <<x19>>, <<x29>>)), Code(Insn("movz", <<<<"w", 19>>>>, <<>>)),
    Code(Adjust("sub", 16)), Code(Adjust("add", 16))}

Framed(s) == Body(<<Code(Mem("str", <<x29>>, SP, -16, -16))>> \o s
                  \o <<Code(Mem("ldr", <<x29>>, SP, 0, 16))>>)

(* Flags: writers, readers, a call between them, and the scheduler.         *)
Flags == One \cup {
    Code(Insn("cmp", <<>>, <<x0>>)), Code(Insn("subs", <<x0>>, <<x0>>)),
    Code(Insn("adcs", <<x1>>, <<x1>>)), Code(Insn("csel", <<x2>>, <<x1>>)),
    Back("b.lo", <<>>), Ahead("b.hs", <<>>), Call}

(* Values: definitions, uses, write-back, calls and loops.                  *)
Values == One \cup {
    Code(Insn("mov", <<x19>>, <<x0>>)), Code(Insn("add", <<x0>>, <<x19>>)), Call,
    Back("cbz", <<x1>>), Code(Mem("ldr", <<x1>>, x0, 0, 8)), Ahead("b", <<>>),
    Code(Mem("ldr", <<x19>>, SP, 0, 16)), Code(Mem("str", <<x19>>, SP, -16, -16))}

(* Straight blocks: what the scheduler reorders.                                     *)
Straight == {
    Code(Mem("ldr", <<x1>>, x0, 0, 0)), Code(Mem("str", <<x1>>, x2, 0, 0)),
    Code(Mem("ldr", <<x0>>, x2, 0, 0)), Code(Insn("add", <<x2>>, <<x1>>)),
    Code(Insn("mov", <<x0>>, <<x1>>)), Code(Insn("mov", <<x1>>, <<x1>>)),
    Code(Insn("cmp", <<>>, <<x2>>))}

(* Memory: stores that a flag-setting computation holds up, and one address *)
(* in two registers.                                                        *)
Memory == {
    Code(Insn("subs", <<x1>>, <<x0>>)), Code(Mem("str", <<x1>>, x2, 0, 0)),
    Code(Mem("str", <<x0>>, x2, 0, 0)), Code(Insn("mov", <<x2>>, <<x0>>)),
    Code(Mem("ldr", <<X(3)>>, x0, 0, 0)), Code(Mem("str", <<X(3)>>, x2, 0, 0))}

(* Another function of the file, with a reader of the flags that bodies of  *)
(* Flags have too.                                                          *)
Beside == <<Label("g"), Code(Insn("subs", <<x0>>, <<x0>>)), Code(Insn("csel", <<x2>>, <<x1>>)),
            Code(Insn("ret", <<>>, <<>>))>>

(* A chain of backward branches longer than the dataflow's n + 2 sweeps.    *)
Hop(name) == Code(Branch("cbz", <<x0>>, "", name))
Chain == <<Label("f"), Code(Branch("b", <<>>, "", "z")),
           Label("a"), Code(Insn("movz", <<x19>>, <<>>)), Code(Branch("b", <<>>, "", "z")),
           Label("b"), Hop("a"), Code(Insn("ret", <<>>, <<>>)),
           Label("c"), Hop("b"), Label("d"), Hop("c"), Label("e"), Hop("d"),
           Label("h"), Hop("e"), Label("i"), Hop("h"), Label("z"), Hop("i")>>

MCStores == [lines : Over(Memory, BodyLen + 1), carry : {FALSE}, beside : {<<>>}]
MCBodies ==
    [lines : Over(Frames, BodyLen + 1) \cup {Framed(s) : s \in Seqs(Pointers, BodyLen)}
             \cup Over(Values, BodyLen) \cup Over(Straight, BodyLen + 1) \cup {Chain},
     carry : {FALSE}, beside : {<<>>}]
    \cup [lines : Over(Flags, BodyLen), carry : BOOLEAN, beside : {<<>>, Beside}]
    \cup MCStores

MCCopies == {<<Label("memcpy"),
    Code(Branch("cbz", <<x2>>, "f", "1")), Imm("cmp", <<>>, <<x2>>, 16),
    Code(Branch("b.lo", <<>>, "f", "3")), Label("2"),
    Code(Mem("ldp", <<X(3), X(4)>>, x1, 0, 16)), Code(Mem("stp", <<X(3), X(4)>>, x0, 0, 16)),
    Imm("sub", <<x2>>, <<x2>>, 16), Imm("cmp", <<>>, <<x2>>, 16),
    Code(Branch("b.hs", <<>>, "b", "2")), Label("3"),
    Code(Branch("cbz", <<x2>>, "f", "1")),
    Code(Mem("ldrb", <<<<"w", 3>>>>, x1, 0, 1)), Code(Mem("strb", <<<<"w", 3>>>>, x0, 0, 1)),
    Imm("sub", <<x2>>, <<x2>>, 1), Code(Branch("b", <<>>, "b", "3")), Label("1"),
    Code(Insn("ret", <<>>, <<>>))>>}
MCLengths == 0..70
=============================================================================
