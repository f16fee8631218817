--------------------------- MODULE MCAsmClobbers ---------------------------
(***************************************************************************)
(* Small source trees: an exported f and a callee g in four arrangements   *)
(* (g below f, g inside f, f running on into g, g exported by another      *)
(* file), with short bodies of f over the instructions that matter to a    *)
(* caller, and a defs.S whose macros differ by platform.                   *)
(***************************************************************************)
EXTENDS AsmClobbers

CONSTANTS BodyLen

x1 == X(1)
x2 == X(2)
x19 == X(19)
x30 == X(30)
Set(r) == Code(Insn("movz", <<r>>, <<>>))
To(op, name) == Code(Branch(op, <<>>, "", name))
Push == Code(Mem("stp", <<x19, x30>>, SP, -16, -16))
Pop == Code(Mem("ldp", <<x19, x30>>, SP, 0, 16))
Ret == Code(Insn("ret", <<>>, <<>>))
Param(k) == <<"param", k>>

(* PUT writes its argument (x1 when there is none) on Linux, and x2 as well *)
(* elsewhere; TWICE is a macro of macros.                                   *)
Defs == <<Line("#ifdef", ""),
            [Line(".macro", "PUT") EXCEPT !.args = <<x1>>], Set(Param(1)), Line(".endm", ""),
          Line("#else", ""),
            [Line(".macro", "PUT") EXCEPT !.args = <<x1>>], Set(Param(1)), Set(x2), Line(".endm", ""),
          Line("#endif", ""),
          [Line(".macro", "TWICE") EXCEPT !.args = <<NoReg>>],
            MacroCall("PUT", <<Param(1)>>), MacroCall("PUT", <<>>), Line(".endm", ""),
          [Line(".macro", "SCWINUM") EXCEPT !.args = <<NoReg>>],
            Code([Insn("movz", <<x2>>, <<>>) EXCEPT !.imm = ExitNumber]), Line(".endm", ""),
          Line(".macro", "SCWISVC"), Code(Insn("svc", <<>>, <<>>)), Line(".endm", "")>>

Item(k, regs, name) == [k |-> k, regs |-> regs, name |-> name]
Doc(name, raw) == [Line("doc", name) EXCEPT !.doc = {[raw |-> raw, outputs |-> {<<"x", 0, 0>>}, carry |-> FALSE]}]
DocF == Doc("f", <<Item("regs", {<<"w", 1, 2>>}, ""), Item("noted", {<<"x", 19, 19>>}, ""), Item("ref", {}, "g")>>)
DocG == Doc("g", <<Item("regs", {<<"x", 2, 2>>, <<"x", 30, 30>>}, "")>>)

Steps == {To("bl", "g"), To("b", "g"), To("b", "in_g"), Set(x1), Set(x19), MacroCall("TWICE", <<x19>>),
          MacroCall("PUT", <<>>), To("bl", "ext"), Code(Branch("cbz", <<x1>>, "", "in_g"))}
Moves == {To("bl", "g"), To("b", "in_g"), Set(x19), Code(Branch("cbz", <<x1>>, "", "in_g"))}
Inner == {<<>>} \cup [1..1 -> Steps] \cup [1..BodyLen -> Moves]
Link == <<Code(Mem("str", <<x30>>, SP, -16, -16))>>
Unlink == <<Code(Mem("ldr", <<x30>>, SP, 0, 16))>>
BodiesF == {<<Push>> \o s \o <<Pop>> : s \in Inner} \cup Inner \cup {Link \o s \o Unlink : s \in Inner}
BodiesG == {<<Set(x2), Label("in_g")>>, <<Set(x19), Label("in_g"), Set(x1)>>,
            <<Push, Label("in_g"), Set(x19), To("bl", "ext"), Pop>>, <<Label("in_g"), To("bl", "f")>>}

(* f ends in the exit system call and g, exported, is right below it.       *)
Exit == <<MacroCall("SCWINUM", <<SYS_exit>>), Line("macro", "SCWISVC")>>
Stops(g) == <<Defs, <<Line("FUNC", "f"), Set(x1)>> \o Exit \o <<Line("FUNC", "g")>> \o g \o <<Ret>>>>

Below(f, g) == <<Defs, <<DocF, Line("FUNC", "f")>> \o f \o <<Ret, Line("ENDFUNC", "f"), DocG, Label("g")>> \o g \o <<Ret>>>>
Inside(f, g) == <<Defs, <<DocF, Line("FUNC", "f")>> \o f \o <<To("b", "out"), Label("g")>> \o g
                        \o <<Ret, Label("out"), Set(x1), Ret, Line("ENDFUNC", "f")>>>>
Into(f, g) == <<Defs, <<DocF, Line("global", "f"), Label("f")>> \o f \o <<DocG, Line("global", "g"), Label("g")>> \o g
                      \o <<Ret, Line("dir", ""), Label("table"), Line("data", "")>>>>
Apart(f, g) == <<Defs, <<DocF, Line("blank", ""), Line("FUNC", "f")>> \o f \o <<Ret, Line("ENDFUNC", "f")>>,
                 <<Line("FUNC", "g")>> \o g \o <<Ret, Line("ENDFUNC", "g"), DocG>>>>

MCTrees == UNION {{Below(f, g), Inside(f, g), Into(f, g), Apart(f, g)} : f \in BodiesF, g \in BodiesG}
           \cup {Stops(g) : g \in BodiesG}
=============================================================================
