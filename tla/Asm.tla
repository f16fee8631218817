-------------------------------- MODULE Asm --------------------------------
(***************************************************************************)
(* AArch64 as the analysis scripts read it (scripts/asmparse.py, abi.py,   *)
(* regpressure.py), and as the hardware runs it.                           *)
(*                                                                         *)
(* A line of source is an instruction, a label, or one of the directives   *)
(* the scripts look at.  An instruction keeps its mnemonic and operands as *)
(* registers: d are destinations (the stored registers of a store), s the  *)
(* other register operands.  Every mnemonic set of the scripts appears     *)
(* with the members that behave differently; the others behave like one    *)
(* of them.                                                                *)
(***************************************************************************)
EXTENDS Integers, Sequences, FiniteSets, SequencesExt, FiniteSetsExt

CONSTANTS CallerNums,  \* numbers of the caller-saved registers used (0..17)
          CalleeNums   \* numbers of the callee-saved registers used (19..28)

ASSUME AsmAssumption == CallerNums \subseteq 0..17 /\ CalleeNums \subseteq 19..28

X(n) == <<"x", n>>
SP == <<"sp", 0>>
NoReg == <<"none", 0>>

CALLER_SAVED == {X(n) : n \in CallerNums}
CALLEE_SAVED == {X(n) : n \in CalleeNums}
TRACKED == CALLEE_SAVED \cup {X(29), X(30)} \cup {<<"v", 8>>}

LOAD_MNEMONICS == {"ldr", "ldp", "ldrb", "ld1"}
STORE_MNEMONICS == {"str", "stp", "strb", "st1"}
COND_BRANCH == {"b", "b.lo", "b.hs", "cbz"}
NO_DEST == {"cmp", "nop", "svc"}
FLAG_DEFS == {"subs", "adcs", "cmp", "bl", "blr", "svc"}
FLAG_USES == {"adc", "adcs", "csel", "b.lo", "b.hs"}

defines_flags(i) == i.op \in FLAG_DEFS
uses_flags(i) == i.op \in FLAG_USES

(* wN is an alias of xN for norm, and an unknown register for               *)
(* normalise_reg.                                                           *)
normalise_reg(r) == IF r[1] \in {"d", "q"} THEN <<"v", r[2]>> ELSE r
norm(r) == CASE r[1] = "w" -> <<"x", r[2]>>
             [] r[1] \in {"d", "q", "s", "b", "h"} -> <<"v", r[2]>>
             [] OTHER -> r

tracked(r) == normalise_reg(r) \in TRACKED
regs_in(rs) == {norm(r) : r \in ToSet(rs)} \ {SP, NoReg}

-----------------------------------------------------------------------------
(* Instructions.  In an address, imm is the distance of the access from the *)
(* base and wb what the base changes by: [sp, #-16]! has both, [sp], #16    *)
(* only wb.                                                                 *)

NoTarget == [dir |-> "", name |-> ""]
Insn(op, d, s) == [op |-> op, d |-> d, s |-> s, base |-> NoReg, imm |-> 0, wb |-> 0,
                   t |-> NoTarget]
Mem(op, d, base, imm, wb) ==
    [Insn(op, d, <<>>) EXCEPT !.base = base, !.imm = imm, !.wb = wb]
Branch(op, s, dir, name) == [Insn(op, <<>>, s) EXCEPT !.t = [dir |-> dir, name |-> name]]
Adjust(op, n) == [Insn(op, <<SP>>, <<SP>>) EXCEPT !.imm = n]

(* Lines. *)
Line(k, name) == [k |-> k, name |-> name, i |-> Insn("nop", <<>>, <<>>), args |-> <<>>, doc |-> {}]
Code(i) == [Line("insn", "") EXCEPT !.i = i]
Label(name) == Line("label", name)
MacroCall(name, args) == [Line("macro", name) EXCEPT !.args = args]

(* A macro call that is not expanded reads as an instruction of that name.  *)
IsInsn(l) == l.k \in {"insn", "macro"}
InsnOf(l) == IF l.k = "insn" THEN l.i
             ELSE IF l.args = <<>> THEN Insn(l.name, <<>>, <<>>)
             ELSE Insn(l.name, <<Head(l.args)>>, Tail(l.args))

(* Mutant: of a label defined twice, only the last definition is kept.      *)
ParseLastLabel(lines) ==
    LET code == SelectSeq(lines, IsInsn)
        Before(j) == Cardinality({m \in 1..(j - 1) : IsInsn(lines[m])})
        last == {m \in DOMAIN lines : lines[m].k = "label"
                    /\ \A n \in (m + 1)..Len(lines) : lines[n].k = "label" => lines[n].name # lines[m].name}
    IN  [insns |-> [j \in 1..Len(code) |-> InsnOf(code[j])],
         labels |-> {<<lines[j].name, Before(j) + 1>> : j \in last}]

(* parse_instructions: every definition of a label is kept, at the index of *)
(* the next instruction; the symbol macros are not instructions.            *)
parse_instructions(lines) ==
    LET code == SelectSeq(lines, IsInsn)
        Before(j) == Cardinality({m \in 1..(j - 1) : IsInsn(lines[m])})
    IN  [insns  |-> [j \in 1..Len(code) |-> InsnOf(code[j])],
         labels |-> {<<lines[j].name, Before(j) + 1>> :
                        j \in {m \in DOMAIN lines : lines[m].k = "label"}}]

None == 0   \* no index

(* resolve_target: 1b is the nearest definition at or before the branch, 1f *)
(* the nearest after; a name defined twice, the nearest at or after, else   *)
(* the last.                                                                *)
resolve_target(t, labels, current) ==
    LET values == {l[2] : l \in {m \in labels : m[1] = t.name}}
        Among(S, Best(_)) == IF S = {} THEN None ELSE Best(S)
    IN  CASE t.dir = "b" -> Among({v \in values : v <= current}, Max)
          [] t.dir = "f" -> Among({v \in values : v > current}, Min)
          [] OTHER -> IF {v \in values : v >= current} # {} /\ Cardinality(values) > 1
                      THEN Min({v \in values : v >= current})
                      ELSE Among(values, Max)

-----------------------------------------------------------------------------
(* abi.py effect: what the checker thinks an instruction does.              *)

_sp_delta(i) == IF i.base = SP THEN i.wb ELSE 0

Nothing == [loads |-> {}, stores |-> {}, dirtied |-> {}, copy_from |-> NoReg,
            sp_delta |-> 0, sp_restore |-> FALSE, calls |-> FALSE, ret |-> NoReg,
            branch |-> "none"]

effect(i) ==
    CASE i.op \in COND_BRANCH -> [Nothing EXCEPT !.branch = "cond"]
      [] i.op \in {"ret", "br"} ->
             [Nothing EXCEPT !.ret = IF i.s = <<>> THEN X(30) ELSE i.s[1], !.branch = "ret"]
      [] i.op \in {"bl", "blr"} -> [Nothing EXCEPT !.calls = TRUE, !.dirtied = {X(30)}]
      [] i.op = "mov" /\ i.d = <<SP>> -> [Nothing EXCEPT !.sp_restore = TRUE]
      [] i.op = "mov" /\ i.d # <<SP>> ->
             [Nothing EXCEPT !.dirtied = {i.d[1]},
                             !.copy_from = IF i.s = <<>> THEN NoReg ELSE i.s[1]]
      [] i.op \in LOAD_MNEMONICS ->
             IF i.base \in {SP, X(29)}
             THEN [Nothing EXCEPT !.loads = ToSet(i.d), !.sp_delta = _sp_delta(i)]
             ELSE [Nothing EXCEPT !.dirtied = ToSet(i.d)]
      [] i.op \in STORE_MNEMONICS ->
             [Nothing EXCEPT !.stores = ToSet(i.d), !.sp_delta = _sp_delta(i)]
      [] i.op \in {"sub", "add"} /\ i.d = <<SP>> ->
             [Nothing EXCEPT !.sp_delta = IF i.op = "sub" THEN -i.imm ELSE i.imm]
      [] i.op \in NO_DEST -> Nothing
      [] OTHER -> [Nothing EXCEPT !.dirtied = ToSet(i.d)]

(* regpressure.py def_use: a call defines what it may destroy.              *)
_writeback_regs(i) == IF i.wb # 0 THEN regs_in(<<i.base>>) ELSE {}

def_use(i) ==
    CASE i.op \in {"bl", "blr", "svc"} ->
             [defs |-> CALLER_SAVED \cup {X(30)},
              uses |-> IF i.op = "blr" THEN regs_in(i.s) ELSE {}, call |-> TRUE]
      [] i.op = "ret" ->
             [defs |-> {}, uses |-> {X(0)} \cup (IF i.s = <<>> THEN {X(30)} ELSE regs_in(i.s)),
              call |-> FALSE]
      [] i.op \in {"br"} \cup COND_BRANCH -> [defs |-> {}, uses |-> regs_in(i.s), call |-> FALSE]
      [] i.op \in LOAD_MNEMONICS ->
             [defs |-> regs_in(i.d) \cup _writeback_regs(i), uses |-> regs_in(<<i.base>>),
              call |-> FALSE]
      [] i.op \in STORE_MNEMONICS ->
             [defs |-> _writeback_regs(i), uses |-> regs_in(i.d) \cup regs_in(<<i.base>>),
              call |-> FALSE]
      [] i.op \in NO_DEST -> [defs |-> {}, uses |-> regs_in(i.s), call |-> FALSE]
      [] OTHER -> [defs |-> regs_in(i.d), uses |-> regs_in(i.s), call |-> FALSE]

-----------------------------------------------------------------------------
(* The hardware: what an instruction really reads and writes.  A call       *)
(* destroys every caller-saved register.                                    *)

HwReads(i) ==
    CASE i.op = "bl" -> {}
      [] i.op = "ret" -> IF i.s = <<>> THEN {X(30)} ELSE regs_in(i.s)
      [] i.op \in STORE_MNEMONICS -> regs_in(i.d) \cup regs_in(<<i.base>>)
      [] OTHER -> regs_in(i.s) \cup regs_in(<<i.base>>)

Moved(i) == IF i.wb = 0 THEN {} ELSE regs_in(<<i.base>>)

HwWrites(i) ==
    CASE i.op \in {"bl", "blr"} -> CALLER_SAVED \cup {X(30)}
      [] i.op = "svc" -> {X(0)}
      [] i.op \in STORE_MNEMONICS -> Moved(i)
      [] OTHER -> regs_in(i.d) \cup Moved(i)
=============================================================================
