------------------------------ MODULE AsmFlow ------------------------------
(***************************************************************************)
(* The dataflow analyses of the scripts over one function body: the        *)
(* control-flow graph, the callee-saved/SP dataflow and the NZCV analysis  *)
(* of scripts/abi.py, and the register liveness of scripts/regpressure.py. *)
(*                                                                         *)
(* Every analysis sweeps over the instructions in a fixed order and        *)
(* updates each one in place, at most n + 2 times.                         *)
(***************************************************************************)
EXTENDS Asm

build_cfg(insns, labels) ==
    LET n == Len(insns)
        Target(i) == {resolve_target(insns[i].t, labels, i)} \cap (1..n)
        Fall(i) == {i + 1} \cap (1..n)
    IN  [i \in 1..n |->
            CASE insns[i].op \in {"ret", "br"} -> {}
              [] insns[i].op = "b" -> Target(i)
              [] insns[i].op \in COND_BRANCH \ {"b"} -> Fall(i) \cup Target(i)
              [] OTHER -> Fall(i)]

predecessors(succ) == [i \in DOMAIN succ |-> {j \in DOMAIN succ : i \in succ[j]}]

back_edges(succ) == {e \in (DOMAIN succ) \X (DOMAIN succ) : e[2] \in succ[e[1]] /\ e[2] <= e[1]}

Forward(insns) == [i \in 1..Len(insns) |-> i]
Sweeps(insns) == [k \in 1..(Len(insns) + 2) |-> k]

-----------------------------------------------------------------------------
(* Callee-saved registers and SP.  sp_net is unknown when paths disagree;   *)
(* an instruction no path has reached yet has no state.                     *)

Unknown == -1
State == [dirty |-> {}, sp_net |-> 0, saved_x30 |-> FALSE, called |-> FALSE]
Unreached == [State EXCEPT !.sp_net = -2]

(* Mutant: a register is dirty only when every predecessor dirtied it.      *)
JoinCommon(states) ==
    [dirty |-> {r \in UNION {s.dirty : s \in states} : \A s \in states : r \in s.dirty},
     sp_net |-> IF Cardinality({s.sp_net : s \in states}) = 1
                THEN (CHOOSE s \in states : TRUE).sp_net ELSE Unknown,
     saved_x30 |-> \E s \in states : s.saved_x30,
     called |-> \E s \in states : s.called]

join(states) ==
    [dirty |-> UNION {s.dirty : s \in states},
     sp_net |-> IF Cardinality({s.sp_net : s \in states}) = 1
                THEN (CHOOSE s \in states : TRUE).sp_net ELSE Unknown,
     saved_x30 |-> \E s \in states : s.saved_x30,
     called |-> \E s \in states : s.called]

(* A load from the stack restores; a copy of a clean register is clean.     *)
apply_effect(state, e) ==
    LET loaded == {normalise_reg(r) : r \in e.loads}
        kept == state.dirty \ loaded
        written == {normalise_reg(r) : r \in e.dirtied} \cap TRACKED
        clean == tracked(e.copy_from) /\ normalise_reg(e.copy_from) \notin kept
        sp == IF e.sp_restore THEN 0 ELSE state.sp_net
    IN  [dirty |-> IF clean THEN kept \ written ELSE kept \cup written,
         sp_net |-> IF sp = Unknown THEN sp ELSE sp + e.sp_delta,
         saved_x30 |-> state.saved_x30 \/ X(30) \in e.stores,
         called |-> state.called \/ e.calls]

_after(state, i) == apply_effect(state, effect(i))

EntrySweep(insns, preds, entry) ==
    FoldLeft(LAMBDA acc, i :
               LET live == {p \in preds[i] : acc[p] # Unreached}
               IN  IF i = 1 \/ live = {} THEN acc
                   ELSE [acc EXCEPT ![i] = join({_after(acc[p], insns[p]) : p \in live})],
             entry, Forward(insns))

EntryStates(insns, preds) ==
    FoldLeft(LAMBDA e, k : EntrySweep(insns, preds, e),
             [i \in 1..Len(insns) |-> IF i = 1 THEN State ELSE Unreached], Sweeps(insns))

Warn(severity, what, reg) == [severity |-> severity, what |-> what, reg |-> reg]

(* _check_ret: what the state at a ret or br gives away.                    *)
_check_ret(state, e) ==
    {Warn("error", "dirty", r) : r \in state.dirty \ {X(30)}}
    \cup {Warn("error", "ret dirty", r) : r \in state.dirty \cap {e.ret}}
    \cup (IF state.sp_net = Unknown THEN {Warn("warning", "sp unknown", NoReg)}
          ELSE IF state.sp_net # 0 THEN {Warn("error", "sp", NoReg)} ELSE {})

-----------------------------------------------------------------------------
(* NZCV: backward liveness and forward reaching definitions.  A branch that *)
(* leaves the function is an exit like ret.                                 *)

rets(insns, succ) ==
    {i \in 1..Len(insns) : \/ insns[i].op = "ret"
                           \/ insns[i].op \in {"b", "br"} /\ succ[i] = {}}

FlagLiveSweep(insns, succ, carry_abi, live) ==
    FoldLeft(LAMBDA acc, i :
               LET out == IF i \in rets(insns, succ) THEN carry_abi
                          ELSE \E s \in succ[i] : acc[s]
               IN  [acc EXCEPT ![i] = uses_flags(insns[i]) \/ (out /\ ~defines_flags(insns[i]))],
             live, Reverse(Forward(insns)))

ReachSweep(insns, preds, reach) ==
    FoldLeft(LAMBDA acc, i :
               LET in == UNION {acc[p].out : p \in preds[i]}
               IN  [acc EXCEPT ![i] = [in |-> in,
                                       out |-> IF defines_flags(insns[i]) THEN {i} ELSE in]],
             reach, Forward(insns))

analyse_flags(insns, succ, carry_abi) ==
    LET all == [i \in 1..Len(insns) |-> [in |-> {}, out |-> {}]]
        preds == predecessors(succ)
        reach == FoldLeft(LAMBDA r, k : ReachSweep(insns, preds, r), all, Sweeps(insns))
    IN  [live_in |-> FoldLeft(LAMBDA l, k : FlagLiveSweep(insns, succ, carry_abi, l),
                              [i \in 1..Len(insns) |-> FALSE], Sweeps(insns)),
         reach_in |-> [i \in 1..Len(insns) |-> reach[i].in],
         at_ret |-> UNION {reach[r].in : r \in rets(insns, succ)},
         carry_abi |-> carry_abi]

(* signature: the texts that reach each reader's text; equal texts merge.   *)
RetKey == Insn("ret value", <<>>, <<>>)
(* Mutant: the caller of a carry-returning function is not a reader.        *)
SignatureNoRet(insns, flags) ==
    LET readers == {i \in 1..Len(insns) : uses_flags(insns[i])}
        Texts(js) == {insns[j] : j \in js}
    IN  [k \in {insns[i] : i \in readers} |->
            UNION {Texts(flags.reach_in[i]) : i \in {j \in readers : insns[j] = k}}]

signature(insns, flags) ==
    LET readers == {i \in 1..Len(insns) : uses_flags(insns[i])}
        Texts(js) == {insns[j] : j \in js}
        keys == {insns[i] : i \in readers} \cup (IF flags.carry_abi THEN {RetKey} ELSE {})
    IN  [k \in keys |-> IF k = RetKey THEN Texts(flags.at_ret)
                        ELSE UNION {Texts(flags.reach_in[i]) : i \in {j \in readers : insns[j] = k}}]

(* _check_flags: the readers both bodies have must be reached by the same.  *)
FlagChanges(before, after) == {k \in DOMAIN before \cap DOMAIN after : before[k] # after[k]}

FlagSignature(p, carry_abi) ==
    signature(p.insns, analyse_flags(p.insns, build_cfg(p.insns, p.labels), carry_abi))

_check_flags(insns, succ, flags, original) ==
    LET unset == flags.carry_abi /\ flags.at_ret = {}
                 /\ \E r \in rets(insns, succ) : insns[r].op = "ret"
        changed == FlagChanges(FlagSignature(original, flags.carry_abi), signature(insns, flags))
    IN  (IF unset THEN {Warn("warning", "carry unset", NoReg)} ELSE {})
        \cup (IF original.insns # <<>> THEN {Warn("error", "nzcv", NoReg) : k \in changed}
              ELSE {})

-----------------------------------------------------------------------------
(* check_function over a body whose macros are expanded.                    *)

Misaligned(i) == \/ i.op \in {"sub", "add"} /\ i.d = <<SP>> /\ i.imm % 16 # 0
                 \/ _sp_delta(i) % 16 # 0

ReturnWarnings(entry, effects) ==
    UNION {_check_ret(entry[i], effects[i]) :
             i \in {j \in DOMAIN entry : entry[j] # Unreached /\ effects[j].branch = "ret"}}

SaveWarnings(effects) ==
    LET unsaved == /\ \E i \in DOMAIN effects : effects[i].calls
                   /\ \A i \in DOMAIN effects : X(30) \notin effects[i].stores
    IN  IF unsaved THEN {Warn("warning", "x30 unsaved", NoReg)} ELSE {}

CheckFlow(insns, succ, effects, original, carry_abi) ==
    ReturnWarnings(EntryStates(insns, predecessors(succ)), effects)
    \cup SaveWarnings(effects)
    \cup {Warn("error", "alignment", NoReg) : i \in {j \in DOMAIN insns : Misaligned(insns[j])}}
    \cup _check_flags(insns, succ, analyse_flags(insns, succ, carry_abi), original)

CheckParsed(p, original, carry_abi) ==
    IF p.insns = <<>> THEN {Warn("error", "empty", NoReg)}
    ELSE CheckFlow(p.insns, build_cfg(p.insns, p.labels),
                   [i \in DOMAIN p.insns |-> effect(p.insns[i])], original, carry_abi)

check_function(lines, original, carry_abi) ==
    CheckParsed(parse_instructions(lines), parse_instructions(original), carry_abi)

errors(warnings) == {w \in warnings : w.severity = "error"}

-----------------------------------------------------------------------------
(* regpressure.py analyse.                                                  *)

Live(out, du) == [in |-> (out \ du.defs) \cup du.uses, out |-> out]

LiveSweep(insns, succ, live) ==
    FoldLeft(LAMBDA acc, i :
               [acc EXCEPT ![i] = Live(UNION {acc[s].in : s \in succ[i]}, def_use(insns[i]))],
             live, Reverse(Forward(insns)))

Liveness(insns, succ) ==
    FoldLeft(LAMBDA l, k : LiveSweep(insns, succ, l),
             [i \in 1..Len(insns) |-> [in |-> {}, out |-> {}]], Sweeps(insns))

gprs(regs) == {r \in regs : r[1] = "x"}

OnStack(i) == i.base = SP \/ SP \in ToSet(i.d) \cup ToSet(i.s)

_preserved_registers(insns) ==
    LET On(ops) == UNION {regs_in(insns[i].d) :
                            i \in {j \in DOMAIN insns : insns[j].op \in ops /\ OnStack(insns[j])}}
    IN  On(STORE_MNEMONICS) \cap On(LOAD_MNEMONICS)

FunctionInfo(insns, succ, live, du) ==
    LET all == DOMAIN insns
        plain == {i \in all : ~du[i].call}
        loop_insns == UNION {e[2]..e[1] : e \in back_edges(succ)}
        Peak(is) == Max({0} \cup {Cardinality(gprs(live[i].out)) : i \in is})
    IN  [live_in |-> [i \in all |-> live[i].in],
         peak |-> Peak(all), peak_loop |-> Peak(loop_insns),
         callee_used |-> UNION {du[i].defs \cup du[i].uses : i \in plain} \cap CALLEE_SAVED,
         justified |-> UNION {gprs(live[i].out) : i \in all \ plain} \cap CALLEE_SAVED,
         clobbers_direct |-> UNION {du[i].defs : i \in plain}
                             \cup {X(30) : i \in {j \in all : insns[j].op \in {"bl", "blr"}}},
         preserved |-> _preserved_registers(insns)]

AnalyseFlow(insns, succ) ==
    FunctionInfo(insns, succ, Liveness(insns, succ), [i \in DOMAIN insns |-> def_use(insns[i])])

AnalyseParsed(p) == AnalyseFlow(p.insns, build_cfg(p.insns, p.labels))

analyse(lines) == AnalyseParsed(parse_instructions(lines))

(* unjustified: saved and restored, and never holding a value over a call.  *)
unjustified(info) == (info.callee_used \cap info.preserved) \ info.justified
=============================================================================
