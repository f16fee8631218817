----------------------------- MODULE AsmMutate -----------------------------
(***************************************************************************)
(* The rule-based candidates of scripts/mutations: each rule rewrites one  *)
(* function body, or declines.  A body is a sequence of lines (Asm).       *)
(***************************************************************************)
EXTENDS AsmFlow

Declined == <<>>

(* split_function: the first line that is a bare label.                     *)
split_function(lines) ==
    LET at == {i \in DOMAIN lines : lines[i].k = "label"}
    IN  IF at = {} THEN Declined
        ELSE LET i == Min(at) IN <<SubSeq(lines, 1, i), SubSeq(lines, i + 1, Len(lines))>>

-----------------------------------------------------------------------------
(* remove_redundant_mov                                                     *)

IsNoop(l) ==
    /\ l.k = "insn"
    /\ \/ l.i.op = "mov" /\ l.i.s # <<>> /\ l.i.d = l.i.s
       \/ l.i.op \in {"add", "sub"} /\ l.i.d = l.i.s /\ l.i.imm = 0
    /\ l.i.d[1][1] \in {"x", "w"}

remove_redundant_mov(lines) ==
    LET parts == split_function(lines)
    IN  IF parts = Declined \/ ~(\E i \in DOMAIN parts[2] : IsNoop(parts[2][i])) THEN Declined
        ELSE parts[1] \o SelectSeq(parts[2], LAMBDA l : ~IsNoop(l))

-----------------------------------------------------------------------------
(* reschedule: a list scheduler over one block.                             *)

_priority_class(op) ==
    CASE op \in LOAD_MNEMONICS -> 0
      [] op \in {"br", "ret"} \cup COND_BRANCH -> 5
      [] op \in STORE_MNEMONICS -> 2
      [] op \in {"cmp", "subs", "adcs"} -> 4
      [] OTHER -> 1

(* Only an address with nothing but the base in its brackets is seen.       *)
_memory_base(i) == IF i.imm = 0 THEN i.base ELSE NoReg

Defs(e) == {normalise_reg(r) : r \in e.loads \cup e.dirtied} \ {NoReg}

(* What the scheduler knows of an instruction.                              *)
Node(i, defs) ==
    [op |-> i.op, base |-> _memory_base(i), defs |-> defs,
     uses |-> {normalise_reg(r) : r \in ToSet(i.d) \cup ToSet(i.s) \cup {i.base}} \ (defs \cup {NoReg})]

(* A store and a load of one base address keep their order.                 *)
MemoryOrder(a, b) ==
    /\ a.base # NoReg /\ a.base = b.base
    /\ {a.op, b.op} \cap STORE_MNEMONICS # {} /\ {a.op, b.op} \cap LOAD_MNEMONICS # {}

(* Mutant: two writes of one register are not ordered.                      *)
EdgeNoOutput(a, b) == b.uses \cap a.defs # {} \/ MemoryOrder(a, b)

Edge(a, b) == b.uses \cap a.defs # {} \/ a.defs \cap b.defs # {} \/ MemoryOrder(a, b)

(* The order: of the instructions whose predecessors are out, the lowest    *)
(* class first, then the earliest.                                          *)
Ready(nodes, out) ==
    {i \in DOMAIN nodes \ out : \A j \in 1..(i - 1) : Edge(nodes[j], nodes[i]) => j \in out}

Before(nodes, i, j) ==
    LET Class(k) == _priority_class(nodes[k].op)
    IN  Class(i) < Class(j) \/ (Class(i) = Class(j) /\ i <= j)

Pick(nodes, ready) == CHOOSE i \in ready : \A j \in ready : Before(nodes, i, j)

ScheduleOrder(nodes) ==
    FoldLeft(LAMBDA acc, k : Append(acc, Pick(nodes, Ready(nodes, ToSet(acc)))), <<>>, nodes)

_schedule_block(block) ==
    LET order == ScheduleOrder([k \in DOMAIN block |-> Node(block[k], Defs(effect(block[k])))])
    IN  [k \in DOMAIN block |-> block[order[k]]]

(* A block ends before a label or directive and after a branch.             *)
Blocks(body) ==
    LET Ends(l) == l.k = "insn" /\ l.i.op \in {"br", "ret"} \cup COND_BRANCH
        Inner(a, b) == \A m \in a..b : body[m].k = "insn" /\ (m < b => ~Ends(body[m]))
        Start(a) == a = 1 \/ body[a - 1].k # "insn" \/ Ends(body[a - 1])
        Stop(b) == b = Len(body) \/ body[b + 1].k # "insn" \/ Ends(body[b])
    IN  {<<a, b>> \in (DOMAIN body) \X (DOMAIN body) : a < b /\ Start(a) /\ Stop(b) /\ Inner(a, b)}

(* The flush after the last line never comes: a block that runs to the end  *)
(* of the body without a branch keeps its order.                            *)
Flushed(body, b) == b[2] < Len(body) \/ body[b[2]].i.op \in {"br", "ret"} \cup COND_BRANCH

InsnsOf(body, b) == [k \in 1..(b[2] - b[1] + 1) |-> body[b[1] + k - 1].i]

Schedules(body) ==
    {[at |-> b, new |-> _schedule_block(InsnsOf(body, b))] : b \in {c \in Blocks(body) : Flushed(body, c)}}

(* The first block whose order changes is replaced.                         *)
ReplaceFirst(parts, changed) ==
    LET first == CHOOSE p \in changed : \A q \in changed : p.at[1] <= q.at[1]
    IN  IF changed = {} THEN Declined
        ELSE parts[1] \o [m \in DOMAIN parts[2] |->
                            IF m \in first.at[1]..first.at[2]
                            THEN Code(first.new[m - first.at[1] + 1]) ELSE parts[2][m]]

Reschedule(parts) ==
    IF parts = Declined THEN Declined
    ELSE ReplaceFirst(parts, {p \in Schedules(parts[2]) : p.new # InsnsOf(parts[2], p.at)})

reschedule(lines) == Reschedule(split_function(lines))

-----------------------------------------------------------------------------
(* unroll_2x and neon_32b: the 16-byte copy loop becomes a 32-byte loop in  *)
(* front of the old one.                                                    *)

Idiom == <<"cbz", "cmp", "b.lo", "ldp", "stp", "sub", "cmp", "b.hs">>

Items(body) == {i \in DOMAIN body : body[i].k = "insn"}

(* The lines of as many instructions as the idiom has, from line i on.      *)
Window(items, i) ==
    [k \in DOMAIN Idiom |-> CHOOSE j \in items : j >= i /\ Cardinality({m \in items : i <= m /\ m < j}) = k - 1]

FitsIdiom(c, len) ==
    /\ \A k \in DOMAIN Idiom : c[k].op = Idiom[k] /\ (c[k].op \in {"sub", "cmp"} => c[k].imm = 16)
    /\ c[4].d = c[5].d /\ c[4].wb = 16 /\ c[5].wb = 16
    /\ \A k \in {1, 2, 6, 7} : c[k].s = <<len>>
    /\ len \notin {c[4].base, c[5].base}

Fits(body, at) ==
    body[at[6]].i.d # <<>> /\ FitsIdiom([k \in DOMAIN at |-> body[at[k]].i], body[at[6]].i.d[1])

Occurrences(body, items) ==
    {at \in {Window(items, i) : i \in {j \in items : Cardinality({m \in items : m >= j}) >= Len(Idiom)}} :
        Fits(body, at)}

Loop(head, body, at) ==
    [found |-> TRUE, head |-> head, body |-> body, loop |-> at[4], tail |-> at[8] + 1,
     pair |-> body[at[4]].i.d, src |-> body[at[4]].i.base, dst |-> body[at[5]].i.base,
     rlen |-> body[at[6]].i.d[1], back |-> body[at[8]].i.t,
     loop_lines |-> [k \in 1..5 |-> body[at[3 + k]]]]

FirstLoop(parts, found) ==
    IF found = {} THEN [found |-> FALSE]
    ELSE Loop(parts[1], parts[2], CHOOSE at \in found : \A o \in found : at[1] <= o[1])

DetectIn(parts) ==
    IF parts = Declined THEN [found |-> FALSE]
    ELSE FirstLoop(parts, Occurrences(parts[2], Items(parts[2])))

detect_loop(lines) == DetectIn(split_function(lines))

fresh_numeric_labels(body, count) ==
    LET used == {body[i].name : i \in {j \in DOMAIN body : body[j].k = "label"}}
        free == {n \in 1..(Len(body) + count) : ToString(n) \notin used}
        Nth(k) == CHOOSE n \in free : Cardinality({m \in free : m < n}) = k - 1
    IN  [k \in 1..count |-> ToString(Nth(k))]

(* _fresh_regs: a pair neither of whose x names occurs in the body.         *)
_fresh_regs(body) ==
    LET Names(i) == ToSet(i.d) \cup ToSet(i.s) \cup {i.base}
        used == UNION {Names(body[j].i) : j \in {m \in DOMAIN body : body[m].k = "insn"}}
        pairs == {n \in {5, 7, 9, 11, 13, 15, 17} : {X(n), X(n + 1)} \cap used = {}}
    IN  IF pairs = {} THEN <<>> ELSE <<X(Min(pairs)), X(Min(pairs) + 1)>>

Imm(op, d, s, n) == Code([Insn(op, d, s) EXCEPT !.imm = n])

(* The 32-byte loop in front of the old one, which is entered below it.     *)
Expanded(l, main_loop, nloop, oldloop, step) ==
    LET Jump(cond, dir, name) == Code(Branch(cond, <<>>, dir, name))
        Retarget(line) == IF line.i.op = "b.hs" /\ line.i.t = l.back
                          THEN Jump("b.hs", "b", oldloop) ELSE line
    IN  l.head \o SubSeq(l.body, 1, l.loop - 1)
        \o <<Imm("cmp", <<>>, <<l.rlen>>, 32), Jump("b.lo", "f", oldloop), Label(nloop)>>
        \o main_loop
        \o <<Imm("sub", <<l.rlen>>, <<l.rlen>>, step), Imm("cmp", <<>>, <<l.rlen>>, 32),
             Jump("b.hs", "b", nloop), Label(oldloop)>>
        \o [k \in 1..5 |-> Retarget(l.loop_lines[k])]
        \o SubSeq(l.body, l.tail, Len(l.body))

(* Mutant: the 32-byte loop counts 16.                                      *)
ExpandCounts16(l, main_loop, labels) == Expanded(l, main_loop, labels[1], labels[2], 16)

_expand(l, main_loop, labels) == Expanded(l, main_loop, labels[1], labels[2], 32)

Unroll(l, fresh) ==
    LET Copy(op, d, base) == Code(Mem(op, d, base, 0, 16))
    IN  IF fresh = <<>> THEN Declined
        ELSE _expand(l, <<Copy("ldp", l.pair, l.src), Copy("ldp", fresh, l.src),
                          Copy("stp", l.pair, l.dst), Copy("stp", fresh, l.dst)>>,
                     fresh_numeric_labels(l.body, 2))
UnrollLoop(l) == IF ~l.found THEN Declined ELSE Unroll(l, _fresh_regs(l.body))

unroll_2x(lines) == UnrollLoop(detect_loop(lines))

NeonLoop(l) ==
    LET V == <<<<"v", 0>>, <<"v", 1>>>>
    IN  IF ~l.found THEN Declined
        ELSE _expand(l, <<Code(Mem("ld1", V, l.src, 0, 32)), Code(Mem("st1", V, l.dst, 0, 32))>>,
                     fresh_numeric_labels(l.body, 2))

neon_32b(lines) == NeonLoop(detect_loop(lines))
=============================================================================
