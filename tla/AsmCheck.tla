------------------------------ MODULE AsmCheck ------------------------------
(***************************************************************************)
(* The static gate of the optimizer: a function, a candidate the mutation  *)
(* rules make of it, what scripts/abi.py and scripts/regpressure.py say of *)
(* the candidate, and a processor that runs it, taking each conditional    *)
(* branch either way.  The processor follows the labels in the text, not   *)
(* the graph the scripts build.                                            *)
(***************************************************************************)
EXTENDS AsmMutate

CONSTANTS Bodies,    \* [lines, carry, beside]: functions, whether they return in the
                     \*   carry, and what follows them in their file
          Copies,    \* copy functions: x0 destination, x1 source, x2 length
          Lengths,   \* the lengths they are called with
          LenMod,    \* the length register counts modulo this (2^64)
          Frame      \* bytes of stack the processor lets a function use

ASSUME AsmCheckAssumption ==
    /\ \A l \in Lengths : l \in 0..(LenMod - 1)
    /\ Frame \in Nat /\ Frame % 16 = 0

VARIABLES orig, file, cand, carry, phase, result, cpu, copy
vars == <<orig, file, cand, carry, phase, result, cpu, copy>>

Registers == CALLER_SAVED \cup TRACKED
Slots == {-8 * k : k \in 1..(Frame \div 8)}
New == <<"new", 0>>
Stack(k) == <<"stack", k>>
None_ == [none |-> TRUE]

-----------------------------------------------------------------------------
(* The text of the function: where a branch goes, by line.                  *)

IsCode(lines, j) == lines[j].k = "insn"
Index(lines, j) == Cardinality({m \in 1..j : IsCode(lines, m)})
NextCode(lines, j) == LET S == {m \in j..Len(lines) : IsCode(lines, m)}
                      IN  IF S = {} THEN Len(lines) + 1 ELSE Min(S)
LineOf(lines, t, j) ==
    LET defs == {m \in DOMAIN lines : lines[m].k = "label" /\ lines[m].name = t.name}
        S == CASE t.dir = "b" -> {m \in defs : m < j}
               [] t.dir = "f" -> {m \in defs : m > j}
               [] OTHER -> defs
    IN  IF S = {} THEN Len(lines) + 1
        ELSE NextCode(lines, IF t.dir = "b" THEN Max(S) ELSE Min(S))

(* Where control may go next; past the text when it leaves the function.    *)
Follows(lines, j) ==
    LET i == lines[j].i
        fall == NextCode(lines, j + 1)
    IN  CASE i.op \in {"ret", "br"} -> {Len(lines) + 1}
          [] i.op = "b" -> {LineOf(lines, i.t, j)}
          [] i.op \in COND_BRANCH \ {"b"} -> {fall, LineOf(lines, i.t, j)}
          [] OTHER -> {fall}

-----------------------------------------------------------------------------
(* One instruction.  A run ends when SP leaves the frame or is no longer a  *)
(* stack address.                                                           *)

ValueOf(r) == IF r = SP THEN Stack(cpu.sp) ELSE cpu.val[norm(r)]
Address(i) == IF ValueOf(i.base)[1] = "stack" THEN ValueOf(i.base)[2] + i.imm ELSE 0
OnFrame(i) == i.base # NoReg /\ ValueOf(i.base)[1] = "stack"
SlotOf(i, k) == Address(i) + 8 * (k - 1)
Read(i, k) == IF OnFrame(i) /\ SlotOf(i, k) \in Slots THEN cpu.mem[SlotOf(i, k)] ELSE New

Result(i, r) ==
    CASE i.op = "mov" /\ i.s # <<>> -> IF norm(i.d[1]) = i.d[1] THEN ValueOf(i.s[1]) ELSE New
      [] i.op \in LOAD_MNEMONICS /\ (\E k \in DOMAIN i.d : i.d[k] = r) ->
             Read(i, CHOOSE k \in DOMAIN i.d : i.d[k] = r)
      [] OTHER -> New

NextVal(i) == [r \in Registers |-> IF r \in HwWrites(i) THEN Result(i, r) ELSE cpu.val[r]]

NextMem(i) ==
    [s \in Slots |-> IF i.op \in STORE_MNEMONICS /\ OnFrame(i) /\ (\E k \in DOMAIN i.d : SlotOf(i, k) = s)
                     THEN ValueOf(i.d[CHOOSE k \in DOMAIN i.d : SlotOf(i, k) = s])
                     ELSE cpu.mem[s]]

NextSp(i) ==
    CASE i.op = "mov" /\ i.d = <<SP>> ->
             IF ValueOf(i.s[1])[1] = "stack" THEN ValueOf(i.s[1])[2] ELSE 1
      [] i.op \in {"sub", "add"} /\ i.d = <<SP>> ->
             IF i.op = "sub" THEN cpu.sp - i.imm ELSE cpu.sp + i.imm
      [] i.base = SP -> cpu.sp + i.wb
      [] OTHER -> cpu.sp

(* What abi.py takes on trust: that a load from the stack reads the slot    *)
(* the register was saved to, that mov sp restores the entry value, that    *)
(* no callee-saved register is copied over another, written by its w name   *)
(* or moved by an address.                                                  *)
Trusted(i) ==
    /\ i.op \in LOAD_MNEMONICS /\ i.base \in {SP, X(29)} =>
          \A k \in DOMAIN i.d : tracked(i.d[k]) => Read(i, k) = i.d[k]
    /\ i.op = "mov" /\ i.d = <<SP>> => ValueOf(i.s[1]) = Stack(0)
    /\ i.op = "mov" /\ tracked(i.d[1]) /\ i.s # <<>> => ~tracked(i.s[1]) \/ i.s = i.d
    /\ i.op \notin STORE_MNEMONICS =>
          \A r \in ToSet(i.d) : norm(r) \in TRACKED => normalise_reg(r) = norm(r)
    /\ Moved(i) \cap TRACKED = {}

-----------------------------------------------------------------------------

Start(lines) ==
    [at |-> NextCode(lines, 1), from |-> None, val |-> [r \in Registers |-> r], sp |-> 0,
     mem |-> [s \in Slots |-> New], writer |-> None, trusted |-> TRUE,
     dead |-> {}, fdead |-> FALSE, across |-> {}]

Init ==
    /\ cand = <<>> /\ phase = "mutate" /\ result = None_ /\ cpu = None_
    /\ \/ \E b \in Bodies : /\ orig = b.lines /\ file = b.lines \o b.beside
                            /\ carry = b.carry /\ copy = None_
       \/ \E l \in Lengths :
             /\ orig \in Copies /\ file = orig /\ carry = FALSE
             /\ copy = [at |-> 1, len |-> l, want |-> l, read |-> 0, wrote |-> 0, hs |-> FALSE,
                       rule |-> "none"]

(* apply_mutations: the rules that apply; the function itself is checked    *)
(* too.                                                                     *)
Candidate(rule, lines) == [rule |-> rule, lines |-> lines]
apply_mutations(lines) ==
    {c \in {Candidate("remove_redundant_mov", remove_redundant_mov(lines)),
            Candidate("reschedule", reschedule(lines)),
            Candidate("unroll_2x", unroll_2x(lines)),
            Candidate("neon_32b", neon_32b(lines))} : c.lines # Declined}

Mutate ==
    /\ phase = "mutate"
    /\ \E c \in {Candidate("none", orig)} \cup apply_mutations(orig) :
         /\ cand' = c.lines
         /\ copy' = IF copy = None_ THEN copy ELSE [copy EXCEPT !.rule = c.rule]
    /\ phase' = IF copy = None_ THEN "check" ELSE "copy"
    /\ UNCHANGED <<orig, file, carry, result, cpu>>

Settled(entry, next) == \A i \in DOMAIN entry : next[i] = entry[i]

DataflowSettled(insns, preds, entry) == Settled(entry, EntrySweep(insns, preds, entry))

(* The original the optimizer hands to the flag comparison is the file.     *)
Reported(insns, succ) ==
    [warnings |-> check_function(cand, file, carry), succ |-> succ,
     settled |-> DataflowSettled(insns, predecessors(succ), EntryStates(insns, predecessors(succ))),
     flags |-> analyse_flags(insns, succ, carry), info |-> analyse(cand)]

ReportedOf(p) == Reported(p.insns, build_cfg(p.insns, p.labels))

Check ==
    /\ phase = "check"
    /\ result' = ReportedOf(parse_instructions(cand))
    /\ phase' = "run"
    /\ cpu' = Start(cand)
    /\ UNCHANGED <<orig, file, cand, carry, copy>>

Running == phase = "run" /\ cpu.at <= Len(cand)
Now == cand[cpu.at].i
Here == Index(cand, cpu.at)
Dead == cpu.dead \cup (Registers \ result.info.live_in[Here])
FlagsDead == cpu.fdead \/ ~result.flags.live_in[Here]

Step ==
    /\ Running
    /\ NextSp(Now) \in -Frame..0
    /\ \E next \in Follows(cand, cpu.at) :
         cpu' = [at |-> next, from |-> Here, val |-> NextVal(Now), sp |-> NextSp(Now),
                 mem |-> NextMem(Now),
                 writer |-> IF defines_flags(Now) THEN Here ELSE cpu.writer,
                 trusted |-> cpu.trusted /\ Trusted(Now),
                 dead |-> Dead \ HwWrites(Now),
                 fdead |-> FlagsDead /\ ~defines_flags(Now),
                 across |-> IF effect(Now).calls THEN CALLEE_SAVED ELSE cpu.across \ HwWrites(Now)]
    /\ UNCHANGED <<orig, file, cand, carry, phase, result, copy>>

(* A copy function runs on numbers: x2 counts modulo LenMod.                *)
CopyNow == cand[NextCode(cand, copy.at)].i
CopyStep ==
    /\ phase = "copy" /\ copy.at <= Len(cand)
    /\ LET i == CopyNow
           j == NextCode(cand, copy.at)
           taken == CASE i.op = "b" -> TRUE
                      [] i.op = "cbz" -> copy.len = 0
                      [] i.op = "b.hs" -> copy.hs
                      [] i.op = "b.lo" -> ~copy.hs
                      [] OTHER -> FALSE
       IN  copy' = [copy EXCEPT
              !.at = IF i.op = "ret" THEN Len(cand) + 1
                     ELSE IF taken THEN LineOf(cand, i.t, j) ELSE NextCode(cand, j + 1),
              !.len = IF i.op = "sub" THEN (@ + LenMod - i.imm) % LenMod ELSE @,
              !.hs = IF i.op = "cmp" THEN copy.len >= i.imm ELSE @,
              !.read = IF i.op \in LOAD_MNEMONICS THEN @ + i.wb ELSE @,
              !.wrote = IF i.op \in STORE_MNEMONICS THEN @ + i.wb ELSE @]
    /\ UNCHANGED <<orig, file, cand, carry, phase, result, cpu>>

Next == Mutate \/ Check \/ Step \/ CopyStep
Spec == Init /\ [][Next]_vars

-----------------------------------------------------------------------------
(* Properties.                                                              *)

(* AbiSound: a function abi.py reports no error for, and no path on which   *)
(* SP is unknown, returns with every callee-saved register, SP and the      *)
(* return address as it was called (check_function, _check_ret), as long as *)
(* the run keeps to what the checker takes on trust, no branch leads back   *)
(* to the first instruction (whose state check_function never updates) and  *)
(* the dataflow settled within its n + 2 sweeps.                            *)
AbiSound ==
    Running /\ Now.op = "ret" /\ cpu.trusted /\ result.settled
    /\ (\A i \in DOMAIN result.succ : 1 \notin result.succ[i])
    /\ errors(result.warnings) = {}
    /\ Warn("warning", "sp unknown", NoReg) \notin result.warnings
    => /\ \A r \in TRACKED \ {X(30)} : cpu.val[r] = r
       /\ cpu.sp = 0
       /\ Now.s = <<>> => cpu.val[X(30)] = X(30)

(* FlowSound: whatever path runs, control follows the edges of build_cfg, a *)
(* register that is read was live at every point since it was written, the  *)
(* flags read were live and come from a reaching definition, and a register *)
(* the report calls unjustified never carries a value over a call.          *)
FlowSound ==
    Running =>
        /\ cpu.from # None => Here \in result.succ[cpu.from]
        /\ HwReads(Now) \cap Dead = {}
        /\ uses_flags(Now) => ~FlagsDead
        /\ uses_flags(Now) /\ cpu.writer # None => cpu.writer \in result.flags.reach_in[Here]
        /\ carry /\ Now.op = "ret" /\ cpu.writer # None => cpu.writer \in result.flags.at_ret
        /\ HwReads(Now) \cap cpu.across \cap unjustified(result.info) = {}

(* The writers from which some path of a function leads to a reader with no *)
(* other writer in between.                                                 *)
Writers(p, readers) ==
    LET succ == build_cfg(p.insns, p.labels)
        n == Len(p.insns)
        Back(S) == S \cup {j \in 1..n : ~defines_flags(p.insns[j]) /\ succ[j] \cap S # {}}
        open == FoldLeft(LAMBDA S, k : Back(S), readers, [k \in 1..n |-> k])
    IN  {p.insns[j] : j \in {m \in 1..n : defines_flags(p.insns[m]) /\ succ[m] \cap open # {}}}

(* FlagsChecked: when abi.py finds no NZCV change, an instruction reading   *)
(* the flags, or the caller of a carry-returning function, reads them from  *)
(* an instruction that could set them for it in the original; whatever the  *)
(* scheduler, which knows nothing of the flags, did to the order.  The      *)
(* original is the whole file (check_function's argument in optimize): with *)
(* other functions in it, one of their readers of the same text counts.     *)
FlagsChecked ==
    LET p == parse_instructions(file)
        n == Len(p.insns)
        readers == IF Now.op = "ret" THEN {i \in 1..n : p.insns[i].op = "ret"}
                   ELSE {i \in 1..n : p.insns[i] = Now}
        read == uses_flags(Now) \/ (carry /\ Now.op = "ret")
    IN  Running /\ Warn("error", "nzcv", NoReg) \notin result.warnings /\ read /\ cpu.writer # None
        => parse_instructions(cand).insns[cpu.writer] \in Writers(p, readers)

(* What a straight block computes, as terms over the registers' initial     *)
(* values; memory by base address.                                          *)
Term(op, args) == [op |-> op, args |-> args]
Compute(insns) ==
    LET V(m, r) == m.reg[norm(r)]
        Args(m, i) == [k \in 1..Len(i.s) |-> V(m, i.s[k])]
        Do(m, i) ==
            CASE i.op \in STORE_MNEMONICS ->
                   [m EXCEPT !.mem = [b \in DOMAIN @ \cup {V(m, i.base)} |->
                        IF b = V(m, i.base) THEN V(m, i.d[1]) ELSE @[b]]]
              [] i.op \in LOAD_MNEMONICS ->
                   [m EXCEPT !.reg[norm(i.d[1])] =
                        IF V(m, i.base) \in DOMAIN m.mem THEN m.mem[V(m, i.base)]
                        ELSE Term(<<"load", 0>>, <<V(m, i.base)>>)]
              [] i.op = "mov" -> [m EXCEPT !.reg[norm(i.d[1])] = V(m, i.s[1])]
              [] i.op \in {"ret", "cmp"} \cup COND_BRANCH -> m
              [] OTHER -> [m EXCEPT !.reg[norm(i.d[1])] = Term(<<i.op, i.imm>>, Args(m, i))]
    IN  FoldLeft(Do, [reg |-> [r \in Registers |-> Term(r, <<>>)], mem |-> <<>>], insns)

(* Memory accesses, those of which one is a store, and the value of the     *)
(* base register when an access is made.                                    *)
Accesses(insns) == {i \in DOMAIN insns : insns[i].op \in LOAD_MNEMONICS \cup STORE_MNEMONICS}
OneStores(i, j) == {i.op, j.op} \cap STORE_MNEMONICS # {}
AddressOf(insns, i) == Compute(SubSeq(insns, 1, i - 1)).reg[norm(insns[i].base)]

(* The dependences the scheduler does not see: a read before a later write, *)
(* the flags, calls, write-back, SP, an offset address, two names of one    *)
(* register, an address in two registers (the module's contract: buffers do *)
(* not overlap), and two stores to one address, although the comment at     *)
(* _schedule_block's memory edges says a store keeps its order with a       *)
(* "load/store".  E.g. subs x1, x0; str x1, [x2]; str x0, [x2]: the second  *)
(* store is ready first.                                                    *)
Visible(insns) ==
    /\ \A i \in DOMAIN insns :
          /\ insns[i].op \notin {"bl", "blr", "svc", "csel", "adc", "adcs"}
          /\ insns[i].wb = 0 /\ insns[i].imm = 0
          /\ \A r \in ToSet(insns[i].d) \cup ToSet(insns[i].s) \cup {insns[i].base} : r # SP /\ norm(r) = r
    /\ \A i, j \in DOMAIN insns : i < j => HwReads(insns[i]) \cap HwWrites(insns[j]) = {}
    /\ \A i, j \in Accesses(insns) :
          i < j /\ OneStores(insns[i], insns[j]) /\ AddressOf(insns, i) = AddressOf(insns, j) =>
             /\ insns[i].base = insns[j].base
             /\ {insns[i].op, insns[j].op} \cap LOAD_MNEMONICS # {}

(* ScheduleEquivalent: on a block whose dependences are all visible to it,  *)
(* the scheduler (reschedule) and the no-op remover compute what the        *)
(* original computes.                                                       *)
ScheduleEquivalent ==
    LET a == parse_instructions(orig).insns
        b == parse_instructions(cand).insns
        straight == \A i \in DOMAIN a : a[i].op \notin COND_BRANCH
    IN  phase = "check" /\ cand # orig /\ straight /\ Visible(a) => Compute(a) = Compute(b)

(* UnrollExact: whatever rule made it (unroll_2x, neon_32b, reschedule), a  *)
(* copy never loses count: at every branch it has written what it has read, *)
(* and that and the length left make up the length asked for, modulo the    *)
(* register.  A length below 32, or one of which the 32-byte loop leaves 16 *)
(* or more to the old loop, is moved exactly, and the original and its      *)
(* rescheduled form move every length exactly.                              *)
UnrollExact ==
    LET unrolled == copy.rule \in {"unroll_2x", "neon_32b"}
    IN  phase = "copy" =>
          /\ copy.at <= Len(cand) /\ CopyNow.op \in COND_BRANCH \cup {"ret"} =>
                copy.read = copy.wrote /\ (copy.wrote + copy.len) % LenMod = copy.want
          /\ copy.at > Len(cand) /\ (unrolled => copy.want < 32 \/ copy.want % 32 >= 16) =>
                copy.wrote = copy.want

(* UnrollEquivalent: what unroll.py says of its result, that it is an       *)
(* equivalent function: it returns having moved the bytes asked for, for    *)
(* every length.                                                            *)
UnrollEquivalent ==
    phase = "copy" /\ copy.at > Len(cand) => copy.wrote = copy.want /\ copy.read = copy.want
=============================================================================
