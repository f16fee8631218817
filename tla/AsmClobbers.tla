---------------------------- MODULE AsmClobbers ----------------------------
(***************************************************************************)
(* The whole-tree reports: index a tree, check every region, resolve the   *)
(* clobber sets, compare the headers, and then run a region on a processor *)
(* that follows calls, tail calls, branches and fall-through in the        *)
(* assembled text of every file.                                           *)
(***************************************************************************)
EXTENDS AsmTree

CONSTANTS Trees,      \* source trees
          MaxCalls,   \* how deep the processor lets calls nest
          StackBytes  \* bytes of stack it may use

ASSUME AsmClobbersAssumption == MaxCalls \in Nat /\ StackBytes \in Nat /\ StackBytes % 16 = 0

VARIABLES tree, linux, phase, index, report, text, cpu
vars == <<tree, linux, phase, index, report, text, cpu>>

Registers == CALLER_SAVED \cup TRACKED
Slots == {-8 * k : k \in 1..(StackBytes \div 8)}
Nowhere == <<0, 0>>
Idle == [none |-> TRUE]
ExitNumber == 93   \* SYS_exit

-----------------------------------------------------------------------------
(* The assembled text: macros expanded in every file, a place <<file, line>> *)

LineAt(p) == text[p[1]][p[2]]
InFile(p) == p[2] \in 1..Len(text[p[1]])
NextPlace(p) ==
    LET S == {j \in p[2]..Len(text[p[1]]) : text[p[1]][j].k \in {"insn", "data"}}
    IN  IF S = {} THEN Nowhere ELSE IF text[p[1]][Min(S)].k = "data" THEN Nowhere ELSE <<p[1], Min(S)>>

Defines(f, j, name) == text[f][j].k \in {"label", "FUNC"} /\ text[f][j].name = name
Exports(f, name) == \E j \in DOMAIN text[f] : text[f][j].k \in {"global", "FUNC"} /\ text[f][j].name = name

(* A label of this file, else a symbol some file exports, else nowhere.     *)
PlaceOf(t, p) ==
    LET here == {j \in DOMAIN text[p[1]] : Defines(p[1], j, t.name)}
        near == CASE t.dir = "b" -> {j \in here : j < p[2]}
                  [] t.dir = "f" -> {j \in here : j > p[2]}
                  [] OTHER -> here
        far == {f \in DOMAIN text : Exports(f, t.name)}
    IN  IF near # {} THEN NextPlace(<<p[1], IF t.dir = "b" THEN Max(near) ELSE Min(near)>>)
        ELSE IF t.dir = "" /\ far # {}
             THEN LET f == Min(far) IN NextPlace(<<f, Min({j \in DOMAIN text[f] : Defines(f, j, t.name)})>>)
        ELSE Nowhere

(* Region k as the report sees it holds place p; the owner of a place is    *)
(* the last region that holds it.                                           *)
Holds(k, p) == LET e == report.extents[k] IN e[1] = p[1] /\ e[2] <= p[2] /\ p[2] < e[3]
In(n, p) == \E k \in DOMAIN report.names : report.names[k] = n /\ Holds(k, p)
Together(p, q) == \E k \in DOMAIN report.names : Holds(k, p) /\ Holds(k, q)
OwnerOf(p) == LET S == {k \in DOMAIN report.names : Holds(k, p)}
              IN  IF S = {} THEN "" ELSE report.names[Max(S)]

Unique(n) == Cardinality({k \in DOMAIN report.names : report.names[k] = n}) = 1

-----------------------------------------------------------------------------
(* One instruction.  A written value is named by the place that wrote it.   *)

ValueOf(r) == IF r = SP THEN <<"stack", cpu.sp>> ELSE cpu.val[norm(r)]
SlotOf(i, k) == cpu.sp + i.imm + 8 * (k - 1)
Wrote(p) == <<"at", p[1] * 100 + p[2]>>

Result(i, r, p) ==
    LET ks == {k \in DOMAIN i.d : i.d[k] = r}
    IN  CASE i.op \in LOAD_MNEMONICS /\ i.base = SP /\ ks # {} /\ SlotOf(i, Min(ks)) \in Slots ->
                 cpu.mem[SlotOf(i, Min(ks))]
          [] i.op = "mov" /\ i.s # <<>> -> ValueOf(i.s[1])
          [] OTHER -> Wrote(p)

NextVal(i, p) == [r \in Registers |-> IF r \in HwWrites(i) THEN Result(i, r, p) ELSE cpu.val[r]]
NextMem(i) ==
    [s \in Slots |-> IF i.op \in STORE_MNEMONICS /\ i.base = SP /\ (\E k \in DOMAIN i.d : SlotOf(i, k) = s)
                     THEN ValueOf(i.d[CHOOSE k \in DOMAIN i.d : SlotOf(i, k) = s])
                     ELSE cpu.mem[s]]
NextSp(i) == CASE i.op \in {"sub", "add"} /\ i.d = <<SP>> ->
                     IF i.op = "sub" THEN cpu.sp - i.imm ELSE cpu.sp + i.imm
               [] i.base = SP -> cpu.sp + i.wb
               [] OTHER -> cpu.sp

Top == cpu.calls[Len(cpu.calls)]

(* A frame: the region called, the one now running, the registers at entry, *)
(* those at each tail call, and whether the analysis has lost the path.     *)
Frame(n, back, val) ==
    [region |-> n, in |-> n, back |-> back, entry |-> val, joined |-> {<<n, val>>}, lost |-> ~Unique(n)]

(* The frame kept its promises: every register a region of it stores and    *)
(* reloads is back to what it was at entry or at the tail call.             *)
Honest(f) == \A j \in f.joined : j[1] \in DOMAIN report.rows =>
                \A r \in report.rows[j[1]].preserved \cap Registers : cpu.val[r] \in {j[2][r], f.entry[r]}

Changed(f) == {r \in Registers : cpu.val[r] # f.entry[r]}

-----------------------------------------------------------------------------

Init ==
    /\ tree \in Trees /\ linux \in BOOLEAN
    /\ phase = "index" /\ index = Idle /\ report = Idle /\ text = <<>> /\ cpu = Idle

Index ==
    /\ phase = "index"
    /\ index' = index_source(tree, linux)
    /\ phase' = "analyse"
    /\ UNCHANGED <<tree, linux, report, text, cpu>>

Analyse ==
    /\ phase = "analyse"
    /\ report' = [rows |-> Rows(index)]
    /\ text' = [f \in DOMAIN tree |-> expand_macros(tree[f], index.macros)]
    /\ phase' = "resolve"
    /\ UNCHANGED <<tree, linux, index, cpu>>

Resolve ==
    /\ phase = "resolve"
    /\ report' = [rows |-> report.rows, clobbers |-> resolve_clobbers(index, report.rows)]
    /\ phase' = "report"
    /\ UNCHANGED <<tree, linux, index, text, cpu>>

(* The verdicts, and where the regions are in the assembled text.           *)
Report ==
    /\ phase = "report"
    /\ LET Extent(r) == LET To(j) == Len(expand_macros(SubSeq(tree[r.file], 1, j), index.macros)) + 1
                        IN  <<r.file, To(r.label - 1), To(r.label + Len(r.body) - 1)>>
       IN  report' = [rows |-> report.rows, clobbers |-> report.clobbers,
                      names |-> [k \in DOMAIN index.regions |-> index.regions[k].name],
                      extents |-> [k \in DOMAIN index.regions |-> Extent(index.regions[k])],
                      exported |-> {n \in index.known : ByName(index.regions, n).is_global},
                      verdicts |-> validate(index, report.rows, report.clobbers),
                      errors |-> UNION {errors(check_region(index, index.regions[k])) :
                                          k \in DOMAIN index.regions}]
    /\ phase' = "enter"
    /\ UNCHANGED <<tree, linux, index, text, cpu>>

(* Something calls a region the report has a row for.                       *)
Enter ==
    /\ phase = "enter"
    /\ \E k \in DOMAIN report.names :
         LET val == [r \in Registers |-> r]
         IN  /\ report.names[k] \in DOMAIN report.rows
             /\ cpu' = [at |-> NextPlace(SubSeq(report.extents[k], 1, 2)), val |-> val, sp |-> 0, num |-> 0,
                        mem |-> [s \in Slots |-> <<"junk", 0>>], honest |-> TRUE, kept |-> TRUE,
                        calls |-> <<Frame(report.names[k], Nowhere, val)>>]
    /\ phase' = "run"
    /\ UNCHANGED <<tree, linux, index, report, text>>

Running == phase = "run" /\ cpu.at # Nowhere
Now == LineAt(cpu.at).i

(* A load the checker takes for a restore gives the register its value at   *)
(* the frame's entry.                                                       *)
Restores(i) == i.op \in LOAD_MNEMONICS /\ i.base = SP =>
                  \A r \in ToSet(i.d) \cap TRACKED : Result(i, r, cpu.at) = Top.entry[r]

(* Control stays in the frame.  The clobber analysis loses the path on a    *)
(* conditional branch to another region, on a call from a region it fell    *)
(* into (calls are attributed by each region's own lines) and on blr.       *)
Plain(i) ==
    /\ i.op \notin {"bl", "blr", "ret", "br", "b"} /\ ~(i.op = "svc" /\ cpu.num = ExitNumber)
    /\ NextSp(i) \in -StackBytes..0
    /\ \E next \in {NextPlace(<<cpu.at[1], cpu.at[2] + 1>>)}
                   \cup (IF i.op \in COND_BRANCH THEN {PlaceOf(i.t, cpu.at)} ELSE {}) :
         LET jumped == i.op \in COND_BRANCH /\ next # NextPlace(<<cpu.at[1], cpu.at[2] + 1>>)
         IN  cpu' = [cpu EXCEPT !.at = next, !.val = NextVal(i, cpu.at), !.mem = NextMem(i),
                                !.sp = NextSp(i), !.num = IF i.op = "movz" THEN i.imm ELSE @,
                                !.kept = @ /\ Restores(i),
                                !.calls[Len(cpu.calls)].lost =
                                    @ \/ (jumped /\ next # Nowhere /\ ~Together(next, cpu.at))]

(* A call: to a region of the tree, or outside it.                          *)
CallTo(i, to, back, linked) ==
    LET blind == i.op = "blr" \/ ~In(Top.in, cpu.at)
        caller == [cpu.calls EXCEPT ![Len(cpu.calls)].lost = @ \/ blind]
    IN  IF i.op = "blr" \/ to = Nowhere
        THEN cpu' = [cpu EXCEPT !.val = NextVal(i, cpu.at), !.at = back, !.calls = caller]
        ELSE /\ Len(cpu.calls) < MaxCalls
             /\ cpu' = [cpu EXCEPT !.val = linked, !.at = to,
                           !.calls = Append(caller, Frame(i.t.name, back, linked))]

Called(i) ==
    /\ i.op \in {"bl", "blr"}
    /\ CallTo(i, PlaceOf(i.t, cpu.at), NextPlace(<<cpu.at[1], cpu.at[2] + 1>>),
              [cpu.val EXCEPT ![X(30)] = Wrote(cpu.at)])

(* b: inside the region, or a tail call of the region that owns the label.  *)
Stays(to) == to # Nowhere /\ (In(Top.in, to) \/ (~In(Top.in, cpu.at) /\ Together(to, cpu.at)))

TailTo(to, stays, owner) ==
    cpu' = [cpu EXCEPT !.at = to,
               !.kept = @ /\ (stays \/ Changed(Top) \cap CALLEE_SAVED = {}),
               !.calls[Len(cpu.calls)] =
                   IF stays THEN @
                   ELSE [@ EXCEPT !.in = owner, !.joined = @ \cup {<<owner, cpu.val>>},
                                  !.lost = @ \/ owner = "" \/ ~In(Top.in, cpu.at)]]

BranchTo(to) == TailTo(to, Stays(to), IF to = Nowhere THEN "" ELSE OwnerOf(to))

Tail_(i) == i.op = "b" /\ BranchTo(PlaceOf(i.t, cpu.at))

(* ret, to the caller if x30 still says so.                                 *)
Return(i) ==
    /\ i.op = "ret" /\ cpu.val[X(30)] = Top.entry[X(30)] /\ Len(cpu.calls) > 1
    /\ cpu' = [cpu EXCEPT !.at = Top.back, !.honest = @ /\ Honest(Top),
                  !.calls = [SubSeq(cpu.calls, 1, Len(cpu.calls) - 1) EXCEPT
                               ![Len(cpu.calls) - 1].lost = @ \/ Top.lost]]

Step ==
    /\ Running
    /\ Plain(Now) \/ Called(Now) \/ Tail_(Now) \/ Return(Now)
    /\ UNCHANGED <<tree, linux, phase, index, report, text>>

Next == Index \/ Analyse \/ Resolve \/ Report \/ Enter \/ Step
Spec == Init /\ [][Next]_vars

-----------------------------------------------------------------------------
(* Properties.  At a return:                                                *)

Returning == Running /\ Now.op = "ret"
Followed == cpu.honest /\ Honest(Top) /\ ~Top.lost

(* ClobbersCover: whatever its callees, tail calls and fall-through do, a   *)
(* region returns with no register changed that resolve_clobbers does not   *)
(* list for it.                                                             *)
ClobbersCover ==
    Returning /\ Followed => Changed(Top) \subseteq report.clobbers[Top.region]

(* HeaderHonest: a header validate_clobbers calls AGREE or OVERSTATES       *)
(* against the transitive set names every register the call changes, under  *)
(* its clobbers or its outputs.                                             *)
HeaderHonest ==
    Returning /\ Followed /\ Top.region \in DOMAIN report.verdicts =>
        LET v == report.verdicts[Top.region]
        IN  v.verdict \in {"AGREE", "OVERSTATES"} /\ v.basis = "transitive"
            => Changed(Top) \subseteq v.documented

(* ContractsHold: when check_region has no error for any region of the      *)
(* tree, an exported region returns with its caller's callee-saved          *)
(* registers, even where a private callee leaves one changed.  check_region *)
(* looks at ret and br only, so this is of runs whose tail calls (b) leave  *)
(* with the callee-saved registers in place.                                *)
ContractsHold ==
    Returning /\ Followed /\ cpu.kept /\ report.errors = {} /\ Top.region \in report.exported
    => Changed(Top) \cap CALLEE_SAVED = {}
=============================================================================
