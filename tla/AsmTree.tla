------------------------------ MODULE AsmTree ------------------------------
(***************************************************************************)
(* The source tree as the scripts read it: macros, regions, the call graph *)
(* (scripts/asmparse.py), what a call of each region clobbers              *)
(* (scripts/regpressure.py), and whether the documented headers agree      *)
(* (scripts/validate_clobbers.py).                                         *)
(*                                                                         *)
(* A tree is a sequence of files, a file a sequence of lines; the first    *)
(* file is defs.S, which holds macros only.  Kinds of lines besides those  *)
(* of Asm: doc (a comment header), blank, dir (alignment and the like),    *)
(* global, FUNC, ENDFUNC, data, .macro, .endm, #ifdef, #ifndef, #else,     *)
(* #endif.                                                                 *)
(***************************************************************************)
EXTENDS AsmFlow

Numbers(n) == [k \in 1..n |-> k]

-----------------------------------------------------------------------------
(* Macros.  A parameter is the register <<"param", k>>; args of a .macro    *)
(* line are the defaults, NoReg where there is none.                        *)

Conditional == {"#ifdef", "#ifndef", "#else", "#endif"}

AllTrue(branch) == \A k \in DOMAIN branch : branch[k]

parse_macros(lines, linux) ==
    LET Flip(b) == [b EXCEPT ![Len(b)] = ~@]
        Branch_(b, k) == CASE k = "#ifdef" -> Append(b, linux)
                           [] k = "#ifndef" -> Append(b, ~linux)
                           [] k = "#else" -> IF b = <<>> THEN b ELSE Flip(b)
                           [] OTHER -> IF b = <<>> THEN b ELSE Front(b)
        Read(st, l) ==
            CASE l.k \in Conditional -> [st EXCEPT !.branch = Branch_(@, l.k)]
              [] l.k = ".endm" /\ st.open ->
                    [st EXCEPT !.open = FALSE,
                               !.macros = IF ~AllTrue(st.branch) THEN @
                                          ELSE [n \in DOMAIN @ \cup {st.name} |->
                                                  IF n = st.name
                                                  THEN [params |-> st.params, body |-> st.body]
                                                  ELSE @[n]]]
              [] l.k # ".endm" /\ st.open -> [st EXCEPT !.body = Append(@, l)]
              [] l.k = ".macro" /\ ~st.open ->
                    [st EXCEPT !.open = TRUE, !.name = l.name, !.params = l.args, !.body = <<>>]
              [] OTHER -> st
    IN  FoldLeft(Read, [branch |-> <<>>, open |-> FALSE, name |-> "", params |-> <<>>,
                        body |-> <<>>, macros |-> <<>>], lines).macros

(* load_macros: those of defs.S, then any others by the first file.         *)
load_macros(tree, linux) ==
    FoldLeft(LAMBDA acc, f : LET m == parse_macros(f, linux)
                             IN  [n \in DOMAIN acc \cup DOMAIN m |-> IF n \in DOMAIN acc THEN acc[n] ELSE m[n]],
             <<>>, tree)

Bound(macro, args, r) ==
    CASE r[1] # "param" -> r
      [] r[1] = "param" /\ r[2] <= Len(args) -> args[r[2]]
      [] OTHER -> macro.params[r[2]]

Substitute(macro, args, l) ==
    LET B(rs) == [k \in 1..Len(rs) |-> Bound(macro, args, rs[k])]
    IN  [l EXCEPT !.i = [@ EXCEPT !.d = B(@), !.s = B(@), !.base = Bound(macro, args, @)],
                  !.args = B(@)]

MaxDepth == 4

expand_macros(lines, macros) ==
    LET Is(l) == l.k = "macro" /\ l.name \in DOMAIN macros
        Expansion(l) == IF ~Is(l) THEN <<l>>
                        ELSE LET m == macros[l.name]
                             IN  [j \in 1..Len(m.body) |-> Substitute(m, l.args, m.body[j])]
        Pass(ls) == IF \E j \in DOMAIN ls : Is(ls[j])
                    THEN FoldLeft(LAMBDA acc, l : acc \o Expansion(l), <<>>, ls) ELSE ls
    IN  FoldLeft(LAMBDA ls, k : Pass(ls), lines, Numbers(MaxDepth))

-----------------------------------------------------------------------------
(* Regions.                                                                 *)

IsHeader(l) == l.k \in {"blank", "doc", "dir", "global"}

(* _classify_lines: a label is a data label when the first content after it *)
(* is data.                                                                 *)
Labels(lines) == {i \in DOMAIN lines : lines[i].k \in {"label", "FUNC"}}
Globals(lines) == {lines[i].name : i \in {j \in DOMAIN lines : lines[j].k \in {"global", "FUNC"}}}
IsData(lines, i) ==
    LET content == {j \in i..Len(lines) : ~IsHeader(lines[j]) /\ lines[j].k \notin {"label", "FUNC"}}
    IN  content # {} /\ lines[Min(content)].k = "data"

(* _header_start *)
_header_start(lines, label, floor) ==
    Min({label} \cup {j \in floor..(label - 1) : \A m \in j..(label - 1) : IsHeader(lines[m])})

(* extent: up to the next region, the first data label, or its own ENDFUNC. *)
UpToNext(lines, label, next) ==
    IF next = None THEN Len(lines) + 1 ELSE _header_start(lines, next, label + 1)

UpToData(lines, label, to) ==
    LET data == {i \in Labels(lines) : IsData(lines, i) /\ label < i /\ i < to}
    IN  IF data = {} THEN to ELSE _header_start(lines, Min(data), label + 1)

UpToCloser(lines, label, cut) ==
    LET closers == {i \in (label + 1)..(cut - 1) :
                       lines[i].k = "ENDFUNC" /\ lines[i].name = lines[label].name}
    IN  IF closers = {} THEN cut ELSE Min(closers) + 1

extent(lines, candidates, label, next) ==
    [start |-> _header_start(lines, label, Max({0} \cup {c \in candidates : c < label}) + 1),
     end |-> UpToCloser(lines, label, UpToData(lines, label, UpToNext(lines, label, next)))]

After(S, i) == LET later == {j \in S : j > i} IN IF later = {} THEN None ELSE Min(later)

TERMINATORS == {"ret", "br", "b"}
SYS_exit == <<"SYS_exit", 0>>

(* _terminates: the last instruction leaves for good, an exit syscall       *)
(* included; macros are not expanded here.                                  *)
_terminates(body) ==
    LET code == SelectSeq(body, IsInsn)
        last == InsnOf(code[Len(code)]).op
    IN  \/ last \in TERMINATORS
        \/ /\ last \in {"svc", "SCWISVC"}
           /\ \E j \in DOMAIN code : j > Len(code) - 6 /\ SYS_exit \in ToSet(code[j].args)

_doc_blocks(lines) ==
    [n \in {lines[i].name : i \in {j \in DOMAIN lines : lines[j].k = "doc"}} |->
        LET at == {j \in DOMAIN lines : lines[j].k = "doc" /\ lines[j].name = n}
        IN  lines[Min(at)].doc]

(* scan_regions: .global symbols, and bl targets that are not inside one,   *)
(* run to the next of their kind; a bl target inside a .global symbol runs  *)
(* to the next region of any kind.                                          *)
Candidates(lines, call_targets) ==
    {i \in Labels(lines) : ~IsData(lines, i) /\ lines[i].name \in Globals(lines) \cup call_targets}

Enclosed(lines, candidates, exported, i) ==
    \E g \in exported : g < i /\ i < extent(lines, candidates, g, After(exported, g)).end

TopLevel(lines, candidates, exported) ==
    {i \in candidates : i \in exported \/ ~Enclosed(lines, candidates, exported, i)}

DocOf(lines, start, i, own, blocks) ==
    LET near == {j \in start..(i - 1) : lines[j].k = "doc"}
        name == lines[i].name
    IN  IF near # {} THEN lines[Min(near)].doc
        ELSE IF name \in DOMAIN own THEN own[name]
        ELSE IF name \in DOMAIN blocks THEN blocks[name] ELSE {}

FallsTo(lines, body, next) ==
    IF next # None /\ (SelectSeq(body, IsInsn) = <<>> \/ ~_terminates(body))
    THEN lines[next].name ELSE ""

Region(lines, file, i, nested, next, body, doc) ==
    [name |-> lines[i].name, file |-> file, label |-> i, body |-> body, doc |-> doc,
     is_global |-> lines[i].name \in Globals(lines), nested |-> nested,
     falls_through_to |-> FallsTo(lines, body, next)]

RegionAt(lines, file, i, nested, next, span, blocks) ==
    Region(lines, file, i, nested, next, SubSeq(lines, i, span.end - 1),
           DocOf(lines, span.start, i, _doc_blocks(lines), blocks))

ScanWith(lines, file, candidates, top, blocks) ==
    LET order == SelectSeq(Numbers(Len(lines)), LAMBDA i : i \in candidates)
        Peers(i) == IF i \in top THEN top ELSE candidates \ top
        Span(i) == extent(lines, candidates, i, After(IF i \in top THEN top ELSE candidates, i))
    IN  [k \in DOMAIN order |-> RegionAt(lines, file, order[k], order[k] \notin top,
                                         After(Peers(order[k]), order[k]), Span(order[k]), blocks)]

ScanCandidates(lines, file, candidates, blocks) ==
    ScanWith(lines, file, candidates,
             TopLevel(lines, candidates, {i \in candidates : lines[i].name \in Globals(lines)}), blocks)

scan_regions(lines, file, call_targets, blocks) ==
    ScanCandidates(lines, file, Candidates(lines, call_targets), blocks)

-----------------------------------------------------------------------------
(* The call graph.                                                          *)

_branch_targets_in(lines, macros) ==
    LET code == SelectSeq(expand_macros(lines, macros), LAMBDA l : l.k = "insn")
        Named(op) == {code[j].i.t.name : j \in {m \in DOMAIN code : code[m].i.op = op /\ code[m].i.t.dir = ""}}
    IN  [calls |-> Named("bl"), tails |-> Named("b")]

(* by_name keeps the first region of a name.                                *)
ByName(regions, n) == regions[Min({k \in DOMAIN regions : regions[k].name = n})]

LabelsIn(body) == {body[j].name : j \in {m \in DOMAIN body : body[m].k = "label"}}

(* The first file that documents a name.                                    *)
MergeDocs(acc, own) ==
    [n \in DOMAIN acc \cup DOMAIN own |-> IF n \in DOMAIN acc THEN acc[n] ELSE own[n]]
AllDocs(tree) ==
    FoldLeft(LAMBDA acc, f : MergeDocs(acc, _doc_blocks(tree[f])), <<>>, Tail(Numbers(Len(tree))))

ScanTree(tree, targets, blocks) ==
    FoldLeft(LAMBDA acc, f : acc \o scan_regions(tree[f], f, targets, blocks),
             <<>>, Tail(Numbers(Len(tree))))

(* A b that leaves its region: to a region, or to the one that owns the     *)
(* label, the last such.                                                    *)
OwnersOf(regions, f, l) == {k \in DOMAIN regions : regions[k].file = f /\ l \in LabelsIn(regions[k].body)}

TailsOf(regions, known, r, tails) ==
    LET out == {t \in tails : t \notin LabelsIn(r.body) /\ t # r.name}
        owned == {t \in out \ known : OwnersOf(regions, r.file, t) # {}}
    IN  (out \cap known)
        \cup ({regions[Max(OwnersOf(regions, r.file, t))].name : t \in owned} \ {r.name})

CallGraph(macros, targets, regions, known, calls, tails) ==
    LET LastOf(n) == Max({k \in DOMAIN regions : regions[k].name = n})
    IN  [macros |-> macros, regions |-> regions, known |-> known,
         calls |-> [n \in known |-> calls[LastOf(n)]],
         tail_calls |-> [n \in known |-> tails[LastOf(n)]],
         callers |-> [n \in known \cup targets |->
            {regions[k].name : k \in {j \in DOMAIN regions : n \in calls[j] \cup tails[j]}}]]

Linked(macros, targets, regions, known, branches) ==
    CallGraph(macros, targets, regions, known,
              [k \in DOMAIN regions |-> branches[k].calls],
              [k \in DOMAIN regions |-> TailsOf(regions, known, regions[k], branches[k].tails)])

IndexRegions(macros, targets, regions) ==
    Linked(macros, targets, regions, {regions[k].name : k \in DOMAIN regions},
           [k \in DOMAIN regions |-> _branch_targets_in(regions[k].body, macros)])

IndexTargets(tree, macros, targets) ==
    IndexRegions(macros, targets, ScanTree(tree, targets, AllDocs(tree)))

IndexMacros(tree, macros) ==
    IndexTargets(tree, macros,
                 UNION {_branch_targets_in(tree[f], macros).calls : f \in 2..Len(tree)})

index_source(tree, linux) == IndexMacros(tree, load_macros(tree, linux))

(* analysis_body: the body and up to three regions it falls through to.     *)
MaxFalls == 3

analysis_body(index, region) ==
    LET Fall(st, k) ==
            LET n == st.last.falls_through_to
            IN  IF n = "" \/ n \in st.seen THEN st
                ELSE [body |-> st.body \o ByName(index.regions, n).body,
                      seen |-> st.seen \cup {n}, last |-> ByName(index.regions, n)]
    IN  FoldLeft(Fall, [body |-> region.body, seen |-> {region.name}, last |-> region],
                 Numbers(MaxFalls)).body

ExpandedBody(index, region) == expand_macros(analysis_body(index, region), index.macros)

-----------------------------------------------------------------------------
(* check_region: a private region's unrestored register is the business of  *)
(* its callers.                                                             *)

SavedAndRestored(insns, reg) ==
    LET Touches(j, field) == reg \in {normalise_reg(r) : r \in effect(insns[j])[field]}
    IN  /\ \E j \in DOMAIN insns : Touches(j, "stores")
        /\ \E j \in DOMAIN insns : Touches(j, "loads")
_saves_and_restores(lines, reg) == SavedAndRestored(parse_instructions(lines).insns, reg)

CarryAbi(region) == \E h \in region.doc : h.carry

RegionWarnings(index, region) ==
    check_function(ExpandedBody(index, region), <<>>, CarryAbi(region))

(* Mutant: having a caller is enough.                                       *)
JudgeAnyCaller(index, callers, w) ==
    IF w.what = "dirty" /\ callers # {} THEN Warn("warning", "private contract", w.reg) ELSE w

Judge(index, callers, w) ==
    LET Saves(n) == _saves_and_restores(ExpandedBody(index, ByName(index.regions, n)), w.reg)
    IN  IF w.what = "dirty" /\ callers # {} /\ \A n \in callers : Saves(n)
        THEN Warn("warning", "private contract", w.reg) ELSE w

check_region(index, region) ==
    {IF region.is_global THEN w ELSE Judge(index, index.callers[region.name], w) :
        w \in RegionWarnings(index, region)}

-----------------------------------------------------------------------------
(* resolve_clobbers: rows in the order of the regions, updated in place.    *)

Rows(index) ==
    [n \in {m \in index.known : parse_instructions(ExpandedBody(index, ByName(index.regions, m))).insns # <<>>} |->
        analyse(ExpandedBody(index, ByName(index.regions, n)))]

(* Mutant: a region does not inherit what it tail-calls.                    *)
SweepCallsOnly(index, rows, clobbers) ==
    FoldLeft(LAMBDA acc, r :
               LET n == r.name
                   edges == index.calls[n]
                   From(c) == IF c \in DOMAIN rows THEN acc[c] \ rows[c].preserved
                              ELSE CALLER_SAVED \cup {X(30)}
               IN  IF n \notin DOMAIN rows THEN acc
                   ELSE [acc EXCEPT ![n] = (rows[n].clobbers_direct \cup UNION {From(c) : c \in edges})
                                           \ rows[n].preserved],
             clobbers, index.regions)
ClobberSweep(index, rows, clobbers) ==
    FoldLeft(LAMBDA acc, r :
               LET n == r.name
                   edges == index.calls[n] \cup index.tail_calls[n]
                   From(c) == IF c \in DOMAIN rows THEN acc[c] \ rows[c].preserved
                              ELSE CALLER_SAVED \cup {X(30)}
               IN  IF n \notin DOMAIN rows THEN acc
                   ELSE [acc EXCEPT ![n] = (rows[n].clobbers_direct \cup UNION {From(c) : c \in edges})
                                           \ rows[n].preserved],
             clobbers, index.regions)

resolve_clobbers(index, rows) ==
    FoldLeft(LAMBDA acc, k : ClobberSweep(index, rows, acc),
             [n \in DOMAIN rows |-> rows[n].clobbers_direct], Numbers(Cardinality(DOMAIN rows) + 2))

-----------------------------------------------------------------------------
(* validate_clobbers.py.  A header field is a sequence of items: regs (a    *)
(* list of ranges), noted ("x19 (saved/restored)"), paren ("(x19-x28 are    *)
(* preserved)"), ref ("everything `f` clobbers"), none, prose.              *)

(* parse_regs: <<bank, lo, hi>>; a range that runs backwards is nothing.    *)
parse_regs(ranges) == UNION {{norm(<<r[1], n>>) : n \in r[2]..r[3]} : r \in ranges}

parse_header(raw) ==
    LET Of(ks) == {raw[j] : j \in {m \in DOMAIN raw : raw[m].k \in ks}}
        Regs(ks) == UNION {parse_regs(c.regs) : c \in Of(ks)}
        preserved == Regs({"noted", "paren"})
        clobbers == Regs({"regs", "noted", "paren"}) \ preserved
        references == {c.name : c \in Of({"ref"})}
    IN  [clobbers |-> clobbers, preserved |-> preserved, references |-> references,
         parsed |-> clobbers # {} \/ preserved # {} \/ raw = <<>> \/ Of({"none"}) # {}]

ReferenceSweep(docs, order) ==
    FoldLeft(LAMBDA acc, n :
               LET refs == {m \in acc[n].references : m \in DOMAIN acc /\ acc[m].parsed}
               IN  IF refs = {} THEN acc
                   ELSE [acc EXCEPT ![n].clobbers = @ \cup (UNION {acc[m].clobbers : m \in refs} \ acc[n].preserved),
                                    ![n].parsed = TRUE],
             docs, order)

resolve_references(docs, order) ==
    LET done == FoldLeft(LAMBDA acc, k : ReferenceSweep(acc, order), docs, Numbers(Len(order) + 2))
    IN  [n \in DOMAIN docs |-> IF done[n].references # {} /\ done[n].clobbers = {}
                               THEN [done[n] EXCEPT !.parsed = FALSE] ELSE done[n]]

(* Mutant: a register noted as saved is never missing.                      *)
VerdictTrustsNote(doc, outputs, info, clobbers) ==
    LET direct == info.clobbers_direct \ info.preserved
        Score(c) == Cardinality((c \ doc.clobbers) \ outputs) + Cardinality(doc.clobbers \ c)
        basis == IF Score(direct) <= Score(clobbers) THEN "direct" ELSE "transitive"
        computed == IF basis = "direct" THEN direct ELSE clobbers
        missing == (computed \ (doc.clobbers \cup doc.preserved)) \ outputs
        spurious == doc.clobbers \ computed
    IN  [verdict |-> CASE ~doc.parsed -> "UNPARSED"
                       [] doc.parsed /\ missing = {} /\ spurious = {} -> "AGREE"
                       [] doc.parsed /\ missing # {} /\ spurious # {} -> "BOTH"
                       [] doc.parsed /\ missing # {} /\ spurious = {} -> "UNDERSTATES"
                       [] OTHER -> "OVERSTATES",
         basis |-> basis, documented |-> doc.clobbers \cup outputs]
Verdict(doc, outputs, info, clobbers) ==
    LET direct == info.clobbers_direct \ info.preserved
        Score(c) == Cardinality((c \ doc.clobbers) \ outputs) + Cardinality(doc.clobbers \ c)
        basis == IF Score(direct) <= Score(clobbers) THEN "direct" ELSE "transitive"
        computed == IF basis = "direct" THEN direct ELSE clobbers
        missing == (computed \ doc.clobbers) \ outputs
        spurious == doc.clobbers \ computed
    IN  [verdict |-> CASE ~doc.parsed -> "UNPARSED"
                       [] doc.parsed /\ missing = {} /\ spurious = {} -> "AGREE"
                       [] doc.parsed /\ missing # {} /\ spurious # {} -> "BOTH"
                       [] doc.parsed /\ missing # {} /\ spurious = {} -> "UNDERSTATES"
                       [] OTHER -> "OVERSTATES",
         basis |-> basis, documented |-> doc.clobbers \cup outputs]

validate(index, rows, clobbers) ==
    LET order == SelectSeq([k \in DOMAIN index.regions |-> index.regions[k].name],
                           LAMBDA n : ByName(index.regions, n).doc # {})
        Header(n) == CHOOSE h \in ByName(index.regions, n).doc : TRUE
        names == ToSet(order)
        docs == resolve_references([n \in names |-> parse_header(Header(n).raw)], order)
    IN  [n \in names \cap DOMAIN rows |->
            Verdict(docs[n], parse_regs(Header(n).outputs), rows[n], clobbers[n])]
=============================================================================
