----------------------------- MODULE Optimizer -----------------------------
(***************************************************************************)
(* The assembly optimization loop: scripts/arm-optimize.py (the gates in   *)
(* front of a run), optimizer.py (baseline, candidates, evaluation, revert *)
(* and restore), strategy.py (metrics and acceptance), benchmark.py and    *)
(* compiler.py (measurements, tests).                                      *)
(*                                                                         *)
(* The source file is on disk and candidates are tried in place.  A        *)
(* program is the text of the target function; what the tools find out     *)
(* about one is fixed (Trait), except the benchmark, whose output is       *)
(* noisy.  A run may die at any point (an interrupt, or an exception that  *)
(* main does not catch) and be started again on what it left on disk; a    *)
(* death in the middle of a write, which truncates the file first, leaves  *)
(* a torn one.                                                             *)
(***************************************************************************)
EXTENDS Integers, Sequences, FiniteSets

CONSTANTS Programs,
          Pristine,     \* the function before anyone optimizes it
          Torn,         \* what is left of it in a file whose writing was cut short
          Trait,        \* what ABI check, install, tests, ... say of a program
          Outputs,      \* the outputs a benchmark round may print
          Mutations,    \* the mutants apply_mutations returns for a program
          Configs,      \* command lines
          None,
          Rounds,       \* --rounds
          PerRound,     \* --candidates
          Iterations,   \* --iterations
          MaxCrashes    \* bound: deaths of a run

TraitType == [abi : BOOLEAN, installs : BOOLEAN, tests : BOOLEAN, differential : BOOLEAN,
              frame : Nat \cup {None}, allocators : SUBSET {"malloc", "mmap"},
              branches : Nat \cup {None}, insns : Nat \cup {None}]

(* json and result_ns are what the output holds, None if absent; NaN is a   *)
(* runtime_ns that is not a number; fails is a command that exits non-zero. *)
NaN == -1
OutputType == [fails : BOOLEAN, json : Nat \cup {None, NaN}, result_ns : Nat \cup {None},
               wall : Nat]

ConfigType == [strategy : {"speed", "algorithm", "instruction", "register-pressure",
                           "load-store", "crypto", "combined"},
               target : {"ghash", "p256_reduce", "other"},
               keyword : BOOLEAN, share : Nat \cup {None}, min_share : Nat,
               benchmark : BOOLEAN, noise : Nat \cup {None}, min_improvement : Nat,
               abi_check : BOOLEAN, differential : BOOLEAN, llm : BOOLEAN,
               judge : BOOLEAN, mutations : BOOLEAN, apply : BOOLEAN]

ASSUME OptimizerAssumption ==
    /\ Pristine \in Programs /\ Torn \in Programs
    /\ Trait \in [Programs -> TraitType]
    /\ Outputs \in [Programs -> SUBSET OutputType]
    /\ Mutations \in [Programs -> Seq(Programs)]
    /\ Configs \subseteq ConfigType
    /\ None \notin Int
    /\ Rounds \in Nat \ {0} /\ PerRound \in Nat \ {0}
    /\ Iterations \in Nat /\ MaxCrashes \in Nat

VARIABLES conf,      \* the command line
          disk,      \* the function in the source file
          original,  \* original_source, read when the run starts
          pc,        \* where the run is
          iteration, \* the iteration under way
          current,   \* current_source, read once per iteration
          queue,     \* candidates not yet looked at; the head is under evaluation
          chain,     \* [prog, runtime, metrics] of the baseline and of every
                     \*   acceptance; the last is best, best_bench, best_metrics
          bench,     \* the candidate's benchmark result
          crashes
vars == <<conf, disk, original, pc, iteration, current, queue, chain, bench, crashes>>

best == chain[Len(chain)]

-----------------------------------------------------------------------------
(* Benchmark: a JSON runtime_ns, else RESULT_NS, else the wall clock.       *)
parse_output(o) == IF o.json # None THEN o.json
                   ELSE IF o.result_ns # None THEN o.result_ns ELSE o.wall

(* The k-th smallest sample: the least with k samples not above it.         *)
Smallest(s, k) ==
    LET reached == {v \in {s[i] : i \in DOMAIN s} :
                        Cardinality({i \in DOMAIN s : s[i] <= v}) >= k}
    IN  CHOOSE v \in reached : \A w \in reached : v <= w

median(s) ==
    LET h == Len(s) \div 2
    IN  IF Len(s) % 2 = 1 THEN Smallest(s, h + 1)
        ELSE (Smallest(s, h) + Smallest(s, h + 1)) \div 2

(* Any round that fails, or prints a number that is none, fails the whole.  *)
BenchmarkRun(outs) ==
    IF \E i \in DOMAIN outs : outs[i].fails \/ parse_output(outs[i]) = NaN
    THEN None ELSE median([i \in DOMAIN outs |-> parse_output(outs[i])])

Benchmarks(p) == {BenchmarkRun(outs) : outs \in [1..Rounds -> Outputs[p]]}

-----------------------------------------------------------------------------
(* strategy.py.  build_strategy refuses a target that no profile supports.  *)

IsCrypto(c) == c.strategy \in {"algorithm", "crypto"}
ShareRequired(c) == IF IsCrypto(c) THEN 1 ELSE c.min_share
build_strategy(c) ==
    /\ IsCrypto(c) => c.target \in {"ghash", "p256_reduce"}
    /\ ~IsCrypto(c) /\ c.strategy # "speed" => c.keyword
    /\ c.strategy # "speed" => c.share # None /\ c.share >= ShareRequired(c)

(* _collect_metrics: workload is the second benchmark, run by the crypto    *)
(* strategies only.                                                         *)
_collect_metrics(p, runtime, workload, heap_ok, constant_time_ok) ==
    [runtime |-> runtime, workload |-> workload, insns |-> Trait[p].insns,
     frame |-> Trait[p].frame, heap_ok |-> heap_ok, constant_time_ok |-> constant_time_ok]

(* insns stands for the count the strategy reads: instructions, or loads    *)
(* and stores.  "combined" is 0.01 per instruction on top of the run time,  *)
(* scaled to whole numbers; its register-pressure term is left out.         *)
primary_metric(c, m) ==
    CASE IsCrypto(c) -> m.workload
      [] c.strategy \in {"instruction", "load-store"} -> m.insns
      [] c.strategy = "combined" ->
             IF m.insns = None THEN 100 * m.runtime ELSE 100 * m.runtime + m.insns
      [] OTHER -> m.runtime

heap_violation(base, cand) == Trait[cand].allocators \ Trait[base].allocators # {}

(* Compared with the best so far, and only if both were disassembled.       *)
constant_time_violation(base, cand) ==
    /\ Trait[base].branches # None /\ Trait[cand].branches # None
    /\ Trait[cand].branches > Trait[base].branches

hard_constraints(c, before, after) ==
    CASE before.frame # None /\ after.frame # None /\ after.frame > before.frame
                              -> "stack-increase"
      [] ~after.heap_ok       -> "heap-increase"
      [] IsCrypto(c) /\ ~after.constant_time_ok -> "constant-time"
      [] OTHER                -> "ok"

Required(c) == IF c.min_improvement > c.noise THEN c.min_improvement ELSE c.noise

(* More than Required percent better, on integers.                          *)
BeatsBy(c, before, after) == (before - after) * 100 > Required(c) * before

accept(c, before, after) ==
    LET violation == hard_constraints(c, before, after)
        b == primary_metric(c, before)
        a == primary_metric(c, after)
    IN  IF violation # "ok" THEN violation
        ELSE IF b = None \/ a = None \/ b = 0 THEN "missing-metric"
        ELSE IF BeatsBy(c, b, a) THEN "workload-improvement" ELSE "no-improvement"

-----------------------------------------------------------------------------
Init ==
    /\ conf \in Configs
    /\ disk = Pristine /\ original = Pristine /\ current = Pristine
    /\ pc = "start" /\ iteration = 0 /\ queue = <<>>
    /\ chain = <<>> /\ bench = None /\ crashes = 0

(* main: the gates before an Optimizer is built, then its constructor,      *)
(* which reads the source file.                                             *)
StartRun ==
    /\ pc = "start"
    /\ pc' = IF /\ conf.llm \/ conf.mutations
                /\ conf.benchmark /\ conf.noise # None /\ build_strategy(conf)
             THEN "baseline" ELSE "refused"
    /\ original' = disk
    /\ UNCHANGED <<conf, disk, iteration, current, queue, chain, bench, crashes>>

(* A workload measurement: None without a workload benchmark or if it fails.*)
Workloads(p) == IF IsCrypto(conf) THEN Benchmarks(p) ELSE {None}

(* optimize, up to the loop: a baseline that fails its tests or cannot be   *)
(* measured is a RuntimeError.                                              *)
Baseline ==
    /\ pc = "baseline"
    /\ \E runtime \in Benchmarks(original), workload \in Workloads(original) :
          IF Trait[original].tests /\ runtime # None
          THEN /\ chain' = << [prog |-> original, runtime |-> runtime,
                              metrics |-> _collect_metrics(original, runtime, workload,
                                                           TRUE, TRUE)] >>
               /\ pc' = "iterate"
          ELSE pc' = "failed" /\ UNCHANGED chain
    /\ UNCHANGED <<conf, disk, original, iteration, current, queue, bench, crashes>>

SeqsUpTo(S, n) == UNION {[1..k -> S] : k \in 0..n}

\* Mutant: the iteration is not counted.
IterateUncounted ==
    /\ pc = "iterate" /\ iteration < Iterations
    /\ current' = disk
    /\ UNCHANGED iteration
    /\ \E llm \in IF conf.llm THEN SeqsUpTo(Programs, PerRound) ELSE {<<>>} :
          queue' = llm \o (IF conf.mutations THEN Mutations[disk] ELSE <<>>)
    /\ pc' = IF queue' = <<>> THEN "final" ELSE "candidate"
    /\ UNCHANGED <<conf, disk, original, chain, bench, crashes>>

(* A new iteration: read the file, ask the LLM (which may return fewer than *)
(* asked, or nothing), add the mutants; no candidate at all ends the loop.  *)
Iterate ==
    /\ pc = "iterate" /\ iteration < Iterations
    /\ current' = disk
    /\ iteration' = iteration + 1
    /\ \E llm \in IF conf.llm THEN SeqsUpTo(Programs, PerRound) ELSE {<<>>} :
          queue' = llm \o (IF conf.mutations THEN Mutations[disk] ELSE <<>>)
    /\ pc' = IF queue' = <<>> THEN "final" ELSE "candidate"
    /\ UNCHANGED <<conf, disk, original, chain, bench, crashes>>

LoopEnds ==
    /\ pc = "iterate" /\ iteration = Iterations
    /\ pc' = "final"
    /\ UNCHANGED <<conf, disk, original, iteration, current, queue, chain, bench, crashes>>

(* After the last candidate the iteration's history is written.             *)
AfterCandidate == IF Tail(queue) = <<>> THEN "iterate" ELSE "candidate"

(* The static ABI check and the label check reject without touching disk.   *)
RejectUnwritten ==
    /\ pc = "candidate"
    /\ \/ conf.abi_check /\ ~Trait[Head(queue)].abi
       \/ ~Trait[Head(queue)].installs
    /\ queue' = Tail(queue) /\ pc' = AfterCandidate
    /\ UNCHANGED <<conf, disk, original, iteration, current, chain, bench, crashes>>

\* Mutant: the ABI check is skipped.
InstallUnchecked ==
    /\ pc = "candidate"
    /\ Trait[Head(queue)].installs
    /\ disk' = Head(queue) /\ pc' = "installed"
    /\ UNCHANGED <<conf, original, iteration, current, queue, chain, bench, crashes>>

(* The candidate replaces the function of current_source, on disk.          *)
Install ==
    /\ pc = "candidate"
    /\ conf.abi_check => Trait[Head(queue)].abi
    /\ Trait[Head(queue)].installs
    /\ disk' = Head(queue) /\ pc' = "installed"
    /\ UNCHANGED <<conf, original, iteration, current, queue, chain, bench, crashes>>

\* Mutant: a rejected candidate stays on disk.
RevertNothing ==
    /\ queue' = Tail(queue) /\ pc' = AfterCandidate
    /\ UNCHANGED <<conf, disk, original, iteration, current, chain, crashes>>

(* _revert: the source the iteration started from goes back to disk.        *)
_revert ==
    /\ disk' = current
    /\ queue' = Tail(queue) /\ pc' = AfterCandidate
    /\ UNCHANGED <<conf, original, iteration, current, chain, crashes>>

run_tests ==
    /\ pc = "installed"
    /\ IF Trait[disk].tests
       THEN /\ pc' = "tested"
            /\ UNCHANGED <<conf, disk, original, iteration, current, queue, chain, crashes>>
       ELSE _revert
    /\ UNCHANGED bench

run_differential ==
    /\ pc = "tested"
    /\ IF conf.differential => Trait[disk].differential
       THEN /\ pc' = "compared"
            /\ UNCHANGED <<conf, disk, original, iteration, current, queue, chain, crashes>>
       ELSE _revert
    /\ UNCHANGED bench

(* The process dies: nothing restores the file, and its memory is gone.     *)
DiesLeaving(d) ==
    /\ disk' = d
    /\ pc' = "crashed" /\ crashes' = crashes + 1
    /\ iteration' = 0 /\ queue' = <<>> /\ chain' = <<>> /\ bench' = None
    /\ original' = Pristine /\ current' = Pristine
    /\ UNCHANGED conf
Dies == DiesLeaving(disk)

(* The improvement is printed before anything is judged: dividing by a best *)
(* of zero is an exception nobody catches, with the candidate on disk.      *)
Measure ==
    /\ pc = "compared"
    /\ \E runtime \in Benchmarks(disk) :
          \/ /\ runtime = None
             /\ _revert /\ UNCHANGED bench
          \/ /\ runtime # None /\ best.runtime = 0
             /\ Dies
          \/ /\ runtime # None /\ best.runtime # 0
             /\ pc' = "measured" /\ bench' = runtime
             /\ UNCHANGED <<conf, disk, original, iteration, current, queue, chain, crashes>>

\* Mutant: the metrics of the best are never updated.
DecideAgainstBaseline(workload, verdict) ==
    LET metrics == _collect_metrics(disk, bench, workload,
                       ~heap_violation(current, disk),
                       IsCrypto(conf) => ~constant_time_violation(original, disk))
        entry   == [prog |-> disk, runtime |-> bench, metrics |-> metrics]
    IN  IF /\ accept(conf, chain[1].metrics, metrics) = "workload-improvement"
           /\ conf.judge /\ conf.llm => verdict # "reject"
        THEN /\ chain' = Append(chain, entry)
             /\ queue' = Tail(queue) /\ pc' = AfterCandidate
             /\ UNCHANGED <<conf, disk, original, iteration, current, crashes>>
        ELSE _revert

(* The strategy decides; the judge is asked only about what it would keep,  *)
(* and an unusable answer keeps.                                            *)
cand_metrics(workload) ==
    _collect_metrics(disk, bench, workload, ~heap_violation(current, disk),
                     IsCrypto(conf) => ~constant_time_violation(best.prog, disk))
Keeps(workload, verdict) ==
    /\ accept(conf, best.metrics, cand_metrics(workload)) = "workload-improvement"
    /\ conf.judge /\ conf.llm => verdict # "reject"

Decide(workload, verdict) ==
    IF Keeps(workload, verdict)
    THEN /\ chain' = Append(chain, [prog |-> disk, runtime |-> bench,
                                    metrics |-> cand_metrics(workload)])
         /\ queue' = Tail(queue) /\ pc' = AfterCandidate
         /\ UNCHANGED <<conf, disk, original, iteration, current, crashes>>
    ELSE _revert

Verdicts == {"keep", "reject", "unusable"}

Judge ==
    /\ pc = "measured"
    /\ \E workload \in Workloads(disk), verdict \in Verdicts : Decide(workload, verdict)
    /\ bench' = None

(* The end of optimize.  The summary divides by the baseline (zero kills the *)
(* run with its last candidate on disk); then the original goes back unless *)
(* --apply.                                                                 *)
Finish ==
    /\ pc = "final"
    /\ \/ /\ chain[1].runtime = 0
          /\ Dies
       \/ /\ chain[1].runtime # 0
          /\ disk' = IF conf.apply THEN disk ELSE original
          /\ pc' = "done"
          /\ UNCHANGED <<conf, original, iteration, current, queue, chain, bench, crashes>>

Running == {"baseline", "iterate", "candidate", "installed", "tested", "compared",
            "measured", "final"}

(* The step under way may write the source file: a candidate goes in, the   *)
(* iteration's source or the original goes back.                            *)
Writing ==
    \/ /\ pc = "candidate" /\ Trait[Head(queue)].installs
       /\ conf.abi_check => Trait[Head(queue)].abi
    \/ pc = "installed" /\ ~Trait[disk].tests
    \/ pc = "tested" /\ conf.differential /\ ~Trait[disk].differential
    \/ pc = "compared" /\ None \in Benchmarks(disk)
    \/ /\ pc = "measured"
       /\ \E workload \in Workloads(disk), verdict \in Verdicts : ~Keeps(workload, verdict)
    \/ pc = "final" /\ chain[1].runtime # 0 /\ ~conf.apply

(* A death between two steps leaves the file as it is; one in the middle of *)
(* write_text leaves it torn.                                               *)
Crash ==
    /\ pc \in Running /\ crashes < MaxCrashes
    /\ Dies \/ (Writing /\ DiesLeaving(Torn))

(* Someone runs the same command again.                                     *)
Restart ==
    /\ pc = "crashed" /\ crashes <= MaxCrashes
    /\ pc' = "start"
    /\ UNCHANGED <<conf, disk, original, iteration, current, queue, chain, bench, crashes>>

Step == \/ StartRun \/ Baseline \/ Iterate \/ LoopEnds \/ RejectUnwritten \/ Install
        \/ run_tests \/ run_differential \/ Measure \/ Judge \/ Finish

Next == Step \/ Crash \/ Restart

(* Every external command runs under a timeout, so the loop keeps going; a  *)
(* death and a restart are never forced.                                    *)
Spec == Init /\ [][Next]_vars /\ WF_vars(Step)

-----------------------------------------------------------------------------
Gated(p) == /\ conf.abi_check => Trait[p].abi
            /\ Trait[p].installs /\ Trait[p].tests
            /\ conf.differential => Trait[p].differential

(* Every accepted candidate passed every gate the command line asks for,    *)
(* and no chain of acceptances, each compared only with the source its      *)
(* iteration started from, introduces an allocator the run's original did   *)
(* not call.  A death anywhere leaves a program that passed the ABI check   *)
(* (with the check on) or a torn file, never a whole candidate that failed  *)
(* it, and a run started on what it left optimizes only what passes its     *)
(* tests.                                                                   *)
AcceptedEarned ==
    /\ \A i \in 2..Len(chain) : /\ Gated(chain[i].prog)
                               /\ ~heap_violation(original, chain[i].prog)
    /\ conf.abi_check => disk \in {Pristine, Torn} \/ Trait[disk].abi
    /\ chain # <<>> => chain[1].prog = original /\ Trait[original].tests

(* However the noise falls, each acceptance beats every earlier one, and    *)
(* the baseline, by more than the required margin; while frames and branch  *)
(* counts are known it needs no more stack than any of them and, judged as  *)
(* cryptography, has no more conditional branches.                          *)
BestImproves ==
    \A i, j \in DOMAIN chain : i < j =>
        LET a == chain[i]
            b == chain[j]
        IN  /\ BeatsBy(conf, primary_metric(conf, a.metrics), primary_metric(conf, b.metrics))
            /\ (\A k \in i..j : chain[k].metrics.frame # None)
                  => b.metrics.frame <= a.metrics.frame
            /\ IsCrypto(conf) /\ (\A k \in i..j : Trait[chain[k].prog].branches # None)
                  => Trait[b.prog].branches <= Trait[a.prog].branches

(* With no candidate under evaluation the file holds the original or an     *)
(* accepted program: the best one, or the source the iteration started from *)
(* (a rejection after an acceptance in one iteration loses the acceptance   *)
(* from disk).  A run that ends without --apply leaves its original.        *)
DiskBetweenCandidates ==
    /\ pc \in {"iterate", "candidate", "final"} =>
          /\ disk \in {chain[i].prog : i \in DOMAIN chain}
          /\ disk \in {best.prog, current}
    /\ pc = "done" /\ ~conf.apply => disk = original

(* Every run that starts comes to an end, if only by dying.                 *)
RunEnds == pc \in Running ~> pc \in {"done", "failed", "crashed"}
=============================================================================
