-------------------------- MODULE Optimizer_proofs --------------------------
(***************************************************************************)
(* For every set of programs, whatever the tools say of them, every        *)
(* benchmark and every command line: what AcceptedEarned and               *)
(* DiskBetweenCandidates say of the optimization loop.                     *)
(***************************************************************************)
EXTENDS Optimizer, SequenceTheorems, FiniteSetTheorems, WellFoundedInduction, TLAPS

Results == UNION {Benchmarks(p) : p \in Programs}

MetricsType == [runtime : Results, workload : Results \cup {None},
                insns : Nat \cup {None}, frame : Nat \cup {None},
                heap_ok : BOOLEAN, constant_time_ok : BOOLEAN]
EntryType == [prog : Programs, runtime : Results, metrics : MetricsType]

PcType == {"start", "refused", "failed", "crashed", "done"} \cup Running

TypeOK ==
    /\ conf \in Configs
    /\ disk \in Programs /\ original \in Programs /\ current \in Programs
    /\ pc \in PcType
    /\ iteration \in Nat /\ crashes \in Nat
    /\ queue \in Seq(Programs)
    /\ chain \in Seq(EntryType)
    /\ bench \in Results \cup {None}

UnderWay == {"candidate", "installed", "tested", "compared", "measured"}

(* Which gates the program on disk has passed, by how far it has come.      *)
Progress ==
    /\ pc \in UnderWay => queue # <<>>
    /\ pc \in {"installed", "tested", "compared", "measured"} =>
          (conf.abi_check => Trait[disk].abi) /\ Trait[disk].installs
    /\ pc \in {"tested", "compared", "measured"} => Trait[disk].tests
    /\ pc \in {"compared", "measured"} => (conf.differential => Trait[disk].differential)
    /\ pc = "measured" => bench \in Results

(* A program the run may keep on disk: the baseline or an acceptance.       *)
Kept(p) == \E i \in DOMAIN chain : chain[i].prog = p

Shape ==
    /\ pc \in {"start", "crashed"} => chain = <<>>
    /\ pc = "baseline" => disk = original
    /\ pc \in {"iterate", "final"} \cup UnderWay => chain # <<>>
    /\ pc \in UnderWay => Kept(current)
    /\ pc \in {"iterate", "candidate", "final"} => Kept(disk)
    /\ chain # <<>> => chain[1].prog = original /\ Trait[original].tests
    /\ \A i \in 2..Len(chain) : /\ Gated(chain[i].prog)
                               /\ ~heap_violation(original, chain[i].prog)
    /\ conf.abi_check => disk \in {Pristine, Torn} \/ Trait[disk].abi
    /\ conf.abi_check => \A i \in DOMAIN chain : chain[i].prog \in {Pristine, Torn} \/ Trait[chain[i].prog].abi

IInv == TypeOK /\ Progress /\ Shape /\ DiskBetweenCandidates

-----------------------------------------------------------------------------
(* A benchmark's result is one of Results.                                  *)
LEMMA BenchmarkResult ==
    ASSUME NEW p \in Programs, NEW r \in Benchmarks(p)
    PROVE  r \in Results
BY DEF Results

(* A program that calls no allocator beyond those of another, which calls   *)
(* none beyond those of a third, calls none beyond the third's.             *)
LEMMA HeapTransitive ==
    ASSUME NEW p, NEW q, NEW r, ~heap_violation(p, q), ~heap_violation(q, r)
    PROVE  ~heap_violation(p, r)
BY Zenon DEF heap_violation

(* What the run keeps calls no allocator its original does not call, and    *)
(* passed the ABI check unless it is the pristine program or a torn one     *)
(* that the run started on.                                                 *)
LEMMA KeptIsClean ==
    ASSUME IInv, NEW p \in Programs, Kept(p)
    PROVE  /\ ~heap_violation(original, p)
           /\ conf.abi_check => p \in {Pristine, Torn} \/ Trait[p].abi
<1>1. PICK i \in DOMAIN chain : chain[i].prog = p  BY DEF Kept
<1>2. i = 1 \/ i \in 2..Len(chain)
    <2>1. chain \in Seq(EntryType)  BY DEF IInv, TypeOK
    <2> QED  BY <1>1, <2>1
<1>3. CASE i = 1
    <2>1. p = original  BY <1>1, <1>3 DEF IInv, Shape
    <2> QED  BY <1>1, <2>1 DEF IInv, Shape, heap_violation
<1>4. CASE i \in 2..Len(chain)
    BY <1>1, <1>4 DEF IInv, Shape
<1> QED  BY <1>2, <1>3, <1>4

LEMMA InitInv == Init => IInv
<1> SUFFICES ASSUME Init PROVE IInv  OBVIOUS
<1>1. TypeOK
    BY OptimizerAssumption DEF Init, TypeOK, PcType, Running
<1>2. Progress /\ Shape /\ DiskBetweenCandidates
    BY DEF Init, Progress, Shape, DiskBetweenCandidates, UnderWay
<1> QED  BY <1>1, <1>2 DEF IInv

LEMMA StartRunInv == ASSUME IInv, StartRun PROVE IInv'
<1>1. TypeOK'
    BY DEF IInv, StartRun, TypeOK, PcType, Running
<1>2. Progress' /\ DiskBetweenCandidates'
    BY DEF IInv, StartRun, Progress, DiskBetweenCandidates, UnderWay
<1>3. Shape'
    BY DEF IInv, TypeOK, StartRun, Shape, UnderWay
<1> QED  BY <1>1, <1>2, <1>3 DEF IInv

(* _revert puts back a source the run keeps.                                *)
LEMMA RevertInv == ASSUME IInv, pc \in UnderWay, _revert, bench' \in Results \cup {None}
                   PROVE IInv'
<1>1. Tail(queue) \in Seq(Programs)
    BY DEF IInv, TypeOK, Progress
<1>2. pc' \in {"iterate", "candidate"} /\ (pc' = "candidate" => queue' # <<>>)
    BY DEF _revert, AfterCandidate
<1>3. TypeOK'
    BY <1>1, <1>2 DEF IInv, TypeOK, _revert, PcType, Running
<1>4. Progress'
    BY <1>2 DEF Progress, UnderWay
<1>5. Kept(current) /\ current \in Programs /\ chain # <<>>
    BY DEF IInv, Shape, TypeOK
<1>6. Shape'
    BY <1>2, <1>5, KeptIsClean DEF IInv, Shape, _revert, Kept, UnderWay, Gated
<1>7. DiskBetweenCandidates'
    BY <1>2, <1>5 DEF _revert, DiskBetweenCandidates, Kept
<1> QED  BY <1>3, <1>4, <1>6, <1>7 DEF IInv

(* A death leaves the file as it was, or torn.                              *)
LEMMA DiesLeavingInv == ASSUME IInv, NEW d \in {disk, Torn}, DiesLeaving(d) PROVE IInv'
<1>1. TypeOK'
    BY OptimizerAssumption DEF IInv, TypeOK, DiesLeaving, PcType
<1>2. Progress' /\ DiskBetweenCandidates'
    BY DEF DiesLeaving, Progress, DiskBetweenCandidates, UnderWay
<1>3. Shape'
    BY DEF IInv, Shape, DiesLeaving, UnderWay
<1> QED  BY <1>1, <1>2, <1>3 DEF IInv

LEMMA DiesInv == ASSUME IInv, Dies PROVE IInv'
BY DiesLeavingInv DEF Dies

LEMMA CrashInv == ASSUME IInv, Crash PROVE IInv'
BY DiesInv, DiesLeavingInv DEF Crash

LEMMA BaselineInv == ASSUME IInv, Baseline PROVE IInv'
<1>1. PICK runtime \in Benchmarks(original), workload \in Workloads(original) :
          IF Trait[original].tests /\ runtime # None
          THEN /\ chain' = << [prog |-> original, runtime |-> runtime,
                              metrics |-> _collect_metrics(original, runtime, workload,
                                                           TRUE, TRUE)] >>
               /\ pc' = "iterate"
          ELSE pc' = "failed" /\ UNCHANGED chain
    BY DEF Baseline
<1>2. CASE Trait[original].tests /\ runtime # None
    <2> DEFINE e == [prog |-> original, runtime |-> runtime,
                     metrics |-> _collect_metrics(original, runtime, workload, TRUE, TRUE)]
    <2>1. e \in EntryType
        <3>1. original \in Programs /\ Trait[original] \in TraitType
            BY OptimizerAssumption DEF IInv, TypeOK
        <3>2. runtime \in Results  BY <3>1, BenchmarkResult
        <3>3. workload \in Results \cup {None}
            BY <3>1, BenchmarkResult DEF Workloads
        <3> QED
            BY <3>1, <3>2, <3>3 DEF EntryType, MetricsType, _collect_metrics, TraitType
    <2>2. chain' = <<e>> /\ pc' = "iterate"  BY <1>1, <1>2
    <2>3. /\ <<e>> \in Seq(EntryType) /\ Len(<<e>>) = 1 /\ <<e>>[1] = e /\ <<e>> # <<>>
          /\ e.prog = original
        BY <2>1
    <2> HIDE DEF e
    <2>4. TypeOK'
        BY <2>2, <2>3 DEF IInv, TypeOK, Baseline, PcType, Running
    <2>5. Progress'
        BY <2>2 DEF Progress, UnderWay
    <2>6. disk' = original /\ original' = original /\ conf' = conf
        BY DEF IInv, Shape, Baseline
    <2>7. Shape'
        BY <1>2, <2>2, <2>3, <2>6 DEF IInv, Shape, Baseline, Kept, UnderWay
    <2>8. DiskBetweenCandidates'
        BY <2>2, <2>3, <2>6 DEF DiskBetweenCandidates, best
    <2> QED  BY <2>4, <2>5, <2>7, <2>8 DEF IInv
<1>3. CASE ~(Trait[original].tests /\ runtime # None)
    <2>1. pc' = "failed" /\ chain' = chain  BY <1>1, <1>3
    <2>2. TypeOK'  BY <2>1 DEF IInv, TypeOK, Baseline, PcType
    <2>3. Progress' /\ DiskBetweenCandidates'
        BY <2>1 DEF Progress, DiskBetweenCandidates, UnderWay
    <2>4. Shape'  BY <2>1 DEF IInv, Shape, Baseline, UnderWay, Gated
    <2> QED  BY <2>2, <2>3, <2>4 DEF IInv
<1> QED  BY <1>2, <1>3

LEMMA IterateInv == ASSUME IInv, Iterate PROVE IInv'
<1>1. queue' \in Seq(Programs)
    <2>1. PICK llm \in IF conf.llm THEN SeqsUpTo(Programs, PerRound) ELSE {<<>>} :
              queue' = llm \o (IF conf.mutations THEN Mutations[disk] ELSE <<>>)
        BY DEF Iterate
    <2>2. llm \in Seq(Programs)
        <3>1. CASE llm = <<>>  BY <3>1
        <3>2. CASE llm \in SeqsUpTo(Programs, PerRound)
            <4>1. PICK k \in 0..PerRound : llm \in [1..k -> Programs]
                BY <3>2 DEF SeqsUpTo
            <4>2. k \in Nat  BY OptimizerAssumption
            <4> QED  BY <4>1, <4>2, IsASeq
        <3> QED  BY <3>1, <3>2
    <2>3. Mutations[disk] \in Seq(Programs)
        BY OptimizerAssumption DEF IInv, TypeOK
    <2>4. (IF conf.mutations THEN Mutations[disk] ELSE <<>>) \in Seq(Programs)
        BY <2>3
    <2> QED  BY <2>1, <2>2, <2>4, ConcatProperties
<1>2. pc' \in {"final", "candidate"} /\ (pc' = "candidate" => queue' # <<>>)
    BY DEF Iterate
<1>3. TypeOK'
    BY <1>1, <1>2 DEF IInv, TypeOK, Iterate, PcType, Running
<1>4. Progress'
    BY <1>2 DEF Progress, UnderWay
<1>5. Shape'
    BY <1>2 DEF IInv, Shape, Iterate, UnderWay, Kept, Gated
<1>6. DiskBetweenCandidates'
    BY <1>2 DEF IInv, DiskBetweenCandidates, Iterate, best
<1> QED  BY <1>3, <1>4, <1>5, <1>6 DEF IInv

LEMMA LoopEndsInv == ASSUME IInv, LoopEnds PROVE IInv'
<1>1. TypeOK' /\ Progress'
    BY DEF IInv, TypeOK, LoopEnds, Progress, PcType, Running, UnderWay
<1>2. Shape'
    BY DEF IInv, Shape, LoopEnds, UnderWay, Kept, Gated
<1>3. DiskBetweenCandidates'
    BY DEF IInv, DiskBetweenCandidates, LoopEnds, best
<1> QED  BY <1>1, <1>2, <1>3 DEF IInv

LEMMA RejectUnwrittenInv == ASSUME IInv, RejectUnwritten PROVE IInv'
<1>1. Tail(queue) \in Seq(Programs)
    BY DEF IInv, TypeOK, Progress, RejectUnwritten, UnderWay
<1>2. pc' \in {"iterate", "candidate"} /\ (pc' = "candidate" => queue' # <<>>)
    BY DEF RejectUnwritten, AfterCandidate
<1>3. TypeOK'
    BY <1>1, <1>2 DEF IInv, TypeOK, RejectUnwritten, PcType, Running
<1>4. Progress'
    BY <1>2 DEF Progress, UnderWay
<1>5. Shape'
    BY <1>2 DEF IInv, Shape, RejectUnwritten, UnderWay, Kept, Gated
<1>6. DiskBetweenCandidates'
    BY <1>2 DEF IInv, DiskBetweenCandidates, RejectUnwritten, best
<1> QED  BY <1>3, <1>4, <1>5, <1>6 DEF IInv

LEMMA InstallInv == ASSUME IInv, Install PROVE IInv'
<1>1. Head(queue) \in Programs
    BY DEF IInv, TypeOK, Progress, Install, UnderWay
<1>2. TypeOK'
    BY <1>1 DEF IInv, TypeOK, Install, PcType, Running
<1>3. Progress'
    BY DEF IInv, Progress, Install, UnderWay
<1>4. Shape'
    BY DEF IInv, Shape, Install, UnderWay, Kept, Gated
<1>5. DiskBetweenCandidates'
    BY DEF DiskBetweenCandidates, Install
<1> QED  BY <1>2, <1>3, <1>4, <1>5 DEF IInv

LEMMA TestsInv == ASSUME IInv, run_tests \/ run_differential PROVE IInv'
<1>1. CASE _revert /\ bench' = bench /\ pc \in UnderWay
    BY <1>1, RevertInv DEF IInv, TypeOK
<1>2. CASE /\ \/ pc = "installed" /\ pc' = "tested" /\ Trait[disk].tests
             \/ /\ pc = "tested" /\ pc' = "compared"
                /\ conf.differential => Trait[disk].differential
          /\ UNCHANGED <<conf, disk, original, iteration, current, queue, chain, crashes, bench>>
    <2>1. TypeOK'  BY <1>2 DEF IInv, TypeOK, PcType, Running
    <2>2. Progress'  BY <1>2 DEF IInv, Progress, UnderWay
    <2>3. Shape'  BY <1>2 DEF IInv, Shape, UnderWay, Kept, Gated
    <2>4. DiskBetweenCandidates'  BY <1>2 DEF DiskBetweenCandidates
    <2> QED  BY <2>1, <2>2, <2>3, <2>4 DEF IInv
<1> QED  BY <1>1, <1>2 DEF run_tests, run_differential, UnderWay

LEMMA MeasureInv == ASSUME IInv, Measure PROVE IInv'
<1>1. PICK runtime \in Benchmarks(disk) :
          \/ runtime = None /\ _revert /\ UNCHANGED bench
          \/ runtime # None /\ best.runtime = 0 /\ Dies
          \/ /\ runtime # None /\ best.runtime # 0
             /\ pc' = "measured" /\ bench' = runtime
             /\ UNCHANGED <<conf, disk, original, iteration, current, queue, chain, crashes>>
    BY DEF Measure
<1>2. CASE _revert /\ UNCHANGED bench
    BY <1>2, RevertInv DEF Measure, UnderWay, IInv, TypeOK
<1>3. CASE Dies
    BY <1>3, DiesInv
<1>4. CASE /\ pc' = "measured" /\ bench' = runtime
          /\ UNCHANGED <<conf, disk, original, iteration, current, queue, chain, crashes>>
    <2>1. runtime \in Results  BY BenchmarkResult DEF IInv, TypeOK
    <2>2. pc = "compared"  BY DEF Measure
    <2>3. TypeOK'  BY <1>4, <2>1 DEF IInv, TypeOK, PcType, Running
    <2>4. Progress'  BY <1>4, <2>1, <2>2 DEF IInv, Progress, UnderWay
    <2>5. Shape'  BY <1>4, <2>2 DEF IInv, Shape, UnderWay, Kept, Gated
    <2>6. DiskBetweenCandidates'  BY <1>4 DEF DiskBetweenCandidates
    <2> QED  BY <2>3, <2>4, <2>5, <2>6 DEF IInv
<1> QED  BY <1>1, <1>2, <1>3, <1>4

(* The strategy never keeps a candidate whose metrics report a new          *)
(* allocator.                                                               *)
LEMMA AcceptNeedsHeap ==
    ASSUME NEW c, NEW before, NEW after, accept(c, before, after) = "workload-improvement"
    PROVE  after.heap_ok
<1>1. hard_constraints(c, before, after) # "workload-improvement"
    BY DEF hard_constraints
<1>2. hard_constraints(c, before, after) = "ok"
    BY <1>1 DEF accept
<1> QED  BY <1>2 DEF hard_constraints

LEMMA JudgeInv == ASSUME IInv, Judge PROVE IInv'
<1>1. PICK workload \in Workloads(disk), verdict \in Verdicts :
          Decide(workload, verdict)
    BY DEF Judge
<1> DEFINE m == _collect_metrics(disk, bench, workload, ~heap_violation(current, disk),
                    IsCrypto(conf) => ~constant_time_violation(best.prog, disk))
           e == [prog |-> disk, runtime |-> bench, metrics |-> m]
<1>2. pc = "measured" /\ bench' = None  BY DEF Judge
<1>3. CASE _revert
    BY <1>2, <1>3, RevertInv DEF UnderWay
<1>4. CASE /\ accept(conf, best.metrics, m) = "workload-improvement"
          /\ chain' = Append(chain, e)
          /\ queue' = Tail(queue) /\ pc' = AfterCandidate
          /\ UNCHANGED <<conf, disk, original, iteration, current, crashes>>
    <2>1. e \in EntryType
        <3>1. disk \in Programs /\ Trait[disk] \in TraitType
            BY OptimizerAssumption DEF IInv, TypeOK
        <3>2. bench \in Results  BY <1>2 DEF IInv, Progress
        <3>3. workload \in Results \cup {None}
            BY <3>1, BenchmarkResult DEF Workloads
        <3>4. /\ (~heap_violation(current, disk)) \in BOOLEAN
              /\ (IsCrypto(conf) => ~constant_time_violation(best.prog, disk)) \in BOOLEAN
            BY DEF heap_violation
        <3> QED
            BY <3>1, <3>2, <3>3, <3>4 DEF EntryType, MetricsType, _collect_metrics, TraitType
    <2>2. ~heap_violation(current, disk)
        <3>1. m.heap_ok  BY <1>4, AcceptNeedsHeap
        <3> QED  BY <3>1 DEF _collect_metrics
    <2>3. ~heap_violation(original, disk)
        <3>1. Kept(current) /\ current \in Programs
            BY <1>2 DEF IInv, Shape, TypeOK, UnderWay
        <3> QED  BY <3>1, <2>2, KeptIsClean, HeapTransitive
    <2>4. e.prog = disk  OBVIOUS
    <2> HIDE DEF e, m
    <2>5. chain \in Seq(EntryType) /\ chain # <<>>
        BY <1>2 DEF IInv, TypeOK, Shape, UnderWay
    <2>6. /\ Append(chain, e) \in Seq(EntryType)
          /\ Len(Append(chain, e)) = Len(chain) + 1
          /\ DOMAIN Append(chain, e) = 1..(Len(chain) + 1)
          /\ \A i \in 1..Len(chain) : Append(chain, e)[i] = chain[i]
          /\ Append(chain, e)[Len(chain) + 1] = e
          /\ Len(chain) \in Nat \ {0} /\ DOMAIN chain = 1..Len(chain)
        BY <2>1, <2>5, AppendProperties, LenProperties, EmptySeq
    <2>7. Tail(queue) \in Seq(Programs)
        BY <1>2 DEF IInv, TypeOK, Progress, UnderWay
    <2>8. pc' \in {"iterate", "candidate"} /\ (pc' = "candidate" => queue' # <<>>)
        BY <1>4 DEF AfterCandidate
    <2>9. TypeOK'
        BY <1>2, <1>4, <2>6, <2>7, <2>8 DEF IInv, TypeOK, PcType, Running
    <2>10. Progress'
        BY <2>8 DEF Progress, UnderWay
    <2>11. Kept(disk)' /\ (Kept(current) => Kept(current)')
        <3>1. Kept(disk)'  BY <1>4, <2>4, <2>6 DEF Kept
        <3>2. ASSUME NEW i \in DOMAIN chain, chain[i].prog = current
              PROVE  Kept(current)'
            BY <1>4, <2>6, <3>2 DEF Kept
        <3> QED  BY <3>1, <3>2 DEF Kept
    <2>12. Gated(disk)
        BY <1>2 DEF IInv, Progress, Gated
    <2>13. Shape'
        <3>1. chain'[1].prog = original /\ Trait[original].tests /\ chain' # <<>>
            BY <1>4, <2>5, <2>6 DEF IInv, Shape
        <3>2. \A i \in 2..Len(chain') : /\ Gated(chain'[i].prog)
                                        /\ ~heap_violation(original, chain'[i].prog)
            <4> SUFFICES ASSUME NEW i \in 2..Len(chain')
                         PROVE  Gated(chain'[i].prog) /\ ~heap_violation(original, chain'[i].prog)
                OBVIOUS
            <4>1. CASE i \in 2..Len(chain)
                BY <1>4, <2>6, <4>1 DEF IInv, Shape
            <4>2. CASE i = Len(chain) + 1
                BY <1>4, <2>3, <2>4, <2>6, <2>12, <4>2
            <4> QED  BY <1>4, <2>6, <4>1, <4>2
        <3>3. conf.abi_check =>
                 \A i \in DOMAIN chain' : chain'[i].prog \in {Pristine, Torn} \/ Trait[chain'[i].prog].abi
            <4> SUFFICES ASSUME conf.abi_check, NEW i \in DOMAIN chain'
                         PROVE  chain'[i].prog \in {Pristine, Torn} \/ Trait[chain'[i].prog].abi
                OBVIOUS
            <4>1. CASE i \in DOMAIN chain
                BY <1>4, <2>6, <4>1 DEF IInv, Shape
            <4>2. CASE i = Len(chain) + 1
                BY <1>4, <2>4, <2>6, <2>12, <4>2 DEF Gated
            <4> QED  BY <1>4, <2>6, <4>1, <4>2
        <3>4. Kept(current)  BY <1>2 DEF IInv, Shape, UnderWay
        <3>5. Kept(disk)' /\ Kept(current)'  BY <2>11, <3>4
        <3> QED
            BY <1>4, <2>8, <3>1, <3>2, <3>3, <3>5 DEF IInv, Shape, UnderWay, Kept, Gated
    <2>14. DiskBetweenCandidates'
        BY <1>4, <2>4, <2>6, <2>8, <2>11 DEF DiskBetweenCandidates, best, Kept
    <2> QED  BY <2>9, <2>10, <2>13, <2>14 DEF IInv
<1> QED  BY <1>1, <1>3, <1>4 DEF Decide, Keeps, cand_metrics

LEMMA FinishInv == ASSUME IInv, Finish PROVE IInv'
<1>1. CASE Dies
    BY <1>1, DiesInv
<1>2. CASE /\ pc = "final" /\ pc' = "done"
           /\ disk' = IF conf.apply THEN disk ELSE original
           /\ UNCHANGED <<conf, original, iteration, current, queue, chain, bench, crashes>>
    <2>1. TypeOK' /\ Progress'
        BY <1>2 DEF IInv, TypeOK, Progress, PcType, UnderWay
    <2>2. conf.abi_check => original \in {Pristine, Torn} \/ Trait[original].abi
        BY <1>2 DEF IInv, Shape
    <2>3. Shape'
        BY <1>2, <2>2 DEF IInv, Shape, UnderWay, Gated
    <2>4. DiskBetweenCandidates'
        BY <1>2 DEF DiskBetweenCandidates
    <2> QED  BY <2>1, <2>3, <2>4 DEF IInv
<1> QED  BY <1>1, <1>2 DEF Finish

LEMMA RestartInv == ASSUME IInv, Restart PROVE IInv'
<1>1. TypeOK' /\ Progress'
    BY DEF IInv, TypeOK, Restart, Progress, PcType, UnderWay
<1>2. Shape' /\ DiskBetweenCandidates'
    BY DEF IInv, Shape, Restart, UnderWay, Gated, DiskBetweenCandidates
<1> QED  BY <1>1, <1>2 DEF IInv

LEMMA StutterInv == ASSUME IInv, UNCHANGED vars PROVE IInv'
<1>1. TypeOK' /\ Progress'
    BY DEF IInv, TypeOK, Progress, vars
<1>2. Shape' /\ DiskBetweenCandidates'
    BY DEF IInv, Shape, DiskBetweenCandidates, vars, Gated, Kept, best
<1> QED  BY <1>1, <1>2 DEF IInv

LEMMA Invariance == Spec => []IInv
<1>1. Init => IInv  BY InitInv
<1>2. IInv /\ [Next]_vars => IInv'
    <2> SUFFICES ASSUME IInv, [Next]_vars PROVE IInv'  OBVIOUS
    <2> QED
        BY StartRunInv, BaselineInv, IterateInv, LoopEndsInv, RejectUnwrittenInv, InstallInv,
           TestsInv, MeasureInv, JudgeInv, FinishInv, CrashInv, RestartInv, StutterInv
           DEF Next, Step
<1> QED  BY <1>1, <1>2, PTL DEF Spec

(* In every run of the optimizer, deaths and restarts included, whatever is *)
(* accepted passed the ABI check, the tests and the differential test that  *)
(* the command line asks for and calls no new allocator; the file on disk   *)
(* never holds a candidate the ABI check refused, and nothing worse than a  *)
(* write cut short by a death; and what a run optimizes passed its tests.   *)
THEOREM EarnedCorrect == Spec => []AcceptedEarned
<1>1. IInv => AcceptedEarned
    BY DEF IInv, Shape, AcceptedEarned
<1> QED  BY <1>1, Invariance, PTL

(* Between candidates the source file holds the baseline or an accepted     *)
(* program, and it is the best one or the one the iteration started from;   *)
(* a run that ends without --apply leaves the file as it found it.          *)
THEOREM DiskCorrect == Spec => []DiskBetweenCandidates
<1>1. IInv => DiskBetweenCandidates
    BY DEF IInv
<1> QED  BY <1>1, Invariance, PTL


-----------------------------------------------------------------------------
(* What a benchmark measures is a number or nothing.  The induction over    *)
(* the samples is an argument about a least counterexample.                 *)
LEMMA LeastNumber ==
    ASSUME NEW T, T \subseteq Nat, T # {}
    PROVE  \E m \in T : \A n \in T : m <= n
<1>1. PICK m \in T : \A n \in T : ~ (<<n, m>> \in OpToRel(<, Nat))
    BY NatLessThanWellFounded, WFMin
<1>2. ASSUME NEW n \in T, NEW l \in T, n < l
      PROVE  <<n, l>> \in OpToRel(<, Nat)
    BY <1>2, Zenon DEF OpToRel
<1>3. \A n \in T : ~ (n < m)
    BY <1>1, <1>2, Zenon
<1>4. \A n \in T : m <= n
    BY <1>3, SMT
<1> QED BY <1>4

LEMMA LargestSample ==
    ASSUME NEW n \in Nat \ {0}, NEW s \in [1..n -> Nat]
    PROVE  \E i \in 1..n : \A j \in 1..n : s[j] <= s[i]
<1> DEFINE Has(m) == \E i \in 1..m : \A j \in 1..m : s[j] <= s[i]
           Bad == {m \in 1..n : ~ Has(m)}
<1> SUFFICES ASSUME ~ Has(n) PROVE FALSE  OBVIOUS
<1>1. n \in Bad /\ Bad \subseteq Nat  OBVIOUS
<1>2. PICK m \in Bad : \A l \in Bad : m <= l
    <2> HIDE DEF Bad
    <2> QED  BY <1>1, LeastNumber
<1>3. m \in 1..n /\ ~ Has(m)  BY <1>2
<1>4. Has(1)  OBVIOUS
<1>5. m # 1  BY <1>3, <1>4
<1>6. m - 1 \in 1..n  BY <1>3, <1>5
<1>7. Has(m - 1)
    <2>1. m - 1 \notin Bad
        <3> HIDE DEF Bad
        <3> QED  BY <1>2, <1>3, <1>6
    <2> QED  BY <1>6, <2>1
<1>8. PICK i \in 1..(m - 1) : \A j \in 1..(m - 1) : s[j] <= s[i]  BY <1>7
<1>9. \A j \in 1..m : j \in 1..n /\ (j \in 1..(m - 1) \/ j = m)
    <2>1. m \in 1..n  BY <1>3
    <2> HIDE DEF Bad, Has
    <2> QED  BY <2>1
<1>10. i \in 1..m /\ m \in 1..m
    <2>1. m \in 1..n /\ i \in 1..(m - 1)  BY <1>3, <1>8
    <2> HIDE DEF Bad, Has
    <2> QED  BY <2>1
<1>11. \A j \in 1..m : s[j] \in Nat
    <2> HIDE DEF Bad, Has
    <2> QED  BY <1>9
<1>12. CASE s[m] <= s[i]
    <2>1. \A j \in 1..m : s[j] <= s[i]
        <3> HIDE DEF Bad, Has
        <3> QED  BY <1>8, <1>9, <1>12
    <2> QED  BY <1>3, <1>10, <2>1
<1>13. CASE s[i] <= s[m]
    <2>1. \A j \in 1..m : s[j] <= s[m]
        <3> HIDE DEF Bad, Has
        <3> SUFFICES ASSUME NEW j \in 1..m PROVE s[j] <= s[m]  OBVIOUS
        <3>1. s[j] \in Nat /\ s[i] \in Nat /\ s[m] \in Nat  BY <1>10, <1>11
        <3>2. s[j] <= s[i] \/ j = m  BY <1>8, <1>9
        <3> QED  BY <1>13, <3>1, <3>2
    <2> QED  BY <1>3, <1>10, <2>1
<1>14. s[m] <= s[i] \/ s[i] <= s[m]
    <2>1. s[i] \in Nat /\ s[m] \in Nat
        <3> HIDE DEF Bad, Has
        <3> QED  BY <1>10, <1>11
    <2> HIDE DEF Bad, Has
    <2> QED  BY <2>1
<1> QED  BY <1>12, <1>13, <1>14

LEMMA SmallestIsNumber ==
    ASSUME NEW n \in Nat \ {0}, NEW s \in [1..n -> Nat], NEW k \in 1..n
    PROVE  Smallest(s, k) \in Nat
<1> DEFINE reached == {v \in {s[i] : i \in DOMAIN s} :
                           Cardinality({i \in DOMAIN s : s[i] <= v}) >= k}
<1>1. reached \subseteq Nat  OBVIOUS
<1>2. PICK i \in 1..n : \A j \in 1..n : s[j] <= s[i]  BY LargestSample
<1>3. {j \in DOMAIN s : s[j] <= s[i]} = 1..n  BY <1>2
<1>4. Cardinality(1..n) = n
    <2>1. Cardinality(1..n) = IF 1 > n THEN 0 ELSE n - 1 + 1
        BY FS_Interval
    <2> QED  BY <2>1
<1>5. s[i] \in reached
    <2>1. Cardinality({j \in DOMAIN s : s[j] <= s[i]}) = n  BY <1>3, <1>4, Zenon
    <2>2. s[i] \in {s[j] : j \in DOMAIN s}  OBVIOUS
    <2>3. \A v \in {s[j] : j \in DOMAIN s} :
              v \in reached <=> Cardinality({j \in DOMAIN s : s[j] <= v}) >= k
        BY Zenon
    <2> HIDE DEF reached
    <2> QED  BY <2>1, <2>2, <2>3
<1>6. Smallest(s, k) = CHOOSE v \in reached : \A w \in reached : v <= w
    BY DEF Smallest
<1> HIDE DEF reached
<1>7. \E v \in reached : \A w \in reached : v <= w
    BY <1>1, <1>5, LeastNumber
<1> QED  BY <1>1, <1>6, <1>7

LEMMA MedianIsNumber ==
    ASSUME NEW n \in Nat \ {0}, NEW s \in [1..n -> Nat]
    PROVE  median(s) \in Nat
<1>1. Len(s) = n
    <2>1. s \in Seq(Nat)  BY IsASeq
    <2> QED  BY <2>1, LenProperties
<1> DEFINE h == n \div 2
<1>2. h \in Nat /\ (n % 2 = 1 => h + 1 \in 1..n) /\ (n % 2 # 1 => h \in 1..n /\ h + 1 \in 1..n)
    OBVIOUS
<1>3. CASE n % 2 = 1
    <2>1. Smallest(s, h + 1) \in Nat  BY <1>2, <1>3, SmallestIsNumber
    <2> QED  BY <1>1, <1>3, <2>1 DEF median
<1>4. CASE n % 2 # 1
    <2>1. Smallest(s, h) \in Nat /\ Smallest(s, h + 1) \in Nat
        BY <1>2, <1>4, SmallestIsNumber
    <2>2. (Smallest(s, h) + Smallest(s, h + 1)) \div 2 \in Nat
        BY <2>1
    <2> QED  BY <1>1, <1>4, <2>2 DEF median
<1> QED  BY <1>3, <1>4

LEMMA ResultIsNumber == Results \subseteq Nat \cup {None}
<1> SUFFICES ASSUME NEW p \in Programs, NEW outs \in [1..Rounds -> Outputs[p]]
             PROVE  BenchmarkRun(outs) \in Nat \cup {None}
    BY DEF Results, Benchmarks
<1>1. Rounds \in Nat \ {0}  BY OptimizerAssumption
<1>2. CASE \E i \in DOMAIN outs : outs[i].fails \/ parse_output(outs[i]) = NaN
    BY <1>2 DEF BenchmarkRun
<1>3. CASE ~ \E i \in DOMAIN outs : outs[i].fails \/ parse_output(outs[i]) = NaN
    <2> DEFINE s == [i \in DOMAIN outs |-> parse_output(outs[i])]
    <2>1. \A i \in 1..Rounds : parse_output(outs[i]) \in Nat
        <3> SUFFICES ASSUME NEW i \in 1..Rounds PROVE parse_output(outs[i]) \in Nat
            OBVIOUS
        <3>1. outs[i] \in OutputType  BY OptimizerAssumption
        <3>2. parse_output(outs[i]) # NaN  BY <1>3
        <3> QED  BY <3>1, <3>2, OptimizerAssumption DEF OutputType, parse_output
    <2>2. s \in [1..Rounds -> Nat]  BY <2>1
    <2> HIDE DEF s
    <2>3. median(s) \in Nat  BY <1>1, <2>2, MedianIsNumber
    <2>4. BenchmarkRun(outs) = median(s)  BY <1>3 DEF BenchmarkRun, s
    <2> QED  BY <2>3, <2>4
<1> QED  BY <1>2, <1>3


-----------------------------------------------------------------------------
(* The two programs were compared in numbers, and the later one is better,  *)
(* by the margin, with no more stack and no more branches.  BestImproves    *)
(* alone is not inductive: that two metrics beat one another says nothing   *)
(* unless they are numbers.                                                 *)
Improved(c, ch, i, j) ==
    LET a == ch[i]
        b == ch[j]
    IN  /\ primary_metric(c, a.metrics) \in Nat /\ primary_metric(c, b.metrics) \in Nat
        /\ BeatsBy(c, primary_metric(c, a.metrics), primary_metric(c, b.metrics))
        /\ (\A k \in i..j : ch[k].metrics.frame # None)
              => b.metrics.frame <= a.metrics.frame
        /\ IsCrypto(c) /\ (\A k \in i..j : Trait[ch[k].prog].branches # None)
              => Trait[b.prog].branches <= Trait[a.prog].branches

(* No run without a noise floor; everything compared was measured.          *)
Improving ==
    /\ pc \in Running \/ chain # <<>> => conf.noise # None
    /\ pc = "measured" => bench # None
    /\ \A i \in DOMAIN chain : chain[i].metrics.runtime # None
    /\ \A i, j \in DOMAIN chain : i < j => Improved(conf, chain, i, j)

LEMMA RequiredIsNumber ==
    ASSUME NEW c \in Configs, c.noise # None
    PROVE  Required(c) \in Nat
<1>1. c \in ConfigType  BY OptimizerAssumption
<1>2. c.noise \in Nat /\ c.min_improvement \in Nat  BY <1>1 DEF ConfigType
<1> QED  BY <1>2 DEF Required

(* A margin over a margin is a margin over the first.                       *)
LEMMA BeatsTransitive ==
    ASSUME NEW c, Required(c) \in Nat, NEW x \in Nat, NEW y \in Nat, NEW z \in Nat,
           BeatsBy(c, x, y), BeatsBy(c, y, z)
    PROVE  BeatsBy(c, x, z)
<1> DEFINE rx == Required(c) * x
           ry == Required(c) * y
<1>1. rx \in Nat /\ ry \in Nat  OBVIOUS
<1>2. (x - y) * 100 > rx /\ (y - z) * 100 > ry  BY DEF BeatsBy
<1> HIDE DEF rx, ry
<1>3. (x - z) * 100 > rx  BY <1>1, <1>2
<1> QED  BY <1>3 DEF BeatsBy, rx

(* The metric a strategy compares is a number or missing.                   *)
LEMMA MetricIsNumber ==
    ASSUME NEW c, NEW m \in MetricsType, m.runtime # None
    PROVE  primary_metric(c, m) \in Nat \cup {None}
<1>1. m.runtime \in Nat /\ m.workload \in Nat \cup {None} /\ m.insns \in Nat \cup {None}
    BY ResultIsNumber DEF MetricsType
<1>2. (IF m.insns = None THEN 100 * m.runtime ELSE 100 * m.runtime + m.insns) \in Nat
    BY <1>1
<1> QED  BY <1>1, <1>2 DEF primary_metric

(* What the strategy keeps beats the best by the margin, on two numbers,    *)
(* with no larger frame and, as cryptography, no new branch.                *)
LEMMA AcceptImproves ==
    ASSUME NEW c, NEW before \in MetricsType, NEW after \in MetricsType,
           before.runtime # None, after.runtime # None,
           accept(c, before, after) = "workload-improvement"
    PROVE  /\ primary_metric(c, before) \in Nat /\ primary_metric(c, after) \in Nat
           /\ BeatsBy(c, primary_metric(c, before), primary_metric(c, after))
           /\ before.frame # None /\ after.frame # None => after.frame <= before.frame
           /\ IsCrypto(c) => after.constant_time_ok
<1>1. hard_constraints(c, before, after) # "workload-improvement"
    BY DEF hard_constraints
<1>2. hard_constraints(c, before, after) = "ok"
    BY <1>1 DEF accept
<1>3. /\ primary_metric(c, before) # None /\ primary_metric(c, after) # None
      /\ BeatsBy(c, primary_metric(c, before), primary_metric(c, after))
    BY <1>2 DEF accept
<1>4. ~ (before.frame # None /\ after.frame # None /\ after.frame > before.frame)
    BY <1>2 DEF hard_constraints
<1>5. IsCrypto(c) => after.constant_time_ok
    BY <1>2 DEF hard_constraints
<1>6. before.frame \in Nat \cup {None} /\ after.frame \in Nat \cup {None}
    BY DEF MetricsType
<1>7. before.frame # None /\ after.frame # None => after.frame <= before.frame
    BY <1>4, <1>6
<1> QED  BY <1>3, <1>5, <1>7, MetricIsNumber

LEMMA ImprovedTransitive ==
    ASSUME NEW c, Required(c) \in Nat, NEW ch \in Seq(EntryType),
           NEW i \in DOMAIN ch, NEW l \in DOMAIN ch, NEW j \in DOMAIN ch, i < l, l < j,
           Improved(c, ch, i, l), Improved(c, ch, l, j)
    PROVE  Improved(c, ch, i, j)
<1>1. /\ primary_metric(c, ch[i].metrics) \in Nat /\ primary_metric(c, ch[j].metrics) \in Nat
      /\ BeatsBy(c, primary_metric(c, ch[i].metrics), primary_metric(c, ch[j].metrics))
    BY BeatsTransitive DEF Improved
<1>2. \A k \in DOMAIN ch : /\ ch[k].metrics.frame \in Nat \cup {None}
                           /\ Trait[ch[k].prog].branches \in Nat \cup {None}
    <2> SUFFICES ASSUME NEW k \in DOMAIN ch
                 PROVE  /\ ch[k].metrics.frame \in Nat \cup {None}
                        /\ Trait[ch[k].prog].branches \in Nat \cup {None}
        OBVIOUS
    <2>1. ch[k] \in EntryType  BY ElementOfSeq, LenProperties
    <2>2. ch[k].metrics \in MetricsType /\ ch[k].prog \in Programs  BY <2>1 DEF EntryType
    <2>3. Trait[ch[k].prog] \in TraitType  BY <2>2, OptimizerAssumption
    <2> QED  BY <2>2, <2>3 DEF MetricsType, TraitType
<1>3. /\ i \in Nat /\ l \in Nat /\ j \in Nat
      /\ \A k : k \in i..l \/ k \in l..j => k \in i..j
      /\ i \in i..j /\ l \in i..j /\ j \in i..j
    <2>1. i \in Nat /\ l \in Nat /\ j \in Nat  BY LenProperties
    <2> QED  BY <2>1
<1>4. ASSUME \A k \in i..j : ch[k].metrics.frame # None
      PROVE  ch[j].metrics.frame <= ch[i].metrics.frame
    <2>1. /\ ch[j].metrics.frame <= ch[l].metrics.frame
          /\ ch[l].metrics.frame <= ch[i].metrics.frame
        BY <1>3, <1>4 DEF Improved
    <2>2. ch[i].metrics.frame \in Nat /\ ch[l].metrics.frame \in Nat /\ ch[j].metrics.frame \in Nat
        BY <1>2, <1>3, <1>4
    <2> QED  BY <2>1, <2>2
<1>5. ASSUME IsCrypto(c), \A k \in i..j : Trait[ch[k].prog].branches # None
      PROVE  Trait[ch[j].prog].branches <= Trait[ch[i].prog].branches
    <2>1. /\ Trait[ch[j].prog].branches <= Trait[ch[l].prog].branches
          /\ Trait[ch[l].prog].branches <= Trait[ch[i].prog].branches
        BY <1>3, <1>5 DEF Improved
    <2>2. /\ Trait[ch[i].prog].branches \in Nat /\ Trait[ch[l].prog].branches \in Nat
          /\ Trait[ch[j].prog].branches \in Nat
        BY <1>2, <1>3, <1>5
    <2> QED  BY <2>1, <2>2
<1> QED  BY <1>1, <1>4, <1>5 DEF Improved


(* A step that leaves the chain alone, and starts nothing without a noise   *)
(* floor.                                                                   *)
LEMMA SameChain ==
    ASSUME Improving, chain' = chain, conf' = conf,
           pc' \in Running => pc \in Running \/ conf.noise # None,
           pc' = "measured" => bench' # None
    PROVE  Improving'
<1>1. (pc \in Running \/ chain # <<>> => conf.noise # None)'
    BY DEF Improving
<1>2. (\A i, j \in DOMAIN chain : i < j => Improved(conf, chain, i, j))'
    BY DEF Improving
<1>3. (\A i \in DOMAIN chain : chain[i].metrics.runtime # None)'
    BY DEF Improving
<1> QED  BY <1>1, <1>2, <1>3 DEF Improving

LEMMA DiesLeavingImproving == ASSUME Improving, NEW d, DiesLeaving(d) PROVE Improving'
<1>1. pc' = "crashed" /\ chain' = <<>>  BY DEF DiesLeaving
<1>2. DOMAIN chain' = {}  BY <1>1
<1> QED  BY <1>1, <1>2 DEF Improving, Running

LEMMA DiesImproving == ASSUME Improving, Dies PROVE Improving'
BY DiesLeavingImproving DEF Dies

LEMMA BaselineImproving == ASSUME Improving, Baseline PROVE Improving'
<1>1. PICK runtime \in Benchmarks(original), workload \in Workloads(original) :
          IF Trait[original].tests /\ runtime # None
          THEN /\ chain' = << [prog |-> original, runtime |-> runtime,
                              metrics |-> _collect_metrics(original, runtime, workload,
                                                           TRUE, TRUE)] >>
               /\ pc' = "iterate"
          ELSE pc' = "failed" /\ UNCHANGED chain
    BY DEF Baseline
<1>2. CASE Trait[original].tests /\ runtime # None
    <2> DEFINE e == [prog |-> original, runtime |-> runtime,
                     metrics |-> _collect_metrics(original, runtime, workload, TRUE, TRUE)]
    <2>1. e.metrics.runtime # None  BY <1>2 DEF _collect_metrics
    <2>2. chain' = <<e>> /\ pc' = "iterate"  BY <1>1, <1>2
    <2> HIDE DEF e
    <2>3. DOMAIN chain' = {1} /\ chain'[1] = e  BY <2>2
    <2>4. conf' = conf /\ conf.noise # None  BY DEF Baseline, Improving, Running
    <2>5. ~ (1 < 1)  OBVIOUS
    <2> QED  BY <2>1, <2>2, <2>3, <2>4, <2>5 DEF Improving
<1>3. CASE ~(Trait[original].tests /\ runtime # None)
    <2>1. pc' = "failed" /\ chain' = chain  BY <1>1, <1>3
    <2> QED  BY <2>1, SameChain DEF Baseline, Running
<1> QED  BY <1>2, <1>3

(* An acceptance beats the best, and through it everything before it.       *)
LEMMA JudgeImproving == ASSUME IInv, Improving, Judge PROVE Improving'
<1>1. PICK workload \in Workloads(disk), verdict \in Verdicts :
          Decide(workload, verdict)
    BY DEF Judge
<1> DEFINE m == _collect_metrics(disk, bench, workload, ~heap_violation(current, disk),
                    IsCrypto(conf) => ~constant_time_violation(best.prog, disk))
           e == [prog |-> disk, runtime |-> bench, metrics |-> m]
<1>2. pc = "measured" /\ pc \in Running /\ bench' = None  BY DEF Judge, Running
<1>3. pc' # "measured"
    BY <1>1 DEF Decide, _revert, AfterCandidate
<1>4. CASE _revert
    BY <1>2, <1>3, <1>4, SameChain DEF _revert
<1>5. CASE /\ accept(conf, best.metrics, m) = "workload-improvement"
          /\ chain' = Append(chain, e)
          /\ queue' = Tail(queue) /\ pc' = AfterCandidate
          /\ UNCHANGED <<conf, disk, original, iteration, current, crashes>>
    <2> DEFINE n == Len(chain)
    <2>1. chain \in Seq(EntryType) /\ chain # <<>>
        BY <1>2 DEF IInv, TypeOK, Shape, UnderWay
    <2>2. e \in EntryType
        <3>1. disk \in Programs /\ Trait[disk] \in TraitType
            BY OptimizerAssumption DEF IInv, TypeOK
        <3>2. bench \in Results  BY <1>2 DEF IInv, Progress
        <3>3. workload \in Results \cup {None}
            BY <3>1, BenchmarkResult DEF Workloads
        <3>4. /\ (~heap_violation(current, disk)) \in BOOLEAN
              /\ (IsCrypto(conf) => ~constant_time_violation(best.prog, disk)) \in BOOLEAN
            BY DEF heap_violation
        <3> QED
            BY <3>1, <3>2, <3>3, <3>4 DEF EntryType, MetricsType, _collect_metrics, TraitType
    <2>3. bench # None  BY <1>2 DEF Improving
    <2>4. /\ e.metrics = m /\ e.prog = disk /\ m.runtime = bench
          /\ m.constant_time_ok = (IsCrypto(conf) => ~constant_time_violation(best.prog, disk))
        BY DEF _collect_metrics
    <2> HIDE DEF e, m
    <2>5. /\ n \in Nat \ {0} /\ DOMAIN chain = 1..n
          /\ Append(chain, e) \in Seq(EntryType)
          /\ DOMAIN Append(chain, e) = 1..(n + 1)
          /\ \A i \in 1..n : Append(chain, e)[i] = chain[i]
          /\ Append(chain, e)[n + 1] = e
        BY <2>1, <2>2, AppendProperties, LenProperties, EmptySeq
    <2> DEFINE ch == Append(chain, e)
    <2>6. chain' = ch /\ conf' = conf  BY <1>5
    <2> HIDE DEF ch, n
    <2>7. /\ n \in Nat \ {0} /\ DOMAIN chain = 1..n /\ ch \in Seq(EntryType)
          /\ DOMAIN ch = 1..(n + 1) /\ ch[n + 1] = e
          /\ \A i \in 1..n : ch[i] = chain[i]
        BY <2>5 DEF ch
    <2>8. best = ch[n] /\ ch[n] \in EntryType /\ n \in 1..n
        <3>1. best = chain[n]  BY DEF best, n
        <3>2. chain[n] \in EntryType /\ n \in 1..n
            BY <2>1, <2>7, ElementOfSeq DEF n
        <3> QED  BY <2>7, <3>1, <3>2
    <2>9. Improved(conf, ch, n, n + 1)
        <3>1. ch[n].metrics \in MetricsType /\ m \in MetricsType
            BY <2>2, <2>4, <2>8 DEF EntryType
        <3>2. ch[n].metrics.runtime # None /\ m.runtime # None
            BY <2>3, <2>4, <2>7, <2>8 DEF Improving
        <3>3. accept(conf, ch[n].metrics, m) = "workload-improvement"
            BY <1>5, <2>8
        <3>4. /\ primary_metric(conf, ch[n].metrics) \in Nat /\ primary_metric(conf, m) \in Nat
              /\ BeatsBy(conf, primary_metric(conf, ch[n].metrics), primary_metric(conf, m))
              /\ ch[n].metrics.frame # None /\ m.frame # None => m.frame <= ch[n].metrics.frame
              /\ IsCrypto(conf) => m.constant_time_ok
            BY <3>1, <3>2, <3>3, AcceptImproves
        <3>5. n \in n..(n + 1) /\ n + 1 \in n..(n + 1)  BY <2>7
        <3>6. ASSUME \A k \in n..(n + 1) : ch[k].metrics.frame # None
              PROVE  ch[n + 1].metrics.frame <= ch[n].metrics.frame
            BY <2>4, <2>7, <3>4, <3>5, <3>6
        <3>7. ASSUME IsCrypto(conf), \A k \in n..(n + 1) : Trait[ch[k].prog].branches # None
              PROVE  Trait[ch[n + 1].prog].branches <= Trait[ch[n].prog].branches
            <4>1. ~ constant_time_violation(ch[n].prog, disk)
                BY <2>4, <2>8, <3>4, <3>7
            <4>2. Trait[ch[n].prog].branches # None /\ Trait[disk].branches # None
                BY <2>4, <2>7, <3>5, <3>7
            <4>3. Trait[ch[n].prog] \in TraitType /\ Trait[disk] \in TraitType
                BY <2>8, OptimizerAssumption DEF IInv, TypeOK, EntryType
            <4>4. Trait[ch[n].prog].branches \in Nat /\ Trait[disk].branches \in Nat
                BY <4>2, <4>3 DEF TraitType
            <4>5. ~ (Trait[disk].branches > Trait[ch[n].prog].branches)
                BY <4>1, <4>2 DEF constant_time_violation
            <4>6. Trait[disk].branches <= Trait[ch[n].prog].branches
                BY <4>4, <4>5
            <4> QED  BY <2>4, <2>7, <4>6
        <3> QED  BY <2>4, <2>7, <3>4, <3>6, <3>7 DEF Improved
    <2>10. Required(conf) \in Nat
        BY <1>2, RequiredIsNumber DEF Improving, IInv, TypeOK
    <2>11. ASSUME NEW i \in 1..n, NEW j \in 1..n, i < j
           PROVE  Improved(conf, ch, i, j)
        <3>1. Improved(conf, chain, i, j)  BY <2>7, <2>11 DEF Improving
        <3>2. \A k \in i..j : k \in 1..n  BY <2>7, <2>11
        <3>3. \A k \in i..j : ch[k] = chain[k]  BY <2>7, <3>2
        <3>4. ch[i] = chain[i] /\ ch[j] = chain[j]  BY <2>7
        <3> QED  BY <3>1, <3>3, <3>4 DEF Improved
    <2>12. ASSUME NEW i \in 1..(n + 1), NEW j \in 1..(n + 1), i < j
           PROVE  Improved(conf, ch, i, j)
        <3>1. CASE j \in 1..n
            <4>1. i \in 1..n  BY <2>7, <2>12, <3>1
            <4> QED  BY <2>11, <2>12, <3>1, <4>1
        <3>2. CASE j = n + 1 /\ i = n  BY <2>9, <3>2
        <3>3. CASE j = n + 1 /\ i \in 1..n /\ i < n
            <4>1. Improved(conf, ch, i, n)  BY <2>8, <2>11, <3>3
            <4>2. i \in DOMAIN ch /\ n \in DOMAIN ch /\ j \in DOMAIN ch /\ n < j
                BY <2>7, <2>8, <3>3
            <4> QED  BY <2>7, <2>9, <2>10, <3>3, <4>1, <4>2, ImprovedTransitive
        <3>4. j \in 1..n \/ (j = n + 1 /\ i = n) \/ (j = n + 1 /\ i \in 1..n /\ i < n)
            BY <2>7, <2>12
        <3> QED  BY <3>1, <3>2, <3>3, <3>4
    <2>13. \A i \in 1..(n + 1) : ch[i].metrics.runtime # None
        <3> SUFFICES ASSUME NEW i \in 1..(n + 1) PROVE ch[i].metrics.runtime # None
            OBVIOUS
        <3>1. CASE i \in 1..n  BY <2>7, <3>1 DEF Improving
        <3>2. CASE i = n + 1  BY <2>3, <2>4, <2>7, <3>2
        <3> QED  BY <2>7, <3>1, <3>2
    <2>14. conf.noise # None  BY <1>2 DEF Improving
    <2> QED  BY <1>3, <2>6, <2>7, <2>12, <2>13, <2>14 DEF Improving
<1> QED  BY <1>1, <1>4, <1>5 DEF Decide, Keeps, cand_metrics

LEMMA Improvement == Spec => []Improving
<1>1. Init => Improving
    BY DEF Init, Improving, Running
<1>2. IInv /\ Improving /\ [Next]_vars => Improving'
    <2> SUFFICES ASSUME IInv, Improving, [Next]_vars PROVE Improving'  OBVIOUS
    <2>1. CASE StartRun
        <3>1. pc' \in Running => conf.noise # None  BY <2>1 DEF StartRun, Running
        <3> QED  BY <2>1, <3>1, SameChain DEF StartRun
    <2>2. CASE Baseline  BY <2>2, BaselineImproving
    <2>3. CASE Iterate \/ LoopEnds \/ RejectUnwritten \/ Install
        <3>1. chain' = chain /\ conf' = conf /\ pc \in Running /\ pc' # "measured"
            BY <2>3 DEF Iterate, LoopEnds, RejectUnwritten, Install, Running, AfterCandidate
        <3> QED  BY <3>1, SameChain
    <2>4. CASE run_tests \/ run_differential
        <3>1. chain' = chain /\ conf' = conf /\ pc \in Running /\ pc' # "measured"
            BY <2>4 DEF run_tests, run_differential, _revert, Running, AfterCandidate
        <3> QED  BY <3>1, SameChain
    <2>5. CASE Measure
        <3>1. \/ Dies
              \/ /\ chain' = chain /\ conf' = conf /\ pc \in Running
                 /\ pc' = "measured" => bench' # None
            BY <2>5 DEF Measure, _revert, Running, AfterCandidate
        <3> QED  BY <3>1, SameChain, DiesImproving
    <2>6. CASE Judge  BY <2>6, JudgeImproving
    <2>7. CASE Finish
        <3>1. \/ Dies
              \/ chain' = chain /\ conf' = conf /\ pc' = "done"
            BY <2>7 DEF Finish
        <3> QED  BY <3>1, SameChain, DiesImproving DEF Running
    <2>8. CASE Crash  BY <2>8, DiesImproving, DiesLeavingImproving DEF Crash
    <2>9. CASE Restart
        <3>1. chain' = chain /\ conf' = conf /\ pc' = "start"
            BY <2>9 DEF Restart
        <3> QED  BY <3>1, SameChain DEF Running
    <2>10. CASE UNCHANGED vars
        BY <2>10, SameChain DEF vars, Improving
    <2> QED
        BY <2>1, <2>2, <2>3, <2>4, <2>5, <2>6, <2>7, <2>8, <2>9, <2>10 DEF Next, Step
<1> QED  BY <1>1, <1>2, Invariance, PTL DEF Spec

(* However the benchmarks' noise falls, over any number of iterations, each *)
(* acceptance beats the baseline and every earlier one by more than the     *)
(* required margin, with no larger frame and, as cryptography, no new       *)
(* branch, while those are known: comparing with the best alone is enough.  *)
THEOREM ImprovementCorrect == Spec => []BestImproves
<1>1. Improving => BestImproves
    BY DEF Improving, Improved, BestImproves
<1> QED  BY <1>1, Improvement, PTL
=============================================================================
