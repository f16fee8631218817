---------------------------- MODULE MCOptimizer ----------------------------
(* One program for each way a candidate is stopped, and three that pass.    *)
(* torn lacks what makes it the function: a file, or an answer of the LLM,  *)
(* that was cut short.                                                      *)
EXTENDS Optimizer, TLC

CONSTANTS orig, fast, tight, wrong, subtle, clobbers, torn, greedy, empty

MCPrograms == {orig, fast, tight, wrong, subtle, clobbers, torn, greedy, empty}

Sound == [abi |-> TRUE, installs |-> TRUE, tests |-> TRUE, differential |-> TRUE,
          frame |-> 16, allocators |-> {}, branches |-> 2, insns |-> 10]

MCTrait ==
    [p \in MCPrograms |->
        CASE p = tight    -> [Sound EXCEPT !.frame = 0, !.branches = 1, !.insns = 5]
          [] p = wrong    -> [Sound EXCEPT !.tests = FALSE]
          [] p = subtle   -> [Sound EXCEPT !.differential = FALSE]
          [] p = clobbers -> [Sound EXCEPT !.abi = FALSE]
          [] p = torn     -> [Sound EXCEPT !.abi = FALSE, !.installs = FALSE, !.tests = FALSE]
          [] p = greedy   -> [Sound EXCEPT !.allocators = {"malloc"}, !.frame = None,
                                           !.branches = 3, !.insns = 4]
          [] p = empty    -> [Sound EXCEPT !.frame = 32, !.insns = None, !.branches = None]
          [] OTHER        -> Sound]

Prints(n) == [fails |-> FALSE, json |-> n, result_ns |-> None, wall |-> 90]
MCOutputs ==
    [p \in MCPrograms |->
        CASE p = orig  -> {Prints(20), Prints(22)}
          [] p = fast  -> {Prints(17), Prints(21)}
          [] p = tight -> {Prints(14), [Prints(None) EXCEPT !.result_ns = 16]}
          [] p = empty -> {Prints(0), Prints(NaN)}
          [] p = greedy -> {Prints(10), Prints(None)}
          [] OTHER     -> {Prints(10), [Prints(9) EXCEPT !.fails = TRUE]}]

MCMutations == [p \in MCPrograms |-> IF p = orig THEN <<fast>>
                                     ELSE IF p = fast THEN <<tight>> ELSE <<>>]

Plain == [strategy |-> "speed", target |-> "other", keyword |-> FALSE, share |-> None,
          min_share |-> 0, benchmark |-> TRUE, noise |-> 5, min_improvement |-> 0,
          abi_check |-> TRUE, differential |-> TRUE, llm |-> TRUE, judge |-> FALSE,
          mutations |-> TRUE, apply |-> TRUE]
Profiled == [Plain EXCEPT !.keyword = TRUE, !.share = 40, !.min_share = 5]
MCConfigs ==
    { Plain,
      [Plain EXCEPT !.apply = FALSE, !.judge = TRUE, !.min_improvement = 20],
      [Plain EXCEPT !.abi_check = FALSE, !.differential = FALSE, !.mutations = FALSE],
      [Plain EXCEPT !.noise = None],
      [Plain EXCEPT !.llm = FALSE, !.mutations = FALSE],
      [Plain EXCEPT !.benchmark = FALSE],
      [Plain EXCEPT !.strategy = "instruction"],
      [Plain EXCEPT !.strategy = "crypto", !.target = "p256_reduce"],
      [Profiled EXCEPT !.strategy = "crypto", !.target = "ghash", !.apply = FALSE],
      [Profiled EXCEPT !.strategy = "instruction"],
      [Profiled EXCEPT !.strategy = "combined", !.llm = FALSE] }
=============================================================================
