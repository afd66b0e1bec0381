---------------------------- MODULE MCBenchmarkRun ----------------------------
(* Two thread budgets of one case, three repetitions, and every draw of the   *)
(* generator for the first coordinate.                                        *)
EXTENDS BenchmarkRun, TLC

MCRegimes == <<1, 2>>
MCCases == <<"image24">>

(* Operations of length 1 never reach the time floor within the limit, those  *)
(* of length 2 do exactly, those of length 4 with the raw samples alone.      *)
Setting(pool, report, reference, candidate) ==
    [pool |-> pool, report |-> report,
     wall |-> "reference" :> reference @@ "candidate" :> candidate]

MCSettings ==
    {Setting(<<>>, "pass", 4, 2), Setting(<<0, 1>>, "fails", 2, 4),
     Setting(<<0, 1>>, "missing", 4, 1)}
MCCoin == 0 :> (0 :> TRUE @@ 1 :> TRUE @@ 2 :> FALSE)
       @@ 1 :> (0 :> FALSE @@ 1 :> FALSE @@ 2 :> FALSE)
==============================================================================
