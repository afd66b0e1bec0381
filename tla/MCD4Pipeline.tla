---------------------------- MODULE MCD4Pipeline -----------------------------
(* Small instances of D4Pipeline: one or two thread budgets, one thing that   *)
(* goes wrong, whatever was changed being brought back at any later moment,   *)
(* and a clock that goes back by three steps, as many as lie between one      *)
(* measurement and the next.  The versions of the checkout have one benchmark *)
(* workload and do not differ in the files a conformance report lists: an     *)
(* edit gets past the checks of both, and only those of the source are left.  *)
EXTENDS D4Pipeline, TLC

CONSTANTS t1, t8

OneBudget == <<t1>>
TwoBudgets == <<t1, t8>>
OnTheSandbox == "arm64" :> "local" @@ "x86_64" :> "modal"
OnLinux == "arm64" :> "local" @@ "x86_64" :> "local_linux"

TwoVersions == 1..2
OneWorkload == <<1, 1>>
NoneListed == <<1, 1>>

EveryKind ==
    {"checkout", "checkout_restored", "environment", "environment_restored",
     "allocation", "allocation_restored", "command", "clock", "miss", "certifier",
     "terminate", "remote", "worker", "stream", "detach", "killed"}

==============================================================================
