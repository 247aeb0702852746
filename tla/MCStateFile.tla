---------------------------- MODULE MCStateFile ----------------------------
(* Small instances of StateFile: one process at a time with every command,   *)
(* and two processes beside each other with the commands of ParallelOps.     *)
EXTENDS StateFile, TLC

\* Each count of plans past its total, a pause, and two patches.
Typings == {"Current Plan" :> <<MaxPlans + 1>>, "Total Plans in Phase" :> <<1>>,
            "Plan" :> <<MaxPlans + 1, MaxPlans>>, "Paused At" :> <<2>>,
            "Plan" :> <<0>> @@ "Current Plan" :> <<1>>,
            "Status" :> <<"shipped">> @@ "Progress" :> <<0>>
                @@ "Completed Phases" :> <<1>> @@ "Total Phases" :> <<0>>}
=============================================================================
