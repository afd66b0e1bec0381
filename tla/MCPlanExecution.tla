--------------------------- MODULE MCPlanExecution ---------------------------
(* Plans and destinations for TLC.  Destinations are exact, longer in one or  *)
(* in all outputs, or wrong in one: shorter by one, missing, or lent for an   *)
(* output that is not planned.                                                *)
EXTENDS PlanExecution, TLC

Exact == [o \in Outputs |-> Capacity(o)]

LongerIn(outputs) ==
    [o \in Outputs |->
        IF o \in outputs /\ Exact[o].present
        THEN [Exact[o] EXCEPT !.length = @ + 1] ELSE Exact[o]]

Shorter(o) ==
    [Exact EXCEPT ![o].length = IF Exact[o].length = 0 THEN 0 ELSE @ - 1]

Missing(o) == [Exact EXCEPT ![o] = None]

Unplanned(o) == [Exact EXCEPT ![o] = Some(1)]

MCOffers ==
    {Exact, LongerIn(Outputs)}
    \cup {LongerIn({o}) : o \in Outputs}
    \cup {Shorter(o) : o \in Outputs}
    \cup {Missing(o) : o \in Outputs \ TextOutputs}
    \cup {Unplanned(o) : o \in {p \in Outputs : ~Capacity(p).present}}

(* Five images of unequal sizes; an odd number makes uneven splits.           *)
FiveImages == 0 :> 0 @@ 1 :> 1 @@ 2 :> 3 @@ 3 :> 4 @@ 4 :> 5 @@ 5 :> 7
SixImages == 0 :> 0 @@ 1 :> 2 @@ 2 :> 3 @@ 3 :> 5 @@ 4 :> 6 @@ 5 :> 7 @@ 6 :> 9
NoRows == 0 :> 0
TwoVideos == 0 :> 0 @@ 1 :> 2 @@ 2 :> 5
==============================================================================
