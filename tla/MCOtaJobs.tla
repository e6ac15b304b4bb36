----------------------------- MODULE MCOtaJobs -----------------------------
(***************************************************************************)
(* Two jobs.                                                               *)
(***************************************************************************)
EXTENDS OtaJobs, TLC
CONSTANTS j1, j2, main, data, other

D(k, t, v) == [kind |-> k, type |-> t, fw |-> v]
Pair(a, b) == j1 :> a @@ j2 :> b
Nothing == D("none", main, 0)

Single  == Pair(D("image", main, 1), Nothing)
Update2 == Pair(D("image", main, 1), D("image", main, 2))
DataJob == Pair(D("image", data, 1), Nothing)
Task    == Pair(D("custom", main, 0), Nothing)
Window  == Pair(D("windowed", data, 1), Nothing)
Refused == Pair(D("bad", main, 1), Nothing)
Strange == Pair(D("image", other, 1), D("image", main, 1))
MCDocs  == {Single, Update2, DataJob, Task, Window, Refused, Strange}
MCFaults == [d \in MCDocs |-> IF d = Refused THEN 2 ELSE IF d \in {Single, DataJob, Task} THEN 1 ELSE 0]

=============================================================================
