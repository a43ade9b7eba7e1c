--------------------------- MODULE MCRunOrchestrator ---------------------------
(* Instances of RunOrchestrator for TLC.                                    *)
EXTENDS RunOrchestrator, TLC

CONSTANTS r1, r2, q1, q2, h1

\* Two runs with one request each, and one run with two, to one host.
OneEach == q1 :> r1 @@ q2 :> r2
BothOfOne == [q \in Request |-> r1]
OneHost == [q \in Request |-> h1]

\* The ceilings let every run in.
AllOne == [r \in Runs |-> 1]
AllTwo == [r \in Runs |-> 2]

\* The runs of OneEach change places together with their requests.
RunSymmetry ==
    {[x \in {r1, r2, q1, q2} |-> x], r1 :> r2 @@ r2 :> r1 @@ q1 :> q2 @@ q2 :> q1}
=============================================================================
