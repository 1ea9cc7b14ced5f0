--------------------------- MODULE MCIssueLifecycle ---------------------------
(***************************************************************************)
(* Instances of IssueLifecycle for TLC.                                    *)
(***************************************************************************)
EXTENDS IssueLifecycle, TLC

CONSTANTS e1, e2, e3, p1, p2, v1

\* Two events of one fingerprint and one of another; all have one release.
TwoAndOne == (e1 :> p1) @@ (e2 :> p1) @@ (e3 :> p2)
NoReleases == [e \in Event |-> NoRelease]

\* Events of a single fingerprint, the first with a release.
OneFingerprint == [e \in Event |-> p1]
FirstReleased == [e \in Event |-> IF e = e1 THEN v1 ELSE NoRelease]
OneRelease == [e \in Event |-> v1]

WorkerSymmetry == Permutations(Worker)
=============================================================================
