---------------------------- MODULE MCVmLifecycle ----------------------------
(* Instances of VmLifecycle for TLC.                                       *)
EXTENDS VmLifecycle, TLC

CONSTANTS v1, v2, k1, k2, k3

\* Two VMs that have the same name, one after the other.
SameName == (v1 :> "web") @@ (v2 :> "web")
\* Which of the two comes first makes no difference.
EitherFirst == Permutations({v1, v2})
OneName == (v1 :> "web")

\* A deletion that overlapped another command and one that passed over an error excuse
\* the name alike: what both of them do to one name together is not followed.
OneExcuse == raced = {} \/ skipped = {}
=============================================================================
