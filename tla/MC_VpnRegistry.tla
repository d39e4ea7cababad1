--------------------------- MODULE MC_VpnRegistry ---------------------------
(* Constants of the TLC runs over VpnRegistry. *)
EXTENDS VpnRegistry, TLC

CONSTANTS b1, b2

\* One subscription per user, which is what CreateSubscription keeps to; and
\* two, which two first payments at the same time leave behind.
MCOneSub == [u \in Users |-> {b1}]
MCTwoSubs == [u \in Users |-> {b1, b2}]

MCSymmetry == Permutations(Users) \cup Permutations(Servers)
                  \cup Permutations(Uuids) \cup Permutations(Handlers)
=============================================================================
