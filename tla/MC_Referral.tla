----------------------------- MODULE MC_Referral -----------------------------
(***************************************************************************)
(* A small instance of Referral: ann and bob may both invite cat, who pays *)
(* twice; cat came by a campaign that pays to bob.  Every share is another *)
(* power of two, so that a sum tells which shares it is made of.           *)
(***************************************************************************)
EXTENDS Referral, TLC

CONSTANTS ann, bob, cat, pay1, pay2

MC_Users == {ann, bob, cat}
MC_UserOf == [p \in {pay1, pay2} |-> cat]
MC_CampaignOf == [u \in MC_Users |-> IF u = cat THEN bob ELSE None]
MC_Share == [c \in {"referral", "campaign"} |->
                IF c = "referral" THEN pay1 :> 1 @@ pay2 :> 2
                ELSE pay1 :> 4 @@ pay2 :> 8]

Symmetry == Permutations(Handlers)
=============================================================================
