--------------------------- MODULE MCConversation ---------------------------
(* Two turns of one chat, each with files of its own, on small instances.    *)
(* Neither turn differs from the other: they may be permuted.                *)
EXTENDS History, TLC

MCTokensOf == ("user" :> 10) @@ ("assistant" :> 40)

Symmetry == Permutations(Turns)
=============================================================================
