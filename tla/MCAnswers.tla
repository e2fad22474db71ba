----------------------------- MODULE MCAnswers ------------------------------
(* Two requests in any of two workers, over chunks of which not all fit the  *)
(* context: the proof fills most of it, the notes have to be excerpted, and  *)
(* the aside is small.                                                       *)
EXTENDS Context, TLC

MCRankings ==
  {<< >>, <<"proof", "notes", "aside">>, <<"notes", "proof", "aside">>}

MCSentences ==
  ("proof" :> <<"p">>) @@ ("notes" :> <<"n1", "n2", "n3">>) @@ ("aside" :> <<"a">>)

\* n1 and n2 together count one token less than they take.
MCBytes ==
  ("p" :> 12000) @@ ("n1" :> 3605) @@ ("n2" :> 2405) @@ ("n3" :> 7200) @@ ("a" :> 300)

MCDensity ==
  ("p" :> 50) @@ ("n1" :> 80) @@ ("n2" :> 80) @@ ("n3" :> 40) @@ ("a" :> 90)

\* The budget is no hard limit: the excerpt of the notes, taken after the proof, is
\* no larger than the room left by the sum of its sentences, and larger joined: 3001
\* tokens of 3000.
ASSUME ExcerptMayOverrun == Packed(<<"proof", "notes", "aside">>).used > Budget

Symmetry == Permutations(Requests) \cup Permutations(Workers)
=============================================================================
