------------------------------ MODULE MCQuota ------------------------------
(* Quota on small instances: three days, of which the last two form the     *)
(* second week of one month, and plans whose limits differ per period.      *)
EXTENDS Quota, TLC

MCStartOf ==
  ("day"   :> (0 :> 0 @@ 1 :> 1 @@ 2 :> 2)) @@
  ("week"  :> (0 :> 0 @@ 1 :> 1 @@ 2 :> 1)) @@
  ("month" :> (0 :> 0 @@ 1 :> 0 @@ 2 :> 0))

\* Units is 2: a day of "basic" holds one request with one unit over.
MCLimit ==
  ("free"  :> ("day" :> 0 @@ "week" :> 0 @@ "month" :> 0)) @@
  ("basic" :> ("day" :> 3 @@ "week" :> 4 @@ "month" :> 4)) @@
  ("pro"   :> ("day" :> 4 @@ "week" :> 4 @@ "month" :> 7))

Symmetry == Permutations(Requests)
=============================================================================
