--------------------------------- MODULE MCApi ---------------------------------
(* Small deployments for module Api: one that keeps a retired and a         *)
(* temporary memory of one user and a durable one of another, and one with  *)
(* more memories of the first than a listing shows; with and without a      *)
(* conversation of an older version.                                        *)
EXTENDS Api, TLC

CONSTANTS ann, bob, talk

Kept(id, user, retired, expires) ==
  [id |-> id, user |-> user, by |-> user, thread |-> talk, retired |-> retired,
   expires |-> expires]

Populated ==
  {Kept(11, ann, TRUE, NULL), Kept(12, ann, FALSE, 1), Kept(13, bob, FALSE, NULL)}

Crowded == Populated \cup {Kept(id, ann, FALSE, NULL) : id \in {14, 15}}

MCStores == {Populated, Crowded}

MCDeployments ==
  {[mode |-> "cognito", configured |-> c] : c \in BOOLEAN}
    \cup {[mode |-> "disabled", configured |-> FALSE]}

MCLegacies == {{}, {<<ann, talk>>}}

Symmetry == Permutations(Workers)
==============================================================================
