---------------------------- MODULE MCGithubMint ----------------------------
(* GithubMint on a small instance; the values are in MCGithubMint.cfg.     *)
EXTENDS GithubMint, TLC

Symmetry == Permutations(Callers)
=============================================================================
