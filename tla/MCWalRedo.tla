------------------------------ MODULE MCWalRedo ------------------------------
(* Small instances of WalRedo. *)
EXTENDS WalRedo, TLC

MCValues == {<<"int", 1>>, <<"str", "a">>}

Sym == Permutations(Keys)
=============================================================================
