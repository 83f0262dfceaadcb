------------------------------- MODULE MCEviction -------------------------------
(* Instances of Eviction: four servers, of which three judge one issue and a       *)
(* majority is two; and three servers, where both judges must agree, with two      *)
(* issues of either reason and a connection lost.                                  *)
EXTENDS Eviction, TLC

MCSettings ==
  {[members |-> Nodes, reasons |-> {"misbehaving"}, issues |-> 1, lost |-> 0]}
  \union
  {[members |-> Nodes \ {n}, reasons |-> {"misbehaving", "dead"}, issues |-> 2, lost |-> 1] :
     n \in Nodes \ Suspects}

Sym == Permutations(Nodes \ Suspects)
=================================================================================
