------------------------------- MODULE MCPubSub -------------------------------
(* An instance of PubSub: two connections, two accounts, two databases, two      *)
(* channels, one place for a PipedClient and two workers, with one part of the   *)
(* server exercised per behaviour; connecting, AUTH, the end of a connection and *)
(* the end of the process are in all of them.                                    *)
EXTENDS PubSub

Account(level) == [hash |-> "vanity", auth |-> level]

Both == <<"file", [vanity |-> Account("ADMIN"), anna |-> Account("USER")]>>

MCSaved ==
  [accounts |-> {NoPath, NoFile, Both},
   transactions |-> {NoFile},
   listeners |-> {NoFile},
   pubsub |-> {Both},
   pipes |-> {<<"file", [anna |-> Account("USER")]>>}]
MCAddresses == {<<"host", 1>>, <<"host", 2>>, <<"other", 2>>}
MCPorts == {<<"host", 1>>}
MCClusterAddress == <<"host", 2>>
===============================================================================
