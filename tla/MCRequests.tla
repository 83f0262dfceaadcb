------------------------------ MODULE MCRequests ------------------------------
(* Instances of Requests: every operation alone, every operation in a pipe with  *)
(* each of a few others before and after it, the same with an object missing, of *)
(* another type or too many, and pipes in pipes.                                 *)
EXTENDS Requests

Request(op, args) == [op |-> op, args |-> args, body |-> <<>>]
Pipe(body) == [op |-> "PIPE", args |-> <<>>, body |-> body]

Well(op) == Request(op, DispatchTypes[op])
Probes == {Well("PING"), Well("GET"), Well("RESET"), Well("EXIT"), Well("CLUSTER_ID")}

Plain ==
  {Well(op) : op \in operation_t \ {"PIPE"}}
    \union {Request("FLOAT_SET", <<"STR", "INT">>), Request("MANY_GET", <<"LIST">>)}

Broken ==
  {Request("NONE", <<>>), Request("GET", <<>>), Request("LIST_RANGE", <<"STR", "INT">>),
   Request("INT_SET", <<"STR", "FLOAT">>), Request("SET_ADD", <<"STR", "STR">>),
   Request("STR_SET", <<"STR", "ARR">>), Request("PING", <<"STR">>),
   Request("PERSIST", <<"INT">>), Request("DEL_USER", <<"INT">>),
   Request("CLUSTER_NEW", <<"STR">>)}

Nested ==
  {Pipe(<<>>), Pipe(<<Well("PING"), Pipe(<<Well("RESET"), Well("GET")>>)>>),
   Pipe(<<Pipe(<<Well("GET")>>)>>), Pipe(<<Pipe(<<Well("GET")>>), Well("PING")>>),
   Pipe(<<Well("GET"), Pipe(<<>>)>>), Pipe(<<Pipe(<<>>), Well("PING")>>),
   Pipe(<<Pipe(<<Well("GET"), Request("GET", <<>>)>>), Well("PING")>>),
   Pipe(<<Well("PING"), Pipe(<<Well("GET"), Well("RESET")>>)>>),
   Pipe(<<Pipe(<<Well("RESET")>>), Well("PING")>>),
   Pipe(<<Pipe(<<Pipe(<<Well("RESET")>>)>>)>>),
   Pipe(<<Pipe(<<Well("PING"), Request("DEL_USER", <<"INT">>)>>), Well("GET")>>)}

MCMessages ==
  Plain \union Broken \union Nested \union {Pipe(<<r>>) : r \in Plain \union Broken}
    \union {Pipe(<<r, s>>) : r \in Plain \union Broken, s \in Probes \union Broken}
    \union {Pipe(<<s, r, t>>) : r \in Plain \union Broken, s \in Probes, t \in Probes}
===============================================================================
