------------------------------- MODULE Operations -------------------------------
(* The tables of client/operations.h and of the two switches of                  *)
(* request/request_handler.cpp: the names of the operations in the order in      *)
(* which a request is matched against them, who may perform which, and the types *)
(* of the objects that follow each name, once as dispatch reads them and once as *)
(* dry_dispatch, which steps over a request that was refused, does.              *)
EXTENDS Naturals, Sequences, Functions, TLC

-----------------------------------------------------------------------------
\* OPERATION_T_STRINGS. A name is recognised by comparing the start of what is
\* left of the request with each string in turn, so a name that is the beginning
\* of another has to come after it.
BasicStrings ==
  <<"EXIT", "TERMINATE", "PING", "PIPE", "BIND", "UNBIND", "AUTH_LEVEL", "AUTH",
    "ADD_USER", "EDIT_USER", "DEL_USER", "CHANGE_PASSWORD", "USERNAME">>

SessionStrings ==
  <<"SWITCH_DB", "PERSIST", "TRANSACT_BEGIN", "TRANSACT_COMMIT", "TRANSACT_DISCARD",
    "PUBLISH", "SUBSCRIBED", "SUBSCRIBE", "UNSUBSCRIBE_ALL", "UNSUBSCRIBE">>

KeyStrings ==
  <<"DEL", "TYPE", "EXISTS", "RESET", "KEYS", "COPY_TO_DB", "MOVE_TO_DB", "COPY_TO",
    "MOVE_TO", "SET_EXPIRY", "GET_EXPIRY", "CLEAR_EXPIRY", "GET", "STR_SET", "INT_SET",
    "FLOAT_SET", "INCR_INT", "INCR_FLOAT", "STR_LEN", "MANY_GET">>

ContainerStrings ==
  <<"LIST_LEN", "LIST_GET", "LIST_SET", "LIST_PUSH_LEFT", "LIST_PUSH_RIGHT",
    "LIST_POP_LEFT", "LIST_POP_RIGHT", "LIST_RANGE", "LIST_TRIM", "LIST_REMOVE",
    "SET_ADD", "SET_ALL", "SET_REMOVE", "SET_DISCARD", "SET_LEN", "SET_CONTAINS",
    "SET_MOVE", "SET_UNION_INTO", "SET_UNION_LEN", "SET_UNION", "SET_INTERSECT_INTO",
    "SET_INTERSECT_LEN", "SET_INTERSECT", "SET_DIFF_INTO", "SET_DIFF_LEN", "SET_DIFF",
    "HASH_SET", "HASH_ALL", "HASH_GET", "HASH_CONTAINS", "HASH_LEN", "HASH_KEY_LEN",
    "HASH_REMOVE", "HASH_KEYS", "HASH_VALUES", "HASH_UPDATE", "HASH_MANY_GET">>

ClusterStrings ==
  <<"CLUSTER_JOIN", "CLUSTER_KEY", "CLUSTER_ID", "CLUSTER_LEAVE", "CLUSTER_NEW",
    "PEERS", "PEER_IDS", "PEER_AUTH">>

OPERATION_T_STRINGS ==
  BasicStrings \o SessionStrings \o KeyStrings \o ContainerStrings \o ClusterStrings

operation_t == Range(OPERATION_T_STRINGS)

-----------------------------------------------------------------------------
\* Who may perform what. Every switch names every operation, so the default that
\* throws is never reached.
ClusterOps == Range(ClusterStrings)

unknown_is_permitted == {"PING", "EXIT", "AUTH", "AUTH_LEVEL", "PEER_AUTH"}

\* A plausible slip: an authenticated session may authenticate again.
user_is_permitted_auth ==
  operation_t \ ({"TERMINATE", "BIND", "UNBIND", "RESET", "ADD_USER", "EDIT_USER",
                  "DEL_USER"} \union ClusterOps)

user_is_permitted ==
  operation_t \ ({"TERMINATE", "BIND", "UNBIND", "RESET", "AUTH", "ADD_USER", "EDIT_USER",
                  "DEL_USER"} \union ClusterOps)

peer_is_permitted ==
  {"EXIT", "PING", "TERMINATE", "PIPE", "SWITCH_DB", "PERSIST", "PEERS", "PEER_IDS"}
    \union Range(KeyStrings) \union Range(ContainerStrings)

admin_is_permitted == operation_t \ {"AUTH", "PEER_AUTH"}

is_permitted(op, auth) ==
  op \in CASE auth = "UNKNOWN" -> unknown_is_permitted
           [] auth = "USER"    -> user_is_permitted
           [] auth = "PEER"    -> peer_is_permitted
           [] auth = "ADMIN"   -> admin_is_permitted

-----------------------------------------------------------------------------
\* The objects each operation takes, as dispatch reads them. PIPE is read by
\* request_pipe: its entry here is what follows the pipe.
Str == <<"STR">>
StrStr == <<"STR", "STR">>
StrInt == <<"STR", "INT">>
StrFloat == <<"STR", "FLOAT">>
StrArr == <<"STR", "ARR">>
Arr == <<"ARR">>

dispatch_basic ==
  [TERMINATE |-> <<>>, EXIT |-> <<>>, PING |-> <<>>, PIPE |-> <<>>, BIND |-> StrInt,
   UNBIND |-> StrInt, ADD_USER |-> StrStr, EDIT_USER |-> <<"STR", "CLIENT_AUTH">>,
   DEL_USER |-> Str, AUTH |-> StrStr, CHANGE_PASSWORD |-> Str, AUTH_LEVEL |-> <<>>,
   USERNAME |-> <<>>, SWITCH_DB |-> <<"INT">>, PERSIST |-> <<>>, TRANSACT_BEGIN |-> <<>>,
   TRANSACT_COMMIT |-> <<>>, TRANSACT_DISCARD |-> <<>>, PUBLISH |-> StrStr,
   SUBSCRIBE |-> Str, SUBSCRIBED |-> <<>>, UNSUBSCRIBE |-> Str, UNSUBSCRIBE_ALL |-> <<>>]

dispatch_keys ==
  [DEL |-> Str, TYPE |-> Str, EXISTS |-> Str, RESET |-> <<>>, KEYS |-> <<>>,
   COPY_TO |-> StrStr, MOVE_TO |-> StrStr, COPY_TO_DB |-> StrInt, MOVE_TO_DB |-> StrInt,
   SET_EXPIRY |-> StrFloat, GET_EXPIRY |-> Str, CLEAR_EXPIRY |-> Str, GET |-> Str,
   STR_SET |-> StrStr, INT_SET |-> StrInt, FLOAT_SET |-> StrFloat, INCR_INT |-> StrInt,
   INCR_FLOAT |-> StrFloat, STR_LEN |-> Str, MANY_GET |-> Arr]

dispatch_lists ==
  [LIST_LEN |-> Str, LIST_GET |-> StrInt, LIST_SET |-> <<"STR", "INT", "STR">>,
   LIST_PUSH_LEFT |-> <<"STR", "LIST">>, LIST_PUSH_RIGHT |-> <<"STR", "LIST">>,
   LIST_POP_LEFT |-> StrInt, LIST_POP_RIGHT |-> StrInt,
   LIST_RANGE |-> <<"STR", "INT", "INT">>, LIST_TRIM |-> <<"STR", "INT", "INT">>,
   LIST_REMOVE |-> <<"STR", "STR", "INT">>]

dispatch_sets ==
  [SET_ADD |-> <<"STR", "SET">>, SET_ALL |-> Str, SET_REMOVE |-> StrInt,
   SET_DISCARD |-> <<"STR", "SET">>, SET_LEN |-> Str, SET_CONTAINS |-> StrStr,
   SET_MOVE |-> <<"STR", "STR", "STR">>, SET_UNION |-> Arr, SET_UNION_INTO |-> StrArr,
   SET_UNION_LEN |-> Arr, SET_INTERSECT |-> Arr, SET_INTERSECT_INTO |-> StrArr,
   SET_INTERSECT_LEN |-> Arr, SET_DIFF |-> StrStr,
   SET_DIFF_INTO |-> <<"STR", "STR", "STR">>, SET_DIFF_LEN |-> StrStr]

dispatch_hashes ==
  [HASH_SET |-> <<"STR", "HASH">>, HASH_ALL |-> Str, HASH_GET |-> StrStr,
   HASH_CONTAINS |-> StrStr, HASH_LEN |-> Str, HASH_KEY_LEN |-> StrStr,
   HASH_REMOVE |-> StrArr, HASH_KEYS |-> Str, HASH_VALUES |-> Str,
   HASH_UPDATE |-> <<"STR", "HASH">>, HASH_MANY_GET |-> StrArr]

dispatch_cluster ==
  [CLUSTER_JOIN |-> <<"STR", "STR", "STR", "INT">>, CLUSTER_KEY |-> <<>>,
   CLUSTER_ID |-> <<>>, CLUSTER_LEAVE |-> <<>>, CLUSTER_NEW |-> StrStr, PEERS |-> <<>>,
   PEER_IDS |-> <<>>, PEER_AUTH |-> <<"INT", "STR", "STR", "STR">>]

DispatchTypes ==
  dispatch_basic @@ dispatch_keys @@ dispatch_lists @@ dispatch_sets @@ dispatch_hashes
    @@ dispatch_cluster

-----------------------------------------------------------------------------
\* The objects dry_dispatch steps over. Its cases were compared one by one with
\* those of dispatch; where the tables agree the entry is the same, and three of
\* the cluster's operations are declared with one object less. Stepping over a
\* PIPE takes neither its length nor its body.
dry_basic == dispatch_basic

dry_keys == dispatch_keys

dry_lists == dispatch_lists

dry_sets == dispatch_sets

dry_hashes == dispatch_hashes

dry_cluster ==
  [dispatch_cluster EXCEPT !.CLUSTER_JOIN = <<"STR", "STR", "INT">>,
                           !.CLUSTER_NEW = Str,
                           !.PEER_AUTH = <<"INT", "STR", "STR">>]

DryTypes == dry_basic @@ dry_keys @@ dry_lists @@ dry_sets @@ dry_hashes @@ dry_cluster
===============================================================================
