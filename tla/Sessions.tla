-------------------------------- MODULE Sessions --------------------------------
(* What a connection carries and who may change it: client/session_info.h,       *)
(* session_server.cpp, auth/auth_server.cpp (under the mutex of                  *)
(* auth/locked_auth_server.cpp), db/transaction_server.cpp, SWITCH_DB and        *)
(* bind_server.cpp. Requests are served one at a time, so a handler is one step  *)
(* unless it can be cut short: saving the logins is a write and a rename, and    *)
(* the process may die before, between or after them.                            *)
EXTENDS Operations, FiniteSets

CONSTANTS
  Clients,      \* connections that may be open
  Users,        \* usernames, M_DEFAULT_USERNAME among them
  Passwords,    \* passwords, M_DEFAULT_PASSWORD among them
  Short,        \* the names and passwords below the minimum length
  M_DEFAULT_USERNAME, M_DEFAULT_PASSWORD,
  NumDatabases, \* M_NUM_DATABASES
  Addresses,    \* <<host, port>> that may be bound or unbound
  Ports,        \* the addresses bound at the start
  ClusterAddress,
  Saved,        \* part -> what users_db may be at the start
  MaxTrn,       \* bound: transactions begun, in all runs together
  Parts         \* bound: the parts of the server exercised in one behaviour

\* m_users_db has no value (the accounts are not kept), or there is no such file.
NoPath == <<"no path">>
NoFile == <<"no file">>

\* A login in the file has the level of a user or of an administrator, the only
\* ones request_add_user and request_edit_user give.
ASSUME SessionsAssumption ==
  \A p \in Parts : \A db \in Saved[p] :
    \/ db \in {NoPath, NoFile}
    \/ /\ db = <<"file", db[2]>>
       /\ \A n \in DOMAIN db[2] : db[2][n].auth \in {"USER", "ADMIN"}

VARIABLES
  session,      \* client -> <<>> or <<[auth, username, database, trn_id, channels]>>
  logins,       \* m_logins: username -> [hash, auth]
  users_db,     \* NoPath, NoFile or <<"file", logins>>
  acked,        \* history: the logins when the last change was answered
  busy,         \* where the worker that serves the sockets is inside a handler
  trns,         \* history: begin, commit and discard records of this run
  past_trns,    \* history: those of the runs before, which the WAL keeps
  counter,      \* m_counter, from FIRST_CLIENT_TRN_ID
  listeners,    \* the keys of m_listeners
  part          \* the part being exercised

svars == <<session, logins, users_db, acked, busy, trns, past_trns, counter, listeners, part>>

-----------------------------------------------------------------------------
NO_TRN_ID == 0
FIRST_CLIENT_TRN_ID == 4

\* A session is its auth with its user data, which is empty without one.
user_data_t(level, name) ==
  [auth |-> level, username |-> name, database |-> 0, trn_id |-> NO_TRN_ID, channels |-> {}]

monostate == user_data_t("UNKNOWN", "")

default_logins ==
  [name \in {M_DEFAULT_USERNAME} |-> [hash |-> M_DEFAULT_PASSWORD, auth |-> "ADMIN"]]

Idle == <<"idle">>

\* AuthServer's constructor.
load_logins(db) == IF db[1] = "file" THEN db[2] ELSE default_logins

SInit ==
  /\ session = [c \in Clients |-> <<>>]
  /\ part \in Parts
  /\ users_db \in Saved[part]
  /\ logins = load_logins(users_db)
  /\ acked = logins
  /\ busy = Idle
  /\ trns = <<>>
  /\ past_trns = <<>>
  /\ counter = FIRST_CLIENT_TRN_ID
  /\ listeners = Ports \union {ClusterAddress}

\* add_client: a connection is accepted.
add_client(c) ==
  /\ busy = Idle
  /\ session[c] = <<>>
  /\ session' = [session EXCEPT ![c] = <<monostate>>]
  /\ UNCHANGED <<logins, users_db, acked, busy, trns, past_trns, counter, listeners, part>>

Info(c) == session[c][1]

\* has_perm, in front of every handler.
Serves(c, op) == busy = Idle /\ session[c] # <<>> /\ is_permitted(op, Info(c).auth)

-----------------------------------------------------------------------------
\* session_set_auth: fresh user data.
session_set_auth(c, level, name) ==
  session' = [session EXCEPT ![c] = <<user_data_t(level, name)>>]

request_auth(c, name, password) ==
  /\ Serves(c, "AUTH")
  /\ password \notin Short
  /\ name \in DOMAIN logins
  /\ logins[name].hash = password
  /\ session_set_auth(c, logins[name].auth, name)
  /\ UNCHANGED <<logins, users_db, acked, busy, trns, past_trns, counter, listeners, part>>

\* The logins are changed in memory and persist_logins begins.
Change(new) ==
  /\ logins' = new
  /\ busy' = <<"write">>
  /\ UNCHANGED <<session, users_db, acked, trns, past_trns, counter, listeners, part>>

request_add_user(c, name, password) ==
  /\ Serves(c, "ADD_USER")
  /\ name \notin Short /\ password \notin Short
  /\ name \notin DOMAIN logins
  /\ Change([n \in DOMAIN logins \union {name} |->
               IF n = name THEN [hash |-> password, auth |-> "USER"] ELSE logins[n]])

\* A plausible slip: the changed level is not saved.
request_edit_user_unsaved(c, name, level) ==
  /\ Serves(c, "EDIT_USER")
  /\ name \in DOMAIN logins
  /\ level \in {"USER", "ADMIN"}
  /\ logins' = [logins EXCEPT ![name].auth = level]
  /\ acked' = logins'
  /\ UNCHANGED <<session, users_db, busy, trns, past_trns, counter, listeners, part>>

request_edit_user(c, name, level) ==
  /\ Serves(c, "EDIT_USER")
  /\ name \in DOMAIN logins
  /\ level \in {"USER", "ADMIN"}
  /\ Change([logins EXCEPT ![name].auth = level])

request_del_user(c, name) ==
  /\ Serves(c, "DEL_USER")
  /\ name \in DOMAIN logins
  /\ name # Info(c).username
  /\ Change([n \in DOMAIN logins \ {name} |-> logins[n]])

request_change_password(c, password) ==
  /\ Serves(c, "CHANGE_PASSWORD")
  /\ password \notin Short
  /\ Info(c).username \in DOMAIN logins
  /\ Change([logins EXCEPT ![Info(c).username].hash = password])

\* persist_logins returns at once when there is no file to write to.
persist_nowhere ==
  /\ busy = <<"write">>
  /\ users_db = NoPath
  /\ acked' = logins
  /\ busy' = Idle
  /\ UNCHANGED <<session, logins, users_db, trns, past_trns, counter, listeners, part>>

\* persist_logins: tmp.<file> is written, then renamed over the file, and the
\* request is answered.
write_tmp ==
  /\ busy = <<"write">>
  /\ users_db # NoPath
  /\ busy' = <<"rename", logins>>
  /\ UNCHANGED <<session, logins, users_db, acked, trns, past_trns, counter, listeners, part>>

rename_tmp ==
  /\ busy[1] = "rename"
  /\ users_db' = <<"file", busy[2]>>
  /\ acked' = logins
  /\ busy' = Idle
  /\ UNCHANGED <<session, logins, trns, past_trns, counter, listeners, part>>

\* The requests above whose checks fail, which answer with an error.
AccountsRefused(c) ==
  /\ \E name \in Users, password \in Passwords :
       \/ Serves(c, "AUTH")
            /\ ~(password \notin Short /\ name \in DOMAIN logins /\ logins[name].hash = password)
       \/ Serves(c, "ADD_USER")
            /\ (name \in Short \/ password \in Short \/ name \in DOMAIN logins)
       \/ Serves(c, "DEL_USER") /\ (name \notin DOMAIN logins \/ name = Info(c).username)
       \/ Serves(c, "EDIT_USER") /\ name \notin DOMAIN logins
       \/ Serves(c, "CHANGE_PASSWORD")
            /\ (password \in Short \/ Info(c).username \notin DOMAIN logins)
  /\ UNCHANGED svars

-----------------------------------------------------------------------------
\* request_switch_db and validate_db_index.
request_switch_db(c, db) ==
  /\ Serves(c, "SWITCH_DB")
  /\ db \in 0 .. NumDatabases - 1
  /\ session' = [session EXCEPT ![c] = << [@[1] EXCEPT !.database = db] >>]
  /\ UNCHANGED <<logins, users_db, acked, busy, trns, past_trns, counter, listeners, part>>

Begins(records) == {i \in DOMAIN records : records[i][1] = "begin"}

request_transact_begin(c) ==
  /\ Serves(c, "TRANSACT_BEGIN")
  /\ Info(c).trn_id = NO_TRN_ID
  /\ Cardinality(Begins(trns)) + Cardinality(Begins(past_trns)) < MaxTrn
  /\ counter' = counter + 1
  /\ trns' = Append(trns, <<"begin", counter, Info(c).database>>)
  /\ session' = [session EXCEPT ![c] = << [@[1] EXCEPT !.trn_id = counter] >>]
  /\ UNCHANGED <<logins, users_db, acked, busy, past_trns, listeners, part>>

\* A plausible slip: the session keeps the transaction it has ended.
EndKeepingId(c, op, record) ==
  /\ Serves(c, op)
  /\ Info(c).trn_id # NO_TRN_ID
  /\ Len(trns) + Len(past_trns) < 2 * MaxTrn + 1
  /\ trns' = Append(trns, <<record, Info(c).trn_id, Info(c).database>>)
  /\ UNCHANGED <<session, logins, users_db, acked, busy, past_trns, counter, listeners, part>>

\* request_transact_commit and request_transact_discard: the record goes to the
\* database the session uses now.
EndTransaction(c, op, record) ==
  /\ Serves(c, op)
  /\ Info(c).trn_id # NO_TRN_ID
  /\ trns' = Append(trns, <<record, Info(c).trn_id, Info(c).database>>)
  /\ session' = [session EXCEPT ![c] = << [@[1] EXCEPT !.trn_id = NO_TRN_ID] >>]
  /\ UNCHANGED <<logins, users_db, acked, busy, past_trns, counter, listeners, part>>

-----------------------------------------------------------------------------
\* request_bind: bind, whose socket may not be had, in which case nothing is kept.
request_bind(c, address) ==
  /\ Serves(c, "BIND")
  /\ address \notin listeners
  /\ listeners' = listeners \union {address}
  /\ UNCHANGED <<session, logins, users_db, acked, busy, trns, past_trns, counter, part>>

request_unbind(c, address) ==
  /\ Serves(c, "UNBIND")
  /\ Cardinality(listeners) # 1
  /\ address # ClusterAddress
  /\ address \in listeners
  /\ listeners' = listeners \ {address}
  /\ UNCHANGED <<session, logins, users_db, acked, busy, trns, past_trns, counter, part>>

-----------------------------------------------------------------------------
\* The steps of the handlers, by the part they belong to.
AccountsStep(c) ==
  \/ \E name \in Users, password \in Passwords : request_add_user(c, name, password)
  \/ \E name \in Users, level \in {"USER", "ADMIN"} : request_edit_user(c, name, level)
  \/ \E name \in Users : request_del_user(c, name)
  \/ \E password \in Passwords : request_change_password(c, password)
  \/ AccountsRefused(c)

TransactionStep(c) ==
  \/ \E db \in 0 .. NumDatabases : request_switch_db(c, db)
  \/ request_transact_begin(c)
  \/ EndTransaction(c, "TRANSACT_COMMIT", "commit")
  \/ EndTransaction(c, "TRANSACT_DISCARD", "discard")

BindStep(c) ==
  \E address \in Addresses : request_bind(c, address) \/ request_unbind(c, address)

PartStep(c) ==
  \/ part = "accounts" /\ AccountsStep(c)
  \/ part = "transactions" /\ TransactionStep(c)
  \/ part = "listeners" /\ BindStep(c)
===============================================================================
