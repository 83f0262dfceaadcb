--------------------------------- MODULE PubSub ---------------------------------
(* pubsub_server.cpp and the end of a client (client/client_server.cpp,          *)
(* client/tcp_client.cpp, client/exit_server.h) beside Sessions. Handlers run on *)
(* the worker that has the sockets; event_publish runs on any other worker, in   *)
(* two steps because the queue's mutex is released before the subscriptions'     *)
(* mutex is taken.                                                               *)
(*                                                                               *)
(* A subscriber is the address of the Client a handler was called with: of the   *)
(* connection, or, for a request in a PIPE, of the PipedClient on the stack of   *)
(* request_pipe, while the session's own list is the connection's in both cases. *)
(* The requests of Sessions go by the session alone, so a PIPE is no different   *)
(* for them. A connection that has gone and one that is accepted later may have  *)
(* the same address, and so may two PipedClients.                                *)
EXTENDS Sessions

CONSTANTS
  Channels,
  Frames,        \* addresses PipedClients may have
  Workers,       \* workers that may run event_publish
  MaxPublished,  \* bound: messages published; a message is its number
  MaxWithPipes   \* bound: messages published where there are PIPEs

\* A PipedClient is on the stack, a connection is not.
ASSUME PubSubAssumption == Clients \intersect Frames = {}

VARIABLES
  m_subscriptions, \* channel -> set of addresses; absent channels map to {}
  m_publish_queue, \* sequence of [channel, message]
  events,          \* server_event::publish in the event queue
  batch,           \* worker -> the queue it swapped out
  published,       \* history: messages published so far
  received,        \* history: connection -> message -> times it was written to it
  piped            \* history: connections that changed subscriptions in a PIPE

pvars == <<m_subscriptions, m_publish_queue, events, batch, published, received, piped>>
vars == <<svars, pvars>>

-----------------------------------------------------------------------------
NothingYet == [n \in 1 .. MaxPublished |-> 0]

Init ==
  /\ SInit
  /\ m_subscriptions = [ch \in Channels |-> {}]
  /\ m_publish_queue = <<>>
  /\ events = 0
  /\ batch = [w \in Workers |-> <<>>]
  /\ published = 0
  /\ received = [c \in Clients |-> NothingYet]
  /\ piped = {}

\* A handler is called with the address a, for connection c.
ServesAs(c, a, op) ==
  /\ session[c] # <<>> /\ is_permitted(op, Info(c).auth)
  /\ (busy = Idle /\ a = c) \/ busy = <<"pipe", c, a>>

insert_subscription(a, ch) ==
  m_subscriptions' = [m_subscriptions EXCEPT ![ch] = @ \union {a}]

erase_subscription(a, from) ==
  m_subscriptions' =
    [ch \in Channels |-> IF ch \in from THEN m_subscriptions[ch] \ {a} ELSE m_subscriptions[ch]]

NotePiped(c, a) == piped' = IF a = c THEN piped ELSE piped \union {c}

SetChannels(c, chs) ==
  session' = [session EXCEPT ![c] = << [@[1] EXCEPT !.channels = chs] >>]

\* session_channels(client) is the connection's list, whichever address it is.
request_subscribe(c, a, ch) ==
  /\ ServesAs(c, a, "SUBSCRIBE")
  /\ insert_subscription(a, ch)
  /\ SetChannels(c, Info(c).channels \union {ch})
  /\ NotePiped(c, a)
  /\ UNCHANGED <<logins, users_db, acked, busy, trns, past_trns, counter, listeners, part>>
  /\ UNCHANGED <<m_publish_queue, events, batch, published, received>>

request_unsubscribe(c, a, ch) ==
  /\ ServesAs(c, a, "UNSUBSCRIBE")
  /\ erase_subscription(a, {ch})
  /\ SetChannels(c, Info(c).channels \ {ch})
  /\ NotePiped(c, a)
  /\ UNCHANGED <<logins, users_db, acked, busy, trns, past_trns, counter, listeners, part>>
  /\ UNCHANGED <<m_publish_queue, events, batch, published, received>>

request_unsubscribe_all(c, a) ==
  /\ ServesAs(c, a, "UNSUBSCRIBE_ALL")
  /\ erase_subscription(a, Info(c).channels)
  /\ SetChannels(c, {})
  /\ NotePiped(c, a)
  /\ UNCHANGED <<logins, users_db, acked, busy, trns, past_trns, counter, listeners, part>>
  /\ UNCHANGED <<m_publish_queue, events, batch, published, received>>

\* request_publish: the message is queued, then the event is pushed.
request_publish(c, a, ch) ==
  /\ ServesAs(c, a, "PUBLISH")
  /\ published < MaxPublished /\ (part = "pipes" => published < MaxWithPipes)
  /\ published' = published + 1
  /\ m_publish_queue' = Append(m_publish_queue, [channel |-> ch, message |-> published'])
  /\ busy' = <<"push_event", busy>>
  /\ UNCHANGED <<session, logins, users_db, acked, trns, past_trns, counter, listeners, part>>
  /\ UNCHANGED <<m_subscriptions, events, batch, received, piped>>

\* A plausible slip: an event is pushed only for a queue found empty, looked at
\* after the message was added.
push_publish_if_empty ==
  /\ busy[1] = "push_event"
  /\ events' = IF m_publish_queue = <<>> THEN events + 1 ELSE events
  /\ busy' = busy[2]
  /\ UNCHANGED <<session, logins, users_db, acked, trns, past_trns, counter, listeners, part>>
  /\ UNCHANGED <<m_subscriptions, m_publish_queue, batch, published, received, piped>>

push_publish ==
  /\ busy[1] = "push_event"
  /\ events' = events + 1
  /\ busy' = busy[2]
  /\ UNCHANGED <<session, logins, users_db, acked, trns, past_trns, counter, listeners, part>>
  /\ UNCHANGED <<m_subscriptions, m_publish_queue, batch, published, received, piped>>

\* request_pipe: the requests of the pipe are handled with the PipedClient at a,
\* which is gone when the aggregate has been written.
request_pipe(c, a) ==
  /\ Serves(c, "PIPE")
  /\ busy' = <<"pipe", c, a>>
  /\ UNCHANGED <<session, logins, users_db, acked, trns, past_trns, counter, listeners, part>>
  /\ UNCHANGED pvars

perform_write ==
  /\ busy[1] = "pipe"
  /\ busy' = Idle
  /\ UNCHANGED <<session, logins, users_db, acked, trns, past_trns, counter, listeners, part>>
  /\ UNCHANGED pvars

-----------------------------------------------------------------------------
\* A plausible slip: the queue is copied, and cleared with the last event only.
event_publish_copy(w) ==
  /\ events > 0 /\ batch[w] = <<>>
  /\ events' = events - 1
  /\ batch' = [batch EXCEPT ![w] = m_publish_queue]
  /\ m_publish_queue' = IF events > 1 THEN m_publish_queue ELSE <<>>
  /\ UNCHANGED <<svars, m_subscriptions, published, received, piped>>

\* event_publish, under the queue's mutex: nothing to do, or the whole queue.
event_publish(w) ==
  /\ events > 0 /\ batch[w] = <<>>
  /\ events' = events - 1
  /\ batch' = [batch EXCEPT ![w] = m_publish_queue]
  /\ m_publish_queue' = <<>>
  /\ UNCHANGED <<svars, m_subscriptions, published, received, piped>>

\* The connections a message of the channel is written to. What is written to the
\* PipedClient of a pipe under way goes into its aggregate, and what is written to
\* one that has ended, or to a connection that is gone, is undefined: here it
\* reaches nobody, or the process ends (Restart).
Reached(ch) == {c \in Clients : c \in m_subscriptions[ch] /\ session[c] # <<>>}

\* The rest of event_publish, under the subscriptions' mutex.
publish(w) ==
  /\ batch[w] # <<>>
  /\ received' = [c \in Clients |-> [n \in 1 .. MaxPublished |-> received[c][n] +
       Cardinality({i \in DOMAIN batch[w] :
         batch[w][i].message = n /\ c \in Reached(batch[w][i].channel)})]]
  /\ batch' = [batch EXCEPT ![w] = <<>>]
  /\ UNCHANGED <<svars, m_subscriptions, m_publish_queue, events, published, piped>>

-----------------------------------------------------------------------------
\* EXIT, the peer's end of the connection closed, or a failed read: ready ends
\* with remove_client, whose first step is pre_client_delete_pubsub.
pre_client_delete(c) ==
  /\ busy = Idle /\ session[c] # <<>>
  /\ IF Info(c).auth \in {"USER", "ADMIN"}
     THEN erase_subscription(c, Info(c).channels)
     ELSE UNCHANGED m_subscriptions
  /\ busy' = <<"erase", c>>
  /\ UNCHANGED <<session, logins, users_db, acked, trns, past_trns, counter, listeners, part>>
  /\ UNCHANGED <<m_publish_queue, events, batch, published, received, piped>>

\* m_clients.erase: the client is gone.
remove_client ==
  /\ busy[1] = "erase"
  /\ session' = [session EXCEPT ![busy[2]] = <<>>]
  /\ received' = [received EXCEPT ![busy[2]] = NothingYet]
  /\ busy' = Idle
  /\ UNCHANGED <<logins, users_db, acked, trns, past_trns, counter, listeners, part>>
  /\ UNCHANGED <<m_subscriptions, m_publish_queue, events, batch, published, piped>>

\* The process ends at any point and is started again: the file of the accounts
\* and the WAL are left, and m_counter begins again.
Restart ==
  /\ session' = [c \in Clients |-> <<>>]
  /\ logins' = load_logins(users_db)
  /\ acked' = logins'
  /\ busy' = Idle
  /\ past_trns' = past_trns \o trns
  /\ trns' = <<>>
  /\ counter' = FIRST_CLIENT_TRN_ID
  /\ listeners' = Ports \union {ClusterAddress}
  /\ m_subscriptions' = [ch \in Channels |-> {}]
  /\ m_publish_queue' = <<>>
  /\ events' = 0
  /\ batch' = [w \in Workers |-> <<>>]
  /\ received' = [c \in Clients |-> NothingYet]
  /\ piped' = {}
  /\ UNCHANGED <<users_db, part, published>>

-----------------------------------------------------------------------------
PubSubStep(c) ==
  \/ part = "pipes" /\ \E a \in Frames : request_pipe(c, a)
  \/ \E a \in Frames \union {c} :
       \/ \E ch \in Channels : request_subscribe(c, a, ch)
       \/ \E ch \in Channels : request_unsubscribe(c, a, ch)
       \/ request_unsubscribe_all(c, a)
       \/ \E ch \in Channels : request_publish(c, a, ch)

Next ==
  \/ \E c \in Clients : add_client(c) /\ UNCHANGED pvars
  \/ \E c \in Clients, name \in Users, password \in Passwords :
       request_auth(c, name, password) /\ UNCHANGED pvars
  \/ \E c \in Clients : PartStep(c) /\ UNCHANGED pvars
  \/ persist_nowhere /\ UNCHANGED pvars
  \/ write_tmp /\ UNCHANGED pvars
  \/ rename_tmp /\ UNCHANGED pvars
  \/ \E c \in Clients : part \in {"pubsub", "pipes"} /\ PubSubStep(c)
  \/ perform_write
  \/ push_publish
  \/ \E w \in Workers : event_publish(w) \/ publish(w)
  \/ \E c \in Clients : pre_client_delete(c)
  \/ remove_client
  \/ Restart

\* A worker that is woken for an event runs it, and a handler that has begun ends:
\* the workers loop on the event queue until the server stops.
Fairness ==
  /\ WF_vars(push_publish)
  /\ WF_vars(\E w \in Workers : event_publish(w))
  /\ \A w \in Workers : WF_vars(publish(w))

Spec == Init /\ [][Next]_vars /\ Fairness

-----------------------------------------------------------------------------
Levels == {"UNKNOWN", "USER", "ADMIN"}

\* The shapes of the state; a session's database exists (validate_db_index), and
\* the listener cluster_addr looks up is always there (request_unbind).
PTypeOK ==
  /\ \A c \in Clients : session[c] # <<>> =>
       /\ Info(c).auth \in Levels
       /\ Info(c).database \in 0 .. NumDatabases - 1
       /\ Info(c).trn_id \in {NO_TRN_ID} \union FIRST_CLIENT_TRN_ID .. counter - 1
       /\ Info(c).channels \subseteq Channels
  /\ \A n \in DOMAIN logins : n \in Users \ Short /\ logins[n].auth \in Levels \ {"UNKNOWN"}
  /\ ClusterAddress \in listeners
  /\ m_subscriptions \in [Channels -> SUBSET (Clients \union Frames)]
  /\ events \in 0 .. MaxPublished /\ published \in 0 .. MaxPublished

\* request_subscribe, request_unsubscribe, request_unsubscribe_all,
\* pre_client_delete_pubsub, session_set_auth: of a connection that has changed its
\* subscriptions outside PIPEs only, the server's subscriptions and the session's
\* own list are two records of the same thing, kept apart because only the first
\* is locked. They agree, so that such a connection is taken out of every channel
\* before it is destroyed and event_publish, which may be between its two locks at
\* that moment, does not write to it when it is gone.
SubscriptionsMirror ==
  \A c \in Clients \ piped, ch \in Channels :
    c \in m_subscriptions[ch] <=>
      session[c] # <<>> /\ ch \in Info(c).channels /\ busy # <<"erase", c>>

\* "this removes the tcp_client from all channels" (pubsub_server.h, of
\* pre_client_delete_pubsub), and with it whatever subscribed for the connection:
\* every subscriber is a connection that is open or the PipedClient of a pipe
\* under way. Requests in a PIPE break it: SUBSCRIBE leaves the PipedClient's
\* address behind, and UNSUBSCRIBE takes the channel from the session's list only.
SubscribersAlive ==
  \A ch \in Channels : \A a \in m_subscriptions[ch] :
    \/ a \in Clients /\ session[a] # <<>>
    \/ \E c \in Clients : busy \in {<<"pipe", c, a>>, <<"push_event", <<"pipe", c, a>>>>}

\* event_publish: two workers woken for two messages share the queue between them;
\* no message is written twice to a connection (what a PIPE's aggregate holds of it
\* apart).
ReceivedOnce == \A c \in Clients, n \in 1 .. MaxPublished : received[c][n] <= 1

\* request_publish, event_publish: a published message does not stay behind in the
\* queue, nor in a worker's hands, whatever other messages come before or after it.
Waiting(n) ==
  \/ \E i \in DOMAIN m_publish_queue : m_publish_queue[i].message = n
  \/ \E w \in Workers : \E i \in DOMAIN batch[w] : batch[w][i].message = n

PublishedIsTaken == \A n \in 1 .. MaxPublished : Waiting(n) ~> ~Waiting(n)

\* persist_logins: at every instant the file holds the accounts as they were when
\* the last change was answered, or as the change being made will leave them, and
\* between requests it holds exactly what is in memory; so a restart of a server
\* that has a users file neither forgets an answered change nor invents one.
AccountsSurvive == users_db # NoPath =>
  /\ load_logins(users_db) \in {acked, logins}
  /\ busy = Idle => load_logins(users_db) = logins

\* request_transact_begin, _commit, _discard: however clients interleave, come and
\* go, and at whatever point an earlier run ended, every transaction of one run of
\* the server is begun once, is ended at most once and after it was begun, and
\* belongs to one session at most.
TransactionsPaired ==
  /\ \A i, j \in DOMAIN trns : i < j /\ trns[i][2] = trns[j][2] =>
       trns[i][1] = "begin" /\ trns[j][1] # "begin"
  /\ \A j \in DOMAIN trns : trns[j][1] # "begin" =>
       \E i \in 1 .. j - 1 : trns[i][2] = trns[j][2]
  /\ \A c, d \in Clients : c # d /\ session[c] # <<>> /\ session[d] # <<>>
       /\ Info(c).trn_id = Info(d).trn_id => Info(c).trn_id = NO_TRN_ID

\* The same of the whole WAL, which a restart appends to: no two transactions have
\* one id. m_counter begins at FIRST_CLIENT_TRN_ID in every run, so they may.
TransactionIdsFresh ==
  LET log == past_trns \o trns IN
  \A i, j \in Begins(log) : log[i][2] = log[j][2] => i = j
===============================================================================
