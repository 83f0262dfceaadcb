--------------------------------- MODULE Cluster ---------------------------------
(* Servers that form a cluster: cluster/cluster_server.cpp,                      *)
(* cluster_auth_server.cpp, high_peer_server.cpp, peer_server.cpp,               *)
(* peer_auth_application_server.cpp and the dispatch of                          *)
(* request/peer_request_server.cpp. Connections are TCP: what one end sends is   *)
(* read in order by the other, and a closed end is seen after what it sent. A    *)
(* server's address and id are its name; a message's id is its connection and    *)
(* operation, of which no two are outstanding at once.                           *)
EXTENDS Naturals, Sequences, FiniteSets, Functions

CONSTANTS
  Nodes,
  ClusterKeys,
  Founders,     \* servers already alone in a cluster at the start, with FoundingKey
  FoundingKey,
  MaxConns,     \* bound: connections ever made
  MaxJoins,     \* bound: CLUSTER_JOIN requests
  MaxLeaves     \* bound: CLUSTER_LEAVE requests

\* One cluster per key: at most one server founded the cluster of FoundingKey.
ASSUME ClusterAssumption ==
  /\ IsFiniteSet(Nodes) /\ Founders \subseteq Nodes /\ FoundingKey \in ClusterKeys
  /\ \A n, m \in Founders : n = m
  /\ MaxConns \in Nat /\ MaxJoins \in Nat /\ MaxLeaves \in Nat

VARIABLES
  m_cluster_key,  \* node -> <<>> or <<key>>
  link,           \* the connections made: sequence of [from, to, port]
  inbox,          \* connection -> node -> messages on their way to it
  end,            \* connection -> node -> "open", "closed" (m_closed) or "gone"
  m_peers,        \* node -> connections
  session_id,     \* node -> connections whose peer has given its id
  pending,        \* m_pending_peer_auths: node -> set of [conn, key, client]
  answers,        \* history: the CLUSTER_JOIN requests: [node, host, sent to the client]
  leaves          \* history: CLUSTER_LEAVE requests served

kvars == <<m_cluster_key, link, inbox, end, m_peers, session_id, pending, answers, leaves>>

-----------------------------------------------------------------------------
NoClient == 0

in_cluster(n) == m_cluster_key[n] # <<>>

Other(i, n) == IF link[i].from = n THEN link[i].to ELSE link[i].from

Ends(i) == {link[i].from, link[i].to}

KInit ==
  /\ m_cluster_key = [n \in Nodes |-> IF n \in Founders THEN <<FoundingKey>> ELSE <<>>]
  /\ link = <<>> /\ inbox = <<>> /\ end = <<>>
  /\ m_peers = [n \in Nodes |-> {}]
  /\ session_id = [n \in Nodes |-> {}]
  /\ pending = [n \in Nodes |-> {}]
  /\ answers = <<>>
  /\ leaves = 0

-----------------------------------------------------------------------------
\* The pieces handlers are made of, on the state as a record.
State ==
  [key |-> m_cluster_key, link |-> link, inbox |-> inbox, end |-> end, peers |-> m_peers,
   id |-> session_id, pending |-> pending, answers |-> answers]

Becomes(s) ==
  /\ m_cluster_key' = s.key /\ link' = s.link /\ inbox' = s.inbox /\ end' = s.end
  /\ m_peers' = s.peers /\ session_id' = s.id /\ pending' = s.pending
  /\ answers' = s.answers

send(s, i, to, msg) ==
  IF s.end[i][to] = "gone" THEN s ELSE [s EXCEPT !.inbox[i][to] = Append(@, msg)]

\* The client of each of the applications, if it has one, is sent the text.
Told(clients, applications, text) ==
  LET told(j) == [k \in 1 .. Cardinality({p \in applications : p.client = j}) |-> text]
  IN  [j \in DOMAIN clients |-> [clients[j] EXCEPT !.sent = @ \o told(j)]]

Answer(s, applications, text) == [s EXCEPT !.answers = Told(@, applications, text)]

register_peer(s, n, conns) == [s EXCEPT !.peers[n] = @ \union conns]

\* The connections made to the hosts of a sequence, in its order.
Made(s, hosts) == (Len(s.link) + 1) .. (Len(s.link) + Len(hosts))

new_peer(s, n, hosts, port, first) ==
  register_peer(
    [s EXCEPT !.link = @ \o [k \in DOMAIN hosts |-> [from |-> n, to |-> hosts[k], port |-> port]],
              !.inbox = @ \o [k \in DOMAIN hosts |->
                                 [x \in {n, hosts[k]} |-> IF x = n THEN <<>> ELSE <<first>>]],
              !.end = @ \o [k \in DOMAIN hosts |-> [x \in {n, hosts[k]} |-> "open"]]],
    n, Made(s, hosts))

add_auth_application(s, n, conns, key, client) ==
  [s EXCEPT !.pending[n] = @ \union {[conn |-> i, key |-> key, client |-> client] : i \in conns}]

\* A new connection to each host, on which the first message is the application.
peer_connect(s, n, hosts, port, key, client) ==
  add_auth_application(new_peer(s, n, hosts, port, [op |-> "PEER_AUTH", key |-> key]),
                       n, Made(s, hosts), key, client)

\* A plausible slip: the client is removed and stays among the peers.
remove_unforgotten(s, n, i) ==
  [s EXCEPT !.end[i][n] = "gone", !.inbox[i][n] = <<>>, !.id[n] = @ \ {i}]

\* remove_peer, or client_close at the end of a handler: forgotten as a peer,
\* closed, and removed when ready returns.
remove_client(s, n, i) ==
  [s EXCEPT !.end[i][n] = "gone", !.inbox[i][n] = <<>>, !.peers[n] = @ \ {i},
            !.id[n] = @ \ {i}]

pop_auth_application(s, n, i) == {p \in s.pending[n] : p.conn = i}

Popped(s, n, i) == [s EXCEPT !.pending[n] = @ \ pop_auth_application(s, n, i)]

\* A plausible slip: the applications are dropped and their clients not told.
clear_silently(s, n, text) == [s EXCEPT !.pending[n] = {}]

clear_auth_applications(s, n, text) ==
  Answer([s EXCEPT !.pending[n] = {}], s.pending[n], text)

set_cluster_info(s, n, key) ==
  [clear_auth_applications(s, n, "already in a cluster") EXCEPT !.key[n] = <<key>>]

-----------------------------------------------------------------------------
\* The requests of an administrator.
request_cluster_new(n, key) ==
  /\ ~in_cluster(n)
  /\ \A m \in Nodes : m_cluster_key[m] # <<key>>   \* bound: one cluster per key
  /\ Becomes(set_cluster_info(State, n, key))
  /\ UNCHANGED leaves

request_cluster_join(n, m, port, key) ==
  /\ ~in_cluster(n)
  /\ Len(answers) < MaxJoins /\ Len(link) < MaxConns
  /\ Becomes(peer_connect([State EXCEPT !.answers = Append(@, [node |-> n, host |-> m, sent |-> <<>>])],
                          n, <<m>>, port, key, Len(answers) + 1))
  /\ UNCHANGED leaves

leave_cluster(s, n) ==
  [clear_auth_applications(s, n, "cluster left") EXCEPT !.key[n] = <<>>]

\* A message to the other end of each of n's connections that is still there.
SentToAll(box, ends, conns, n, msg) ==
  [i \in DOMAIN box |->
     IF i \in conns /\ ends[i][Other(i, n)] # "gone"
     THEN [box[i] EXCEPT ![Other(i, n)] = Append(@, msg)] ELSE box[i]]

Closed(ends, conns, n) ==
  [i \in DOMAIN ends |-> IF i \in conns THEN [ends[i] EXCEPT ![n] = "closed"] ELSE ends[i]]

\* Every peer is told and closed; the objects stay until their sockets are next ready.
clear_peers(s, n) ==
  [s EXCEPT !.inbox = SentToAll(@, s.end, s.peers[n], n, [op |-> "EXIT"]),
            !.end = Closed(@, s.peers[n], n),
            !.peers[n] = {}]

request_cluster_leave(n) ==
  /\ in_cluster(n)
  /\ leaves < MaxLeaves
  /\ Becomes(clear_peers(leave_cluster(State, n), n))
  /\ leaves' = leaves + 1

-----------------------------------------------------------------------------
\* A message is read from a connection that is open.
Reads(n, i, op) ==
  /\ n \in Ends(i)
  /\ end[i][n] = "open"
  /\ inbox[i][n] # <<>>
  /\ Head(inbox[i][n]).op = op

Read(n, i) == [State EXCEPT !.inbox[i][n] = Tail(@)]

authenticate_cluster_key(n, key) == m_cluster_key[n] = <<key>>

request_peer_auth(n, i) ==
  /\ Reads(n, i, "PEER_AUTH")
  /\ LET m == Other(i, n)
         s == Read(n, i)
         refuse(msg) == remove_client(send(s, i, m, msg), n, i)
     IN  Becomes(CASE link[i].port # "cluster" -> refuse([op |-> "REDIRECT"])
                   [] link[i].port = "cluster"
                      /\ ~authenticate_cluster_key(n, Head(inbox[i][n]).key) -> refuse([op |-> "DENIED"])
                   [] OTHER -> send([register_peer(s, n, {i}) EXCEPT !.id[n] = @ \union {i}],
                                    i, m, [op |-> "OK"]))
  /\ UNCHANGED leaves

\* A plausible slip: an answer to an application that is no longer there counts.
reply_request_peer_auth_any(n, i) ==
  /\ Reads(n, i, "OK")
  /\ LET s == Popped(Read(n, i), n, i)
         named == [s EXCEPT !.id[n] = @ \union {i}]
     IN  Becomes(send(named, i, Other(i, n), [op |-> "PEERS"]))
  /\ UNCHANGED leaves

\* A plausible slip: the peers are asked for only when no client is to be answered.
reply_request_peer_auth_unsynced(n, i) ==
  /\ Reads(n, i, "OK")
  /\ \E p \in pop_auth_application(State, n, i) :
       LET s == Popped(Read(n, i), n, i)
           named == [s EXCEPT !.id[n] = @ \union {i}]
           member == IF in_cluster(n) THEN named ELSE set_cluster_info(named, n, p.key)
       IN  Becomes(IF p.client = NoClient
                   THEN send(member, i, Other(i, n), [op |-> "PEERS"])
                   ELSE Answer(member, {p}, "ok"))
  /\ UNCHANGED leaves

\* The answer to an application that is still there makes the server a member, if
\* it was not one, and its client is told; then the peers are asked for.
reply_request_peer_auth(n, i) ==
  /\ Reads(n, i, "OK")
  /\ LET s == Popped(Read(n, i), n, i)
         named == [s EXCEPT !.id[n] = @ \union {i}]
     IN  \/ /\ pop_auth_application(State, n, i) = {}
            /\ Becomes(remove_client(s, n, i))
         \/ \E p \in pop_auth_application(State, n, i) :
              LET member == IF in_cluster(n) THEN named ELSE set_cluster_info(named, n, p.key)
              IN  Becomes(send(Answer(member, {p}, "ok"), i, Other(i, n),
                               [op |-> "PEERS"]))
  /\ UNCHANGED leaves

reply_denied_request_peer_auth(n, i) ==
  /\ Reads(n, i, "DENIED")
  /\ LET s == Popped(remove_client(Read(n, i), n, i), n, i)
     IN  \/ pop_auth_application(State, n, i) = {} /\ Becomes(s)
         \/ \E p \in pop_auth_application(State, n, i) :
              Becomes(Answer(s, {p}, "peer denied connection"))
  /\ UNCHANGED leaves

\* Connected to a port for clients: the same application, to the cluster's port.
reply_redirect_request_peer_auth(n, i) ==
  /\ Reads(n, i, "REDIRECT")
  /\ LET s == Popped(remove_client(Read(n, i), n, i), n, i)
     IN  \/ pop_auth_application(State, n, i) = {} /\ Becomes(s)
         \/ \E p \in pop_auth_application(State, n, i) :
              /\ Len(link) < MaxConns
              /\ Becomes(peer_connect(s, n, <<Other(i, n)>>, "cluster", p.key, p.client))
  /\ UNCHANGED leaves

peer_addresses(n) == {Other(i, n) : i \in m_peers[n]}

post_request_peers(n, i) ==
  /\ Reads(n, i, "PEERS")
  /\ Becomes(send(Read(n, i), i, Other(i, n), [op |-> "ADDRESSES", peers |-> peer_addresses(n)]))
  /\ UNCHANGED leaves

unknown_peers_in(n, peers) == (peers \ peer_addresses(n)) \ {n}

\* The unknown ones are an unordered_set: they are connected to in any order.
reply_request_peers(n, i) ==
  /\ Reads(n, i, "ADDRESSES")
  /\ LET unknown == unknown_peers_in(n, Head(inbox[i][n]).peers)
         s == Read(n, i)
     IN  \/ ~in_cluster(n) /\ Becomes(s)
         \/ /\ in_cluster(n)
            /\ Len(link) + Cardinality(unknown) <= MaxConns
            /\ \E hosts \in Bijection(1 .. Cardinality(unknown), unknown) :
                 Becomes(peer_connect(s, n, hosts, "cluster", m_cluster_key[n][1], NoClient))
  /\ UNCHANGED leaves

post_request_exit(n, i) ==
  /\ Reads(n, i, "EXIT")
  /\ Becomes(remove_client(Read(n, i), n, i))
  /\ UNCHANGED leaves

\* TcpClient::ready finds the connection closed, here or at the other end.
ready_closed(n, i) ==
  /\ n \in Ends(i)
  /\ LET over == end[i][Other(i, n)] = "gone"
     IN  \/ end[i][n] = "closed" /\ (inbox[i][n] # <<>> \/ over)
         \/ end[i][n] = "open" /\ inbox[i][n] = <<>> /\ over
  /\ Becomes(remove_client(State, n, i))
  /\ UNCHANGED leaves

-----------------------------------------------------------------------------
handle_post_request_inner(n, i) == post_request_peers(n, i) \/ post_request_exit(n, i)
handle_ok_reply_request(n, i) == reply_request_peer_auth(n, i) \/ reply_request_peers(n, i)
handle_denied_reply_request(n, i) == reply_denied_request_peer_auth(n, i)
handle_redirect_reply_request(n, i) == reply_redirect_request_peer_auth(n, i)

Handle(n, i) ==
  \/ request_peer_auth(n, i)
  \/ handle_post_request_inner(n, i)
  \/ handle_ok_reply_request(n, i)
  \/ handle_denied_reply_request(n, i)
  \/ handle_redirect_reply_request(n, i)
  \/ ready_closed(n, i)

KNext ==
  \/ \E n \in Nodes, key \in ClusterKeys : request_cluster_new(n, key)
  \/ \E n, m \in Nodes, port \in {"cluster", "client"}, key \in ClusterKeys :
       n # m /\ request_cluster_join(n, m, port, key)
  \/ \E n \in Nodes : request_cluster_leave(n)
  \/ \E i \in DOMAIN link : \E n \in Ends(i) : Handle(n, i)

\* Epoll reports every socket that can be read, and ready reads it.
KSpec == KInit /\ [][KNext]_kvars

-----------------------------------------------------------------------------
Conns == DOMAIN link

\* The shapes of the state; only connections that still exist are peers, and an
\* application waits on a connection its server made.
KTypeOK ==
  /\ \A i \in Conns : end[i] \in [Ends(i) -> {"open", "closed", "gone"}]
  /\ \A n \in Nodes :
       /\ \A i \in m_peers[n] : i \in Conns /\ n \in Ends(i) /\ end[i][n] = "open"
       /\ \A p \in pending[n] : link[p.conn].from = n /\ p.key \in ClusterKeys
       /\ m_cluster_key[n] = <<>> \/ m_cluster_key[n][1] \in ClusterKeys

Settled(i) ==
  \A n \in Ends(i) : inbox[i][n] = <<>> /\ end[i][n] # "closed"
                       /\ end[i][n] = end[i][Other(i, n)]

Quiet == \A i \in Conns : Settled(i)

Linked(n, m) ==
  \E i \in m_peers[n] \intersect m_peers[m] :
    Ends(i) = {n, m} /\ i \in session_id[n] \intersect session_id[m]

JoinsNameOneServer == \E h \in Nodes : \A j \in DOMAIN answers : answers[j].host = h

\* request_peer_auth, reply_request_peer_auth, peer_sync, reply_request_peers:
\* however the applications of several servers overtake each other, once everything
\* sent was handled every two members of a cluster are connected and know each
\* other, provided that nobody left meanwhile and that all were told to join the
\* same server. (Told to join different members, two of four servers can miss each
\* other: one is denied by the other, which is not yet a member, and is not yet
\* among the peers of the member that the other asks.)
MeshWhenQuiet ==
  Quiet /\ leaves = 0 /\ JoinsNameOneServer =>
    \A n, m \in Nodes :
      n # m /\ in_cluster(n) /\ m_cluster_key[n] = m_cluster_key[m] => Linked(n, m)

\* pop_auth_application, clear_auth_applications: an answer that comes after the
\* server was put into another cluster, or left, is not taken for membership: a
\* connection between two peers, once at rest, joins two members of one cluster.
SameCluster ==
  \A i \in Conns : Settled(i) =>
    \A n \in Ends(i) : i \in m_peers[n] \intersect session_id[n] =>
      in_cluster(n) /\ m_cluster_key[n] = m_cluster_key[Other(i, n)]

\* peer_connect, the three replies, clear_auth_applications: whatever becomes of
\* an application (accepted, denied, redirected, overtaken by another or by
\* CLUSTER_NEW, given up by CLUSTER_LEAVE) its client is answered once.
JoinAnsweredOnce ==
  \A j \in DOMAIN answers :
    Len(answers[j].sent) <= 1 /\ (Quiet => Len(answers[j].sent) = 1)
===============================================================================
