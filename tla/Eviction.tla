-------------------------------- MODULE Eviction --------------------------------
(* How the members of a cluster put a peer out: cluster/peer_eviction_server.cpp,  *)
(* peer_behaviour_server.cpp and peer_pulse_server.cpp. The members start as the   *)
(* mesh Cluster!MeshWhenQuiet describes, one connection between any two, each      *)
(* knowing the other's id. A server's id is its name; an issue's random id is the  *)
(* server that raised it, the accused and the reason, of which a server raises at  *)
(* most one (similar_issue_exists). The socket handlers of a server run one at a   *)
(* time; event_pulse runs beside them on another worker.                           *)
EXTENDS Naturals, Sequences, FiniteSets

CONSTANTS
  Nodes,
  Suspects,     \* the peers that misbehave or fall silent
  Scores,       \* the behaviour scores suspects have earned at the start
  M_MAX_SCORE,
  Settings      \* a cluster and its bounds: [members, reasons (what suspects do),
                \* issues (ever raised), lost (connections the network breaks)]

ASSUME EvictionAssumption ==
  /\ IsFiniteSet(Nodes) /\ Suspects \subseteq Nodes
  /\ \A s \in Settings : s.members \subseteq Nodes /\ s.reasons \subseteq {"misbehaving", "dead"}
  /\ M_MAX_SCORE \in Nat
  /\ Scores \subseteq 0 .. M_MAX_SCORE - 1

VARIABLES
  setting,               \* one of Settings, chosen at the start
  m_peers,               \* node -> the nodes it has a peer connection to
  inbox,                 \* <<from, to>> -> messages on their way
  behaviour_score,       \* node -> suspect -> score
  last_pulse,            \* node -> suspect -> age: "fresh", "late" (> 45 s), "silent" (> 60 s)
  m_eviction_issues,     \* node -> the issues it knows, a function of their ids
  m_ask_evict_requests,  \* node -> {<<issue id, peer asked>>}
  raising,               \* node -> suspects event_pulse found silent, before the issue exists
  evicted,               \* history: {<<node, issue id>>}
  lost                   \* history: connections broken

evars == <<setting, m_peers, inbox, behaviour_score, last_pulse, m_eviction_issues,
           m_ask_evict_requests, raising, evicted, lost>>

-----------------------------------------------------------------------------
EInit ==
  /\ setting \in Settings
  /\ m_peers = [n \in Nodes |-> IF n \in setting.members THEN setting.members \ {n} ELSE {}]
  /\ inbox = [l \in Nodes \X Nodes |-> <<>>]
  /\ \E earned \in [Nodes -> [Suspects -> Scores]] :
       behaviour_score = [n \in Nodes |-> [s \in Suspects |-> IF s \in m_peers[n] THEN earned[n][s] ELSE 0]]
  /\ last_pulse = [n \in Nodes |-> [s \in Suspects |-> "fresh"]]
  /\ m_eviction_issues = [n \in Nodes |-> <<>>]
  /\ m_ask_evict_requests = [n \in Nodes |-> {}]
  /\ raising = [n \in Nodes |-> {}]
  /\ evicted = {}
  /\ lost = 0

Known(n) == DOMAIN m_eviction_issues[n]

Raised == UNION {Known(n) : n \in Nodes}

report_score == 10

evict_opinion_misbehaving(n, s) == 4 * behaviour_score[n][s] >= 3 * M_MAX_SCORE

evict_opinion_dead(n, s) == last_pulse[n][s] # "fresh"

\* Only asked of a suspect that peer_from_id finds among the peers.
self_opinion_on(n, s, reason) ==
  IF reason = "misbehaving" THEN evict_opinion_misbehaving(n, s) ELSE evict_opinion_dead(n, s)

similar_issue_exists(n, s, reason) ==
  \E i \in Known(n) : i.peer_id = s /\ i.reason = reason

\* opinions, as the numbers of each; "open" until resolve_issue.
insert_eviction_issue(n, i, self_opinion) ==
  m_eviction_issues' = [m_eviction_issues EXCEPT ![n] =
    [j \in DOMAIN @ \union {i} |->
       IF j = i THEN [self_opinion |-> self_opinion, verdict |-> "open",
                      yes |-> IF self_opinion THEN 1 ELSE 0,
                      no |-> IF self_opinion THEN 0 ELSE 1,
                      expected |-> Cardinality(m_peers[n]) \div 2 + 1]
       ELSE @[j]]]

Ask(i) == [op |-> "ASK_EVICT", issue |-> i, opinion |-> FALSE]
Reply(i, status, opinion) == [op |-> status, issue |-> i, opinion |-> opinion]

\* post_ask_evict_all: the rest of the issue is filled in by insert_eviction_issue.
post_ask_evict_all(n, i, msgs) ==
  /\ inbox' = [l \in Nodes \X Nodes |->
                 IF l[1] = n /\ l[2] \in m_peers[n] \ {i.peer_id} THEN Append(msgs[l], Ask(i))
                 ELSE msgs[l]]
  /\ m_ask_evict_requests' = [m_ask_evict_requests EXCEPT ![n] =
                                @ \union {<<i, p>> : p \in m_peers[n] \ {i.peer_id}}]

new_eviction_issue(n, s, reason) ==
  LET i == [by |-> n, peer_id |-> s, reason |-> reason] IN
  /\ Cardinality(Raised) < setting.issues
  /\ insert_eviction_issue(n, i, TRUE)
  /\ post_ask_evict_all(n, i, inbox)

-----------------------------------------------------------------------------
\* report_peer, and begin_evict_process at M_MAX_SCORE. Scores past it change nothing.
report_peer(n, s) ==
  LET score == behaviour_score[n][s] + report_score IN
  /\ "misbehaving" \in setting.reasons /\ s \in m_peers[n]
  /\ score < M_MAX_SCORE + report_score
  /\ behaviour_score' = [behaviour_score EXCEPT ![n][s] = score]
  /\ IF score >= M_MAX_SCORE /\ ~similar_issue_exists(n, s, "misbehaving")
     THEN new_eviction_issue(n, s, "misbehaving")
     ELSE UNCHANGED <<m_eviction_issues, m_ask_evict_requests, inbox>>
  /\ UNCHANGED <<m_peers, last_pulse, raising, evicted, lost>>

\* send_pulses at the suspect, read here; and time passing without one.
async_request_pulse(n, s) ==
  /\ s \in m_peers[n] /\ last_pulse[n][s] # "fresh"
  /\ last_pulse' = [last_pulse EXCEPT ![n][s] = "fresh"]
  /\ UNCHANGED <<m_peers, inbox, behaviour_score, m_eviction_issues, m_ask_evict_requests,
                 raising, evicted, lost>>

TimePasses(n, s) ==
  /\ "dead" \in setting.reasons /\ s \in m_peers[n] /\ last_pulse[n][s] # "silent"
  /\ last_pulse' = [last_pulse EXCEPT ![n][s] = IF @ = "fresh" THEN "late" ELSE "silent"]
  /\ UNCHANGED <<m_peers, inbox, behaviour_score, m_eviction_issues, m_ask_evict_requests,
                 raising, evicted, lost>>

\* event_pulse up to similar_issue_exists, for one silent peer; then, on the same
\* worker but after whatever the socket handlers did meanwhile, the new issue.
check_pulses(n, s) ==
  /\ s \in m_peers[n] /\ last_pulse[n][s] = "silent"
  /\ ~similar_issue_exists(n, s, "dead")
  /\ raising[n] = {}
  /\ raising' = [raising EXCEPT ![n] = {s}]
  /\ UNCHANGED <<m_peers, inbox, behaviour_score, last_pulse, m_eviction_issues,
                 m_ask_evict_requests, evicted, lost>>

begin_evict_process(n) ==
  \E s \in raising[n] :
    /\ new_eviction_issue(n, s, "dead")
    /\ raising' = [raising EXCEPT ![n] = {}]
    /\ UNCHANGED <<m_peers, behaviour_score, last_pulse, evicted, lost>>

-----------------------------------------------------------------------------
Took(m, n) == [inbox EXCEPT ![<<m, n>>] = Tail(@)]

Answering(m, n, msg) == [Took(m, n) EXCEPT ![<<n, m>>] = Append(@, msg)]

\* A plausible slip: a server asked about an issue gives its opinion and asks nobody.
post_request_ask_evict_alone(m, n, i) ==
  /\ \/ /\ i \in Known(n)
        /\ inbox' = Answering(m, n, Reply(i, "OK", m_eviction_issues[n][i].self_opinion))
        /\ UNCHANGED m_eviction_issues
     \/ LET opinion == self_opinion_on(n, i.peer_id, i.reason) IN
        /\ i \notin Known(n) /\ i.peer_id \in m_peers[n]
        /\ insert_eviction_issue(n, i, opinion)
        /\ inbox' = Answering(m, n, Reply(i, "OK", opinion))
     \/ /\ i \notin Known(n) /\ i.peer_id \notin m_peers[n]
        /\ inbox' = Answering(m, n, Reply(i, "ERR", FALSE))
        /\ UNCHANGED m_eviction_issues
  /\ UNCHANGED <<m_peers, evicted, m_ask_evict_requests>>

\* get_eviction_issue: peer_from_id throws when the accused is no peer (any more),
\* and handle_post_request turns that into an error reply.
post_request_ask_evict(m, n, i) ==
  /\ \/ /\ i \in Known(n)
        /\ inbox' = Answering(m, n, Reply(i, "OK", m_eviction_issues[n][i].self_opinion))
        /\ UNCHANGED <<m_eviction_issues, m_ask_evict_requests>>
     \/ LET opinion == self_opinion_on(n, i.peer_id, i.reason) IN
        /\ i \notin Known(n) /\ i.peer_id \in m_peers[n]
        /\ insert_eviction_issue(n, i, opinion)
        /\ post_ask_evict_all(n, i, Answering(m, n, Reply(i, "OK", opinion)))
     \/ /\ i \notin Known(n) /\ i.peer_id \notin m_peers[n]
        /\ inbox' = Answering(m, n, Reply(i, "ERR", FALSE))
        /\ UNCHANGED <<m_eviction_issues, m_ask_evict_requests>>
  /\ UNCHANGED <<m_peers, evicted>>

resolve_issue(issue, verdict) == [issue EXCEPT !.verdict = verdict]

\* A plausible slip: half of the members is taken for a majority.
try_resolve_half(issue) ==
  IF issue.verdict # "open" THEN issue
  ELSE IF issue.yes + 1 >= issue.expected THEN [issue EXCEPT !.verdict = "out"]
  ELSE IF issue.no >= issue.expected THEN [issue EXCEPT !.verdict = "stays"]
  ELSE issue

\* A plausible slip: enough opinions settle the issue, whichever they are.
try_resolve_early(issue) ==
  IF issue.verdict # "open" THEN issue
  ELSE IF issue.yes >= issue.expected THEN [issue EXCEPT !.verdict = "out"]
  ELSE IF issue.yes + issue.no >= issue.expected THEN [issue EXCEPT !.verdict = "stays"]
  ELSE issue

try_resolve_issue(issue) ==
  IF issue.verdict # "open" THEN issue
  ELSE IF issue.yes >= issue.expected THEN resolve_issue(issue, "out")
  ELSE IF issue.no >= issue.expected THEN resolve_issue(issue, "stays")
  ELSE issue

pop_ask_evict(n, i, m) ==
  /\ <<i, m>> \in m_ask_evict_requests[n]
  /\ m_ask_evict_requests' = [m_ask_evict_requests EXCEPT ![n] = @ \ {<<i, m>>}]

\* The peer is forgotten and its connection closed.
do_evict_peer(n, i) ==
  /\ m_peers' = [m_peers EXCEPT ![n] = @ \ {i.peer_id}]
  /\ evicted' = evicted \union {<<n, i>>}

\* peer_from_id throws, after the issue is resolved, when the accused was forgotten before.
reply_request_ask_evict(m, n, i, opinion) ==
  LET issue == m_eviction_issues[n][i]
      counted == IF opinion THEN [issue EXCEPT !.yes = @ + 1] ELSE [issue EXCEPT !.no = @ + 1]
      resolved == try_resolve_issue(counted)
      evicts == issue.verdict = "open" /\ resolved.verdict = "out" /\ i.peer_id \in m_peers[n]
  IN
  /\ pop_ask_evict(n, i, m)
  /\ m_eviction_issues' = [m_eviction_issues EXCEPT ![n][i] = resolved]
  /\ IF evicts THEN do_evict_peer(n, i) ELSE UNCHANGED <<m_peers, evicted>>
  /\ inbox' = Took(m, n)

\* handle_default_err_reply_request: logged, and the request stays in the table.
reply_err(m, n) ==
  /\ inbox' = Took(m, n)
  /\ UNCHANGED <<m_peers, m_eviction_issues, m_ask_evict_requests, evicted>>

\* ready at n, for one message of m: a connection m_closed on is not read again.
Handle(m, n) ==
  /\ m \in m_peers[n] /\ inbox[<<m, n>>] # <<>>
  /\ LET msg == Head(inbox[<<m, n>>]) IN
       \/ msg.op = "ASK_EVICT" /\ post_request_ask_evict(m, n, msg.issue)
       \/ msg.op = "OK" /\ reply_request_ask_evict(m, n, msg.issue, msg.opinion)
       \/ msg.op = "ERR" /\ reply_err(m, n)
  /\ UNCHANGED <<behaviour_score, last_pulse, raising, lost>>

\* remove_client and forget_peer at n, for a connection that m closed.
remove_client(m, n) ==
  /\ m \in m_peers[n] /\ n \notin m_peers[m]
  /\ m_peers' = [m_peers EXCEPT ![n] = @ \ {m}]
  /\ inbox' = [inbox EXCEPT ![<<m, n>>] = <<>>, ![<<n, m>>] = <<>>]
  /\ UNCHANGED <<behaviour_score, last_pulse, m_eviction_issues, m_ask_evict_requests,
                 raising, evicted, lost>>

\* External: the network breaks a connection, and m sees it first.
ConnectionBreaks(m, n) ==
  /\ lost < setting.lost
  /\ n \in m_peers[m] /\ m \in m_peers[n]
  /\ lost' = lost + 1
  /\ m_peers' = [m_peers EXCEPT ![m] = @ \ {n}]
  /\ inbox' = [inbox EXCEPT ![<<n, m>>] = <<>>]
  /\ UNCHANGED <<behaviour_score, last_pulse, m_eviction_issues, m_ask_evict_requests,
                 raising, evicted>>

ENext ==
  /\ UNCHANGED setting
  /\ \E n \in setting.members :
    \/ begin_evict_process(n)
    \/ \E s \in Suspects \ {n} :
         \/ report_peer(n, s)
         \/ async_request_pulse(n, s)
         \/ TimePasses(n, s)
         \/ check_pulses(n, s)
    \/ \E m \in setting.members \ {n} :
         \/ Handle(m, n)
         \/ remove_client(m, n)
         \/ ConnectionBreaks(m, n)

ESpec == EInit /\ [][ENext]_evars

-----------------------------------------------------------------------------
Issues == [by : Nodes, peer_id : Suspects, reason : setting.reasons]

\* The shapes of the state; a question is asked of a peer other than the accused and
\* about a known issue (post_ask_evict_all), and nobody's vote is counted twice.
ETypeOK ==
  /\ \A n \in Nodes :
       /\ m_peers[n] \subseteq Nodes \ {n}
       /\ Known(n) \subseteq Issues
       /\ \A r \in m_ask_evict_requests[n] :
            r[1] \in Known(n) /\ r[2] \in setting.members \ {n, r[1].peer_id}
       /\ \A i \in Known(n) :
            /\ m_eviction_issues[n][i].verdict \in {"open", "out", "stays"}
            /\ m_eviction_issues[n][i].yes + m_eviction_issues[n][i].no \in 1 .. Cardinality(Nodes)
       /\ \A s \in Suspects :
            /\ last_pulse[n][s] \in {"fresh", "late", "silent"}
            /\ behaviour_score[n][s] \in 0 .. M_MAX_SCORE + report_score
       /\ raising[n] \subseteq Suspects
  /\ evicted \subseteq Nodes \X Issues
  /\ lost \in 0 .. setting.lost

\* Whoever is accused, for whatever reason, is the same peer.
OneAccused == \A i, j \in Raised : i.peer_id = j.peer_id

\* get_eviction_issue keeps the opinion an issue was first met with: in a mesh no
\* connection was lost from, while one peer is accused, however the questions cross and
\* whatever it does meanwhile, no server keeps it on the same issue another puts it
\* out on. (With several accused, servers that have put out different ones count
\* different majorities.)
VerdictsAgree ==
  (lost = 0 /\ OneAccused) =>
    \A n, m \in Nodes : \A i \in Known(n) \intersect Known(m) :
      ~(m_eviction_issues[n][i].verdict = "out" /\ m_eviction_issues[m][i].verdict = "stays")

\* try_resolve_issue: nobody is put out on one server's word. Whoever evicts was told
\* so by a server that formed the same opinion on its own, connections lost or not.
EvictionBacked ==
  \A e \in evicted :
    \E n, m \in Nodes \ {e[2].peer_id} :
      /\ n # m
      /\ \A k \in {n, m} : e[2] \in Known(k) /\ m_eviction_issues[k][e[2]].self_opinion

\* post_ask_evict_all, try_resolve_issue: in a mesh no connection was lost from, while
\* one peer is accused, once every question is answered, an issue left open at a server
\* that still has the accused is one it had nobody to ask about, one the judges were
\* evenly split on, or one that came after somebody had put the accused out on another
\* issue and could only answer with an error.
OpenWhenQuiet ==
  /\ lost = 0 /\ OneAccused
  /\ \A m, n \in setting.members : m \in m_peers[n] => inbox[<<m, n>>] = <<>>
  => \A n \in setting.members : \A i \in Known(n) :
      (m_eviction_issues[n][i].verdict = "open" /\ i.peer_id \in m_peers[n]) =>
        \/ setting.members = {n, i.peer_id}
        \/ 2 * m_eviction_issues[n][i].yes = Cardinality(setting.members \ {i.peer_id})
        \/ \E e \in evicted : e[2] # i /\ e[2].peer_id = i.peer_id
=================================================================================
