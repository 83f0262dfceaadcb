--------------------------- MODULE EvictionProofs ---------------------------
(***************************************************************************)
(* Proofs about Eviction, for any servers, suspects, scores and number of  *)
(* issues and of broken connections.                                       *)
(***************************************************************************)
EXTENDS Eviction, FiniteSetTheorems, TLAPS

Issue == [by : Nodes, peer_id : Suspects, reason : {"misbehaving", "dead"}]
Message == [op : {"ASK_EVICT", "OK", "ERR"}, issue : Issue, opinion : BOOLEAN]
Vote == [self_opinion : BOOLEAN, verdict : {"open", "out", "stays"},
         yes : Nat, no : Nat, expected : Nat]

-----------------------------------------------------------------------------
(* About the issues F that the servers know *)

Opines(F, m, i) == i \in DOMAIN F[m] /\ F[m][i].self_opinion

\* Two servers other than the accused are of that opinion.
Backed(F, i) ==
  \E a, b \in Nodes \ {i.peer_id} : a # b /\ Opines(F, a, i) /\ Opines(F, b, i)

\* A message g from m to n: the accused is not asked, an answer is its sender's
\* own opinion, and an issue is known to the server that raised it.
GoodMessage(F, m, n, g) ==
  /\ g.op = "ASK_EVICT" =>
       g = Ask(g.issue) /\ n # g.issue.peer_id /\ g.issue \in DOMAIN F[g.issue.by]
  /\ g.op = "OK" =>
       m # g.issue.peer_id /\ g.issue \in DOMAIN F[m] /\ g.opinion = F[m][g.issue].self_opinion

GoodInbox(F, B) ==
  /\ B \in [Nodes \X Nodes -> Seq(Message)]
  /\ \A m, n \in Nodes : \A k \in 1 .. Len(B[<<m, n>>]) : GoodMessage(F, m, n, B[<<m, n>>][k])

GoodIssues(F) ==
  /\ F \in [Nodes -> UNION {[K -> Vote] : K \in SUBSET Issue}]
  /\ \A n \in Nodes : \A i \in DOMAIN F[n] : n # i.peer_id /\ i \in DOMAIN F[i.by]

\* The opinions n has counted on i, given those it still waits for (R): the first
\* is its own or a peer's, and two of them are two servers'.
Counted(F, R, n, i) ==
  /\ F[n][i].yes >= 1 =>
       \/ F[n][i].self_opinion
       \/ \E m \in Nodes \ {n, i.peer_id} : Opines(F, m, i) /\ <<i, m>> \notin R
  /\ F[n][i].yes >= 2 => Backed(F, i)

GoodVotes(F, R) == \A n \in Nodes : \A i \in DOMAIN F[n] : Counted(F, R[n], n, i)

\* Whom n waits for: while it has the accused, one opinion is not enough for it.
GoodRequests(F, R, P) ==
  /\ R \in [Nodes -> SUBSET (Issue \X Nodes)]
  /\ \A n \in Nodes : \A i \in Issue, m \in Nodes :
       <<i, m>> \in R[n] =>
         i \in DOMAIN F[n] /\ (i.peer_id \in P[n] => F[n][i].expected >= 2)

\* An issue about to be raised is not known yet.
GoodRaising(F, S) ==
  /\ S \in [Nodes -> SUBSET Suspects]
  /\ \A n \in Nodes : \A s \in S[n] :
       s # n /\ [by |-> n, peer_id |-> s, reason |-> "dead"] \notin DOMAIN F[n]

\* Every eviction was backed when it was made, and opinions do not change.
IInv ==
  /\ setting \in Settings
  /\ m_peers \in [Nodes -> SUBSET Nodes]
  /\ GoodIssues(m_eviction_issues)
  /\ GoodInbox(m_eviction_issues, inbox)
  /\ GoodVotes(m_eviction_issues, m_ask_evict_requests)
  /\ GoodRequests(m_eviction_issues, m_ask_evict_requests, m_peers)
  /\ GoodRaising(m_eviction_issues, raising)
  /\ \A e \in evicted : Backed(m_eviction_issues, e[2])

-----------------------------------------------------------------------------
(* Messages *)

LEMMA AppendIs ==
  ASSUME NEW S, NEW s \in Seq(S), NEW x \in S
  PROVE  /\ Append(s, x) \in Seq(S) /\ Len(Append(s, x)) = Len(s) + 1
         /\ \A k \in 1 .. Len(s) + 1 : Append(s, x)[k] = IF k = Len(s) + 1 THEN x ELSE s[k]
OBVIOUS

LEMMA TailIs ==
  ASSUME NEW S, NEW s \in Seq(S), s # <<>>
  PROVE  /\ Tail(s) \in Seq(S) /\ Len(s) \in Nat /\ Len(s) # 0 /\ Len(Tail(s)) = Len(s) - 1
         /\ \A k \in 1 .. Len(s) - 1 : Tail(s)[k] = s[k + 1]
         /\ Head(s) \in S /\ Head(s) = s[1]
OBVIOUS

LEMMA ElementIs ==
  ASSUME NEW S, NEW s \in Seq(S), NEW k \in 1 .. Len(s)
  PROVE  s[k] \in S
OBVIOUS

LEMMA Appended ==
  ASSUME NEW F, NEW B, GoodInbox(F, B), NEW m \in Nodes, NEW n \in Nodes, NEW g \in Message,
         GoodMessage(F, m, n, g)
  PROVE  GoodInbox(F, [B EXCEPT ![<<m, n>>] = Append(@, g)])
<1> DEFINE C == [B EXCEPT ![<<m, n>>] = Append(@, g)]
<1>1. C \in [Nodes \X Nodes -> Seq(Message)] BY DEF GoodInbox
<1>2. ASSUME NEW x \in Nodes, NEW y \in Nodes, NEW k \in 1 .. Len(C[<<x, y>>])
      PROVE  GoodMessage(F, x, y, C[<<x, y>>][k])
  <2>0. <<x, y>> \in Nodes \X Nodes /\ B[<<x, y>>] \in Seq(Message) BY Zenon DEF GoodInbox
  <2>1. CASE <<x, y>> = <<m, n>>
    <3>1. C[<<x, y>>] = Append(B[<<x, y>>], g) /\ x = m /\ y = n BY <2>0, <2>1, Zenon DEF GoodInbox
    <3>2. CASE k = Len(B[<<x, y>>]) + 1 BY <2>0, <3>1, <3>2
    <3>3. CASE k # Len(B[<<x, y>>]) + 1
      <4>1. k \in 1 .. Len(B[<<x, y>>]) /\ C[<<x, y>>][k] = B[<<x, y>>][k]
        BY <2>0, <3>1, <3>3
      <4> QED BY <4>1, Zenon DEF GoodInbox
    <3> QED BY <3>2, <3>3, Zenon
  <2>2. CASE <<x, y>> # <<m, n>>
    <3>1. C[<<x, y>>] = B[<<x, y>>] BY <2>0, <2>2, Zenon DEF GoodInbox
    <3> QED BY <1>2, <3>1, Zenon DEF GoodInbox
  <2> QED BY <2>1, <2>2, Zenon
<1> HIDE DEF C
<1> QED BY <1>1, <1>2, Zenon DEF GoodInbox, C

LEMMA Taken ==
  ASSUME NEW F, NEW B, GoodInbox(F, B), NEW m \in Nodes, NEW n \in Nodes, B[<<m, n>>] # <<>>
  PROVE  GoodInbox(F, [B EXCEPT ![<<m, n>>] = Tail(@)])
<1> DEFINE C == [B EXCEPT ![<<m, n>>] = Tail(@)]
<1>0. B[<<m, n>>] \in Seq(Message) BY Zenon DEF GoodInbox
<1>1. C \in [Nodes \X Nodes -> Seq(Message)] BY <1>0 DEF GoodInbox
<1>2. ASSUME NEW x \in Nodes, NEW y \in Nodes, NEW k \in 1 .. Len(C[<<x, y>>])
      PROVE  GoodMessage(F, x, y, C[<<x, y>>][k])
  <2>0. <<x, y>> \in Nodes \X Nodes /\ B[<<x, y>>] \in Seq(Message) BY Zenon DEF GoodInbox
  <2>1. CASE <<x, y>> = <<m, n>>
    <3>1. C[<<x, y>>] = Tail(B[<<x, y>>]) /\ B[<<x, y>>] # <<>> BY <2>0, <2>1, Zenon DEF GoodInbox
    <3> DEFINE b == B[<<x, y>>]
               c == C[<<x, y>>]
    <3>a. c = Tail(b) /\ Len(b) \in Nat /\ b \in Seq(Message) /\ b # <<>> BY <2>0, <3>1
    <3>b. k \in 1 .. Len(c) BY <1>2, Zenon
    <3> HIDE DEF b, c, C
    <3>c. Len(c) = Len(b) - 1 /\ \A j \in 1 .. Len(c) : c[j] = b[j + 1]
      BY <3>a, TailIs, Zenon
    <3>d. k + 1 \in 1 .. Len(b) /\ c[k] = b[k + 1] BY <3>a, <3>b, <3>c
    <3>2. k + 1 \in 1 .. Len(B[<<x, y>>]) /\ C[<<x, y>>][k] = B[<<x, y>>][k + 1]
      BY <3>d, Zenon DEF b, c
    <3> QED BY <3>2, Zenon DEF GoodInbox
  <2>2. CASE <<x, y>> # <<m, n>>
    <3>1. C[<<x, y>>] = B[<<x, y>>] BY <2>0, <2>2, Zenon DEF GoodInbox
    <3> QED BY <1>2, <3>1, Zenon DEF GoodInbox
  <2> QED BY <2>1, <2>2, Zenon
<1> HIDE DEF C
<1> QED BY <1>1, <1>2, Zenon DEF GoodInbox, C

LEMMA Emptied ==
  ASSUME NEW F, NEW B, GoodInbox(F, B), NEW m \in Nodes, NEW n \in Nodes
  PROVE  GoodInbox(F, [B EXCEPT ![<<m, n>>] = <<>>])
<1> DEFINE C == [B EXCEPT ![<<m, n>>] = <<>>]
<1>1. C \in [Nodes \X Nodes -> Seq(Message)] BY DEF GoodInbox
<1>2. \A x, y \in Nodes : C[<<x, y>>] = <<>> \/ C[<<x, y>>] = B[<<x, y>>] BY Zenon DEF GoodInbox
<1> HIDE DEF C
<1> QED BY <1>1, <1>2 DEF GoodInbox, C

-----------------------------------------------------------------------------
(* Opinions are kept *)

\* G is F with more issues, and the same opinions on those of F.
Extends(F, G) ==
  \A m \in Nodes : \A i \in DOMAIN F[m] :
    i \in DOMAIN G[m] /\ G[m][i].self_opinion = F[m][i].self_opinion

LEMMA KeptBacking ==
  ASSUME NEW F, NEW G, Extends(F, G), NEW i, Backed(F, i)
  PROVE  Backed(G, i)
BY Zenon DEF Extends, Backed, Opines

LEMMA KeptInbox ==
  ASSUME NEW F, NEW G, Extends(F, G), NEW B, GoodInbox(F, B)
  PROVE  GoodInbox(G, B)
<1> SUFFICES ASSUME NEW m \in Nodes, NEW n \in Nodes, NEW k \in 1 .. Len(B[<<m, n>>])
             PROVE  GoodMessage(G, m, n, B[<<m, n>>][k])
  BY Zenon DEF GoodInbox
<1> DEFINE g == B[<<m, n>>][k]
<1>1. GoodMessage(F, m, n, g) BY Zenon DEF GoodInbox
<1>2. g \in Message
  <2>1. B[<<m, n>>] \in Seq(Message) BY Zenon DEF GoodInbox
  <2> QED BY <2>1, ElementIs, Zenon
<1> HIDE DEF g
<1>3. g.issue.by \in Nodes BY <1>2, Zenon DEF Message, Issue
<1>4. GoodMessage(G, m, n, g) BY <1>1, <1>3, Zenon DEF GoodMessage, Opines, Extends
<1> QED BY <1>4, Zenon DEF g

LEMMA Peers ==
  ASSUME NEW S \in SUBSET Nodes
  PROVE  /\ Cardinality(S) \in Nat
         /\ \A a, b \in S : a # b => Cardinality(S) >= 2
<1>1. IsFiniteSet(S) BY EvictionAssumption, FS_Subset, Zenon
<1>2. Cardinality(S) \in Nat BY <1>1, FS_CardinalityType, Zenon
<1>3. ASSUME NEW a \in S, NEW b \in S, a # b PROVE Cardinality(S) >= 2
  <2>1. IsFiniteSet(S \ {a}) /\ Cardinality(S \ {a}) = Cardinality(S) - 1
    BY <1>1, FS_RemoveElement, Zenon
  <2>2. Cardinality(S \ {a}) \in Nat /\ Cardinality(S \ {a}) # 0
    <3>1. b \in S \ {a} BY <1>3, Zenon
    <3> QED BY <2>1, <3>1, FS_CardinalityType, FS_EmptySet, Zenon
  <2> QED BY <1>2, <2>1, <2>2
<1> QED BY <1>2, <1>3, Zenon

-----------------------------------------------------------------------------
(* Steps by what they change *)

\* The issues, the questions and the evictions stay; peers may go, and the messages
\* are good ones.
LEMMA QuietKeeps ==
  ASSUME IInv, setting' = setting,
         UNCHANGED <<m_eviction_issues, m_ask_evict_requests, evicted>>,
         m_peers' \in [Nodes -> SUBSET Nodes], \A n \in Nodes : m_peers'[n] \subseteq m_peers[n],
         GoodInbox(m_eviction_issues, inbox'), GoodRaising(m_eviction_issues, raising')
  PROVE  IInv'
<1>1. GoodRequests(m_eviction_issues, m_ask_evict_requests, m_peers')
  BY Zenon DEF IInv, GoodRequests
<1> QED BY <1>1, Zenon DEF IInv

\* An issue that n did not know.
LEMMA NewIssue ==
  ASSUME IInv, NEW n \in Nodes, NEW i \in Issue, NEW op \in BOOLEAN, i \notin Known(n),
         n # i.peer_id, i.by = n \/ i \in Known(i.by),
         insert_eviction_issue(n, i, op)
  PROVE  LET F == m_eviction_issues
             G == m_eviction_issues' IN
         /\ Extends(F, G) /\ GoodIssues(G)
         /\ \A x \in Nodes \ {n} : G[x] = F[x]
         /\ DOMAIN G[n] = DOMAIN F[n] \union {i}
         /\ \A j \in DOMAIN F[n] : G[n][j] = F[n][j]
         /\ G[n][i].self_opinion = op
         /\ G[n][i].yes = IF op THEN 1 ELSE 0
         /\ G[n][i].expected = Cardinality(m_peers[n]) \div 2 + 1
<1> DEFINE F == m_eviction_issues
           G == m_eviction_issues'
           rec == [self_opinion |-> op, verdict |-> "open",
                   yes |-> IF op THEN 1 ELSE 0, no |-> IF op THEN 0 ELSE 1,
                   expected |-> Cardinality(m_peers[n]) \div 2 + 1]
           new == [j \in DOMAIN F[n] \union {i} |-> IF j = i THEN rec ELSE F[n][j]]
<1>1. G = [F EXCEPT ![n] = new] BY Zenon DEF insert_eviction_issue
<1>2. rec \in Vote
  <2>1. m_peers[n] \in SUBSET Nodes BY Zenon DEF IInv
  <2>2. Cardinality(m_peers[n]) \div 2 + 1 \in Nat BY <2>1, Peers
  <2> QED BY <2>2, Zenon DEF Vote
<1>3. /\ rec.self_opinion = op /\ rec.yes = IF op THEN 1 ELSE 0
      /\ rec.expected = Cardinality(m_peers[n]) \div 2 + 1
  BY Zenon
<1> HIDE DEF rec
<1>4. /\ F \in [Nodes -> UNION {[K -> Vote] : K \in SUBSET Issue}]
      /\ DOMAIN F[n] \subseteq Issue /\ \A j \in DOMAIN F[n] : F[n][j] \in Vote
  BY DEF IInv, GoodIssues
<1>5. /\ \A x \in Nodes \ {n} : G[x] = F[x]
      /\ G[n] = new
  BY <1>1, <1>4, Zenon
<1>6. /\ DOMAIN new = DOMAIN F[n] \union {i} /\ new[i] = rec
      /\ \A j \in DOMAIN F[n] : new[j] = F[n][j]
  BY Zenon DEF Known
<1>7. G \in [Nodes -> UNION {[K -> Vote] : K \in SUBSET Issue}]
  <2>1. DOMAIN F[n] \union {i} \in SUBSET Issue BY <1>4, Zenon
  <2>2. new \in [DOMAIN F[n] \union {i} -> Vote] BY <1>2, <1>4, Zenon
  <2>3. new \in UNION {[K -> Vote] : K \in SUBSET Issue} BY <2>1, <2>2, Zenon
  <2> HIDE DEF new
  <2> QED BY <1>1, <1>4, <2>3, Zenon
<1> HIDE DEF new, G
<1>8. Extends(F, G) BY <1>5, <1>6, Zenon DEF Extends
<1>9. \A x \in Nodes : \A j \in DOMAIN G[x] : x # j.peer_id /\ j \in DOMAIN G[j.by]
  <2> SUFFICES ASSUME NEW x \in Nodes, NEW j \in DOMAIN G[x]
               PROVE  x # j.peer_id /\ j \in DOMAIN G[j.by]
    BY Zenon
  <2>1. CASE x = n /\ j = i
    <3>1. i.by \in Nodes BY Zenon DEF Issue
    <3> QED BY <1>5, <1>6, <2>1, <3>1, Zenon DEF Known
  <2>2. CASE ~(x = n /\ j = i)
    <3>1. j \in DOMAIN F[x] BY <1>5, <1>6, <2>2, Zenon
    <3>2. x # j.peer_id /\ j \in DOMAIN F[j.by] /\ j \in Issue
      BY <3>1 DEF IInv, GoodIssues
    <3>3. j.by \in Nodes BY <3>2, Zenon DEF Issue
    <3> QED BY <1>8, <3>2, <3>3, Zenon DEF Extends
  <2> QED BY <2>1, <2>2, Zenon
<1> QED BY <1>3, <1>5, <1>6, <1>7, <1>8, <1>9, Zenon DEF GoodIssues, G

\* The questions that go out with it.
LEMMA AskedAll ==
  ASSUME NEW F, NEW msgs, GoodInbox(F, msgs), NEW n \in Nodes, NEW i \in Issue,
         i \in DOMAIN F[i.by], post_ask_evict_all(n, i, msgs)
  PROVE  GoodInbox(F, inbox')
<1>1. Ask(i) \in Message /\ Ask(i).op = "ASK_EVICT" /\ Ask(i).issue = i
  BY Zenon DEF Ask, Message
<1>2. inbox' = [l \in Nodes \X Nodes |->
                  IF l[1] = n /\ l[2] \in m_peers[n] \ {i.peer_id} THEN Append(msgs[l], Ask(i))
                  ELSE msgs[l]]
  BY Zenon DEF post_ask_evict_all
<1>3. inbox' \in [Nodes \X Nodes -> Seq(Message)]
  <2>1. \A l \in Nodes \X Nodes : msgs[l] \in Seq(Message) /\ Append(msgs[l], Ask(i)) \in Seq(Message)
    BY <1>1, AppendIs, Zenon DEF GoodInbox
  <2> QED BY <1>2, <2>1, Zenon
<1>4. ASSUME NEW x \in Nodes, NEW y \in Nodes, NEW k \in 1 .. Len(inbox'[<<x, y>>])
      PROVE  GoodMessage(F, x, y, inbox'[<<x, y>>][k])
  <2> DEFINE b == msgs[<<x, y>>]
             c == inbox'[<<x, y>>]
  <2>0. b \in Seq(Message) /\ Len(b) \in Nat BY DEF GoodInbox
  <2>1. \A j \in 1 .. Len(b) : GoodMessage(F, x, y, b[j]) BY Zenon DEF GoodInbox
  <2>2. c = b \/ (c = Append(b, Ask(i)) /\ y # i.peer_id) BY <1>2, Zenon
  <2> HIDE DEF b, c
  <2>3. CASE c = b BY <1>4, <2>1, <2>3, Zenon DEF c
  <2>4. CASE c = Append(b, Ask(i)) /\ y # i.peer_id
    <3>1. k \in 1 .. Len(b) + 1 /\ c[k] = IF k = Len(b) + 1 THEN Ask(i) ELSE b[k]
      <4>1. Len(c) = Len(b) + 1 BY <1>1, <2>0, <2>4, AppendIs
      <4>2. k \in 1 .. Len(b) + 1 BY <1>4, <4>1, Zenon DEF c
      <4> QED BY <1>1, <2>0, <2>4, <4>2, AppendIs
    <3>2. GoodMessage(F, x, y, Ask(i)) BY <1>1, <2>4, Zenon DEF GoodMessage
    <3>3. GoodMessage(F, x, y, c[k])
      <4>1. CASE k = Len(b) + 1 BY <3>1, <3>2, <4>1, Zenon
      <4>2. CASE k # Len(b) + 1
        <5>1. k \in 1 .. Len(b) BY <2>0, <3>1, <4>2
        <5> QED BY <2>1, <3>1, <4>2, <5>1, Zenon
      <4> QED BY <4>1, <4>2, Zenon
    <3> QED BY <3>3, Zenon DEF c
  <2> QED BY <2>2, <2>3, <2>4, Zenon
<1> QED BY <1>3, <1>4, Zenon DEF GoodInbox

LEMMA InsertKeeps ==
  ASSUME IInv, NEW n \in Nodes, NEW i \in Issue, NEW op \in BOOLEAN, i \notin Known(n),
         n # i.peer_id, i.by = n \/ i \in Known(i.by),
         insert_eviction_issue(n, i, op),
         NEW msgs, GoodInbox(m_eviction_issues', msgs), post_ask_evict_all(n, i, msgs),
         UNCHANGED <<setting, m_peers, evicted>>,
         raising' \in [Nodes -> SUBSET Suspects],
         \A x \in Nodes : raising'[x] \subseteq raising[x],
         \A s \in raising'[n] : i # [by |-> n, peer_id |-> s, reason |-> "dead"]
  PROVE  IInv'
<1> DEFINE F == m_eviction_issues
           G == m_eviction_issues'
           R == m_ask_evict_requests
           Q == m_ask_evict_requests'
<1>1. /\ Extends(F, G) /\ GoodIssues(G)
      /\ \A x \in Nodes \ {n} : G[x] = F[x]
      /\ DOMAIN G[n] = DOMAIN F[n] \union {i}
      /\ \A j \in DOMAIN F[n] : G[n][j] = F[n][j]
      /\ G[n][i].self_opinion = op
      /\ G[n][i].yes = IF op THEN 1 ELSE 0
      /\ G[n][i].expected = Cardinality(m_peers[n]) \div 2 + 1
  BY NewIssue, Zenon
<1> HIDE DEF G
<1>2. GoodInbox(G, inbox')
  <2>1. i.by \in Nodes BY Zenon DEF Issue
  <2>2. i \in DOMAIN G[i.by] BY <1>1, <2>1, Zenon DEF Extends, Known
  <2> QED BY <2>2, AskedAll, Zenon DEF G
<1>3. R \in [Nodes -> SUBSET (Issue \X Nodes)] BY Zenon DEF IInv, GoodRequests
<1>4. m_peers[n] \in SUBSET Nodes BY Zenon DEF IInv
<1>5. Q = [R EXCEPT ![n] = @ \union {<<i, p>> : p \in m_peers[n] \ {i.peer_id}}]
  BY Zenon DEF post_ask_evict_all
<1>6. /\ Q \in [Nodes -> SUBSET (Issue \X Nodes)]
      /\ \A x \in Nodes \ {n} : Q[x] = R[x]
      /\ Q[n] = R[n] \union {<<i, p>> : p \in m_peers[n] \ {i.peer_id}}
  BY <1>3, <1>4, <1>5
<1> HIDE DEF Q
<1>7. GoodVotes(G, Q)
  <2> SUFFICES ASSUME NEW x \in Nodes, NEW j \in DOMAIN G[x] PROVE Counted(G, Q[x], x, j)
    BY Zenon DEF GoodVotes
  <2>1. CASE x = n /\ j = i
    <3>1. G[n][i].yes >= 1 => G[n][i].self_opinion BY <1>1
    <3>2. ~(G[n][i].yes >= 2) BY <1>1
    <3> QED BY <2>1, <3>1, <3>2, Zenon DEF Counted
  <2>2. CASE ~(x = n /\ j = i)
    <3>1. j \in DOMAIN F[x] /\ G[x][j] = F[x][j] BY <1>1, <2>2
    <3>2. Counted(F, R[x], x, j) BY <3>1, Zenon DEF IInv, GoodVotes
    <3>3. \A m \in Nodes : <<j, m>> \notin R[x] => <<j, m>> \notin Q[x] BY <1>6, <2>2
    <3>4. F[x][j].yes >= 2 => Backed(G, j) BY <1>1, <3>2, KeptBacking, Zenon DEF Counted
    <3>5. \A m \in Nodes : Opines(F, m, j) => Opines(G, m, j) BY <1>1 DEF Opines, Extends
    <3> QED BY <3>1, <3>2, <3>3, <3>4, <3>5, Zenon DEF Counted
  <2> QED BY <2>1, <2>2, Zenon
<1>8. GoodRequests(G, Q, m_peers)
  <2> SUFFICES ASSUME NEW x \in Nodes, NEW j \in Issue, NEW m \in Nodes, <<j, m>> \in Q[x]
               PROVE  j \in DOMAIN G[x] /\ (j.peer_id \in m_peers[x] => G[x][j].expected >= 2)
    BY <1>6, Zenon DEF GoodRequests
  <2>1. CASE <<j, m>> \in R[x]
    <3>1. j \in DOMAIN F[x] /\ (j.peer_id \in m_peers[x] => F[x][j].expected >= 2)
      BY <2>1, Zenon DEF IInv, GoodRequests
    <3>2. j \in DOMAIN G[x] /\ G[x][j] = F[x][j] BY <1>1, <3>1, Zenon
    <3> QED BY <3>1, <3>2, Zenon
  <2>2. CASE <<j, m>> \notin R[x]
    <3>1. x = n /\ j = i /\ m \in m_peers[n] \ {i.peer_id} BY <1>6, <2>2
    <3>2. i.peer_id \in m_peers[n] => Cardinality(m_peers[n]) >= 2 BY <1>4, <3>1, Peers, Zenon
    <3>3. Cardinality(m_peers[n]) \in Nat BY <1>4, Peers, Zenon
    <3> QED BY <1>1, <3>1, <3>2, <3>3
  <2> QED BY <2>1, <2>2, Zenon
<1>9. GoodRaising(G, raising')
  <2> SUFFICES ASSUME NEW x \in Nodes, NEW s \in raising'[x]
               PROVE  s # x /\ [by |-> x, peer_id |-> s, reason |-> "dead"] \notin DOMAIN G[x]
    BY Zenon DEF GoodRaising
  <2>1. s # x /\ [by |-> x, peer_id |-> s, reason |-> "dead"] \notin DOMAIN F[x]
    BY Zenon DEF IInv, GoodRaising
  <2> QED BY <1>1, <2>1
<1>10. \A e \in evicted' : Backed(G, e[2]) BY <1>1, KeptBacking DEF IInv
<1> QED BY <1>1, <1>2, <1>7, <1>8, <1>9, <1>10, Zenon DEF IInv, G, Q

\* try_resolve_issue changes the verdict alone, and only for enough opinions.
LEMMA Resolving ==
  ASSUME NEW v \in Vote
  PROVE  LET w == try_resolve_issue(v) IN
         /\ w \in Vote /\ w.self_opinion = v.self_opinion
         /\ w.yes = v.yes /\ w.no = v.no /\ w.expected = v.expected
         /\ v.verdict # "open" => w.verdict = v.verdict
         /\ v.verdict = "open" /\ w.verdict = "out" => v.yes >= v.expected
         /\ v.verdict = "open" /\ w.verdict = "stays" => v.no >= v.expected
         /\ w.verdict = "open" => v.yes < v.expected /\ v.no < v.expected
BY DEF try_resolve_issue, resolve_issue, Vote

LEMMA Counting ==
  ASSUME NEW v \in Vote, NEW opinion \in BOOLEAN
  PROVE  LET w == IF opinion THEN [v EXCEPT !.yes = @ + 1] ELSE [v EXCEPT !.no = @ + 1] IN
         /\ w \in Vote /\ w.self_opinion = v.self_opinion
         /\ w.yes = (IF opinion THEN v.yes + 1 ELSE v.yes)
         /\ w.no = (IF opinion THEN v.no ELSE v.no + 1)
         /\ w.expected = v.expected /\ w.verdict = v.verdict
<1>1. v.yes + 1 \in Nat /\ v.no + 1 \in Nat BY DEF Vote
<1>2. CASE opinion
  <2> DEFINE w == [v EXCEPT !.yes = @ + 1]
  <2>1. w \in Vote /\ w.self_opinion = v.self_opinion BY <1>1, Zenon DEF Vote
  <2>2. w.yes = v.yes + 1 /\ w.no = v.no BY Zenon DEF Vote
  <2>3. w.expected = v.expected /\ w.verdict = v.verdict BY Zenon DEF Vote
  <2> HIDE DEF w
  <2>4. w = IF opinion THEN [v EXCEPT !.yes = @ + 1] ELSE [v EXCEPT !.no = @ + 1]
    BY <1>2, Zenon DEF w
  <2> QED BY <1>2, <2>1, <2>2, <2>3, <2>4, Zenon
<1>3. CASE ~opinion
  <2> DEFINE w == [v EXCEPT !.no = @ + 1]
  <2>1. w \in Vote /\ w.self_opinion = v.self_opinion BY <1>1, Zenon DEF Vote
  <2>2. w.yes = v.yes /\ w.no = v.no + 1 BY Zenon DEF Vote
  <2>3. w.expected = v.expected /\ w.verdict = v.verdict BY Zenon DEF Vote
  <2> HIDE DEF w
  <2>4. w = IF opinion THEN [v EXCEPT !.yes = @ + 1] ELSE [v EXCEPT !.no = @ + 1]
    BY <1>3, Zenon DEF w
  <2> QED BY <1>3, <2>1, <2>2, <2>3, <2>4, Zenon
<1> QED BY <1>2, <1>3, Zenon

\* What the opinion of m does to the issue i of n, which asked for it.
Replied(m, n, i, opinion) ==
  LET F == m_eviction_issues
      G == m_eviction_issues'
      R == m_ask_evict_requests
      Q == m_ask_evict_requests' IN
  /\ i \in DOMAIN F[n] /\ <<i, m>> \in R[n] /\ inbox' = Took(m, n)
  /\ Q \in [Nodes -> SUBSET (Issue \X Nodes)] /\ Q[n] = R[n] \ {<<i, m>>}
  /\ \A x \in Nodes \ {n} : Q[x] = R[x]
  /\ G \in [Nodes -> UNION {[K -> Vote] : K \in SUBSET Issue}]
  /\ \A x \in Nodes : DOMAIN G[x] = DOMAIN F[x]
  /\ \A x \in Nodes : \A j \in DOMAIN F[x] : ~(x = n /\ j = i) => G[x][j] = F[x][j]
  /\ F[n][i] \in Vote /\ G[n][i] \in Vote
  /\ G[n][i].self_opinion = F[n][i].self_opinion
  /\ G[n][i].yes = IF opinion THEN F[n][i].yes + 1 ELSE F[n][i].yes
  /\ G[n][i].no = IF opinion THEN F[n][i].no ELSE F[n][i].no + 1
  /\ G[n][i].expected = F[n][i].expected
  /\ F[n][i].verdict # "open" => G[n][i].verdict = F[n][i].verdict
  /\ F[n][i].verdict = "open" /\ G[n][i].verdict = "out" => G[n][i].yes >= G[n][i].expected
  /\ F[n][i].verdict = "open" /\ G[n][i].verdict = "stays" => G[n][i].no >= G[n][i].expected
  /\ G[n][i].verdict = "open" =>
       G[n][i].yes < G[n][i].expected /\ G[n][i].no < G[n][i].expected
  /\ \/ UNCHANGED <<m_peers, evicted>>
     \/ /\ F[n][i].verdict = "open" /\ G[n][i].verdict = "out" /\ i.peer_id \in m_peers[n]
        /\ do_evict_peer(n, i)

LEMMA ReplyIs ==
  ASSUME IInv, NEW m \in Nodes, NEW n \in Nodes, NEW i \in Issue, NEW opinion \in BOOLEAN,
         reply_request_ask_evict(m, n, i, opinion)
  PROVE  Replied(m, n, i, opinion)
<1> DEFINE F == m_eviction_issues
           G == m_eviction_issues'
           R == m_ask_evict_requests
           Q == m_ask_evict_requests'
           issue == F[n][i]
           counted == IF opinion THEN [issue EXCEPT !.yes = @ + 1] ELSE [issue EXCEPT !.no = @ + 1]
           resolved == try_resolve_issue(counted)
<1>1. /\ <<i, m>> \in R[n] /\ Q = [R EXCEPT ![n] = @ \ {<<i, m>>}]
      /\ G = [F EXCEPT ![n][i] = resolved]
      /\ inbox' = Took(m, n)
      /\ \/ UNCHANGED <<m_peers, evicted>>
         \/ /\ issue.verdict = "open" /\ resolved.verdict = "out" /\ i.peer_id \in m_peers[n]
            /\ do_evict_peer(n, i)
  BY Zenon DEF reply_request_ask_evict, pop_ask_evict
<1>2. i \in DOMAIN F[n] /\ R \in [Nodes -> SUBSET (Issue \X Nodes)]
  BY <1>1, Zenon DEF IInv, GoodRequests
<1>3. /\ F \in [Nodes -> UNION {[K -> Vote] : K \in SUBSET Issue}] /\ issue \in Vote
      /\ DOMAIN F[n] \subseteq Issue /\ F[n] \in [DOMAIN F[n] -> Vote]
  BY <1>2 DEF IInv, GoodIssues
<1> HIDE DEF issue
<1>4. /\ counted \in Vote /\ counted.self_opinion = issue.self_opinion
      /\ counted.yes = (IF opinion THEN issue.yes + 1 ELSE issue.yes)
      /\ counted.no = (IF opinion THEN issue.no ELSE issue.no + 1)
      /\ counted.expected = issue.expected /\ counted.verdict = issue.verdict
  BY <1>3, Counting, Zenon
<1> HIDE DEF counted
<1>5. /\ resolved \in Vote /\ resolved.self_opinion = issue.self_opinion
      /\ resolved.yes = counted.yes /\ resolved.no = counted.no /\ resolved.expected = issue.expected
      /\ issue.verdict # "open" => resolved.verdict = issue.verdict
      /\ issue.verdict = "open" /\ resolved.verdict = "out" => resolved.yes >= resolved.expected
      /\ issue.verdict = "open" /\ resolved.verdict = "stays" => resolved.no >= resolved.expected
      /\ resolved.verdict = "open" => resolved.yes < resolved.expected /\ resolved.no < resolved.expected
  BY <1>4, Resolving, Zenon
<1> HIDE DEF resolved
<1>6. /\ G[n] = [F[n] EXCEPT ![i] = resolved]
      /\ \A x \in Nodes \ {n} : G[x] = F[x]
  BY <1>1, <1>3, Zenon
<1>7. /\ DOMAIN G[n] = DOMAIN F[n] /\ G[n][i] = resolved
      /\ \A j \in DOMAIN F[n] \ {i} : G[n][j] = F[n][j]
  BY <1>2, <1>3, <1>6, Zenon
<1>8. G \in [Nodes -> UNION {[K -> Vote] : K \in SUBSET Issue}]
  <2>1. [F[n] EXCEPT ![i] = resolved] \in [DOMAIN F[n] -> Vote] BY <1>2, <1>3, <1>5, Zenon
  <2>2. [F[n] EXCEPT ![i] = resolved] \in UNION {[K -> Vote] : K \in SUBSET Issue}
    BY <1>3, <2>1, Zenon
  <2>3. G = [F EXCEPT ![n] = [F[n] EXCEPT ![i] = resolved]] BY <1>1, Zenon
  <2> HIDE DEF G
  <2> QED BY <1>3, <2>2, <2>3, Zenon
<1> HIDE DEF G, Q
<1>9. /\ \A x \in Nodes : DOMAIN G[x] = DOMAIN F[x]
      /\ \A x \in Nodes : \A j \in DOMAIN F[x] : ~(x = n /\ j = i) => G[x][j] = F[x][j]
  BY <1>6, <1>7, Zenon
<1>10. /\ Q \in [Nodes -> SUBSET (Issue \X Nodes)] /\ Q[n] = R[n] \ {<<i, m>>}
       /\ \A x \in Nodes \ {n} : Q[x] = R[x]
  BY <1>1, <1>2, Zenon
<1>11. /\ G[n][i].self_opinion = F[n][i].self_opinion
       /\ G[n][i].yes = (IF opinion THEN F[n][i].yes + 1 ELSE F[n][i].yes)
       /\ G[n][i].no = (IF opinion THEN F[n][i].no ELSE F[n][i].no + 1)
       /\ G[n][i].expected = F[n][i].expected
  BY <1>4, <1>5, <1>7, Zenon DEF issue
<1>12. /\ F[n][i].verdict # "open" => G[n][i].verdict = F[n][i].verdict
       /\ F[n][i].verdict = "open" /\ G[n][i].verdict = "out" => G[n][i].yes >= G[n][i].expected
       /\ F[n][i].verdict = "open" /\ G[n][i].verdict = "stays" => G[n][i].no >= G[n][i].expected
       /\ G[n][i].verdict = "open" =>
            G[n][i].yes < G[n][i].expected /\ G[n][i].no < G[n][i].expected
  BY <1>5, <1>7, Zenon DEF issue
<1>13. \/ UNCHANGED <<m_peers, evicted>>
       \/ /\ F[n][i].verdict = "open" /\ G[n][i].verdict = "out" /\ i.peer_id \in m_peers[n]
          /\ do_evict_peer(n, i)
  BY <1>1, <1>7, Zenon DEF issue
<1>14. F[n][i] \in Vote /\ G[n][i] \in Vote BY <1>3, <1>5, <1>7, Zenon DEF issue
<1> QED BY <1>1, <1>2, <1>8, <1>9, <1>10, <1>11, <1>12, <1>13, <1>14, Zenon DEF G, Q, Replied

\* The opinion of m, which n has asked.
LEMMA ReplyKeeps ==
  ASSUME IInv, NEW m \in Nodes, NEW n \in Nodes, m # n, NEW i \in Issue, NEW opinion \in BOOLEAN,
         m # i.peer_id, opinion => Opines(m_eviction_issues, m, i),
         inbox[<<m, n>>] # <<>>,
         reply_request_ask_evict(m, n, i, opinion), UNCHANGED <<setting, raising>>
  PROVE  IInv'
<1> DEFINE F == m_eviction_issues
           G == m_eviction_issues'
           R == m_ask_evict_requests
           Q == m_ask_evict_requests'
           issue == F[n][i]
           resolved == G[n][i]
<1> HIDE DEF G, Q, issue, resolved
<1>0. Replied(m, n, i, opinion) BY ReplyIs, Zenon
<1>1. /\ i \in DOMAIN F[n] /\ <<i, m>> \in R[n] /\ inbox' = Took(m, n)
      /\ \/ UNCHANGED <<m_peers, evicted>>
         \/ /\ issue.verdict = "open" /\ resolved.verdict = "out" /\ i.peer_id \in m_peers[n]
            /\ do_evict_peer(n, i)
  BY <1>0, Zenon DEF Replied, G, issue, resolved
<1>2. /\ i \in DOMAIN F[n] /\ (i.peer_id \in m_peers[n] => issue.expected >= 2)
      /\ R \in [Nodes -> SUBSET (Issue \X Nodes)]
  BY <1>1, Zenon DEF IInv, GoodRequests, issue
<1>3. issue \in Vote /\ resolved \in Vote BY <1>0, Zenon DEF Replied, G, issue, resolved
<1>5. /\ resolved.self_opinion = issue.self_opinion
      /\ resolved.yes = (IF opinion THEN issue.yes + 1 ELSE issue.yes)
      /\ resolved.expected = issue.expected
      /\ issue.verdict = "open" /\ resolved.verdict = "out" => resolved.yes >= issue.expected
  BY <1>0, Zenon DEF Replied, G, issue, resolved
<1>7. /\ \A x \in Nodes : \A j \in DOMAIN F[x] : ~(x = n /\ j = i) => G[x][j] = F[x][j]
      /\ \A x \in Nodes : DOMAIN G[x] = DOMAIN F[x]
  BY <1>0, Zenon DEF Replied, G
<1>8. G \in [Nodes -> UNION {[K -> Vote] : K \in SUBSET Issue}] BY <1>0, Zenon DEF Replied, G
<1>9. Extends(F, G)
  BY <1>5, <1>7, Zenon DEF Extends, issue, resolved
<1>10. GoodIssues(G)
  <2>1. \A x \in Nodes : \A j \in DOMAIN F[x] : j.by \in Nodes BY DEF IInv, GoodIssues, Issue
  <2> QED BY <1>7, <1>8, <2>1, Zenon DEF IInv, GoodIssues
<1>11. GoodInbox(G, inbox')
  <2>1. GoodInbox(F, inbox') BY <1>1, Taken, Zenon DEF IInv, Took
  <2> QED BY <1>9, <2>1, KeptInbox, Zenon
<1>12. /\ Q \in [Nodes -> SUBSET (Issue \X Nodes)] /\ Q[n] = R[n] \ {<<i, m>>}
       /\ \A x \in Nodes \ {n} : Q[x] = R[x]
  BY <1>0, Zenon DEF Replied, Q
<1>13. \A x \in Nodes : \A j : Opines(F, x, j) => Opines(G, x, j) BY <1>9, Zenon DEF Opines, Extends
<1>14. n # i.peer_id /\ Counted(F, R[n], n, i) BY <1>2, Zenon DEF IInv, GoodIssues, GoodVotes
<1>15. Counted(G, Q[n], n, i)
  <2>1. CASE opinion
    <3>1. Opines(G, m, i) /\ <<i, m>> \notin Q[n] BY <1>12, <1>13, <2>1, Zenon
    <3>2. resolved.yes >= 2 => issue.yes >= 1 BY <1>3, <1>5, <2>1 DEF Vote
    <3>3. issue.yes >= 1 => Backed(G, i)
      <4>1. CASE issue.self_opinion
        <5>1. Opines(G, n, i) BY <1>2, <1>5, <1>7, <4>1, Zenon DEF Opines, resolved
        <5> QED BY <1>14, <3>1, <5>1, Zenon DEF Backed
      <4>2. CASE issue.yes >= 1 /\ ~issue.self_opinion
        <5>1. PICK k \in Nodes \ {n, i.peer_id} : Opines(F, k, i) /\ <<i, k>> \notin R[n]
          BY <1>14, <4>2, Zenon DEF Counted, issue
        <5>2. k # m BY <1>1, <5>1, Zenon
        <5> QED BY <1>13, <3>1, <5>1, <5>2, Zenon DEF Backed
      <4> QED BY <4>1, <4>2, Zenon
    <3> QED BY <3>1, <3>2, <3>3, Zenon DEF Counted, resolved
  <2>2. CASE ~opinion
    <3>1. G[n][i].yes = issue.yes /\ G[n][i].self_opinion = issue.self_opinion
      BY <1>5, <2>2, Zenon DEF resolved
    <3>2. issue.yes >= 2 => Backed(G, i) BY <1>9, <1>14, KeptBacking, Zenon DEF Counted, issue
    <3>3. \A k \in Nodes : <<i, k>> \notin R[n] => <<i, k>> \notin Q[n] BY <1>12, Zenon
    <3> QED BY <1>13, <1>14, <3>1, <3>2, <3>3, Zenon DEF Counted, issue
  <2> QED BY <2>1, <2>2, Zenon
<1>16. GoodVotes(G, Q)
  <2> SUFFICES ASSUME NEW x \in Nodes, NEW j \in DOMAIN G[x], ~(x = n /\ j = i)
               PROVE  Counted(G, Q[x], x, j)
    BY <1>15, Zenon DEF GoodVotes
  <2>1. j \in DOMAIN F[x] /\ G[x][j] = F[x][j] BY <1>7, Zenon
  <2>2. Counted(F, R[x], x, j) BY <2>1, Zenon DEF IInv, GoodVotes
  <2>3. \A k \in Nodes : <<j, k>> \notin R[x] => <<j, k>> \notin Q[x] BY <1>12, Zenon
  <2>4. F[x][j].yes >= 2 => Backed(G, j) BY <1>9, <2>2, KeptBacking, Zenon DEF Counted
  <2> QED BY <1>13, <2>1, <2>2, <2>3, <2>4, Zenon DEF Counted
<1>17. /\ m_peers' \in [Nodes -> SUBSET Nodes]
       /\ \A x \in Nodes : m_peers'[x] \subseteq m_peers[x]
  BY <1>1 DEF IInv, do_evict_peer
<1>18. GoodRequests(G, Q, m_peers')
  <2> SUFFICES ASSUME NEW x \in Nodes, NEW j \in Issue, NEW k \in Nodes, <<j, k>> \in Q[x]
               PROVE  j \in DOMAIN G[x] /\ (j.peer_id \in m_peers'[x] => G[x][j].expected >= 2)
    BY <1>12, Zenon DEF GoodRequests
  <2>1. <<j, k>> \in R[x] BY <1>12, Zenon
  <2>2. j \in DOMAIN F[x] /\ (j.peer_id \in m_peers[x] => F[x][j].expected >= 2)
    BY <2>1, Zenon DEF IInv, GoodRequests
  <2>3. G[x][j].expected = F[x][j].expected
    <3>1. CASE x = n /\ j = i BY <1>5, <3>1, Zenon DEF issue, resolved
    <3>2. CASE ~(x = n /\ j = i) BY <1>7, <2>2, <3>2, Zenon
    <3> QED BY <3>1, <3>2, Zenon
  <2> QED BY <1>7, <1>17, <2>2, <2>3, Zenon
<1>19. GoodRaising(G, raising') BY <1>7, Zenon DEF IInv, GoodRaising
<1>20. \A e \in evicted' : Backed(G, e[2])
  <2>1. \A e \in evicted : Backed(G, e[2]) BY <1>9, KeptBacking, Zenon DEF IInv
  <2>2. CASE UNCHANGED <<m_peers, evicted>> BY <2>1, <2>2, Zenon
  <2>3. CASE /\ issue.verdict = "open" /\ resolved.verdict = "out" /\ i.peer_id \in m_peers[n]
             /\ do_evict_peer(n, i)
    <3>1. resolved.yes >= 2 BY <1>2, <1>3, <1>5, <2>3 DEF Vote
    <3>2. Backed(G, i) BY <1>1, <1>7, <1>15, <3>1, Zenon DEF Counted, resolved
    <3>3. evicted' = evicted \union {<<n, i>>} BY <2>3, Zenon DEF do_evict_peer
    <3> QED BY <2>1, <3>2, <3>3
  <2> QED BY <1>1, <2>2, <2>3, Zenon
<1> QED BY <1>10, <1>11, <1>16, <1>17, <1>18, <1>19, <1>20, Zenon DEF IInv, G, Q

-----------------------------------------------------------------------------
(* The steps *)

LEMMA Initially == EInit => IInv
<1> SUFFICES ASSUME EInit PROVE IInv BY Zenon
<1>1. setting \in Settings /\ m_peers \in [Nodes -> SUBSET Nodes]
  BY EvictionAssumption, Zenon DEF EInit
<1>2. m_eviction_issues = [n \in Nodes |-> <<>>] /\ \A n \in Nodes : DOMAIN m_eviction_issues[n] = {}
  BY DEF EInit
<1>3. GoodIssues(m_eviction_issues)
  <2>1. <<>> \in [{} -> Vote] OBVIOUS
  <2>2. <<>> \in UNION {[K -> Vote] : K \in SUBSET Issue} BY <2>1, Zenon
  <2> QED BY <1>2, <2>2, Zenon DEF GoodIssues
<1>4. GoodInbox(m_eviction_issues, inbox) BY DEF EInit, GoodInbox
<1>5. GoodVotes(m_eviction_issues, m_ask_evict_requests) BY <1>2, Zenon DEF GoodVotes
<1>6. GoodRequests(m_eviction_issues, m_ask_evict_requests, m_peers) BY Zenon DEF EInit, GoodRequests
<1>7. GoodRaising(m_eviction_issues, raising) BY Zenon DEF EInit, GoodRaising
<1>8. evicted = {} BY Zenon DEF EInit
<1> QED BY <1>1, <1>3, <1>4, <1>5, <1>6, <1>7, <1>8, Zenon DEF IInv

\* n raises an issue, which it does not know yet.
LEMMA RaiseKeeps ==
  ASSUME IInv, NEW n \in Nodes, NEW s \in Suspects \ {n}, NEW reason \in {"misbehaving", "dead"},
         [by |-> n, peer_id |-> s, reason |-> reason] \notin Known(n),
         new_eviction_issue(n, s, reason), UNCHANGED <<setting, m_peers, evicted>>,
         raising' \in [Nodes -> SUBSET Suspects],
         \A x \in Nodes : raising'[x] \subseteq raising[x],
         reason = "dead" => s \notin raising'[n]
  PROVE  IInv'
<1> DEFINE i == [by |-> n, peer_id |-> s, reason |-> reason]
<1>1. i \in Issue /\ i.by = n /\ i.peer_id = s BY Zenon DEF Issue
<1>2. insert_eviction_issue(n, i, TRUE) /\ post_ask_evict_all(n, i, inbox)
  BY Zenon DEF new_eviction_issue
<1>3. \A z \in raising'[n] : i # [by |-> n, peer_id |-> z, reason |-> "dead"]
  <2>1. ASSUME NEW z, i = [by |-> n, peer_id |-> z, reason |-> "dead"]
        PROVE  z = s /\ reason = "dead"
    <3>1. i.peer_id = z /\ i.reason = "dead" BY <2>1, Zenon
    <3> QED BY <3>1, Zenon
  <2> HIDE DEF i
  <2> QED BY <2>1
<1>4. i \notin Known(n) BY Zenon
<1> HIDE DEF i
<1>5. Extends(m_eviction_issues, m_eviction_issues') BY <1>1, <1>2, <1>4, NewIssue, Zenon
<1>6. GoodInbox(m_eviction_issues', inbox) BY <1>5, KeptInbox, Zenon DEF IInv
<1>7. n # i.peer_id BY <1>1, Zenon
<1> QED BY <1>1, <1>2, <1>3, <1>4, <1>6, <1>7, InsertKeeps, Zenon

LEMMA ReportKeeps ==
  ASSUME IInv, NEW n \in Nodes, NEW s \in Suspects \ {n}, report_peer(n, s), setting' = setting
  PROVE  IInv'
<1>1. UNCHANGED <<m_peers, raising, evicted>> BY Zenon DEF report_peer
<1>2. raising \in [Nodes -> SUBSET Suspects] BY Zenon DEF IInv, GoodRaising
<1>3. CASE ~similar_issue_exists(n, s, "misbehaving") /\ new_eviction_issue(n, s, "misbehaving")
  <2> DEFINE i == [by |-> n, peer_id |-> s, reason |-> "misbehaving"]
  <2>1. i.peer_id = s /\ i.reason = "misbehaving" BY Zenon
  <2>2. i \notin Known(n)
    <3> HIDE DEF i
    <3> QED BY <1>3, <2>1, Zenon DEF similar_issue_exists
  <2> QED BY <1>1, <1>2, <1>3, <2>2, RaiseKeeps, Zenon
<1>4. CASE UNCHANGED <<m_eviction_issues, m_ask_evict_requests, inbox>>
  BY <1>1, <1>4, QuietKeeps, Zenon DEF IInv
<1> QED BY <1>3, <1>4, Zenon DEF report_peer

LEMMA BeginKeeps ==
  ASSUME IInv, NEW n \in Nodes, begin_evict_process(n), setting' = setting
  PROVE  IInv'
<1>1. PICK s \in raising[n] :
        /\ new_eviction_issue(n, s, "dead") /\ raising' = [raising EXCEPT ![n] = {}]
        /\ UNCHANGED <<m_peers, evicted>>
  BY Zenon DEF begin_evict_process
<1>2. raising \in [Nodes -> SUBSET Suspects] BY Zenon DEF IInv, GoodRaising
<1>3. s \in Suspects \ {n} /\ [by |-> n, peer_id |-> s, reason |-> "dead"] \notin Known(n)
  BY <1>2, Zenon DEF IInv, GoodRaising, Known
<1>4. /\ raising' \in [Nodes -> SUBSET Suspects] /\ s \notin raising'[n]
      /\ \A x \in Nodes : raising'[x] \subseteq raising[x]
  BY <1>1, <1>2, Zenon
<1> QED BY <1>1, <1>3, <1>4, RaiseKeeps, Zenon

LEMMA PulseKeeps ==
  ASSUME IInv, NEW n \in Nodes, NEW s \in Suspects \ {n}, setting' = setting,
         async_request_pulse(n, s) \/ TimePasses(n, s) \/ check_pulses(n, s)
  PROVE  IInv'
<1>1. UNCHANGED <<m_peers, inbox, m_eviction_issues, m_ask_evict_requests, evicted>>
  BY Zenon DEF async_request_pulse, TimePasses, check_pulses
<1>2. GoodRaising(m_eviction_issues, raising')
  <2>0. raising \in [Nodes -> SUBSET Suspects] BY Zenon DEF IInv, GoodRaising
  <2>1. CASE UNCHANGED raising BY <2>1, Zenon DEF IInv
  <2>2. CASE check_pulses(n, s)
    <3> DEFINE i == [by |-> n, peer_id |-> s, reason |-> "dead"]
    <3>1. i.peer_id = s /\ i.reason = "dead" BY Zenon
    <3>2. i \notin Known(n)
      <4> HIDE DEF i
      <4> QED BY <2>2, <3>1, Zenon DEF check_pulses, similar_issue_exists
    <3>3. raising' = [raising EXCEPT ![n] = {s}] BY <2>2, Zenon DEF check_pulses
    <3>4. /\ raising' \in [Nodes -> SUBSET Suspects] /\ raising'[n] = {s}
          /\ \A x \in Nodes \ {n} : raising'[x] = raising[x]
      BY <2>0, <3>3, Zenon
    <3> QED BY <3>2, <3>4, Zenon DEF IInv, GoodRaising, Known
  <2> QED BY <2>1, <2>2, Zenon DEF async_request_pulse, TimePasses
<1> QED BY <1>1, <1>2, QuietKeeps, Zenon DEF IInv

\* The first message waiting from m at n, and n's answer to it.
LEMMA FirstIsGood ==
  ASSUME IInv, NEW m \in Nodes, NEW n \in Nodes, inbox[<<m, n>>] # <<>>
  PROVE  /\ Head(inbox[<<m, n>>]) \in Message
         /\ GoodMessage(m_eviction_issues, m, n, Head(inbox[<<m, n>>]))
<1> DEFINE b == inbox[<<m, n>>]
<1>1. b \in Seq(Message) /\ \A k \in 1 .. Len(b) : GoodMessage(m_eviction_issues, m, n, b[k])
  BY Zenon DEF IInv, GoodInbox
<1>2. b # <<>> BY Zenon
<1> HIDE DEF b
<1>3. Head(b) \in Message /\ Head(b) = b[1] /\ Len(b) \in Nat /\ Len(b) # 0
  BY <1>1, <1>2
<1>4. 1 \in 1 .. Len(b) BY <1>3
<1>5. Head(b) \in Message /\ GoodMessage(m_eviction_issues, m, n, Head(b)) BY <1>1, <1>3, <1>4, Zenon
<1> QED BY <1>5, Zenon DEF b

LEMMA Answered ==
  ASSUME NEW F, GoodInbox(F, inbox), NEW m \in Nodes, NEW n \in Nodes, inbox[<<m, n>>] # <<>>,
         NEW g \in Message, GoodMessage(F, n, m, g)
  PROVE  GoodInbox(F, Answering(m, n, g))
<1>1. GoodInbox(F, Took(m, n)) BY Taken, Zenon DEF Took
<1> QED BY <1>1, Appended, Zenon DEF Answering

LEMMA AskKeeps ==
  ASSUME IInv, NEW m \in Nodes, NEW n \in Nodes, inbox[<<m, n>>] # <<>>, NEW i \in Issue,
         n # i.peer_id, i \in Known(i.by),
         post_request_ask_evict(m, n, i), UNCHANGED <<setting, raising>>
  PROVE  IInv'
<1> DEFINE F == m_eviction_issues
<1>0. UNCHANGED <<m_peers, evicted>> BY Zenon DEF post_request_ask_evict
<1>1. GoodInbox(F, inbox) /\ GoodRaising(F, raising) /\ m_peers \in [Nodes -> SUBSET Nodes]
  BY Zenon DEF IInv
<1>2. \A o \in BOOLEAN, st \in {"OK", "ERR"} :
         /\ Reply(i, st, o) \in Message /\ Reply(i, st, o).op = st
         /\ Reply(i, st, o).issue = i /\ Reply(i, st, o).opinion = o
  BY Zenon DEF Reply, Message
<1>3. CASE /\ i \in Known(n)
           /\ inbox' = Answering(m, n, Reply(i, "OK", F[n][i].self_opinion))
           /\ UNCHANGED <<m_eviction_issues, m_ask_evict_requests>>
  <2> DEFINE o == F[n][i].self_opinion
             g == Reply(i, "OK", o)
  <2>1. F[n][i] \in Vote BY <1>3 DEF IInv, GoodIssues, Known
  <2>2. o \in BOOLEAN /\ i \in DOMAIN F[n] BY <1>3, <2>1, Zenon DEF Known, Vote
  <2> HIDE DEF o
  <2>3. g \in Message /\ g.op = "OK" /\ g.issue = i /\ g.opinion = o BY <1>2, <2>2, Zenon
  <2>4. inbox' = Answering(m, n, g) BY <1>3, Zenon DEF o
  <2> HIDE DEF g
  <2>5. GoodMessage(F, n, m, g) BY <2>2, <2>3, Zenon DEF GoodMessage, o
  <2>6. GoodInbox(F, inbox') BY <1>1, <2>3, <2>4, <2>5, Answered, Zenon
  <2> QED BY <1>0, <1>1, <1>3, <2>6, QuietKeeps, Zenon
<1>4. CASE LET opinion == self_opinion_on(n, i.peer_id, i.reason) IN
           /\ i \notin Known(n) /\ insert_eviction_issue(n, i, opinion)
           /\ post_ask_evict_all(n, i, Answering(m, n, Reply(i, "OK", opinion)))
  <2> DEFINE o == self_opinion_on(n, i.peer_id, i.reason)
             G == m_eviction_issues'
             g == Reply(i, "OK", o)
  <2>1. o \in BOOLEAN
    <3>1. evict_opinion_misbehaving(n, i.peer_id) \in BOOLEAN BY DEF evict_opinion_misbehaving
    <3>2. evict_opinion_dead(n, i.peer_id) \in BOOLEAN BY Zenon DEF evict_opinion_dead
    <3> QED BY <3>1, <3>2, Zenon DEF self_opinion_on
  <2>2. i \notin Known(n) /\ insert_eviction_issue(n, i, o) /\ post_ask_evict_all(n, i, Answering(m, n, g))
    BY <1>4, Zenon
  <2> HIDE DEF o
  <2>3. g \in Message /\ g.op = "OK" /\ g.issue = i /\ g.opinion = o BY <1>2, <2>1, Zenon
  <2> HIDE DEF g
  <2>4. Extends(F, G) /\ DOMAIN G[n] = DOMAIN F[n] \union {i} /\ G[n][i].self_opinion = o
    BY <2>1, <2>2, NewIssue, Zenon
  <2>5. GoodInbox(G, inbox) BY <1>1, <2>4, KeptInbox, Zenon
  <2>6. GoodMessage(G, n, m, g) BY <2>3, <2>4, Zenon DEF GoodMessage
  <2> HIDE DEF G
  <2>7. GoodInbox(G, Answering(m, n, g)) BY <2>3, <2>5, <2>6, Answered, Zenon
  <2>8. raising' \in [Nodes -> SUBSET Suspects] /\ \A x \in Nodes : raising'[x] \subseteq raising[x]
    BY <1>1, Zenon DEF GoodRaising
  <2>9. \A s \in raising'[n] : i # [by |-> n, peer_id |-> s, reason |-> "dead"]
    <3> SUFFICES ASSUME NEW s, i = [by |-> n, peer_id |-> s, reason |-> "dead"] PROVE FALSE
      BY Zenon
    <3>1. i.by = n BY Zenon
    <3> QED BY <2>2, <3>1, Zenon
  <2> QED BY <1>0, <2>1, <2>2, <2>7, <2>8, <2>9, InsertKeeps, Zenon DEF G
<1>5. CASE /\ inbox' = Answering(m, n, Reply(i, "ERR", FALSE))
           /\ UNCHANGED <<m_eviction_issues, m_ask_evict_requests>>
  <2> DEFINE g == Reply(i, "ERR", FALSE)
  <2>1. g \in Message /\ g.op = "ERR" BY <1>2, Zenon
  <2>2. inbox' = Answering(m, n, g) BY <1>5, Zenon
  <2> HIDE DEF g
  <2>3. GoodMessage(F, n, m, g) BY <2>1, Zenon DEF GoodMessage
  <2>4. GoodInbox(F, inbox') BY <1>1, <2>1, <2>2, <2>3, Answered, Zenon
  <2> QED BY <1>0, <1>1, <1>5, <2>4, QuietKeeps, Zenon
<1> QED BY <1>3, <1>4, <1>5, Zenon DEF post_request_ask_evict

LEMMA HandleKeeps ==
  ASSUME IInv, NEW n \in Nodes, NEW m \in Nodes \ {n}, Handle(m, n), setting' = setting
  PROVE  IInv'
<1> DEFINE g == Head(inbox[<<m, n>>])
<1>1. /\ inbox[<<m, n>>] # <<>> /\ UNCHANGED raising
      /\ \/ g.op = "ASK_EVICT" /\ post_request_ask_evict(m, n, g.issue)
         \/ g.op = "OK" /\ reply_request_ask_evict(m, n, g.issue, g.opinion)
         \/ g.op = "ERR" /\ reply_err(m, n)
  BY Zenon DEF Handle
<1>2. g \in Message /\ GoodMessage(m_eviction_issues, m, n, g) BY <1>1, FirstIsGood, Zenon
<1> HIDE DEF g
<1>3. g.issue \in Issue /\ g.opinion \in BOOLEAN BY <1>2, Zenon DEF Message
<1>4. CASE g.op = "ASK_EVICT" /\ post_request_ask_evict(m, n, g.issue)
  <2>1. n # g.issue.peer_id /\ g.issue \in Known(g.issue.by)
    BY <1>2, <1>4, Zenon DEF GoodMessage, Known
  <2> QED BY <1>1, <1>3, <1>4, <2>1, AskKeeps, Zenon
<1>5. CASE g.op = "OK" /\ reply_request_ask_evict(m, n, g.issue, g.opinion)
  <2>1. m # g.issue.peer_id /\ (g.opinion => Opines(m_eviction_issues, m, g.issue))
    BY <1>2, <1>5, Zenon DEF GoodMessage, Opines
  <2> QED BY <1>1, <1>3, <1>5, <2>1, ReplyKeeps, Zenon
<1>6. CASE g.op = "ERR" /\ reply_err(m, n)
  <2>1. GoodInbox(m_eviction_issues, inbox') BY <1>1, <1>6, Taken, Zenon DEF IInv, reply_err, Took
  <2> QED BY <1>1, <1>6, <2>1, QuietKeeps, Zenon DEF IInv, reply_err
<1> QED BY <1>1, <1>4, <1>5, <1>6, Zenon

LEMMA LeaveKeeps ==
  ASSUME IInv, NEW n \in Nodes, NEW m \in Nodes, remove_client(m, n) \/ ConnectionBreaks(m, n),
         setting' = setting
  PROVE  IInv'
<1> DEFINE F == m_eviction_issues
<1>1. UNCHANGED <<m_eviction_issues, m_ask_evict_requests, raising, evicted>>
  BY Zenon DEF remove_client, ConnectionBreaks
<1>2. GoodInbox(F, inbox) /\ GoodRaising(F, raising) /\ m_peers \in [Nodes -> SUBSET Nodes]
  BY Zenon DEF IInv
<1>3. /\ m_peers' \in [Nodes -> SUBSET Nodes]
      /\ \A x \in Nodes : m_peers'[x] \subseteq m_peers[x]
  BY <1>2 DEF remove_client, ConnectionBreaks
<1>4. GoodInbox(F, inbox')
  <2> DEFINE B == [inbox EXCEPT ![<<m, n>>] = <<>>]
             C == [B EXCEPT ![<<n, m>>] = <<>>]
  <2>1. CASE remove_client(m, n)
    <3>1. inbox' = C BY <2>1, Zenon DEF remove_client
    <3>2. GoodInbox(F, B) BY <1>2, Emptied, Zenon
    <3> HIDE DEF B
    <3> QED BY <3>1, <3>2, Emptied, Zenon
  <2>2. CASE ConnectionBreaks(m, n) BY <1>2, <2>2, Emptied, Zenon DEF ConnectionBreaks
  <2> QED BY <2>1, <2>2, Zenon
<1> QED BY <1>1, <1>2, <1>3, <1>4, QuietKeeps, Zenon

LEMMA StepKeeps == IInv /\ [ENext]_evars => IInv'
<1> SUFFICES ASSUME IInv, [ENext]_evars PROVE IInv' BY Zenon
<1>1. CASE UNCHANGED evars BY <1>1, Zenon DEF IInv, evars
<1>2. CASE ENext
  <2>1. setting' = setting /\ setting.members \subseteq Nodes
    BY <1>2, EvictionAssumption, Zenon DEF ENext, IInv
  <2>2. PICK n \in setting.members :
          \/ begin_evict_process(n)
          \/ \E s \in Suspects \ {n} :
               \/ report_peer(n, s) \/ async_request_pulse(n, s)
               \/ TimePasses(n, s) \/ check_pulses(n, s)
          \/ \E m \in setting.members \ {n} :
               Handle(m, n) \/ remove_client(m, n) \/ ConnectionBreaks(m, n)
    BY <1>2, Zenon DEF ENext
  <2>3. n \in Nodes BY <2>1, Zenon
  <2>4. CASE begin_evict_process(n) BY <2>1, <2>3, <2>4, BeginKeeps, Zenon
  <2>5. ASSUME NEW s \in Suspects \ {n},
               \/ report_peer(n, s) \/ async_request_pulse(n, s)
               \/ TimePasses(n, s) \/ check_pulses(n, s)
        PROVE  IInv'
    BY <2>1, <2>3, <2>5, ReportKeeps, PulseKeeps, Zenon
  <2>6. ASSUME NEW m \in setting.members \ {n},
               Handle(m, n) \/ remove_client(m, n) \/ ConnectionBreaks(m, n)
        PROVE  IInv'
    <3>1. m \in Nodes \ {n} BY <2>1, Zenon
    <3> QED BY <2>1, <2>3, <2>6, <3>1, HandleKeeps, LeaveKeeps, Zenon
  <2> QED BY <2>2, <2>4, <2>5, <2>6, Zenon
<1> QED BY <1>1, <1>2, Zenon

\* insert_eviction_issue, post_ask_evict_all, try_resolve_issue: in a cluster of any
\* size, for whatever the suspects do and whichever connections break, a server puts a
\* peer out (do_evict_peer) only when two servers other than the accused have formed,
\* each on its own, the opinion that it must go.
THEOREM NobodyOutOnOneWord == ESpec => []EvictionBacked
<1>1. IInv => EvictionBacked
  <2> SUFFICES ASSUME IInv, NEW e \in evicted
               PROVE  \E n, m \in Nodes \ {e[2].peer_id} :
                        /\ n # m
                        /\ \A k \in {n, m} :
                             e[2] \in Known(k) /\ m_eviction_issues[k][e[2]].self_opinion
    BY Zenon DEF EvictionBacked
  <2>1. PICK a, b \in Nodes \ {e[2].peer_id} :
          a # b /\ Opines(m_eviction_issues, a, e[2]) /\ Opines(m_eviction_issues, b, e[2])
    BY Zenon DEF IInv, Backed
  <2> QED BY <2>1, Zenon DEF Opines, Known
<1> QED BY <1>1, Initially, StepKeeps, PTL DEF ESpec

-----------------------------------------------------------------------------
(* Who is who: peers, judges and accused are members of the cluster *)

\* A verdict has its majority.
Settled(v) ==
  /\ v.verdict = "out" => v.yes >= v.expected
  /\ v.verdict = "stays" => v.no >= v.expected

InCluster(F, M) ==
  \A n \in Nodes : \A i \in DOMAIN F[n] : n \in M /\ i.peer_id \in M /\ Settled(F[n][i])

Asked(R, M) ==
  \A n \in Nodes : \A i \in Issue, p \in Nodes : <<i, p>> \in R[n] => p \in M \ {n, i.peer_id}

OnRecord(F, E) == \A e \in E : e[1] \in Nodes /\ e[2] \in DOMAIN F[e[1]]

BInv ==
  /\ lost \in Nat
  /\ \A n \in Nodes : m_peers[n] \subseteq setting.members \ {n}
  /\ \A n \in Nodes : raising[n] \subseteq setting.members
  /\ InCluster(m_eviction_issues, setting.members)
  /\ Asked(m_ask_evict_requests, setting.members)
  /\ OnRecord(m_eviction_issues, evicted)

LEMMA NewVote ==
  ASSUME IInv, NEW n \in Nodes, NEW i \in Issue, NEW op \in BOOLEAN,
         insert_eviction_issue(n, i, op)
  PROVE  LET w == m_eviction_issues'[n][i] IN
         /\ w.self_opinion = op /\ w.verdict = "open"
         /\ w.yes = (IF op THEN 1 ELSE 0) /\ w.no = (IF op THEN 0 ELSE 1)
         /\ w.expected = Cardinality(m_peers[n]) \div 2 + 1
<1> DEFINE F == m_eviction_issues
           rec == [self_opinion |-> op, verdict |-> "open",
                   yes |-> IF op THEN 1 ELSE 0, no |-> IF op THEN 0 ELSE 1,
                   expected |-> Cardinality(m_peers[n]) \div 2 + 1]
           new == [j \in DOMAIN F[n] \union {i} |-> IF j = i THEN rec ELSE F[n][j]]
<1>1. m_eviction_issues' = [F EXCEPT ![n] = new] BY Zenon DEF insert_eviction_issue
<1>2. new[i] = rec BY Zenon
<1>3. DOMAIN F = Nodes BY Zenon DEF IInv, GoodIssues
<1>4. m_eviction_issues'[n][i] = rec BY <1>1, <1>2, <1>3, Zenon
<1> QED BY <1>4

LEMMA InsertStays ==
  ASSUME IInv, BInv, NEW n \in setting.members, NEW i \in Issue, NEW op \in BOOLEAN, i \notin Known(n),
         n # i.peer_id, i.peer_id \in setting.members, i.by = n \/ i \in Known(i.by),
         insert_eviction_issue(n, i, op), NEW msgs, post_ask_evict_all(n, i, msgs),
         UNCHANGED <<setting, m_peers, evicted, lost>>,
         \A x \in Nodes : raising'[x] \subseteq raising[x]
  PROVE  BInv'
<1> DEFINE F == m_eviction_issues
           G == m_eviction_issues'
           R == m_ask_evict_requests
           Q == m_ask_evict_requests'
           M == setting.members
<1>0. n \in Nodes BY EvictionAssumption, Zenon DEF IInv
<1>1. /\ \A x \in Nodes \ {n} : G[x] = F[x]
      /\ DOMAIN G[n] = DOMAIN F[n] \union {i}
      /\ \A j \in DOMAIN F[n] : G[n][j] = F[n][j]
  BY <1>0, NewIssue, Zenon
<1>2. G[n][i].verdict = "open" BY <1>0, NewVote, Zenon
<1>3. Settled(G[n][i]) BY <1>2, Zenon DEF Settled
<1>4. InCluster(F, M) /\ Asked(R, M) /\ OnRecord(F, evicted) BY Zenon DEF BInv
<1>5. /\ Q = [R EXCEPT ![n] = @ \union {<<i, p>> : p \in m_peers[n] \ {i.peer_id}}]
      /\ R \in [Nodes -> SUBSET (Issue \X Nodes)] /\ m_peers[n] \subseteq M \ {n}
  BY <1>0, Zenon DEF post_ask_evict_all, IInv, BInv, GoodRequests
<1> HIDE DEF G, Q
<1>6. InCluster(G, M) BY <1>0, <1>1, <1>3, <1>4, Zenon DEF InCluster
<1>7. OnRecord(G, evicted) BY <1>1, <1>4, Zenon DEF OnRecord
<1>8. Asked(Q, M)
  <2> SUFFICES ASSUME NEW x \in Nodes, NEW j \in Issue, NEW p \in Nodes, <<j, p>> \in Q[x]
               PROVE  p \in M \ {x, j.peer_id}
    BY Zenon DEF Asked
  <2>1. CASE <<j, p>> \in R[x] BY <1>4, <2>1, Zenon DEF Asked
  <2>2. CASE <<j, p>> \notin R[x]
    <3>1. x = n /\ j = i /\ p \in m_peers[n] \ {i.peer_id} BY <1>0, <1>5, <2>2, Zenon
    <3> QED BY <1>5, <3>1, Zenon
  <2> QED BY <2>1, <2>2, Zenon
<1>9. \A x \in Nodes : raising'[x] \subseteq setting.members BY Zenon DEF BInv
<1> QED BY <1>6, <1>7, <1>8, <1>9, Zenon DEF BInv, G, Q

\* The issues, the questions and the evictions stay.
LEMMA QuietStays ==
  ASSUME BInv, UNCHANGED <<setting, m_eviction_issues, m_ask_evict_requests, evicted>>,
         lost' \in Nat, \A n \in Nodes : m_peers'[n] \subseteq m_peers[n],
         \A n \in Nodes : raising'[n] \subseteq setting.members
  PROVE  BInv'
<1>1. /\ InCluster(m_eviction_issues, setting.members)
      /\ Asked(m_ask_evict_requests, setting.members) /\ OnRecord(m_eviction_issues, evicted)
      /\ \A n \in Nodes : m_peers[n] \subseteq setting.members \ {n}
  BY Zenon DEF BInv
<1>2. \A n \in Nodes : m_peers'[n] \subseteq setting.members \ {n} BY <1>1, Zenon
<1> QED BY <1>1, <1>2, Zenon DEF BInv

LEMMA ReplyStays ==
  ASSUME IInv, BInv, NEW m \in Nodes, NEW n \in Nodes, NEW i \in Issue, NEW opinion \in BOOLEAN,
         reply_request_ask_evict(m, n, i, opinion), UNCHANGED <<setting, raising, lost>>
  PROVE  BInv'
<1> DEFINE F == m_eviction_issues
           G == m_eviction_issues'
           R == m_ask_evict_requests
           Q == m_ask_evict_requests'
           M == setting.members
<1>0. Replied(m, n, i, opinion) BY ReplyIs, Zenon
<1> HIDE DEF G, Q
<1>1. /\ i \in DOMAIN F[n] /\ \A x \in Nodes : DOMAIN G[x] = DOMAIN F[x]
      /\ \A x \in Nodes : \A j \in DOMAIN F[x] : ~(x = n /\ j = i) => G[x][j] = F[x][j]
  BY <1>0, Zenon DEF Replied, G
<1>2. InCluster(F, M) /\ Asked(R, M) /\ OnRecord(F, evicted) BY Zenon DEF BInv
<1>3. Settled(G[n][i])
  <2>1. Settled(F[n][i]) BY <1>1, <1>2, Zenon DEF InCluster
  <2>2. F[n][i] \in Vote /\ G[n][i] \in Vote BY <1>0, Zenon DEF Replied, G
  <2>3. /\ G[n][i].yes = IF opinion THEN F[n][i].yes + 1 ELSE F[n][i].yes
        /\ G[n][i].no = IF opinion THEN F[n][i].no ELSE F[n][i].no + 1
        /\ G[n][i].expected = F[n][i].expected
    BY <1>0, Zenon DEF Replied, G
  <2>4. /\ F[n][i].verdict # "open" => G[n][i].verdict = F[n][i].verdict
        /\ F[n][i].verdict = "open" /\ G[n][i].verdict = "out" => G[n][i].yes >= G[n][i].expected
        /\ F[n][i].verdict = "open" /\ G[n][i].verdict = "stays" => G[n][i].no >= G[n][i].expected
    BY <1>0, Zenon DEF Replied, G
  <2> DEFINE v == F[n][i]
             w == G[n][i]
  <2> HIDE DEF v, w
  <2>5. v.yes \in Nat /\ v.no \in Nat /\ v.expected \in Nat BY <2>2, Zenon DEF v, Vote
  <2>6. Settled(w)
    <3>1. CASE v.verdict = "open" BY <2>4, <3>1, Zenon DEF Settled, v, w
    <3>2. CASE v.verdict # "open"
      <4>1. w.verdict = v.verdict BY <2>4, <3>2, Zenon DEF v, w
      <4>2. w.yes >= v.yes /\ w.no >= v.no /\ w.expected = v.expected
            /\ w.yes \in Nat /\ w.no \in Nat
        BY <2>3, <2>5 DEF v, w
      <4>3. Settled(v) BY <2>1, Zenon DEF v
      <4> QED BY <2>5, <4>1, <4>2, <4>3 DEF Settled
    <3> QED BY <3>1, <3>2, Zenon
  <2> QED BY <2>6, Zenon DEF w
<1>4. InCluster(G, M) BY <1>1, <1>2, <1>3, Zenon DEF InCluster
<1>5. Asked(Q, M)
  <2>1. Q[n] = R[n] \ {<<i, m>>} /\ \A x \in Nodes \ {n} : Q[x] = R[x]
    BY <1>0, Zenon DEF Replied, Q
  <2>2. \A x \in Nodes : Q[x] \subseteq R[x] BY <2>1, Zenon
  <2> QED BY <1>2, <2>2, Zenon DEF Asked
<1>6. /\ \A x \in Nodes : m_peers'[x] \subseteq m_peers[x]
      /\ OnRecord(G, evicted')
  <2>1. OnRecord(G, evicted) BY <1>1, <1>2, Zenon DEF OnRecord
  <2>2. m_peers \in [Nodes -> SUBSET Nodes] BY Zenon DEF IInv
  <2>3. CASE UNCHANGED <<m_peers, evicted>> BY <2>1, <2>3, Zenon
  <2>4. CASE do_evict_peer(n, i)
    <3>1. OnRecord(G, evicted \union {<<n, i>>}) BY <1>1, <2>1 DEF OnRecord
    <3> QED BY <2>2, <2>4, <3>1, Zenon DEF do_evict_peer
  <2> QED BY <1>0, <2>3, <2>4, Zenon DEF Replied
<1>7. \A x \in Nodes : m_peers'[x] \subseteq M \ {x}
  <2>1. \A x \in Nodes : m_peers[x] \subseteq M \ {x} BY Zenon DEF BInv
  <2> QED BY <1>6, <2>1, Zenon
<1>8. lost' \in Nat /\ \A x \in Nodes : raising'[x] \subseteq M BY Zenon DEF BInv
<1> QED BY <1>4, <1>5, <1>6, <1>7, <1>8, Zenon DEF BInv, G, Q

-----------------------------------------------------------------------------
(* The steps, by what they do to the issues, the questions and the answers *)

Boxes == [Nodes \X Nodes -> Seq(Message)]

\* The message n has just read from m.
Read(m, n, g) == inbox[<<m, n>>] # <<>> /\ Head(inbox[<<m, n>>]) = g

\* n learns of i: it raises it, or is asked about it by m, whom it answers.
Inserts(n, i, op, msgs) ==
  /\ i \notin Known(n) /\ n # i.peer_id /\ i.peer_id \in setting.members
  /\ i.by = n \/ i \in Known(i.by)
  /\ insert_eviction_issue(n, i, op) /\ post_ask_evict_all(n, i, msgs)
  /\ \/ i.by = n /\ msgs = inbox
     \/ /\ i.peer_id \in m_peers[n]
        /\ \E m \in setting.members \ {n} :
             Read(m, n, Ask(i)) /\ msgs = Answering(m, n, Reply(i, "OK", op))
  /\ UNCHANGED <<setting, m_peers, evicted, lost>>
  /\ \A x \in Nodes : raising'[x] \subseteq raising[x]

\* n counts the opinion of m.
Counts(m, n, i, opinion) ==
  /\ m # i.peer_id /\ i \in Known(m) /\ opinion = m_eviction_issues[m][i].self_opinion
  /\ Read(m, n, Reply(i, "OK", opinion))
  /\ reply_request_ask_evict(m, n, i, opinion)
  /\ UNCHANGED <<setting, raising, lost>>

\* n answers m about an issue it knows, or cannot judge.
Answers(m, n, i) ==
  /\ Read(m, n, Ask(i)) /\ n # i.peer_id /\ i \in Known(i.by)
  /\ \/ i \in Known(n) /\ \E o \in BOOLEAN : inbox' = Answering(m, n, Reply(i, "OK", o))
     \/ /\ i \notin Known(n) /\ i.peer_id \notin m_peers[n]
        /\ inbox' = Answering(m, n, Reply(i, "ERR", FALSE))
  /\ UNCHANGED <<setting, m_peers, m_eviction_issues, m_ask_evict_requests, raising, evicted, lost>>

\* Nothing is said or forgotten; an error reply may be dropped.
Idles ==
  /\ \/ inbox' = inbox
     \/ \E m, n \in Nodes : \E g \in Message :
          Read(m, n, g) /\ g.op = "ERR" /\ inbox' = Took(m, n)
  /\ \A x \in Nodes : raising'[x] \subseteq setting.members
  /\ UNCHANGED <<setting, m_peers, m_eviction_issues, m_ask_evict_requests, evicted, lost>>

LEMMA MessageIs ==
  ASSUME NEW g \in Message
  PROVE  g = Reply(g.issue, g.op, g.opinion)
BY Zenon DEF Message, Reply

LEMMA RaiseIs ==
  ASSUME IInv, BInv, NEW n \in Nodes, NEW s \in Suspects \ {n}, NEW reason \in {"misbehaving", "dead"},
         [by |-> n, peer_id |-> s, reason |-> reason] \notin Known(n), s \in setting.members,
         new_eviction_issue(n, s, reason), UNCHANGED <<setting, m_peers, evicted, lost>>,
         \A x \in Nodes : raising'[x] \subseteq raising[x]
  PROVE  \E i \in Issue : Inserts(n, i, TRUE, inbox)
<1> DEFINE i == [by |-> n, peer_id |-> s, reason |-> reason]
<1>1. i \in Issue /\ i.by = n /\ i.peer_id = s BY Zenon DEF Issue
<1>2. insert_eviction_issue(n, i, TRUE) /\ post_ask_evict_all(n, i, inbox)
  BY Zenon DEF new_eviction_issue
<1>3. i \notin Known(n) BY Zenon
<1> HIDE DEF i
<1>4. n # i.peer_id BY <1>1, Zenon
<1> QED BY <1>1, <1>2, <1>3, <1>4, Zenon DEF Inserts

LEMMA HandleIs ==
  ASSUME IInv, BInv, NEW n \in setting.members, NEW m \in setting.members \ {n}, Handle(m, n),
         setting' = setting
  PROVE  \/ \E i \in Issue, op \in BOOLEAN, msgs \in Boxes : Inserts(n, i, op, msgs)
         \/ \E i \in Issue, opinion \in BOOLEAN : Counts(m, n, i, opinion)
         \/ \E i \in Issue : Answers(m, n, i)
         \/ Idles
<1> DEFINE g == Head(inbox[<<m, n>>])
           F == m_eviction_issues
<1>0. m \in Nodes /\ n \in Nodes BY EvictionAssumption, Zenon DEF IInv
<1>1. /\ inbox[<<m, n>>] # <<>> /\ UNCHANGED <<raising, lost>>
      /\ \/ g.op = "ASK_EVICT" /\ post_request_ask_evict(m, n, g.issue)
         \/ g.op = "OK" /\ reply_request_ask_evict(m, n, g.issue, g.opinion)
         \/ g.op = "ERR" /\ reply_err(m, n)
  BY Zenon DEF Handle
<1>2. g \in Message /\ GoodMessage(F, m, n, g) BY <1>0, <1>1, FirstIsGood, Zenon
<1>3. Read(m, n, g) BY <1>1, Zenon DEF Read
<1> HIDE DEF g
<1>4. /\ g.issue \in Issue /\ g.opinion \in BOOLEAN /\ g.issue.by \in Nodes
      /\ g = Reply(g.issue, g.op, g.opinion)
  BY <1>2, MessageIs, Zenon DEF Message, Issue
<1> DEFINE i == g.issue
<1> HIDE DEF i
<1>5. CASE g.op = "ASK_EVICT" /\ post_request_ask_evict(m, n, i)
  <2>1. g = Ask(i) /\ n # i.peer_id /\ i \in Known(i.by)
    BY <1>2, <1>5, Zenon DEF GoodMessage, Known, i
  <2>2. Read(m, n, Ask(i)) /\ i \in Issue BY <1>3, <1>4, <2>1, Zenon DEF i
  <2>3. UNCHANGED <<m_peers, evicted>> BY <1>5, Zenon DEF post_request_ask_evict
  <2>4. CASE /\ i \in Known(n) /\ UNCHANGED <<m_eviction_issues, m_ask_evict_requests>>
             /\ inbox' = Answering(m, n, Reply(i, "OK", F[n][i].self_opinion))
    <3>1. F[n][i].self_opinion \in BOOLEAN BY <1>0, <2>4 DEF IInv, GoodIssues, Known, Vote
    <3> QED BY <1>1, <2>1, <2>2, <2>3, <2>4, <3>1, Zenon DEF Answers
  <2>5. CASE LET opinion == self_opinion_on(n, i.peer_id, i.reason) IN
             /\ i \notin Known(n) /\ i.peer_id \in m_peers[n]
             /\ insert_eviction_issue(n, i, opinion)
             /\ post_ask_evict_all(n, i, Answering(m, n, Reply(i, "OK", opinion)))
    <3> DEFINE o == self_opinion_on(n, i.peer_id, i.reason)
               msgs == Answering(m, n, Reply(i, "OK", o))
    <3>1. o \in BOOLEAN
      <4>1. evict_opinion_misbehaving(n, i.peer_id) \in BOOLEAN BY DEF evict_opinion_misbehaving
      <4>2. evict_opinion_dead(n, i.peer_id) \in BOOLEAN BY Zenon DEF evict_opinion_dead
      <4> QED BY <4>1, <4>2, Zenon DEF self_opinion_on
    <3>2. /\ i \notin Known(n) /\ i.peer_id \in m_peers[n] /\ insert_eviction_issue(n, i, o)
          /\ post_ask_evict_all(n, i, msgs)
      BY <2>5, Zenon
    <3> HIDE DEF o
    <3>3. Reply(i, "OK", o) \in Message BY <2>2, <3>1, Zenon DEF Reply, Message
    <3>4. msgs \in Boxes
      <4>1. inbox \in Boxes BY Zenon DEF IInv, GoodInbox, Boxes
      <4>2. Took(m, n) \in Boxes
        <5>1. Tail(inbox[<<m, n>>]) \in Seq(Message) BY <1>0, <1>1, <4>1 DEF Boxes
        <5> QED BY <4>1, <5>1, Zenon DEF Took, Boxes
      <4>3. Append(Took(m, n)[<<n, m>>], Reply(i, "OK", o)) \in Seq(Message)
        BY <1>0, <3>3, <4>2, AppendIs, Zenon DEF Boxes
      <4> QED BY <4>2, <4>3, Zenon DEF Answering, Boxes
    <3>5. i.peer_id \in setting.members BY <1>0, <3>2, Zenon DEF BInv
    <3>6. Inserts(n, i, o, msgs)
      <4>1. \A x \in Nodes : raising'[x] \subseteq raising[x] BY <1>1, Zenon
      <4> QED BY <1>1, <2>1, <2>2, <2>3, <3>2, <3>5, <4>1, Zenon DEF Inserts
    <3> HIDE DEF msgs
    <3> QED BY <2>2, <3>1, <3>4, <3>6, Zenon
  <2>6. CASE /\ i \notin Known(n) /\ i.peer_id \notin m_peers[n]
             /\ inbox' = Answering(m, n, Reply(i, "ERR", FALSE))
             /\ UNCHANGED <<m_eviction_issues, m_ask_evict_requests>>
    BY <1>1, <2>1, <2>2, <2>3, <2>6, Zenon DEF Answers
  <2> QED BY <1>5, <2>4, <2>5, <2>6, Zenon DEF post_request_ask_evict
<1>6. CASE g.op = "OK" /\ reply_request_ask_evict(m, n, i, g.opinion)
  <2>1. m # i.peer_id /\ i \in Known(m) /\ g.opinion = F[m][i].self_opinion
    BY <1>2, <1>6, Zenon DEF GoodMessage, Known, i
  <2>2. Read(m, n, Reply(i, "OK", g.opinion)) BY <1>3, <1>4, <1>6, Zenon DEF i
  <2> QED BY <1>1, <1>4, <1>6, <2>1, <2>2, Zenon DEF Counts, i
<1>7. CASE g.op = "ERR" /\ reply_err(m, n)
  <2>1. \A x \in Nodes : raising'[x] \subseteq setting.members BY <1>1, Zenon DEF BInv
  <2> QED BY <1>0, <1>1, <1>2, <1>3, <1>7, <2>1, Zenon DEF reply_err, Idles
<1> QED BY <1>1, <1>5, <1>6, <1>7, Zenon DEF i

LEMMA StepIs ==
  ASSUME IInv, BInv, ENext
  PROVE  \/ \E n \in setting.members, i \in Issue, op \in BOOLEAN, msgs \in Boxes : Inserts(n, i, op, msgs)
         \/ \E m, n \in setting.members : \E i \in Issue, opinion \in BOOLEAN :
              m # n /\ Counts(m, n, i, opinion)
         \/ \E m, n \in setting.members : \E i \in Issue : m # n /\ Answers(m, n, i)
         \/ Idles
         \/ \E m, n \in setting.members : m # n /\ setting' = setting /\ remove_client(m, n)
         \/ \E m, n \in setting.members : m # n /\ setting' = setting /\ ConnectionBreaks(m, n)
<1>1. setting' = setting /\ setting.members \subseteq Nodes
  BY EvictionAssumption, Zenon DEF ENext, IInv
<1>2. PICK n \in setting.members :
        \/ begin_evict_process(n)
        \/ \E s \in Suspects \ {n} :
             \/ report_peer(n, s) \/ async_request_pulse(n, s)
             \/ TimePasses(n, s) \/ check_pulses(n, s)
        \/ \E m \in setting.members \ {n} :
             Handle(m, n) \/ remove_client(m, n) \/ ConnectionBreaks(m, n)
  BY Zenon DEF ENext
<1>3. /\ n \in Nodes /\ raising \in [Nodes -> SUBSET Suspects] /\ inbox \in Boxes
      /\ m_peers[n] \subseteq setting.members \ {n}
      /\ \A x \in Nodes : raising[x] \subseteq setting.members
  BY <1>1, Zenon DEF IInv, BInv, GoodRaising, GoodInbox, Boxes
<1>4. CASE begin_evict_process(n)
  <2>1. PICK s \in raising[n] :
          /\ new_eviction_issue(n, s, "dead") /\ raising' = [raising EXCEPT ![n] = {}]
          /\ UNCHANGED <<m_peers, evicted, lost>>
    BY <1>4, Zenon DEF begin_evict_process
  <2>2. s \in Suspects \ {n} /\ [by |-> n, peer_id |-> s, reason |-> "dead"] \notin Known(n)
    BY <1>3, Zenon DEF IInv, GoodRaising, Known
  <2>3. s \in setting.members /\ \A x \in Nodes : raising'[x] \subseteq raising[x]
    BY <1>3, <2>1, Zenon
  <2>4. \E i \in Issue : Inserts(n, i, TRUE, inbox)
    BY <1>1, <1>3, <2>1, <2>2, <2>3, RaiseIs, Zenon
  <2> QED BY <1>3, <2>4, Zenon
<1>5. ASSUME NEW s \in Suspects \ {n}, report_peer(n, s)
      PROVE  Idles \/ \E i \in Issue : Inserts(n, i, TRUE, inbox)
  <2>1. UNCHANGED <<m_peers, raising, evicted, lost>> /\ s \in m_peers[n] BY <1>5, Zenon DEF report_peer
  <2>2. CASE ~similar_issue_exists(n, s, "misbehaving") /\ new_eviction_issue(n, s, "misbehaving")
    <3> DEFINE i == [by |-> n, peer_id |-> s, reason |-> "misbehaving"]
    <3>1. i.peer_id = s /\ i.reason = "misbehaving" BY Zenon
    <3>2. i \notin Known(n)
      <4> HIDE DEF i
      <4> QED BY <2>2, <3>1, Zenon DEF similar_issue_exists
    <3>3. s \in setting.members BY <1>3, <2>1, Zenon
    <3>4. \A x \in Nodes : raising'[x] \subseteq raising[x] BY <2>1, Zenon
    <3> QED BY <1>1, <1>3, <2>1, <2>2, <3>2, <3>3, <3>4, RaiseIs, Zenon
  <2>3. CASE UNCHANGED <<m_eviction_issues, m_ask_evict_requests, inbox>>
    BY <1>1, <1>3, <2>1, <2>3, Zenon DEF Idles
  <2> QED BY <1>5, <2>2, <2>3, Zenon DEF report_peer
<1>6. ASSUME NEW s \in Suspects \ {n},
             async_request_pulse(n, s) \/ TimePasses(n, s) \/ check_pulses(n, s)
      PROVE  Idles
  <2>1. UNCHANGED <<m_peers, inbox, m_eviction_issues, m_ask_evict_requests, evicted, lost>>
    BY <1>6, Zenon DEF async_request_pulse, TimePasses, check_pulses
  <2>2. \A x \in Nodes : raising'[x] \subseteq setting.members
    BY <1>3, <1>6, Zenon DEF async_request_pulse, TimePasses, check_pulses
  <2> QED BY <1>1, <2>1, <2>2, Zenon DEF Idles
<1>7. ASSUME NEW s \in Suspects \ {n}, report_peer(n, s)
      PROVE  Idles \/ \E i \in Issue, op \in BOOLEAN, msgs \in Boxes : Inserts(n, i, op, msgs)
  BY <1>3, <1>5, <1>7, Zenon
<1>8. ASSUME NEW m \in setting.members \ {n}, Handle(m, n)
      PROVE  \/ \E i \in Issue, op \in BOOLEAN, msgs \in Boxes : Inserts(n, i, op, msgs)
             \/ \E i \in Issue, opinion \in BOOLEAN : Counts(m, n, i, opinion)
             \/ \E i \in Issue : Answers(m, n, i)
             \/ Idles
  BY <1>1, <1>8, HandleIs, Zenon
<1> QED BY <1>1, <1>2, <1>4, <1>6, <1>7, <1>8, Zenon

LEMMA StepStays == IInv /\ BInv /\ [ENext]_evars => BInv'
<1> SUFFICES ASSUME IInv, BInv, [ENext]_evars PROVE BInv' BY Zenon
<1>1. /\ setting.members \subseteq Nodes /\ lost \in Nat
      /\ \A x \in Nodes : raising[x] \subseteq setting.members
  BY EvictionAssumption, Zenon DEF IInv, BInv
<1>2. CASE UNCHANGED evars BY <1>1, <1>2, QuietStays, Zenon DEF evars
<1>3. ASSUME NEW n \in setting.members, NEW i \in Issue, NEW op \in BOOLEAN, NEW msgs, Inserts(n, i, op, msgs)
      PROVE  BInv'
  BY <1>3, InsertStays, Zenon DEF Inserts
<1>4. ASSUME NEW m \in setting.members, NEW n \in setting.members, NEW i \in Issue,
             NEW opinion \in BOOLEAN, Counts(m, n, i, opinion)
      PROVE  BInv'
  <2>1. m \in Nodes /\ n \in Nodes BY <1>1, Zenon
  <2> QED BY <1>4, <2>1, ReplyStays, Zenon DEF Counts
<1>5. ASSUME NEW m, NEW n, NEW i, Answers(m, n, i) PROVE BInv'
  <2>1. UNCHANGED <<setting, m_peers, m_eviction_issues, m_ask_evict_requests, raising, evicted, lost>>
    BY <1>5, Zenon DEF Answers
  <2> QED BY <1>1, <2>1, QuietStays, Zenon
<1>6. CASE Idles BY <1>1, <1>6, QuietStays, Zenon DEF Idles
<1>7. ASSUME NEW m \in setting.members, NEW n \in setting.members, setting' = setting,
             remove_client(m, n) \/ ConnectionBreaks(m, n)
      PROVE  BInv'
  <2>1. /\ UNCHANGED <<setting, m_eviction_issues, m_ask_evict_requests, raising, evicted>>
        /\ lost' = lost \/ lost' = lost + 1
    BY <1>7, Zenon DEF remove_client, ConnectionBreaks
  <2>2. \A x \in Nodes : m_peers'[x] \subseteq m_peers[x]
    <3>1. m_peers \in [Nodes -> SUBSET Nodes] BY Zenon DEF IInv
    <3> QED BY <1>1, <1>7, <3>1, Zenon DEF remove_client, ConnectionBreaks
  <2> QED BY <1>1, <2>1, <2>2, QuietStays
<1> QED BY <1>2, <1>3, <1>4, <1>5, <1>6, <1>7, StepIs, Zenon

LEMMA InitStays == EInit => BInv
<1> SUFFICES ASSUME EInit PROVE BInv BY Zenon
<1>1. \A n \in Nodes : m_peers[n] \subseteq setting.members \ {n} BY Zenon DEF EInit
<1>2. \A n \in Nodes : DOMAIN m_eviction_issues[n] = {} BY DEF EInit
<1>3. /\ evicted = {} /\ lost = 0
      /\ \A n \in Nodes : m_ask_evict_requests[n] = {} /\ raising[n] = {}
  BY Zenon DEF EInit
<1> QED BY <1>1, <1>2, <1>3, Zenon DEF BInv, InCluster, Asked, OnRecord

-----------------------------------------------------------------------------
(* What waits on a connection *)

Waits(b, g) == \E k \in 1 .. Len(b) : b[k] = g

Has(B, m, n, g) == Waits(B[<<m, n>>], g)

LEMMA StillHas ==
  ASSUME inbox \in Boxes, NEW m \in Nodes, NEW n \in Nodes, NEW h, Read(m, n, h),
         NEW x \in Nodes, NEW y \in Nodes, NEW g, Has(inbox, x, y, g), ~(x = m /\ y = n /\ g = h)
  PROVE  Has(Took(m, n), x, y, g)
<1> DEFINE b == inbox[<<x, y>>]
<1>1. <<x, y>> \in Nodes \X Nodes /\ b \in Seq(Message) BY Zenon DEF Boxes
<1>2. PICK k \in 1 .. Len(b) : b[k] = g BY Zenon DEF Has, Waits
<1>3. CASE x = m /\ y = n
  <2>1. Took(m, n)[<<x, y>>] = Tail(b) /\ b # <<>> /\ Head(b) = h
    BY <1>1, <1>3, Zenon DEF Took, Boxes, Read
  <2> HIDE DEF b
  <2>2. /\ Len(b) \in Nat /\ Len(Tail(b)) = Len(b) - 1 /\ Head(b) = b[1]
        /\ \A j \in 1 .. Len(b) - 1 : Tail(b)[j] = b[j + 1]
    BY <1>1, <2>1, TailIs, Zenon
  <2>3. k # 1 BY <1>2, <1>3, <2>1, <2>2, Zenon
  <2>4. k - 1 \in 1 .. Len(b) - 1 BY <2>2, <2>3
  <2>5. Tail(b)[k - 1] = b[(k - 1) + 1] BY <2>2, <2>4, Zenon
  <2>6. Tail(b)[k - 1] = g /\ k - 1 \in 1 .. Len(Tail(b)) BY <1>2, <2>2, <2>4, <2>5
  <2> QED BY <2>1, <2>6, Zenon DEF Has, Waits
<1>4. CASE ~(x = m /\ y = n)
  <2>1. Took(m, n)[<<x, y>>] = b BY <1>1, <1>4, Zenon DEF Took, Boxes
  <2> HIDE DEF b
  <2> QED BY <1>2, <2>1, Zenon DEF Has, Waits
<1> QED BY <1>3, <1>4, Zenon

LEMMA ThenHas ==
  ASSUME NEW b \in Seq(Message), NEW h \in Message
  PROVE  /\ Waits(Append(b, h), h)
         /\ \A g : Waits(b, g) => Waits(Append(b, h), g)
<1>1. /\ Len(b) \in Nat /\ Len(Append(b, h)) = Len(b) + 1
      /\ \A k \in 1 .. Len(b) + 1 : Append(b, h)[k] = IF k = Len(b) + 1 THEN h ELSE b[k]
  BY AppendIs
<1>2. Len(b) + 1 \in 1 .. Len(b) + 1 BY <1>1
<1>3. \A k \in 1 .. Len(b) : k \in 1 .. Len(b) + 1 /\ k # Len(b) + 1 BY <1>1
<1> QED BY <1>1, <1>2, <1>3, Zenon DEF Waits

LEMMA TookIs ==
  ASSUME inbox \in Boxes, NEW m \in Nodes, NEW n \in Nodes, inbox[<<m, n>>] # <<>>
  PROVE  Took(m, n) \in Boxes
<1>1. Tail(inbox[<<m, n>>]) \in Seq(Message) BY DEF Boxes
<1> QED BY <1>1, Zenon DEF Took, Boxes

LEMMA AnswerHas ==
  ASSUME inbox \in Boxes, NEW m \in Nodes, NEW n \in Nodes, NEW h, Read(m, n, h),
         NEW r \in Message
  PROVE  /\ Has(Answering(m, n, r), n, m, r)
         /\ \A x, y \in Nodes : \A g :
              Has(inbox, x, y, g) /\ ~(x = m /\ y = n /\ g = h) => Has(Answering(m, n, r), x, y, g)
<1> DEFINE T == Took(m, n)
           A == Answering(m, n, r)
<1>1. T \in Boxes BY TookIs, Zenon DEF Read
<1>2. A = [T EXCEPT ![<<n, m>>] = Append(@, r)] BY Zenon DEF Answering
<1> HIDE DEF T, A
<1>3. A[<<n, m>>] = Append(T[<<n, m>>], r) /\ T[<<n, m>>] \in Seq(Message) BY <1>1, <1>2, Zenon DEF Boxes
<1>4. Has(A, n, m, r) BY <1>3, ThenHas, Zenon DEF Has
<1>5. ASSUME NEW x \in Nodes, NEW y \in Nodes, NEW g, Has(T, x, y, g) PROVE Has(A, x, y, g)
  <2>1. CASE x = n /\ y = m BY <1>3, <1>5, <2>1, ThenHas, Zenon DEF Has
  <2>2. CASE ~(x = n /\ y = m)
    <3>1. A[<<x, y>>] = T[<<x, y>>] BY <1>1, <1>2, <2>2, Zenon DEF Boxes
    <3> QED BY <1>5, <3>1, Zenon DEF Has
  <2> QED BY <2>1, <2>2, Zenon
<1>6. ASSUME NEW x \in Nodes, NEW y \in Nodes, NEW g, Has(inbox, x, y, g), ~(x = m /\ y = n /\ g = h)
      PROVE  Has(A, x, y, g)
  <2>1. Has(T, x, y, g) BY <1>6, StillHas, Zenon DEF T
  <2> QED BY <1>5, <2>1, Zenon
<1> QED BY <1>4, <1>6, Zenon DEF A

LEMMA AskedHas ==
  ASSUME NEW msgs \in Boxes, NEW n \in Nodes, NEW i \in Issue, post_ask_evict_all(n, i, msgs)
  PROVE  /\ \A p \in Nodes : p \in m_peers[n] \ {i.peer_id} => Has(inbox', n, p, Ask(i))
         /\ \A x, y \in Nodes : \A g : Has(msgs, x, y, g) => Has(inbox', x, y, g)
<1>1. Ask(i) \in Message BY Zenon DEF Ask, Message
<1>2. \A x, y \in Nodes :
        inbox'[<<x, y>>] = IF x = n /\ y \in m_peers[n] \ {i.peer_id} THEN Append(msgs[<<x, y>>], Ask(i))
                           ELSE msgs[<<x, y>>]
  BY Zenon DEF post_ask_evict_all
<1>3. \A x, y \in Nodes : msgs[<<x, y>>] \in Seq(Message) BY Zenon DEF Boxes
<1>4. ASSUME NEW p \in Nodes, p \in m_peers[n] \ {i.peer_id} PROVE Has(inbox', n, p, Ask(i))
  <2>1. inbox'[<<n, p>>] = Append(msgs[<<n, p>>], Ask(i)) BY <1>2, <1>4, Zenon
  <2> QED BY <1>1, <1>3, <2>1, ThenHas, Zenon DEF Has
<1>5. ASSUME NEW x \in Nodes, NEW y \in Nodes, NEW g, Has(msgs, x, y, g) PROVE Has(inbox', x, y, g)
  <2>1. inbox'[<<x, y>>] = Append(msgs[<<x, y>>], Ask(i)) \/ inbox'[<<x, y>>] = msgs[<<x, y>>]
    BY <1>2, Zenon
  <2>2. CASE inbox'[<<x, y>>] = msgs[<<x, y>>] BY <1>5, <2>2, Zenon DEF Has
  <2>3. CASE inbox'[<<x, y>>] = Append(msgs[<<x, y>>], Ask(i))
    <3>1. msgs[<<x, y>>] \in Seq(Message) /\ Waits(msgs[<<x, y>>], g) BY <1>3, <1>5, Zenon DEF Has
    <3>2. Waits(Append(msgs[<<x, y>>], Ask(i)), g) BY <1>1, <3>1, ThenHas, Zenon
    <3> QED BY <2>3, <3>2, Zenon DEF Has
  <2> QED BY <2>1, <2>2, <2>3, Zenon
<1> QED BY <1>4, <1>5, Zenon

-----------------------------------------------------------------------------
(* What a mesh that lost no connection agrees on, while one peer is accused *)

\* Members are connected unless one of them has put the other out.
Meshed(P, E, M) ==
  \A n, p \in M : n # p =>
    \/ p \in P[n]
    \/ \E e \in E : (e[1] = n /\ e[2].peer_id = p) \/ (e[1] = p /\ e[2].peer_id = n)

\* The judges of opinion o on i, without those still to be heard (S).
Votes(F, S, M, i, o) ==
  {p \in M \ {i.peer_id} : <<i, p>> \notin S /\ F[p][i].self_opinion = o}

\* n has counted every judge it is not waiting for, once.
Tallied(F, S, M, n, i) ==
  /\ \A p \in M \ {i.peer_id} : <<i, p>> \notin S => i \in DOMAIN F[p]
  /\ F[n][i].yes = Cardinality(Votes(F, S, M, i, TRUE))
  /\ F[n][i].no = Cardinality(Votes(F, S, M, i, FALSE))

\* What n takes for a majority: it may be short of one when n had put the accused out
\* before it raised the issue.
Measured(F, P, M, n, i) ==
  LET v == Cardinality(M \ {i.peer_id}) IN
  \/ F[n][i].expected = v \div 2 + 1
  \/ i.by = n /\ i.peer_id \notin P[n] /\ F[n][i].expected = (v - 1) \div 2 + 1

\* An issue stays open only for want of opinions.
Undecided(F, P, M, n, i) ==
  F[n][i].verdict = "open" /\ i.peer_id \in P[n] /\ M # {n, i.peer_id} =>
    F[n][i].yes < F[n][i].expected /\ F[n][i].no < F[n][i].expected

\* A question still open is on its way, or its answer is, or was an error.
Pending(B, S, E, n, i) ==
  \A p \in Nodes : <<i, p>> \in S =>
    \/ Has(B, n, p, Ask(i))
    \/ \E o \in BOOLEAN : Has(B, p, n, Reply(i, "OK", o))
    \/ \E e \in E : e[2] # i /\ e[2].peer_id = i.peer_id

Agreed(F, R, P, B, E, M) ==
  \A n \in Nodes : \A i \in DOMAIN F[n] :
    /\ Tallied(F, R[n], M, n, i) /\ Measured(F, P, M, n, i) /\ Undecided(F, P, M, n, i)
    /\ Pending(B, R[n], E, n, i)

HInv ==
  lost = 0 /\ OneAccused =>
    /\ Meshed(m_peers, evicted, setting.members)
    /\ Agreed(m_eviction_issues, m_ask_evict_requests, m_peers, inbox, evicted, setting.members)

LEMMA AccusedIs ==
  ASSUME OneAccused, NEW x \in Nodes, NEW y \in Nodes, NEW i \in Known(x), NEW j \in Known(y)
  PROVE  i.peer_id = j.peer_id
BY Zenon DEF OneAccused, Raised

LEMMA AccusedWas ==
  ASSUME OneAccused', Extends(m_eviction_issues, m_eviction_issues')
  PROVE  OneAccused
<1>1. Raised \subseteq Raised' BY Zenon DEF Raised, Known, Extends
<1> QED BY <1>1, Zenon DEF OneAccused

\* Between judges nobody has put anybody out.
LEMMA JudgesMeet ==
  ASSUME BInv, Meshed(m_peers, evicted, setting.members), OneAccused,
         NEW x \in Nodes, NEW i \in Known(x),
         NEW n \in setting.members, NEW p \in setting.members, n # p
  PROVE  /\ n # i.peer_id /\ p # i.peer_id => p \in m_peers[n]
         /\ n # i.peer_id /\ p = i.peer_id /\ p \notin m_peers[n] =>
              \E e \in evicted : e[1] = n /\ e[2] \in Known(n) /\ e[2].peer_id = i.peer_id
<1>1. \A e \in evicted : e[1] \in Nodes /\ e[2] \in Known(e[1]) BY Zenon DEF BInv, OnRecord, Known
<1>2. \A e \in evicted : e[2].peer_id = i.peer_id BY <1>1, AccusedIs
<1> QED BY <1>1, <1>2 DEF Meshed

\* More issues, the same opinions: the tally of an issue that is as it was.
LEMMA TallyKept ==
  ASSUME NEW F, NEW G, NEW S, NEW M \in SUBSET Nodes, NEW n, NEW i, Extends(F, G),
         Tallied(F, S, M, n, i), G[n][i].yes = F[n][i].yes, G[n][i].no = F[n][i].no
  PROVE  Tallied(G, S, M, n, i)
<1>1. \A p \in M \ {i.peer_id} : <<i, p>> \notin S =>
         i \in DOMAIN G[p] /\ G[p][i].self_opinion = F[p][i].self_opinion
  BY Zenon DEF Tallied, Extends
<1>2. \A o : Votes(G, S, M, i, o) = Votes(F, S, M, i, o) BY <1>1, Zenon DEF Votes
<1> QED BY <1>1, <1>2, Zenon DEF Tallied

\* The peers of a server that learns of i: all the judges, and the accused if it is
\* still there.
JudgeCount(M, n, a, P) ==
    LET v == Cardinality(M \ {a}) IN
    /\ v \in Nat /\ v >= 1
    /\ a \in P => Cardinality(P) = v
    /\ a \notin P => Cardinality(P) = v - 1
    /\ M # {n, a} => v >= 2

LEMMA JudgesAre ==
  ASSUME NEW M \in SUBSET Nodes, NEW n \in M, NEW a \in M, n # a,
         NEW P \in SUBSET (M \ {n}), M \ {n, a} \subseteq P
  PROVE  JudgeCount(M, n, a, P)
<1> DEFINE v == Cardinality(M \ {a})
<1>1. IsFiniteSet(M) /\ IsFiniteSet(M \ {a}) /\ IsFiniteSet(M \ {n})
  <2>1. IsFiniteSet(M) BY EvictionAssumption, FS_Subset, Zenon
  <2> QED BY <2>1, FS_Subset, Zenon
<1>2. v = Cardinality(M) - 1 /\ Cardinality(M \ {n}) = Cardinality(M) - 1 /\ Cardinality(M) \in Nat
  BY <1>1, FS_RemoveElement, FS_CardinalityType, Zenon
<1>3. v \in Nat BY <1>1, FS_CardinalityType, Zenon
<1>4. n \in M \ {a} /\ Cardinality((M \ {a}) \ {n}) = v - 1 BY <1>1, FS_RemoveElement, Zenon
<1>5. v >= 1
  <2>1. v # 0 BY <1>1, <1>4, FS_EmptySet, Zenon
  <2> QED BY <1>3, <2>1
<1>6. a \in P => Cardinality(P) = v
  <2>1. a \in P => P = M \ {n} BY Zenon
  <2> QED BY <1>2, <2>1, Zenon
<1>7. a \notin P => Cardinality(P) = v - 1
  <2>1. a \notin P => P = (M \ {a}) \ {n} BY Zenon
  <2> QED BY <1>4, <2>1, Zenon
<1>8. M # {n, a} => v >= 2
  <2>1. SUFFICES ASSUME M # {n, a} PROVE v >= 2 BY Zenon
  <2>2. PICK p \in M \ {a} : p # n BY <2>1, Zenon
  <2>3. M \ {a} \in SUBSET Nodes BY Zenon
  <2> QED BY <1>4, <2>2, <2>3, Peers, Zenon
<1> QED BY <1>3, <1>5, <1>6, <1>7, <1>8, Zenon DEF JudgeCount

\* What waits before n learns of i still waits after, or is the question n answers.
MailKept(n, i, op) ==
    \A x, y \in Nodes :
       /\ \A j : Has(inbox, x, y, Ask(j)) =>
            Has(inbox', x, y, Ask(j)) \/ (j = i /\ y = n /\ Has(inbox', n, x, Reply(i, "OK", op)))
       /\ \A j, o : Has(inbox, x, y, Reply(j, "OK", o)) => Has(inbox', x, y, Reply(j, "OK", o))

LEMMA InsertHas ==
  ASSUME IInv, NEW n \in Nodes, NEW i \in Issue, NEW op \in BOOLEAN, NEW msgs \in Boxes,
         setting.members \subseteq Nodes, Inserts(n, i, op, msgs)
  PROVE  MailKept(n, i, op)
<1> SUFFICES ASSUME NEW x \in Nodes, NEW y \in Nodes
             PROVE  /\ \A j : Has(inbox, x, y, Ask(j)) =>
                          Has(inbox', x, y, Ask(j)) \/ (j = i /\ y = n /\ Has(inbox', n, x, Reply(i, "OK", op)))
                    /\ \A j, o : Has(inbox, x, y, Reply(j, "OK", o)) => Has(inbox', x, y, Reply(j, "OK", o))
  BY Zenon DEF MailKept
<1>1. inbox \in Boxes BY Zenon DEF IInv, GoodInbox, Boxes
<1>2. /\ post_ask_evict_all(n, i, msgs)
      /\ \/ msgs = inbox
         \/ \E m \in setting.members \ {n} :
              Read(m, n, Ask(i)) /\ msgs = Answering(m, n, Reply(i, "OK", op))
  BY Zenon DEF Inserts
<1>3. \A p, q \in Nodes : \A g : Has(msgs, p, q, g) => Has(inbox', p, q, g)
  BY <1>2, AskedHas, Zenon
<1>4. CASE msgs = inbox BY <1>3, <1>4, Zenon
<1>5. ASSUME NEW m \in setting.members \ {n}, Read(m, n, Ask(i)),
             msgs = Answering(m, n, Reply(i, "OK", op))
      PROVE  /\ \A j : Has(inbox, x, y, Ask(j)) =>
                  Has(inbox', x, y, Ask(j)) \/ (j = i /\ y = n /\ Has(inbox', n, x, Reply(i, "OK", op)))
             /\ \A j, o : Has(inbox, x, y, Reply(j, "OK", o)) => Has(inbox', x, y, Reply(j, "OK", o))
  <2>0. m \in Nodes /\ Reply(i, "OK", op) \in Message BY Zenon DEF Reply, Message
  <2>1. /\ Has(msgs, n, m, Reply(i, "OK", op))
        /\ \A p, q \in Nodes : \A g :
             Has(inbox, p, q, g) /\ ~(p = m /\ q = n /\ g = Ask(i)) => Has(msgs, p, q, g)
    BY <1>1, <1>5, <2>0, AnswerHas, Zenon
  <2>2. \A j : Ask(j) = Ask(i) => j = i
    <3>1. \A j : Ask(j).issue = j BY Zenon DEF Ask
    <3> QED BY <3>1, Zenon
  <2>3. \A j, o : Reply(j, "OK", o) # Ask(i)
    <3>1. \A j, o : Reply(j, "OK", o).op = "OK" /\ Ask(i).op = "ASK_EVICT" BY Zenon DEF Reply, Ask
    <3> QED BY <3>1, Zenon
  <2> QED BY <1>3, <2>0, <2>1, <2>2, <2>3, Zenon
<1> QED BY <1>2, <1>4, <1>5, Zenon

LEMMA InsertAgrees ==
  ASSUME IInv, BInv, HInv, NEW n \in setting.members, NEW i \in Issue, NEW op \in BOOLEAN,
         NEW msgs \in Boxes, Inserts(n, i, op, msgs)
  PROVE  HInv'
<1> DEFINE F == m_eviction_issues
           G == m_eviction_issues'
           R == m_ask_evict_requests
           Q == m_ask_evict_requests'
           M == setting.members
           P == m_peers[n]
           a == i.peer_id
<1> SUFFICES ASSUME lost' = 0, OneAccused'
             PROVE  Meshed(m_peers, evicted, M) /\ Agreed(G, Q, m_peers, inbox', evicted, M)
  BY Zenon DEF HInv, Inserts
<1>0. n \in Nodes /\ M \subseteq Nodes /\ a \in M /\ n # a /\ i \notin DOMAIN F[n]
  BY EvictionAssumption, Zenon DEF IInv, Inserts, Known
<1>1. insert_eviction_issue(n, i, op) /\ post_ask_evict_all(n, i, msgs) /\ lost' = lost
  BY Zenon DEF Inserts
<1>2. /\ Extends(F, G) /\ \A x \in Nodes \ {n} : G[x] = F[x]
      /\ DOMAIN G[n] = DOMAIN F[n] \union {i}
      /\ \A j \in DOMAIN F[n] : G[n][j] = F[n][j]
  <2>1. i \notin Known(n) /\ (i.by = n \/ i \in Known(i.by)) BY Zenon DEF Inserts
  <2> QED BY <1>0, <1>1, <2>1, NewIssue, Zenon
<1>3. OneAccused BY <1>2, AccusedWas, Zenon
<1>4. Meshed(m_peers, evicted, M) /\ Agreed(F, R, m_peers, inbox, evicted, M)
  BY <1>1, <1>3, Zenon DEF HInv
<1>5. /\ G[n][i].self_opinion = op /\ G[n][i].verdict = "open"
      /\ G[n][i].yes = (IF op THEN 1 ELSE 0) /\ G[n][i].no = (IF op THEN 0 ELSE 1)
      /\ G[n][i].expected = Cardinality(P) \div 2 + 1
  BY <1>0, <1>1, NewVote, Zenon
<1>6. /\ Q = [R EXCEPT ![n] = @ \union {<<i, p>> : p \in P \ {a}}]
      /\ R \in [Nodes -> SUBSET (Issue \X Nodes)] /\ P \subseteq M \ {n}
  BY <1>0, <1>1, Zenon DEF post_ask_evict_all, IInv, BInv, GoodRequests
\* Every judge but n is its peer.
<1>7. M \ {n, a} \subseteq P
  <2> SUFFICES ASSUME NEW p \in M \ {n, a} PROVE p \in P BY Zenon
  <2>1. \A e \in evicted : e[1] \in Nodes /\ e[2] \in Known(e[1]) BY Zenon DEF BInv, OnRecord, Known
  <2>2. \A e \in evicted : e[2] \in Raised'
    <3>1. \A e \in evicted : e[1] \in Nodes /\ e[2] \in DOMAIN G[e[1]]
      BY <1>2, <2>1, Zenon DEF Extends, Known
    <3> QED BY <3>1, Zenon DEF Raised, Known
  <2>3. i \in Raised' BY <1>0, <1>2, Zenon DEF Raised, Known
  <2>4. \A e \in evicted : e[2].peer_id = a BY <2>2, <2>3, Zenon DEF OneAccused
  <2> QED BY <1>0, <1>4, <2>4 DEF Meshed
<1> DEFINE v == Cardinality(M \ {a})
<1>8. /\ v \in Nat /\ v >= 1 /\ (a \in P => Cardinality(P) = v)
      /\ (a \notin P => Cardinality(P) = v - 1) /\ (M # {n, a} => v >= 2)
  <2>1. M \in SUBSET Nodes /\ P \in SUBSET (M \ {n}) BY <1>0, <1>6, Zenon
  <2>2. n \in M BY Zenon
  <2> HIDE DEF M, P, a
  <2>3. JudgeCount(M, n, a, P) BY <1>0, <1>7, <2>1, <2>2, JudgesAre, Zenon
  <2> QED BY <2>3, Zenon DEF JudgeCount
<1> HIDE DEF G, Q, v
<1>9. /\ \A x \in Nodes \ {n} : Q[x] = R[x]
      /\ \A j \in Issue, p \in Nodes : j # i => (<<j, p>> \in Q[n] <=> <<j, p>> \in R[n])
      /\ \A p \in Nodes : <<i, p>> \in Q[n] <=> p \in P \ {a}
  <2>1. \A p \in Nodes : <<i, p>> \notin R[n] BY <1>0, Zenon DEF IInv, GoodRequests
  <2>2. /\ \A x \in Nodes \ {n} : Q[x] = R[x]
        /\ Q[n] = R[n] \union {<<i, p>> : p \in P \ {a}}
    BY <1>0, <1>6, Zenon
  <2> QED BY <2>1, <2>2, Zenon
\* The new issue.
<1>10. Tallied(G, Q[n], M, n, i)
  <2>1. \A p \in M \ {a} : <<i, p>> \notin Q[n] <=> p = n BY <1>0, <1>6, <1>7, <1>9, Zenon
  <2>2. \A o \in BOOLEAN : Votes(G, Q[n], M, i, o) = IF op = o THEN {n} ELSE {}
    <3> TAKE o \in BOOLEAN
    <3>1. \A p : p \in Votes(G, Q[n], M, i, o) <=> p = n /\ op = o
      BY <1>0, <1>5, <2>1 DEF Votes
    <3> QED BY <3>1, Zenon
  <2>3. Cardinality({n}) = 1 /\ Cardinality({}) = 0 BY FS_Singleton, FS_EmptySet, Zenon
  <2>4. /\ Votes(G, Q[n], M, i, TRUE) = IF op THEN {n} ELSE {}
        /\ Votes(G, Q[n], M, i, FALSE) = IF op THEN {} ELSE {n}
    BY <2>2, Zenon
  <2>5. /\ G[n][i].yes = Cardinality(Votes(G, Q[n], M, i, TRUE))
        /\ G[n][i].no = Cardinality(Votes(G, Q[n], M, i, FALSE))
    BY <1>5, <2>3, <2>4, Zenon
  <2>6. \A p \in M \ {a} : <<i, p>> \notin Q[n] => i \in DOMAIN G[p] BY <1>2, <2>1, Zenon
  <2> QED BY <2>5, <2>6, Zenon DEF Tallied
<1>11. Measured(G, m_peers, M, n, i)
  <2>1. a \in P \/ i.by = n BY Zenon DEF Inserts
  <2> QED BY <1>5, <1>8, <2>1, Zenon DEF Measured, v
<1>12. Undecided(G, m_peers, M, n, i)
  <2> SUFFICES ASSUME a \in P, M # {n, a}
               PROVE  G[n][i].yes < G[n][i].expected /\ G[n][i].no < G[n][i].expected
    BY Zenon DEF Undecided
  <2>1. v \div 2 + 1 >= 2 BY <1>8
  <2>2. G[n][i].expected = v \div 2 + 1 BY <1>5, <1>8, Zenon
  <2>3. v \div 2 + 1 \in Nat BY <1>8
  <2> QED BY <1>5, <2>1, <2>2, <2>3
<1>13. Pending(inbox', Q[n], evicted, n, i)
  BY <1>0, <1>1, <1>9, AskedHas, Zenon DEF Pending
\* The others.
<1>a. \A x, y \in Nodes :
        /\ \A j : Has(inbox, x, y, Ask(j)) =>
             Has(inbox', x, y, Ask(j)) \/ (j = i /\ y = n /\ Has(inbox', n, x, Reply(i, "OK", op)))
        /\ \A j, o : Has(inbox, x, y, Reply(j, "OK", o)) => Has(inbox', x, y, Reply(j, "OK", o))
  <2>1. setting.members \subseteq Nodes BY <1>0, Zenon
  <2>2. MailKept(n, i, op) BY <1>0, <2>1, InsertHas, Zenon
  <2> QED BY <2>2, Zenon DEF MailKept
<1>14. ASSUME NEW x \in Nodes, NEW j \in DOMAIN F[x], ~(x = n /\ j = i)
       PROVE  /\ Tallied(G, Q[x], M, x, j) /\ Measured(G, m_peers, M, x, j)
              /\ Undecided(G, m_peers, M, x, j) /\ Pending(inbox', Q[x], evicted, x, j)
  <2>1. /\ Tallied(F, R[x], M, x, j) /\ Measured(F, m_peers, M, x, j)
        /\ Undecided(F, m_peers, M, x, j) /\ Pending(inbox, R[x], evicted, x, j)
    BY <1>4, Zenon DEF Agreed
  <2>2. G[x][j] = F[x][j] /\ j \in Issue
    <3>1. j \in Issue BY DEF IInv, GoodIssues
    <3> QED BY <1>2, <3>1, Zenon
  <2>3. \A p \in Nodes : <<j, p>> \in Q[x] <=> <<j, p>> \in R[x] BY <1>9, <1>14, <2>2, Zenon
  <2>4. Tallied(G, Q[x], M, x, j)
    <3>1. Tallied(G, R[x], M, x, j) BY <1>0, <1>2, <2>1, <2>2, TallyKept, Zenon
    <3>2. \A o : Votes(G, Q[x], M, j, o) = Votes(G, R[x], M, j, o)
      BY <1>0, <2>3, Zenon DEF Votes
    <3> QED BY <1>0, <2>3, <3>1, <3>2, Zenon DEF Tallied
  <2>5. Measured(G, m_peers, M, x, j) /\ Undecided(G, m_peers, M, x, j)
    BY <2>1, <2>2, Zenon DEF Measured, Undecided
  <2>6. Pending(inbox', Q[x], evicted, x, j)
    <3> SUFFICES ASSUME NEW p \in Nodes, <<j, p>> \in R[x]
                 PROVE  \/ Has(inbox', x, p, Ask(j))
                        \/ \E o \in BOOLEAN : Has(inbox', p, x, Reply(j, "OK", o))
                        \/ \E e \in evicted : e[2] # j /\ e[2].peer_id = j.peer_id
      BY <2>3, Zenon DEF Pending
    <3>1. \/ Has(inbox, x, p, Ask(j))
          \/ \E o \in BOOLEAN : Has(inbox, p, x, Reply(j, "OK", o))
          \/ \E e \in evicted : e[2] # j /\ e[2].peer_id = j.peer_id
      BY <2>1, Zenon DEF Pending
    <3>2. CASE Has(inbox, x, p, Ask(j))
      <4>1. Has(inbox', x, p, Ask(j)) \/ (j = i /\ p = n /\ Has(inbox', n, x, Reply(i, "OK", op)))
        BY <1>a, <3>2, Zenon
      <4> QED BY <4>1, Zenon
    <3>3. CASE \E o \in BOOLEAN : Has(inbox, p, x, Reply(j, "OK", o))
      BY <1>a, <3>3, Zenon
    <3> QED BY <3>1, <3>2, <3>3, Zenon
  <2> QED BY <2>4, <2>5, <2>6, Zenon
<1>15. Agreed(G, Q, m_peers, inbox', evicted, M)
  <2> SUFFICES ASSUME NEW x \in Nodes, NEW j \in DOMAIN G[x]
               PROVE  /\ Tallied(G, Q[x], M, x, j) /\ Measured(G, m_peers, M, x, j)
                      /\ Undecided(G, m_peers, M, x, j) /\ Pending(inbox', Q[x], evicted, x, j)
    BY Zenon DEF Agreed
  <2>1. CASE x = n /\ j = i BY <1>10, <1>11, <1>12, <1>13, <2>1, Zenon
  <2>2. CASE ~(x = n /\ j = i)
    <3>1. j \in DOMAIN F[x] BY <1>2, <2>2, Zenon
    <3> QED BY <1>14, <2>2, <3>1, Zenon
  <2> QED BY <2>1, <2>2, Zenon
<1> QED BY <1>4, <1>15, Zenon DEF G, Q

\* The opinion of m is counted where it was waited for.
LEMMA Heard ==
  ASSUME NEW F, NEW S, NEW T, NEW M \in SUBSET Nodes, NEW i, NEW m \in M \ {i.peer_id},
         <<i, m>> \in S, T = S \ {<<i, m>>}, NEW opinion \in BOOLEAN, NEW o \in BOOLEAN,
         opinion = F[m][i].self_opinion
  PROVE  Cardinality(Votes(F, T, M, i, o)) =
           IF opinion = o THEN Cardinality(Votes(F, S, M, i, o)) + 1
           ELSE Cardinality(Votes(F, S, M, i, o))
<1> DEFINE V == Votes(F, S, M, i, o)
           W == Votes(F, T, M, i, o)
<1>1. IsFiniteSet(V)
  <2>1. V \subseteq Nodes BY Zenon DEF Votes
  <2> QED BY <2>1, EvictionAssumption, FS_Subset, Zenon
<1>2. m \notin V BY Zenon DEF Votes
<1>3. \A p : <<i, p>> \in T <=> <<i, p>> \in S /\ p # m BY Zenon
<1>4. CASE opinion = o
  <2>1. W = V \union {m} BY <1>3, <1>4, Zenon DEF Votes
  <2>2. Cardinality(V \union {m}) = Cardinality(V) + 1 BY <1>1, <1>2, FS_AddElement, Zenon
  <2> QED BY <1>4, <2>1, <2>2, Zenon
<1>5. CASE opinion # o
  <2>1. W = V BY <1>3, <1>5 DEF Votes
  <2> QED BY <1>5, <2>1, Zenon
<1> QED BY <1>4, <1>5, Zenon

LEMMA CountAgrees ==
  ASSUME IInv, BInv, HInv, NEW m \in setting.members, NEW n \in setting.members, m # n,
         NEW i \in Issue, NEW opinion \in BOOLEAN, Counts(m, n, i, opinion)
  PROVE  HInv'
<1> DEFINE F == m_eviction_issues
           G == m_eviction_issues'
           R == m_ask_evict_requests
           Q == m_ask_evict_requests'
           M == setting.members
<1> SUFFICES ASSUME lost' = 0, OneAccused'
             PROVE  Meshed(m_peers', evicted', M) /\ Agreed(G, Q, m_peers', inbox', evicted', M)
  BY Zenon DEF HInv, Counts
<1> HIDE DEF G, Q
<1>0. m \in Nodes /\ n \in Nodes /\ M \in SUBSET Nodes BY EvictionAssumption, Zenon DEF IInv
<1>1. /\ m # i.peer_id /\ i \in DOMAIN F[m] /\ opinion = F[m][i].self_opinion
      /\ Read(m, n, Reply(i, "OK", opinion)) /\ lost' = lost
  BY Zenon DEF Counts, Known
<1>2. Replied(m, n, i, opinion) BY <1>0, ReplyIs, Zenon DEF Counts
<1>3. /\ i \in DOMAIN F[n] /\ <<i, m>> \in R[n] /\ inbox' = Took(m, n)
      /\ Q[n] = R[n] \ {<<i, m>>} /\ \A x \in Nodes \ {n} : Q[x] = R[x]
      /\ \A x \in Nodes : DOMAIN G[x] = DOMAIN F[x]
      /\ \A x \in Nodes : \A j \in DOMAIN F[x] : ~(x = n /\ j = i) => G[x][j] = F[x][j]
  BY <1>2, Zenon DEF Replied, G, Q
<1>4. /\ F[n][i] \in Vote /\ G[n][i].self_opinion = F[n][i].self_opinion
      /\ G[n][i].yes = IF opinion THEN F[n][i].yes + 1 ELSE F[n][i].yes
      /\ G[n][i].no = IF opinion THEN F[n][i].no ELSE F[n][i].no + 1
      /\ G[n][i].expected = F[n][i].expected
      /\ G[n][i].verdict = "open" => G[n][i].yes < G[n][i].expected /\ G[n][i].no < G[n][i].expected
  BY <1>2, Zenon DEF Replied, G
<1>5. Extends(F, G) BY <1>3, <1>4, Zenon DEF Extends
<1>6. OneAccused BY <1>5, AccusedWas, Zenon DEF G
<1>7. Meshed(m_peers, evicted, M) /\ Agreed(F, R, m_peers, inbox, evicted, M)
  BY <1>1, <1>6, Zenon DEF HInv
<1>8. /\ \A x \in Nodes : m_peers'[x] \subseteq m_peers[x]
      /\ evicted \subseteq evicted' /\ Meshed(m_peers', evicted', M)
  <2>1. CASE UNCHANGED <<m_peers, evicted>> BY <1>7, <2>1, Zenon
  <2>2. CASE do_evict_peer(n, i)
    <3>1. m_peers \in [Nodes -> SUBSET Nodes] BY Zenon DEF IInv
    <3>2. /\ m_peers' = [m_peers EXCEPT ![n] = @ \ {i.peer_id}] /\ evicted' = evicted \union {<<n, i>>}
      BY <2>2, Zenon DEF do_evict_peer
    <3>3. /\ m_peers'[n] = m_peers[n] \ {i.peer_id}
          /\ \A x \in Nodes \ {n} : m_peers'[x] = m_peers[x]
      BY <1>0, <3>1, <3>2, Zenon
    <3>4. <<n, i>> \in evicted' /\ <<n, i>>[1] = n /\ <<n, i>>[2] = i /\ evicted \subseteq evicted'
      BY <3>2, Zenon
    <3>5. ASSUME NEW x \in M, NEW p \in M, x # p
          PROVE  \/ p \in m_peers'[x]
                 \/ \E e \in evicted' : (e[1] = x /\ e[2].peer_id = p) \/ (e[1] = p /\ e[2].peer_id = x)
      <4>1. CASE x = n /\ p = i.peer_id BY <3>4, <4>1, Zenon
      <4>2. CASE ~(x = n /\ p = i.peer_id)
        <5>1. x \in Nodes /\ (p \in m_peers[x] => p \in m_peers'[x]) BY <1>0, <3>3, <4>2, Zenon
        <5> QED BY <1>7, <3>4, <3>5, <5>1, Zenon DEF Meshed
      <4> QED BY <4>1, <4>2, Zenon
    <3>6. Meshed(m_peers', evicted', M) BY <3>5, Zenon DEF Meshed
    <3> QED BY <3>3, <3>4, <3>6, Zenon
  <2> QED BY <1>2, <2>1, <2>2, Zenon DEF Replied
\* The issue counted.
<1>9. Tallied(G, Q[n], M, n, i)
  <2>1. Tallied(F, R[n], M, n, i) BY <1>0, <1>3, <1>7, Zenon DEF Agreed
  <2>2. m \in M \ {i.peer_id} BY <1>1, Zenon
  <2>3. \A o \in BOOLEAN :
          Cardinality(Votes(F, Q[n], M, i, o)) =
            IF opinion = o THEN Cardinality(Votes(F, R[n], M, i, o)) + 1
            ELSE Cardinality(Votes(F, R[n], M, i, o))
    BY <1>0, <1>1, <1>3, <2>2, Heard
  <2>4. \A p \in M \ {i.peer_id} : <<i, p>> \notin Q[n] => i \in DOMAIN F[p]
    BY <1>1, <1>3, <2>1, Zenon DEF Tallied
  <2>5. \A o : Votes(G, Q[n], M, i, o) = Votes(F, Q[n], M, i, o)
    BY <1>0, <1>5, <2>4, Zenon DEF Votes, Extends
  <2>6. \A p \in M \ {i.peer_id} : <<i, p>> \notin Q[n] => i \in DOMAIN G[p]
    BY <1>0, <1>3, <2>4, Zenon
  <2>7. /\ Cardinality(Votes(G, Q[n], M, i, TRUE)) =
             IF opinion THEN Cardinality(Votes(F, R[n], M, i, TRUE)) + 1
             ELSE Cardinality(Votes(F, R[n], M, i, TRUE))
        /\ Cardinality(Votes(G, Q[n], M, i, FALSE)) =
             IF opinion THEN Cardinality(Votes(F, R[n], M, i, FALSE))
             ELSE Cardinality(Votes(F, R[n], M, i, FALSE)) + 1
    BY <2>3, <2>5, Zenon
  <2>8. /\ F[n][i].yes = Cardinality(Votes(F, R[n], M, i, TRUE))
        /\ F[n][i].no = Cardinality(Votes(F, R[n], M, i, FALSE))
    BY <2>1, Zenon DEF Tallied
  <2>9. /\ G[n][i].yes = Cardinality(Votes(G, Q[n], M, i, TRUE))
        /\ G[n][i].no = Cardinality(Votes(G, Q[n], M, i, FALSE))
    BY <1>4, <2>7, <2>8, Zenon
  <2> QED BY <2>6, <2>9, Zenon DEF Tallied
\* Every issue.
<1>10. ASSUME NEW x \in Nodes, NEW j \in DOMAIN F[x]
       PROVE  /\ Tallied(G, Q[x], M, x, j) /\ Measured(G, m_peers', M, x, j)
              /\ Undecided(G, m_peers', M, x, j) /\ Pending(inbox', Q[x], evicted', x, j)
  <2>1. /\ Tallied(F, R[x], M, x, j) /\ Measured(F, m_peers, M, x, j)
        /\ Undecided(F, m_peers, M, x, j) /\ Pending(inbox, R[x], evicted, x, j)
    BY <1>7, Zenon DEF Agreed
  <2>2. Tallied(G, Q[x], M, x, j)
    <3>1. CASE x = n /\ j = i BY <1>9, <3>1, Zenon
    <3>2. CASE ~(x = n /\ j = i)
      <4>1. G[x][j] = F[x][j] BY <1>3, <3>2, Zenon
      <4>2. Tallied(G, R[x], M, x, j) BY <1>0, <1>5, <2>1, <4>1, TallyKept, Zenon
      <4>3. \A p : <<j, p>> \in Q[x] <=> <<j, p>> \in R[x] BY <1>3, <3>2, Zenon
      <4>4. \A o : Votes(G, Q[x], M, j, o) = Votes(G, R[x], M, j, o) BY <4>3, Zenon DEF Votes
      <4> QED BY <4>2, <4>3, <4>4, Zenon DEF Tallied
    <3> QED BY <3>1, <3>2, Zenon
  <2>3. Measured(G, m_peers', M, x, j)
    <3>1. G[x][j].expected = F[x][j].expected BY <1>3, <1>4, Zenon
    <3>2. j.peer_id \notin m_peers[x] => j.peer_id \notin m_peers'[x] BY <1>8, Zenon
    <3> QED BY <2>1, <3>1, <3>2, Zenon DEF Measured
  <2>4. Undecided(G, m_peers', M, x, j)
    <3>1. j.peer_id \in m_peers'[x] => j.peer_id \in m_peers[x] BY <1>8, Zenon
    <3>2. CASE x = n /\ j = i BY <1>4, <3>2, Zenon DEF Undecided
    <3>3. CASE ~(x = n /\ j = i)
      <4>1. G[x][j] = F[x][j] BY <1>3, <3>3, Zenon
      <4> QED BY <2>1, <3>1, <4>1, Zenon DEF Undecided
    <3> QED BY <3>2, <3>3, Zenon
  <2>5. Pending(inbox', Q[x], evicted', x, j)
    <3> SUFFICES ASSUME NEW p \in Nodes, <<j, p>> \in Q[x]
                 PROVE  \/ Has(inbox', x, p, Ask(j))
                        \/ \E o \in BOOLEAN : Has(inbox', p, x, Reply(j, "OK", o))
                        \/ \E e \in evicted' : e[2] # j /\ e[2].peer_id = j.peer_id
      BY Zenon DEF Pending
    <3>1. <<j, p>> \in R[x] /\ ~(x = n /\ j = i /\ p = m) BY <1>3, Zenon
    <3>2. \/ Has(inbox, x, p, Ask(j))
          \/ \E o \in BOOLEAN : Has(inbox, p, x, Reply(j, "OK", o))
          \/ \E e \in evicted : e[2] # j /\ e[2].peer_id = j.peer_id
      BY <2>1, <3>1, Zenon DEF Pending
    <3>3. inbox \in Boxes BY Zenon DEF IInv, GoodInbox, Boxes
    <3>4. CASE Has(inbox, x, p, Ask(j))
      <4>1. Ask(j) # Reply(i, "OK", opinion)
        <5>1. Ask(j).op = "ASK_EVICT" /\ Reply(i, "OK", opinion).op = "OK" BY Zenon DEF Ask, Reply
        <5> QED BY <5>1, Zenon
      <4>2. Has(Took(m, n), x, p, Ask(j)) BY <1>0, <1>1, <3>3, <3>4, <4>1, StillHas, Zenon
      <4> QED BY <1>3, <4>2, Zenon
    <3>5. ASSUME NEW o \in BOOLEAN, Has(inbox, p, x, Reply(j, "OK", o))
          PROVE  Has(inbox', p, x, Reply(j, "OK", o))
      <4>1. ~(p = m /\ x = n /\ Reply(j, "OK", o) = Reply(i, "OK", opinion))
        <5>1. Reply(j, "OK", o).issue = j /\ Reply(i, "OK", opinion).issue = i BY Zenon DEF Reply
        <5> QED BY <3>1, <5>1, Zenon
      <4>2. Has(Took(m, n), p, x, Reply(j, "OK", o)) BY <1>0, <1>1, <3>3, <3>5, <4>1, StillHas, Zenon
      <4> QED BY <1>3, <4>2, Zenon
    <3> QED BY <1>8, <3>2, <3>4, <3>5, Zenon
  <2> QED BY <2>2, <2>3, <2>4, <2>5, Zenon
<1>11. Agreed(G, Q, m_peers', inbox', evicted', M) BY <1>3, <1>10, Zenon DEF Agreed
<1> QED BY <1>8, <1>11, Zenon DEF G, Q

\* No issue changes and nobody is put out: what is left to see is the connections
\* and the messages.
LEMMA QuietAgrees ==
  ASSUME HInv, UNCHANGED <<setting, m_eviction_issues, m_ask_evict_requests, evicted, lost>>,
         \A x \in Nodes : m_peers'[x] \subseteq m_peers[x],
         lost = 0 /\ OneAccused /\ Meshed(m_peers, evicted, setting.members) =>
           /\ Meshed(m_peers', evicted, setting.members)
           /\ \A x \in Nodes : \A j \in Known(x) :
                Pending(inbox, m_ask_evict_requests[x], evicted, x, j) =>
                  Pending(inbox', m_ask_evict_requests[x], evicted, x, j)
  PROVE  HInv'
<1> DEFINE F == m_eviction_issues
           R == m_ask_evict_requests
           M == setting.members
<1>0. OneAccused' = OneAccused BY DEF OneAccused, Raised, Known
<1> SUFFICES ASSUME lost = 0, OneAccused
             PROVE  Meshed(m_peers', evicted, M) /\ Agreed(F, R, m_peers', inbox', evicted, M)
  BY <1>0, Zenon DEF HInv
<1>1. Meshed(m_peers, evicted, M) /\ Agreed(F, R, m_peers, inbox, evicted, M) BY Zenon DEF HInv
<1>2. ASSUME NEW x \in Nodes, NEW j \in DOMAIN F[x]
      PROVE  /\ Tallied(F, R[x], M, x, j) /\ Measured(F, m_peers', M, x, j)
             /\ Undecided(F, m_peers', M, x, j) /\ Pending(inbox', R[x], evicted, x, j)
  <2>1. /\ Tallied(F, R[x], M, x, j) /\ Measured(F, m_peers, M, x, j)
        /\ Undecided(F, m_peers, M, x, j) /\ Pending(inbox, R[x], evicted, x, j)
    BY <1>1, Zenon DEF Agreed
  <2>2. j.peer_id \in m_peers'[x] => j.peer_id \in m_peers[x] BY Zenon
  <2>3. Measured(F, m_peers', M, x, j) /\ Undecided(F, m_peers', M, x, j)
    BY <2>1, <2>2, Zenon DEF Measured, Undecided
  <2>4. Pending(inbox', R[x], evicted, x, j) BY <1>1, <2>1, Zenon DEF Known
  <2> QED BY <2>1, <2>3, <2>4, Zenon
<1>3. Agreed(F, R, m_peers', inbox', evicted, M) BY <1>2, Zenon DEF Agreed
<1> QED BY <1>1, <1>3, Zenon

\* What waits still waits, but for a question now answered.
LEMMA PendingKept ==
  ASSUME NEW B, NEW C, NEW S, NEW E, NEW x \in Nodes, NEW j, Pending(B, S, E, x, j),
         \A p \in Nodes : Has(B, x, p, Ask(j)) =>
           \/ Has(C, x, p, Ask(j))
           \/ \E o \in BOOLEAN : Has(C, p, x, Reply(j, "OK", o))
           \/ \E e \in E : e[2] # j /\ e[2].peer_id = j.peer_id,
         \A p \in Nodes : \A o \in BOOLEAN :
           Has(B, p, x, Reply(j, "OK", o)) => Has(C, p, x, Reply(j, "OK", o))
  PROVE  Pending(C, S, E, x, j)
BY Zenon DEF Pending

LEMMA AnswerAgrees ==
  ASSUME IInv, BInv, HInv, NEW m \in setting.members, NEW n \in setting.members, m # n,
         NEW i \in Issue, Answers(m, n, i)
  PROVE  HInv'
<1> DEFINE F == m_eviction_issues
           M == setting.members
<1>0. /\ m \in Nodes /\ n \in Nodes /\ M \subseteq Nodes /\ i.by \in Nodes
      /\ inbox \in Boxes
  BY EvictionAssumption, Zenon DEF IInv, GoodInbox, Boxes, Issue
<1>1. /\ Read(m, n, Ask(i)) /\ n # i.peer_id /\ i \in Known(i.by)
      /\ UNCHANGED <<setting, m_peers, m_eviction_issues, m_ask_evict_requests, raising, evicted, lost>>
  BY Zenon DEF Answers
<1>2. PICK r \in Message : inbox' = Answering(m, n, r)
  <2>1. \A o \in BOOLEAN, st \in {"OK", "ERR"} : Reply(i, st, o) \in Message BY Zenon DEF Reply, Message
  <2> QED BY <2>1, Zenon DEF Answers
<1>3. \A x, y \in Nodes : \A g :
        Has(inbox, x, y, g) /\ ~(x = m /\ y = n /\ g = Ask(i)) => Has(inbox', x, y, g)
  BY <1>0, <1>1, <1>2, AnswerHas, Zenon
<1>4. ASSUME OneAccused, Meshed(m_peers, evicted, M)
      PROVE  \/ \E o \in BOOLEAN : Has(inbox', n, m, Reply(i, "OK", o))
             \/ \E e \in evicted : e[2] # i /\ e[2].peer_id = i.peer_id
  <2>1. ASSUME NEW o \in BOOLEAN, inbox' = Answering(m, n, Reply(i, "OK", o))
        PROVE  Has(inbox', n, m, Reply(i, "OK", o))
    <3>1. Reply(i, "OK", o) \in Message BY Zenon DEF Reply, Message
    <3>2. Has(Answering(m, n, Reply(i, "OK", o)), n, m, Reply(i, "OK", o))
      BY <1>0, <1>1, <3>1, AnswerHas, Zenon
    <3> QED BY <2>1, <3>2, Zenon
  <2>2. CASE i \notin Known(n) /\ i.peer_id \notin m_peers[n]
    <3>1. i.peer_id \in M BY <1>0, <1>1, Zenon DEF BInv, InCluster, Known
    <3>2. PICK e \in evicted : e[1] = n /\ e[2] \in Known(n) /\ e[2].peer_id = i.peer_id
      BY <1>0, <1>1, <1>4, <2>2, <3>1, JudgesMeet, Zenon
    <3> QED BY <2>2, <3>2, Zenon
  <2> QED BY <2>1, <2>2, Zenon DEF Answers
<1>5. ASSUME lost = 0, OneAccused, Meshed(m_peers, evicted, M), NEW x \in Nodes, NEW j \in Known(x),
             Pending(inbox, m_ask_evict_requests[x], evicted, x, j)
      PROVE  Pending(inbox', m_ask_evict_requests[x], evicted, x, j)
  <2>1. \A k : Ask(k).issue = k /\ Ask(k).op = "ASK_EVICT" BY Zenon DEF Ask
  <2>2. \A k, o : Reply(k, "OK", o).op = "OK" BY Zenon DEF Reply
  <2>3. \A p \in Nodes : Has(inbox, x, p, Ask(j)) =>
          \/ Has(inbox', x, p, Ask(j))
          \/ \E o \in BOOLEAN : Has(inbox', p, x, Reply(j, "OK", o))
          \/ \E e \in evicted : e[2] # j /\ e[2].peer_id = j.peer_id
    <3> SUFFICES ASSUME NEW p \in Nodes, Has(inbox, x, p, Ask(j)), x = m, p = n, Ask(j) = Ask(i)
                 PROVE  \/ \E o \in BOOLEAN : Has(inbox', p, x, Reply(j, "OK", o))
                        \/ \E e \in evicted : e[2] # j /\ e[2].peer_id = j.peer_id
      BY <1>3, Zenon
    <3>1. j = i BY <2>1
    <3> QED BY <1>4, <1>5, <3>1, Zenon
  <2>4. \A p \in Nodes : \A o \in BOOLEAN :
          Has(inbox, p, x, Reply(j, "OK", o)) => Has(inbox', p, x, Reply(j, "OK", o))
    <3>1. \A o : Reply(j, "OK", o) # Ask(i)
      <4>1. "OK" # "ASK_EVICT" BY Zenon
      <4> QED BY <2>1, <2>2, <4>1, Zenon
    <3> QED BY <1>3, <3>1, Zenon
  <2> QED BY <1>5, <2>3, <2>4, PendingKept, Zenon
<1>6. \A x \in Nodes : m_peers'[x] \subseteq m_peers[x] BY <1>1, Zenon
<1> QED BY <1>1, <1>5, <1>6, QuietAgrees, Zenon

LEMMA IdleAgrees ==
  ASSUME IInv, HInv, Idles
  PROVE  HInv'
<1>0. inbox \in Boxes BY Zenon DEF IInv, GoodInbox, Boxes
<1>1. UNCHANGED <<setting, m_peers, m_eviction_issues, m_ask_evict_requests, evicted, lost>>
  BY Zenon DEF Idles
<1>2. \A x, y \in Nodes : \A g : Has(inbox, x, y, g) /\ g.op # "ERR" => Has(inbox', x, y, g)
  <2>1. ASSUME NEW m \in Nodes, NEW n \in Nodes, NEW h, Read(m, n, h), h.op = "ERR",
               inbox' = Took(m, n),
               NEW x \in Nodes, NEW y \in Nodes, NEW g, Has(inbox, x, y, g), g.op # "ERR"
        PROVE  Has(inbox', x, y, g)
    <3>1. Has(Took(m, n), x, y, g) BY <1>0, <2>1, StillHas, Zenon
    <3> QED BY <2>1, <3>1, Zenon
  <2>2. CASE inbox' = inbox BY <2>2, Zenon
  <2> QED BY <2>1, <2>2, Zenon DEF Idles
<1>3. ASSUME NEW x \in Nodes, NEW j \in Known(x),
             Pending(inbox, m_ask_evict_requests[x], evicted, x, j)
      PROVE  Pending(inbox', m_ask_evict_requests[x], evicted, x, j)
  <2>1. Ask(j).op # "ERR" /\ \A o : Reply(j, "OK", o).op # "ERR" BY Zenon DEF Ask, Reply
  <2> QED BY <1>2, <1>3, <2>1, PendingKept, Zenon
<1>4. \A x \in Nodes : m_peers'[x] \subseteq m_peers[x] BY <1>1, Zenon
<1> QED BY <1>1, <1>3, <1>4, QuietAgrees, Zenon

\* A connection closed at the other end is one with the accused: no judge waits on it.
LEMMA RemoveAgrees ==
  ASSUME IInv, BInv, HInv, NEW m \in setting.members, NEW n \in setting.members, m # n,
         setting' = setting, remove_client(m, n)
  PROVE  HInv'
<1> DEFINE M == setting.members
           R == m_ask_evict_requests
<1>0. /\ m \in Nodes /\ n \in Nodes /\ inbox \in Boxes /\ m_peers \in [Nodes -> SUBSET Nodes]
  BY EvictionAssumption, Zenon DEF IInv, GoodInbox, Boxes
<1>1. /\ UNCHANGED <<m_eviction_issues, m_ask_evict_requests, evicted, lost>>
      /\ m_peers' = [m_peers EXCEPT ![n] = @ \ {m}] /\ n \notin m_peers[m]
      /\ inbox' = [inbox EXCEPT ![<<m, n>>] = <<>>, ![<<n, m>>] = <<>>]
  BY Zenon DEF remove_client
<1>2. /\ m_peers'[n] = m_peers[n] \ {m} /\ \A x \in Nodes \ {n} : m_peers'[x] = m_peers[x]
  BY <1>0, <1>1, Zenon
<1>3. \A x, y \in Nodes : ~({x, y} = {m, n}) => inbox'[<<x, y>>] = inbox[<<x, y>>]
  BY <1>0, <1>1, Zenon DEF Boxes
<1>4. \A x \in Nodes : m_peers'[x] \subseteq m_peers[x] BY <1>2, Zenon
<1>5. ASSUME OneAccused, Meshed(m_peers, evicted, M)
      PROVE  /\ Meshed(m_peers', evicted, M)
             /\ \A x \in Nodes : \A j \in Known(x) :
                  Pending(inbox, R[x], evicted, x, j) => Pending(inbox', R[x], evicted, x, j)
  <2>1. PICK e \in evicted : (e[1] = m /\ e[2].peer_id = n) \/ (e[1] = n /\ e[2].peer_id = m)
    BY <1>1, <1>5, Zenon DEF Meshed
  <2>2. e[1] \in Nodes /\ e[2] \in Known(e[1]) BY Zenon DEF BInv, OnRecord, Known
  <2>3. Meshed(m_peers', evicted, M)
    <3> SUFFICES ASSUME NEW x \in M, NEW p \in M, x # p
                 PROVE  \/ p \in m_peers'[x]
                        \/ \E f \in evicted : (f[1] = x /\ f[2].peer_id = p) \/ (f[1] = p /\ f[2].peer_id = x)
      BY Zenon DEF Meshed
    <3>1. CASE x = n /\ p = m BY <2>1, <3>1, Zenon
    <3>2. CASE ~(x = n /\ p = m)
      <4>1. x \in Nodes BY EvictionAssumption, Zenon DEF IInv
      <4>2. p \in m_peers[x] => p \in m_peers'[x] BY <1>2, <3>2, <4>1, Zenon
      <4> QED BY <1>5, <4>2, Zenon DEF Meshed
    <3> QED BY <3>1, <3>2, Zenon
  <2>4. ASSUME NEW x \in Nodes, NEW j \in Known(x), Pending(inbox, R[x], evicted, x, j)
        PROVE  Pending(inbox', R[x], evicted, x, j)
    <3>1. j.peer_id \in {m, n}
      <4>1. j.peer_id = e[2].peer_id BY <1>5, <2>2, <2>4, AccusedIs
      <4> QED BY <2>1, <4>1, Zenon
    <3>2. j \in Issue /\ x # j.peer_id BY <2>4 DEF IInv, GoodIssues, Known
    <3>3. \A p \in Nodes : <<j, p>> \in R[x] =>
             inbox'[<<x, p>>] = inbox[<<x, p>>] /\ inbox'[<<p, x>>] = inbox[<<p, x>>]
      <4> SUFFICES ASSUME NEW p \in Nodes, <<j, p>> \in R[x]
                   PROVE  inbox'[<<x, p>>] = inbox[<<x, p>>] /\ inbox'[<<p, x>>] = inbox[<<p, x>>]
        BY Zenon
      <4>1. p # j.peer_id BY <3>2, Zenon DEF BInv, Asked
      <4>2. ~({x, p} = {m, n}) /\ ~({p, x} = {m, n}) BY <3>1, <3>2, <4>1, Zenon
      <4> QED BY <1>3, <4>2, Zenon
    <3> QED BY <2>4, <3>3, Zenon DEF Pending, Has
  <2> QED BY <2>3, <2>4, Zenon
<1> QED BY <1>1, <1>4, <1>5, QuietAgrees, Zenon

LEMMA BreakAgrees ==
  ASSUME BInv, NEW m, NEW n, ConnectionBreaks(m, n)
  PROVE  HInv'
<1>1. lost \in Nat /\ lost' = lost + 1 BY Zenon DEF BInv, ConnectionBreaks
<1>2. lost' # 0 BY <1>1
<1> QED BY <1>2, Zenon DEF HInv

LEMMA StepAgrees == IInv /\ BInv /\ HInv /\ [ENext]_evars => HInv'
<1> SUFFICES ASSUME IInv, BInv, HInv, [ENext]_evars PROVE HInv' BY Zenon
<1>1. CASE UNCHANGED evars
  <2>1. \A x \in Nodes : m_peers'[x] \subseteq m_peers[x] BY <1>1, Zenon DEF evars
  <2>2. /\ UNCHANGED <<setting, m_peers, m_eviction_issues, m_ask_evict_requests, evicted, lost>>
        /\ inbox' = inbox
    BY <1>1, Zenon DEF evars
  <2> QED BY <2>1, <2>2, QuietAgrees, Zenon
<1>2. CASE ENext
  BY <1>2, StepIs, InsertAgrees, CountAgrees, AnswerAgrees, IdleAgrees, RemoveAgrees, BreakAgrees, Zenon
<1> QED BY <1>1, <1>2, Zenon

LEMMA InitAgrees == EInit => HInv
<1> SUFFICES ASSUME EInit PROVE HInv BY Zenon
<1>1. setting.members \subseteq Nodes BY EvictionAssumption, Zenon DEF EInit
<1>2. \A n \in setting.members : m_peers[n] = setting.members \ {n} BY <1>1, Zenon DEF EInit
<1>3. Meshed(m_peers, evicted, setting.members) BY <1>2, Zenon DEF Meshed
<1>4. \A n \in Nodes : DOMAIN m_eviction_issues[n] = {} BY DEF EInit
<1>5. Agreed(m_eviction_issues, m_ask_evict_requests, m_peers, inbox, evicted, setting.members)
  BY <1>4, Zenon DEF Agreed
<1> QED BY <1>3, <1>5, Zenon DEF HInv

-----------------------------------------------------------------------------
(* Two majorities of the judges meet *)

LEMMA Halves ==
  ASSUME NEW v \in Nat, v >= 1
  PROVE  (v \div 2 + 1) + ((v - 1) \div 2 + 1) > v /\ (v \div 2 + 1) + (v \div 2 + 1) > v
OBVIOUS

LEMMA VotesAre ==
  ASSUME NEW F, NEW S, NEW T, NEW M \in SUBSET Nodes, NEW i
  PROVE  LET Y == Votes(F, S, M, i, TRUE)
             N == Votes(F, T, M, i, FALSE) IN
         /\ Cardinality(Y) \in Nat /\ Cardinality(N) \in Nat
         /\ Cardinality(M \ {i.peer_id}) \in Nat
         /\ Cardinality(Y) + Cardinality(N) <= Cardinality(M \ {i.peer_id})
<1> DEFINE Y == Votes(F, S, M, i, TRUE)
           N == Votes(F, T, M, i, FALSE)
           J == M \ {i.peer_id}
<1>1. Y \subseteq J /\ N \subseteq J /\ Y \intersect N = {} BY Zenon DEF Votes
<1>2. IsFiniteSet(J)
  <2>1. J \subseteq Nodes BY Zenon
  <2> QED BY <2>1, EvictionAssumption, FS_Subset, Zenon
<1> HIDE DEF Y, N, J
<1>3. IsFiniteSet(Y) /\ IsFiniteSet(N) /\ IsFiniteSet(Y \union N)
  BY <1>1, <1>2, FS_Subset, FS_Union, Zenon
<1>4. /\ Cardinality(Y) \in Nat /\ Cardinality(N) \in Nat /\ Cardinality(J) \in Nat
      /\ Cardinality(Y \intersect N) = 0
  BY <1>1, <1>2, <1>3, FS_CardinalityType, FS_EmptySet, Zenon
<1>5. Cardinality(Y \union N) = Cardinality(Y) + Cardinality(N) - Cardinality(Y \intersect N)
  BY <1>3, FS_Union, Zenon
<1>6. Cardinality(Y \union N) <= Cardinality(J)
  <2>1. Y \union N \subseteq J BY <1>1, Zenon
  <2> QED BY <1>2, <2>1, FS_Subset, Zenon
<1>7. Cardinality(Y) + Cardinality(N) = Cardinality(Y \union N) BY <1>4, <1>5
<1> QED BY <1>4, <1>6, <1>7, Zenon DEF Y, N, J

\* When no judge is waited for, every opinion is counted.
LEMMA AllHeard ==
  ASSUME NEW F, NEW S, NEW M \in SUBSET Nodes, NEW n, NEW i, Tallied(F, S, M, n, i),
         \A p \in M \ {i.peer_id} : <<i, p>> \notin S /\ F[p][i].self_opinion \in BOOLEAN
  PROVE  /\ F[n][i].yes \in Nat /\ F[n][i].no \in Nat
         /\ F[n][i].yes + F[n][i].no = Cardinality(M \ {i.peer_id})
<1> DEFINE Y == Votes(F, S, M, i, TRUE)
           N == Votes(F, S, M, i, FALSE)
<1>1. Y \subseteq Nodes /\ N \subseteq Nodes /\ Y \intersect N = {} BY Zenon DEF Votes
<1>2. Y \union N = M \ {i.peer_id} BY Zenon DEF Votes
<1> HIDE DEF Y, N
<1>3. IsFiniteSet(Y) /\ IsFiniteSet(N) BY <1>1, EvictionAssumption, FS_Subset, Zenon
<1>4. Cardinality(Y) \in Nat /\ Cardinality(N) \in Nat /\ Cardinality(Y \intersect N) = 0
  BY <1>1, <1>3, FS_CardinalityType, FS_EmptySet, Zenon
<1>5. Cardinality(Y \union N) = Cardinality(Y) + Cardinality(N) - Cardinality(Y \intersect N)
  BY <1>3, FS_Union, Zenon
<1>6. Cardinality(M \ {i.peer_id}) = Cardinality(Y \union N) BY <1>2, Zenon
<1>7. F[n][i].yes = Cardinality(Y) /\ F[n][i].no = Cardinality(N) BY Zenon DEF Tallied, Y, N
<1> QED BY <1>4, <1>5, <1>6, <1>7

LEMMA Agreement == ESpec => [](IInv /\ BInv /\ HInv)
BY Initially, InitStays, InitAgrees, StepKeeps, StepStays, StepAgrees, PTL DEF ESpec

\* get_eviction_issue, insert_eviction_issue, try_resolve_issue: in a cluster of any
\* size that lost no connection, while one peer is accused, whatever it does and however
\* the questions and answers cross, no server keeps it (resolve_issue) on the same issue
\* another server puts it out on.
THEOREM NoSplitVerdict == ESpec => []VerdictsAgree
<1>1. IInv /\ BInv /\ HInv => VerdictsAgree
  <2> SUFFICES ASSUME IInv, BInv, HInv, lost = 0, OneAccused, NEW n \in Nodes, NEW m \in Nodes,
                      NEW i \in Known(n) \intersect Known(m),
                      m_eviction_issues[n][i].verdict = "out", m_eviction_issues[m][i].verdict = "stays"
               PROVE  FALSE
    BY Zenon DEF VerdictsAgree
  <2> DEFINE F == m_eviction_issues
             R == m_ask_evict_requests
             M == setting.members
             v == Cardinality(M \ {i.peer_id})
             y == F[n][i].yes
             o == F[m][i].no
             d == F[n][i].expected
             f == F[m][i].expected
  <2>1. M \in SUBSET Nodes BY EvictionAssumption, Zenon DEF IInv
  <2>2. /\ Tallied(F, R[n], M, n, i) /\ Measured(F, m_peers, M, n, i)
        /\ Tallied(F, R[m], M, m, i) /\ Measured(F, m_peers, M, m, i)
    BY Zenon DEF HInv, Agreed, Known
  <2>3. /\ n \in M /\ n # i.peer_id /\ i.peer_id \in M /\ Settled(F[n][i]) /\ Settled(F[m][i])
    BY Zenon DEF BInv, InCluster, IInv, GoodIssues, Known
  <2>4. y >= d /\ o >= f BY <2>3, Zenon DEF Settled
  <2>5. v \in Nat /\ v >= 1 /\ y \in Nat /\ o \in Nat /\ y + o <= v
    <3>1. y = Cardinality(Votes(F, R[n], M, i, TRUE)) /\ o = Cardinality(Votes(F, R[m], M, i, FALSE))
      BY <2>2, Zenon DEF Tallied
    <3> HIDE DEF y, o
    <3>2. v \in Nat /\ y \in Nat /\ o \in Nat /\ y + o <= v BY <2>1, <3>1, VotesAre, Zenon
    <3>3. v # 0
      <4>1. IsFiniteSet(M \ {i.peer_id}) BY <2>1, EvictionAssumption, FS_Subset, Zenon
      <4>2. n \in M \ {i.peer_id} BY <2>3, Zenon
      <4> QED BY <4>1, <4>2, FS_EmptySet, Zenon
    <3> QED BY <3>2, <3>3
  <2>6. n # m BY Zenon DEF Known
  <2>7. \/ d = v \div 2 + 1 \/ (i.by = n /\ d = (v - 1) \div 2 + 1)
    BY <2>2, Zenon DEF Measured
  <2>8. \/ f = v \div 2 + 1 \/ (i.by = m /\ f = (v - 1) \div 2 + 1)
    BY <2>2, Zenon DEF Measured
  <2> HIDE DEF v, y, o, d, f
  <2>9. d + f > v
    <3>1. (v \div 2 + 1) + ((v - 1) \div 2 + 1) > v /\ (v \div 2 + 1) + (v \div 2 + 1) > v
      BY <2>5, Halves, Zenon
    <3>2. v \div 2 \in Nat /\ (v - 1) \div 2 \in Nat BY <2>5
    <3> QED BY <2>6, <2>7, <2>8, <3>1, <3>2
  <2>10. d \in Nat /\ f \in Nat
    <3>1. v \div 2 \in Nat /\ (v - 1) \div 2 \in Nat BY <2>5
    <3> QED BY <2>7, <2>8, <3>1
  <2> QED BY <2>4, <2>5, <2>9, <2>10
<1> QED BY <1>1, Agreement, PTL

\* post_ask_evict_all, try_resolve_issue: in a cluster of any size that lost no
\* connection, while one peer is accused, once every message is read no server leaves an
\* issue open that could be decided: its judges were evenly split, or it had nobody to
\* ask, or somebody had put the accused out before it was asked.
THEOREM DecidedWhenQuiet == ESpec => []OpenWhenQuiet
<1>1. IInv /\ BInv /\ HInv => OpenWhenQuiet
  <2> SUFFICES ASSUME IInv, BInv, HInv, lost = 0, OneAccused,
                      \A x, p \in setting.members : x \in m_peers[p] => inbox[<<x, p>>] = <<>>,
                      NEW n \in setting.members, NEW i \in Known(n),
                      m_eviction_issues[n][i].verdict = "open", i.peer_id \in m_peers[n],
                      setting.members # {n, i.peer_id},
                      ~ \E e \in evicted : e[2] # i /\ e[2].peer_id = i.peer_id
               PROVE  2 * m_eviction_issues[n][i].yes = Cardinality(setting.members \ {i.peer_id})
    BY Zenon DEF OpenWhenQuiet
  <2> DEFINE F == m_eviction_issues
             S == m_ask_evict_requests[n]
             M == setting.members
             v == Cardinality(M \ {i.peer_id})
             y == F[n][i].yes
             o == F[n][i].no
             d == F[n][i].expected
  <2>1. M \in SUBSET Nodes /\ n \in Nodes BY EvictionAssumption, Zenon DEF IInv
  <2>2. /\ Tallied(F, S, M, n, i) /\ Measured(F, m_peers, M, n, i) /\ Undecided(F, m_peers, M, n, i)
        /\ Pending(inbox, S, evicted, n, i) /\ Meshed(m_peers, evicted, M)
    BY <2>1, Zenon DEF HInv, Agreed, Known
  <2>3. n # i.peer_id /\ i \in Issue BY <2>1 DEF IInv, GoodIssues, Known
  <2>4. \A p \in Nodes : <<i, p>> \notin S
    <3> SUFFICES ASSUME NEW p \in Nodes, <<i, p>> \in S PROVE FALSE BY Zenon
    <3>1. p \in M /\ p # n /\ p # i.peer_id BY <2>1, <2>3, Zenon DEF BInv, Asked
    <3>2. p \in m_peers[n] /\ n \in m_peers[p] BY <2>1, <2>2, <2>3, <3>1, JudgesMeet, Zenon
    <3>3. inbox[<<n, p>>] = <<>> /\ inbox[<<p, n>>] = <<>> BY <3>1, <3>2, Zenon
    <3>4. \A g : ~Has(inbox, n, p, g) /\ ~Has(inbox, p, n, g) BY <3>3 DEF Has, Waits
    <3> QED BY <2>2, <3>4, Zenon DEF Pending
  <2>5. y < d /\ o < d BY <2>2, Zenon DEF Undecided
  <2>6. d = v \div 2 + 1 BY <2>2, Zenon DEF Measured
  <2>7. v \in Nat /\ y \in Nat /\ o \in Nat /\ y + o = v
    <3>1. ASSUME NEW p \in M \ {i.peer_id}
          PROVE  <<i, p>> \notin S /\ F[p][i].self_opinion \in BOOLEAN
      <4>1. p \in Nodes /\ <<i, p>> \notin S /\ i \in DOMAIN F[p] BY <2>1, <2>2, <2>4, Zenon DEF Tallied
      <4>2. F[p][i] \in Vote BY <4>1 DEF IInv, GoodIssues
      <4> QED BY <4>1, <4>2, Zenon DEF Vote
    <3>2. y \in Nat /\ o \in Nat /\ y + o = v
      <4>1. \A p \in M \ {i.peer_id} : <<i, p>> \notin S /\ F[p][i].self_opinion \in BOOLEAN BY <3>1, Zenon
      <4>2. Tallied(F, S, M, n, i) /\ M \in SUBSET Nodes BY <2>1, <2>2, Zenon
      <4> HIDE DEF F, S, M
      <4>3. F[n][i].yes \in Nat /\ F[n][i].no \in Nat BY <4>1, <4>2, AllHeard, Zenon
      <4>4. F[n][i].yes + F[n][i].no = Cardinality(M \ {i.peer_id}) BY <4>1, <4>2, AllHeard
      <4> QED BY <4>3, <4>4, Zenon
    <3> HIDE DEF y, o, v
    <3> QED BY <3>2
  <2> HIDE DEF v, y, o, d
  <2>8. 2 * y = v BY <2>5, <2>6, <2>7
  <2> QED BY <2>8, Zenon DEF v, y
<1> QED BY <1>1, Agreement, PTL
=============================================================================
