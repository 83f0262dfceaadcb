---------------------------- MODULE PubSubProofs ----------------------------
(***************************************************************************)
(* Proofs about Sessions and PubSub, for any clients, channels, workers,   *)
(* accounts and addresses, and however many requests.                      *)
(***************************************************************************)
EXTENDS PubSub, FiniteSetTheorems, TLAPS

-----------------------------------------------------------------------------
(* The shapes of the state *)

GoodLogins(l) == \A n \in DOMAIN l : l[n].auth \in {"USER", "ADMIN"}

\* Only an authenticated session subscribes (unknown_is_permitted).
GoodInfo(r) ==
  /\ r = [auth |-> r.auth, username |-> r.username, database |-> r.database,
          trn_id |-> r.trn_id, channels |-> r.channels]
  /\ r.auth \in Levels
  /\ r.auth = "UNKNOWN" => r.channels = {}

GoodSession(s) == s = <<>> \/ (s = <<s[1]>> /\ GoodInfo(s[1]))

\* The places inside a handler, and what is known at each of them.
InPipe(b) == b = <<"pipe", b[2], b[3]>>

GoodBusy ==
  \/ busy \in {Idle, <<"write">>}
  \/ busy = <<"rename", logins>>
  \/ InPipe(busy)
  \/ busy = <<"push_event", busy[2]>> /\ (busy[2] = Idle \/ InPipe(busy[2]))
  \/ \E c \in Clients : busy = <<"erase", c>> /\ session[c] # <<>>

\* The places where the logins are saved and no connection is being erased.
Calm == {"idle", "pipe", "push_event"}

\* The file, beside the logins in memory and those of the last answer.
GoodFile ==
  /\ users_db \in {NoPath, NoFile} \/ users_db = <<"file", users_db[2]>>
  /\ users_db # NoPath => load_logins(users_db) = acked
  /\ busy[1] \notin {"write", "rename"} => acked = logins

Shape ==
  /\ DOMAIN session = Clients /\ session = [c \in Clients |-> session[c]]
  /\ \A c \in Clients : GoodSession(session[c])
  /\ GoodLogins(logins) /\ GoodLogins(acked)
  /\ GoodBusy
  /\ GoodFile
  /\ m_subscriptions \in [Channels -> SUBSET (Clients \union Frames)]

IInv == Shape /\ SubscriptionsMirror

\* Each place of a handler is told from the others by its name.
LEMMA BusyName ==
  ASSUME GoodBusy
  PROVE  /\ busy[1] \in {"idle", "write", "push_event", "pipe", "rename", "erase"}
         /\ busy = Idle <=> busy[1] = "idle"
         /\ busy = <<"write">> <=> busy[1] = "write"
         /\ busy[1] = "push_event" => busy[2] = Idle \/ InPipe(busy[2])
         /\ busy[1] = "rename" => busy = <<"rename", logins>>
         /\ busy[1] = "erase" => /\ busy = <<"erase", busy[2]>> /\ busy[2] \in Clients
                                 /\ session[busy[2]] # <<>>
BY DEF GoodBusy, InPipe, Idle

LEMMA DefaultIsGood == GoodLogins(default_logins)
BY DEF GoodLogins, default_logins

LEMMA Initially == Init => IInv
<1> SUFFICES ASSUME Init PROVE IInv OBVIOUS
<1>1. DOMAIN session = Clients /\ session = [c \in Clients |-> session[c]]
  BY DEF Init, SInit
<1>2. \A c \in Clients : session[c] = <<>> BY DEF Init, SInit
<1>3. GoodLogins(logins) /\ GoodLogins(acked)
  <2>1. CASE users_db \in {NoPath, NoFile}
    <3>1. users_db[1] # "file"
      <4>1. NoPath[1] = "no path" /\ NoFile[1] = "no file" BY DEF NoPath, NoFile
      <4> QED BY <2>1, <4>1
    <3>2. logins = default_logins /\ acked = default_logins
      BY <3>1 DEF Init, SInit, load_logins
    <3> QED BY <3>2, DefaultIsGood
  <2>2. CASE users_db \notin {NoPath, NoFile}
    BY <2>2, SessionsAssumption DEF Init, SInit, load_logins, GoodLogins
  <2> QED BY <2>1, <2>2
<1>4. GoodBusy BY DEF Init, SInit, GoodBusy
<1>5. GoodFile BY SessionsAssumption DEF Init, SInit, GoodFile, Idle
<1>6. /\ m_subscriptions \in [Channels -> SUBSET (Clients \union Frames)]
      /\ \A ch \in Channels : m_subscriptions[ch] = {}
  BY DEF Init
<1>7. Shape BY <1>1, <1>2, <1>3, <1>4, <1>5, <1>6 DEF Shape, GoodSession
<1>8. SubscriptionsMirror BY <1>2, <1>6 DEF SubscriptionsMirror
<1> QED BY <1>7, <1>8 DEF IInv

-----------------------------------------------------------------------------
(* Steps by what they change *)

\* A step that gives one session another content with the same channels.
LEMMA SessionStep ==
  ASSUME IInv, NEW c \in Clients, NEW r, GoodInfo(r), busy = Idle,
         session' = [session EXCEPT ![c] = <<r>>],
         r.channels = IF session[c] = <<>> THEN {} ELSE Info(c).channels,
         UNCHANGED <<logins, users_db, acked, busy, m_subscriptions, piped>>
  PROVE  IInv'
<1>1. /\ session'[c] = <<r>> /\ \A x \in Clients \ {c} : session'[x] = session[x]
      /\ DOMAIN session' = Clients /\ session' = [x \in Clients |-> session'[x]]
  BY DEF IInv, Shape
<1>2. \A x \in Clients : GoodSession(session'[x])
  <2>1. GoodSession(<<r>>) BY DEF GoodSession
  <2> QED BY <1>1, <2>1 DEF IInv, Shape
<1>3. GoodBusy' BY DEF GoodBusy
<1>4. GoodFile' BY DEF IInv, Shape, GoodFile
<1>5. Shape' BY <1>1, <1>2, <1>3, <1>4 DEF IInv, Shape
<1>6. SubscriptionsMirror'
  <2> SUFFICES ASSUME NEW x \in Clients \ piped, NEW ch \in Channels
               PROVE  x \in m_subscriptions[ch] <=>
                        session'[x] # <<>> /\ ch \in session'[x][1].channels
    BY DEF SubscriptionsMirror, Info, Idle
  <2>1. x \in m_subscriptions[ch] <=> session[x] # <<>> /\ ch \in session[x][1].channels
    BY DEF IInv, SubscriptionsMirror, Info, Idle
  <2>2. CASE x = c BY <1>1, <2>1, <2>2 DEF Info
  <2>3. CASE x # c BY <1>1, <2>1, <2>3
  <2> QED BY <2>2, <2>3
<1> QED BY <1>5, <1>6 DEF IInv

\* A step that changes the logins in memory.
LEMMA ChangeStep ==
  ASSUME IInv, NEW new, GoodLogins(new), busy = Idle, Change(new), UNCHANGED pvars
  PROVE  IInv'
<1>1. /\ session' = session /\ m_subscriptions' = m_subscriptions /\ piped' = piped
      /\ users_db' = users_db /\ acked' = acked /\ logins' = new /\ busy' = <<"write">>
  BY DEF Change, pvars
<1>2. GoodBusy' BY <1>1 DEF GoodBusy
<1>3. GoodFile' BY <1>1 DEF IInv, Shape, GoodFile
<1>4. Shape' BY <1>1, <1>2, <1>3 DEF IInv, Shape
<1>5. SubscriptionsMirror' BY <1>1 DEF IInv, SubscriptionsMirror, Info, Idle
<1> QED BY <1>4, <1>5 DEF IInv

\* A step that leaves all of this alone, but for moving between two places of a
\* handler where the logins are saved.
LEMMA OtherStep ==
  ASSUME IInv, busy[1] \in Calm, busy'[1] \in Calm, GoodBusy',
         UNCHANGED <<session, logins, users_db, acked, m_subscriptions, piped>>
  PROVE  IInv'
<1>2. GoodFile' BY DEF IInv, Shape, GoodFile, Calm
<1>3. Shape' BY <1>2 DEF IInv, Shape
<1>4. SubscriptionsMirror'
  <2>1. \A c : busy # <<"erase", c>> /\ busy' # <<"erase", c>> BY DEF Calm
  <2> QED BY <2>1 DEF IInv, SubscriptionsMirror, Info
<1> QED BY <1>3, <1>4 DEF IInv

\* A request that leaves all of this alone.
LEMMA IdleStep ==
  ASSUME IInv, busy = Idle,
         UNCHANGED <<session, logins, users_db, acked, busy, m_subscriptions, piped>>
  PROVE  IInv'
<1>1. busy[1] \in Calm /\ busy'[1] \in Calm BY DEF Calm, Idle
<1>2. GoodBusy' BY DEF GoodBusy
<1> QED BY <1>1, <1>2, OtherStep

\* What the permissions of client/operations.h give here.
LEMMA Permitted ==
  ASSUME NEW auth \in Levels
  PROVE  /\ is_permitted("AUTH", auth) => auth = "UNKNOWN"
         /\ is_permitted("SUBSCRIBE", auth) => auth # "UNKNOWN"
         /\ is_permitted("UNSUBSCRIBE", auth) => auth # "UNKNOWN"
         /\ is_permitted("UNSUBSCRIBE_ALL", auth) => auth # "UNKNOWN"
BY DEF Levels, is_permitted, unknown_is_permitted, user_is_permitted, admin_is_permitted

LEMMA InfoIsGood ==
  ASSUME IInv, NEW c \in Clients, session[c] # <<>>
  PROVE  GoodInfo(Info(c)) /\ session[c] = <<Info(c)>>
BY DEF IInv, Shape, GoodSession, Info

-----------------------------------------------------------------------------
(* The requests of Sessions *)

LEMMA AddClient ==
  ASSUME IInv, NEW c \in Clients, add_client(c), UNCHANGED pvars
  PROVE  IInv'
<1>1. GoodInfo(monostate) /\ monostate.channels = {} BY DEF GoodInfo, monostate, user_data_t, Levels
<1>2. /\ busy = Idle /\ session[c] = <<>> /\ session' = [session EXCEPT ![c] = <<monostate>>]
      /\ UNCHANGED <<logins, users_db, acked, busy, m_subscriptions, piped>>
  BY DEF add_client, pvars
<1> HIDE DEF monostate
<1> QED BY <1>1, <1>2, SessionStep, Zenon

LEMMA Authenticates ==
  ASSUME IInv, NEW c \in Clients, NEW name, NEW password,
         request_auth(c, name, password), UNCHANGED pvars
  PROVE  IInv'
<1>1. /\ busy = Idle /\ session[c] # <<>> /\ is_permitted("AUTH", Info(c).auth)
      /\ session_set_auth(c, logins[name].auth, name) /\ name \in DOMAIN logins
      /\ UNCHANGED <<logins, users_db, acked, busy, m_subscriptions, piped>>
  BY DEF request_auth, Serves, pvars
<1>2. GoodInfo(Info(c)) BY <1>1, InfoIsGood
<1>3. Info(c).channels = {} BY <1>2, <1>1, Permitted DEF GoodInfo
<1>4. PICK level \in {"USER", "ADMIN"} : level = logins[name].auth
  BY <1>1 DEF IInv, Shape, GoodLogins
<1> DEFINE r == user_data_t(level, name)
<1>5. GoodInfo(r) /\ r.channels = {} BY DEF GoodInfo, Levels, user_data_t
<1>6. session' = [session EXCEPT ![c] = <<r>>] BY <1>1, <1>4 DEF session_set_auth
<1> HIDE DEF r
<1> QED BY <1>1, <1>3, <1>5, <1>6, SessionStep, Zenon

\* A session's database or transaction is another one.
LEMMA SwitchesDb ==
  ASSUME IInv, NEW c \in Clients, NEW db, request_switch_db(c, db), UNCHANGED pvars
  PROVE  IInv'
<1> DEFINE r == [Info(c) EXCEPT !.database = db]
<1>1. /\ busy = Idle /\ session[c] # <<>>
      /\ session' = [session EXCEPT ![c] = <<r>>]
      /\ UNCHANGED <<logins, users_db, acked, busy, m_subscriptions, piped>>
  BY DEF request_switch_db, Serves, pvars, Info
<1>2. GoodInfo(Info(c)) BY <1>1, InfoIsGood
<1>3. GoodInfo(r) /\ r.channels = Info(c).channels BY <1>2 DEF GoodInfo
<1> HIDE DEF r
<1> QED BY <1>1, <1>3, SessionStep, Zenon

LEMMA SetsTransaction ==
  ASSUME IInv, NEW c \in Clients, NEW id, busy = Idle, session[c] # <<>>,
         session' = [session EXCEPT ![c] = << [@[1] EXCEPT !.trn_id = id] >>],
         UNCHANGED <<logins, users_db, acked, busy>>, UNCHANGED pvars
  PROVE  IInv'
<1> DEFINE r == [Info(c) EXCEPT !.trn_id = id]
<1>1. /\ session' = [session EXCEPT ![c] = <<r>>]
      /\ UNCHANGED <<logins, users_db, acked, busy, m_subscriptions, piped>>
  BY DEF pvars, Info
<1>2. GoodInfo(Info(c)) BY InfoIsGood
<1>3. GoodInfo(r) /\ r.channels = Info(c).channels BY <1>2 DEF GoodInfo
<1> HIDE DEF r
<1> QED BY <1>1, <1>3, SessionStep, Zenon

LEMMA TransactionKeeps ==
  ASSUME IInv, NEW c \in Clients, TransactionStep(c), UNCHANGED pvars
  PROVE  IInv'
<1>1. CASE \E db \in 0 .. NumDatabases : request_switch_db(c, db) BY <1>1, SwitchesDb
<1>2. CASE request_transact_begin(c)
  BY <1>2, SetsTransaction, Zenon DEF request_transact_begin, Serves
<1>3. ASSUME NEW op, NEW record, EndTransaction(c, op, record) PROVE IInv'
  BY <1>3, SetsTransaction, Zenon DEF EndTransaction, Serves
<1> QED BY <1>1, <1>2, <1>3 DEF TransactionStep

LEMMA AccountsKeep ==
  ASSUME IInv, NEW c \in Clients, AccountsStep(c), UNCHANGED pvars
  PROVE  IInv'
<1>0. GoodLogins(logins) BY DEF IInv, Shape
<1>1. ASSUME NEW name, NEW password, request_add_user(c, name, password) PROVE IInv'
  <2> DEFINE new == [n \in DOMAIN logins \union {name} |->
                       IF n = name THEN [hash |-> password, auth |-> "USER"] ELSE logins[n]]
  <2>1. GoodLogins(new) BY <1>0 DEF GoodLogins
  <2>2. busy = Idle /\ Change(new) BY <1>1 DEF request_add_user, Serves
  <2> HIDE DEF new
  <2> QED BY <2>1, <2>2, ChangeStep
<1>2. ASSUME NEW name, NEW level \in {"USER", "ADMIN"}, request_edit_user(c, name, level)
      PROVE  IInv'
  <2> DEFINE new == [logins EXCEPT ![name].auth = level]
  <2>1. \A n \in DOMAIN new : new[n] = IF n = name THEN [logins[n] EXCEPT !.auth = level] ELSE logins[n]
    OBVIOUS
  <2>2. GoodLogins(new)
    <3> SUFFICES ASSUME NEW n \in DOMAIN new PROVE new[n].auth \in {"USER", "ADMIN"}
      BY DEF GoodLogins
    <3>1. n \in DOMAIN logins /\ logins[n].auth \in {"USER", "ADMIN"} BY <1>0 DEF GoodLogins
    <3> QED BY <2>1, <3>1
  <2>3. busy = Idle /\ Change(new) BY <1>2 DEF request_edit_user, Serves
  <2> HIDE DEF new
  <2> QED BY <2>2, <2>3, ChangeStep
<1>3. ASSUME NEW name, request_del_user(c, name) PROVE IInv'
  <2> DEFINE new == [n \in DOMAIN logins \ {name} |-> logins[n]]
  <2>1. GoodLogins(new) BY <1>0 DEF GoodLogins
  <2>2. busy = Idle /\ Change(new) BY <1>3 DEF request_del_user, Serves
  <2> HIDE DEF new
  <2> QED BY <2>1, <2>2, ChangeStep
<1>4. ASSUME NEW password, request_change_password(c, password) PROVE IInv'
  <2> DEFINE name == Info(c).username
             new == [logins EXCEPT ![name].hash = password]
  <2>1. \A n \in DOMAIN new : new[n] = IF n = name THEN [logins[n] EXCEPT !.hash = password] ELSE logins[n]
    OBVIOUS
  <2>2. GoodLogins(new)
    <3> SUFFICES ASSUME NEW n \in DOMAIN new PROVE new[n].auth \in {"USER", "ADMIN"}
      BY DEF GoodLogins
    <3>1. n \in DOMAIN logins /\ logins[n].auth \in {"USER", "ADMIN"} BY <1>0 DEF GoodLogins
    <3> QED BY <2>1, <3>1
  <2>3. busy = Idle /\ Change(new) BY <1>4 DEF request_change_password, Serves
  <2> HIDE DEF new
  <2> QED BY <2>2, <2>3, ChangeStep
<1>5. CASE AccountsRefused(c)
  <2>1. busy = Idle /\ UNCHANGED svars BY <1>5 DEF AccountsRefused, Serves
  <2> QED BY <2>1, IdleStep DEF svars, pvars
<1> QED BY <1>1, <1>2, <1>3, <1>4, <1>5 DEF AccountsStep

LEMMA BindKeeps ==
  ASSUME IInv, NEW c \in Clients, BindStep(c), UNCHANGED pvars
  PROVE  IInv'
<1>1. busy = Idle /\ UNCHANGED <<session, logins, users_db, acked, busy>>
  BY DEF BindStep, request_bind, request_unbind, Serves
<1> QED BY <1>1, IdleStep DEF pvars

\* persist_logins.
LEMMA Nowhere ==
  ASSUME IInv, persist_nowhere, UNCHANGED pvars
  PROVE  IInv'
<1>1. /\ busy = <<"write">> /\ busy' = Idle /\ users_db = NoPath /\ acked' = logins
      /\ UNCHANGED <<session, logins, users_db, m_subscriptions, piped>>
  BY DEF persist_nowhere, pvars
<1>2. GoodBusy' BY <1>1 DEF GoodBusy
<1>3. GoodFile' BY <1>1 DEF GoodFile
<1>4. Shape' BY <1>1, <1>2, <1>3 DEF IInv, Shape
<1>5. SubscriptionsMirror' BY <1>1 DEF IInv, SubscriptionsMirror, Info, Idle
<1> QED BY <1>4, <1>5 DEF IInv

LEMMA WriteTmp ==
  ASSUME IInv, write_tmp, UNCHANGED pvars
  PROVE  IInv'
<1>1. /\ busy = <<"write">> /\ busy' = <<"rename", logins>>
      /\ UNCHANGED <<session, logins, users_db, acked, m_subscriptions, piped>>
  BY DEF write_tmp, pvars
<1>2. GoodBusy' BY <1>1 DEF GoodBusy
<1>3. GoodFile' BY <1>1 DEF IInv, Shape, GoodFile
<1>4. Shape' BY <1>1, <1>2, <1>3 DEF IInv, Shape
<1>5. SubscriptionsMirror' BY <1>1 DEF IInv, SubscriptionsMirror, Info
<1> QED BY <1>4, <1>5 DEF IInv

LEMMA RenameTmp ==
  ASSUME IInv, rename_tmp, UNCHANGED pvars
  PROVE  IInv'
<1>1. busy = <<"rename", logins>> BY BusyName DEF IInv, Shape, rename_tmp
<1>2. /\ busy' = Idle /\ users_db' = <<"file", logins>> /\ acked' = logins
      /\ UNCHANGED <<session, logins, m_subscriptions, piped>>
  BY <1>1 DEF rename_tmp, pvars
<1>3. GoodBusy' BY <1>2 DEF GoodBusy
<1>4. GoodFile' BY <1>2 DEF GoodFile, load_logins
<1>5. Shape' BY <1>2, <1>3, <1>4 DEF IInv, Shape
<1>6. SubscriptionsMirror' BY <1>1, <1>2 DEF IInv, SubscriptionsMirror, Info, Idle
<1> QED BY <1>5, <1>6 DEF IInv

-----------------------------------------------------------------------------
(* The requests of PubSub and the end of a client *)

\* A step that changes the channels of one session and, unless the connection has
\* changed them in a pipe, its place in the subscriptions in the same way.
LEMMA ChannelsStep ==
  ASSUME IInv, NEW c \in Clients, NEW chs, busy[1] \in Calm, session[c] # <<>>,
         Info(c).auth # "UNKNOWN",
         SetChannels(c, chs),
         m_subscriptions' \in [Channels -> SUBSET (Clients \union Frames)],
         c \notin piped' => \A ch \in Channels : c \in m_subscriptions'[ch] <=> ch \in chs,
         \A ch \in Channels, x \in Clients \ {c} :
            x \in m_subscriptions'[ch] <=> x \in m_subscriptions[ch],
         piped \subseteq piped',
         UNCHANGED <<logins, users_db, acked, busy>>
  PROVE  IInv'
<1> DEFINE r == [Info(c) EXCEPT !.channels = chs]
<1>1. GoodInfo(Info(c)) BY InfoIsGood
<1>2. GoodInfo(r) /\ r.channels = chs BY <1>1 DEF GoodInfo
<1>3. /\ session'[c] = <<r>> /\ \A x \in Clients \ {c} : session'[x] = session[x]
      /\ DOMAIN session' = Clients /\ session' = [x \in Clients |-> session'[x]]
  BY DEF IInv, Shape, SetChannels, Info
<1> HIDE DEF r
<1>4. \A x \in Clients : GoodSession(session'[x])
  <2>1. GoodSession(<<r>>) BY <1>2 DEF GoodSession
  <2> QED BY <1>3, <2>1 DEF IInv, Shape
<1>5. \A x : busy # <<"erase", x>> BY DEF Calm
<1>6. GoodBusy' BY <1>5 DEF IInv, Shape, GoodBusy
<1>7. GoodFile' BY DEF IInv, Shape, GoodFile
<1>8. Shape' BY <1>3, <1>4, <1>6, <1>7 DEF IInv, Shape
<1>9. SubscriptionsMirror'
  <2> SUFFICES ASSUME NEW x \in Clients \ piped', NEW ch \in Channels
               PROVE  x \in m_subscriptions'[ch] <=>
                        session'[x] # <<>> /\ ch \in session'[x][1].channels
    BY <1>5 DEF SubscriptionsMirror, Info
  <2>1. CASE x = c BY <1>2, <1>3, <2>1
  <2>2. CASE x # c
    <3>1. x \in m_subscriptions[ch] <=> session[x] # <<>> /\ ch \in session[x][1].channels
      BY <1>5 DEF IInv, SubscriptionsMirror, Info
    <3> QED BY <1>3, <2>2, <3>1
  <2> QED BY <2>1, <2>2
<1> QED BY <1>8, <1>9 DEF IInv

\* A handler may be in a pipe, but not where a connection is erased.
LEMMA ServedCalmly ==
  ASSUME IInv, NEW c \in Clients, NEW a, NEW op, ServesAs(c, a, op),
         op \in {"SUBSCRIBE", "UNSUBSCRIBE", "UNSUBSCRIBE_ALL"}
  PROVE  busy[1] \in Calm /\ session[c] # <<>> /\ Info(c).auth # "UNKNOWN"
<1>1. busy[1] \in Calm /\ session[c] # <<>> /\ is_permitted(op, Info(c).auth)
  BY DEF ServesAs, Calm, Idle
<1>2. Info(c).auth \in Levels BY <1>1, InfoIsGood DEF GoodInfo
<1> QED BY <1>1, <1>2, Permitted

LEMMA PubSubKeeps ==
  ASSUME IInv, NEW c \in Clients, PubSubStep(c)
  PROVE  IInv'
<1>0. m_subscriptions \in [Channels -> SUBSET (Clients \union Frames)] BY DEF IInv, Shape
<1>m. ASSUME busy[1] \in Calm, session[c] # <<>>, c \notin piped
      PROVE  \A ch \in Channels : c \in m_subscriptions[ch] <=> ch \in Info(c).channels
  BY <1>m DEF IInv, SubscriptionsMirror, Calm
<1>a. \A a \in Frames \union {c} : a # c => a \in Frames /\ a \notin Clients BY PubSubAssumption
<1>n. ASSUME NEW a \in Frames \union {c}, NotePiped(c, a)
      PROVE  piped \subseteq piped' /\ (c \notin piped' => a = c /\ c \notin piped)
  BY <1>n DEF NotePiped
<1>1. ASSUME NEW a \in Frames \union {c}, NEW ch \in Channels, request_subscribe(c, a, ch)
      PROVE  IInv'
  <2>1. busy[1] \in Calm /\ session[c] # <<>> /\ Info(c).auth # "UNKNOWN"
    BY <1>1, ServedCalmly DEF request_subscribe
  <2>2. m_subscriptions' = [m_subscriptions EXCEPT ![ch] = @ \union {a}] /\ NotePiped(c, a)
    BY <1>1 DEF request_subscribe, insert_subscription
  <2> DEFINE chs == Info(c).channels \union {ch}
  <2>3. SetChannels(c, chs) /\ UNCHANGED <<logins, users_db, acked, busy>>
    BY <1>1 DEF request_subscribe
  <2>4. m_subscriptions' \in [Channels -> SUBSET (Clients \union Frames)] BY <1>0, <2>2
  <2>5. \A x \in Channels, d \in Clients \ {c} :
           d \in m_subscriptions'[x] <=> d \in m_subscriptions[x]
    BY <1>0, <1>a, <2>2
  <2>6. c \notin piped' => \A x \in Channels : c \in m_subscriptions'[x] <=> x \in chs
    BY <1>0, <1>m, <1>n, <2>1, <2>2
  <2>7. piped \subseteq piped' BY <1>n, <2>2
  <2> HIDE DEF chs
  <2> QED BY <2>1, <2>3, <2>4, <2>5, <2>6, <2>7, ChannelsStep
<1>2. ASSUME NEW a \in Frames \union {c}, NEW ch \in Channels, request_unsubscribe(c, a, ch)
      PROVE  IInv'
  <2>1. busy[1] \in Calm /\ session[c] # <<>> /\ Info(c).auth # "UNKNOWN"
    BY <1>2, ServedCalmly DEF request_unsubscribe
  <2>2. erase_subscription(a, {ch}) /\ NotePiped(c, a) BY <1>2 DEF request_unsubscribe
  <2> DEFINE chs == Info(c).channels \ {ch}
  <2>3. SetChannels(c, chs) /\ UNCHANGED <<logins, users_db, acked, busy>>
    BY <1>2 DEF request_unsubscribe
  <2>4. m_subscriptions' \in [Channels -> SUBSET (Clients \union Frames)]
    BY <1>0, <2>2 DEF erase_subscription
  <2>5. \A x \in Channels, d \in Clients \ {c} :
           d \in m_subscriptions'[x] <=> d \in m_subscriptions[x]
    BY <1>0, <1>a, <2>2 DEF erase_subscription
  <2>6. c \notin piped' => \A x \in Channels : c \in m_subscriptions'[x] <=> x \in chs
    BY <1>0, <1>m, <1>n, <2>1, <2>2 DEF erase_subscription
  <2>7. piped \subseteq piped' BY <1>n, <2>2
  <2> HIDE DEF chs
  <2> QED BY <2>1, <2>3, <2>4, <2>5, <2>6, <2>7, ChannelsStep
<1>3. ASSUME NEW a \in Frames \union {c}, request_unsubscribe_all(c, a) PROVE IInv'
  <2>1. busy[1] \in Calm /\ session[c] # <<>> /\ Info(c).auth # "UNKNOWN"
    BY <1>3, ServedCalmly DEF request_unsubscribe_all
  <2>2. erase_subscription(a, Info(c).channels) /\ NotePiped(c, a)
    BY <1>3 DEF request_unsubscribe_all
  <2>3. SetChannels(c, {}) /\ UNCHANGED <<logins, users_db, acked, busy>>
    BY <1>3 DEF request_unsubscribe_all
  <2>4. m_subscriptions' \in [Channels -> SUBSET (Clients \union Frames)]
    BY <1>0, <2>2 DEF erase_subscription
  <2>5. \A x \in Channels, d \in Clients \ {c} :
           d \in m_subscriptions'[x] <=> d \in m_subscriptions[x]
    BY <1>0, <1>a, <2>2 DEF erase_subscription
  <2>6. c \notin piped' => \A x \in Channels : c \in m_subscriptions'[x] <=> x \in {}
    BY <1>0, <1>m, <1>n, <2>1, <2>2 DEF erase_subscription
  <2>7. piped \subseteq piped' BY <1>n, <2>2
  <2> QED BY <2>1, <2>3, <2>4, <2>5, <2>6, <2>7, ChannelsStep
<1>4. ASSUME NEW a, NEW ch \in Channels, request_publish(c, a, ch) PROVE IInv'
  <2>1. /\ busy = Idle \/ busy = <<"pipe", c, a>>
        /\ busy' = <<"push_event", busy>>
        /\ UNCHANGED <<session, logins, users_db, acked, m_subscriptions, piped>>
    BY <1>4 DEF request_publish, ServesAs
  <2>2. busy[1] \in Calm /\ busy'[1] \in Calm /\ GoodBusy'
    BY <2>1 DEF Calm, Idle, GoodBusy, InPipe
  <2> QED BY <2>1, <2>2, OtherStep
<1>5. ASSUME NEW a, request_pipe(c, a) PROVE IInv'
  <2>1. /\ busy = Idle /\ busy' = <<"pipe", c, a>>
        /\ UNCHANGED <<session, logins, users_db, acked, m_subscriptions, piped>>
    BY <1>5 DEF request_pipe, Serves, pvars
  <2>2. busy[1] \in Calm /\ busy'[1] \in Calm /\ GoodBusy'
    BY <2>1 DEF Calm, Idle, GoodBusy, InPipe
  <2> QED BY <2>1, <2>2, OtherStep
<1> QED BY <1>1, <1>2, <1>3, <1>4, <1>5 DEF PubSubStep

\* The end of a pipe, and of PUBLISH.
LEMMA HandlerEnds ==
  ASSUME IInv, perform_write \/ push_publish
  PROVE  IInv'
<1>1. /\ busy[1] \in Calm /\ (busy' = Idle \/ InPipe(busy'))
      /\ UNCHANGED <<session, logins, users_db, acked, m_subscriptions, piped>>
  BY BusyName DEF IInv, Shape, perform_write, push_publish, pvars, Calm
<1>2. busy'[1] \in Calm /\ GoodBusy' BY <1>1 DEF Calm, Idle, GoodBusy, InPipe
<1> QED BY <1>1, <1>2, OtherStep

\* pre_client_delete takes the client out of every channel it is in ...
LEMMA PreDelete ==
  ASSUME IInv, NEW c \in Clients, pre_client_delete(c)
  PROVE  IInv'
<1>1. /\ busy = Idle /\ session[c] # <<>> /\ busy' = <<"erase", c>>
      /\ UNCHANGED <<session, logins, users_db, acked, piped>>
  BY DEF pre_client_delete
<1>2. GoodInfo(Info(c)) BY <1>1, InfoIsGood
<1>3. \A ch \in Channels, x \in Clients \ piped :
        x \in m_subscriptions[ch] <=> session[x] # <<>> /\ ch \in Info(x).channels
  BY <1>1 DEF IInv, SubscriptionsMirror, Idle
<1>0. m_subscriptions \in [Channels -> SUBSET (Clients \union Frames)] BY DEF IInv, Shape
<1>4. /\ m_subscriptions' \in [Channels -> SUBSET (Clients \union Frames)]
      /\ \A ch \in Channels, x \in Clients \ {c} :
            x \in m_subscriptions'[ch] <=> x \in m_subscriptions[ch]
      /\ c \notin piped => \A ch \in Channels : c \notin m_subscriptions'[ch]
  <2>1. CASE Info(c).auth \in {"USER", "ADMIN"}
    BY <1>0, <1>1, <1>3, <2>1 DEF pre_client_delete, erase_subscription
  <2>2. CASE Info(c).auth \notin {"USER", "ADMIN"}
    <3>1. Info(c).channels = {} /\ m_subscriptions' = m_subscriptions
      BY <1>2, <2>2 DEF GoodInfo, Levels, pre_client_delete
    <3> QED BY <1>0, <1>1, <1>3, <3>1
  <2> QED BY <2>1, <2>2
<1>5. GoodBusy' BY <1>1 DEF GoodBusy
<1>6. GoodFile' BY <1>1 DEF IInv, Shape, GoodFile, Idle
<1>7. Shape' BY <1>1, <1>4, <1>5, <1>6 DEF IInv, Shape
<1>8. SubscriptionsMirror'
  <2> SUFFICES ASSUME NEW x \in Clients \ piped, NEW ch \in Channels
               PROVE  x \in m_subscriptions'[ch] <=>
                        session[x] # <<>> /\ ch \in Info(x).channels /\ <<"erase", c>> # <<"erase", x>>
    BY <1>1 DEF SubscriptionsMirror, Info
  <2> QED BY <1>3, <1>4
<1> QED BY <1>7, <1>8 DEF IInv

\* ... before remove_client destroys it.
LEMMA Removes ==
  ASSUME IInv, remove_client
  PROVE  IInv'
<1>1. PICK c \in Clients : busy = <<"erase", c>>
  BY BusyName DEF IInv, Shape, remove_client
<1>2. /\ session' = [session EXCEPT ![c] = <<>>] /\ busy' = Idle
      /\ UNCHANGED <<logins, users_db, acked, m_subscriptions, piped>>
  BY <1>1 DEF remove_client
<1>3. /\ session'[c] = <<>> /\ \A x \in Clients \ {c} : session'[x] = session[x]
      /\ DOMAIN session' = Clients /\ session' = [x \in Clients |-> session'[x]]
  BY <1>2 DEF IInv, Shape
<1>4. \A x \in Clients : GoodSession(session'[x])
  BY <1>3 DEF IInv, Shape, GoodSession
<1>5. GoodBusy' BY <1>2 DEF GoodBusy
<1>6. GoodFile' BY <1>1, <1>2 DEF IInv, Shape, GoodFile, Idle
<1>7. Shape' BY <1>2, <1>3, <1>4, <1>5, <1>6 DEF IInv, Shape
<1>8. SubscriptionsMirror'
  <2> SUFFICES ASSUME NEW x \in Clients \ piped, NEW ch \in Channels
               PROVE  x \in m_subscriptions[ch] <=>
                        session'[x] # <<>> /\ ch \in session'[x][1].channels
    BY <1>2 DEF SubscriptionsMirror, Info, Idle
  <2>1. x \in m_subscriptions[ch] <=>
          session[x] # <<>> /\ ch \in session[x][1].channels /\ <<"erase", c>> # <<"erase", x>>
    BY <1>1 DEF IInv, SubscriptionsMirror, Info
  <2> QED BY <1>3, <2>1
<1> QED BY <1>7, <1>8 DEF IInv

LEMMA Restarts ==
  ASSUME IInv, Restart
  PROVE  IInv'
<1>1. /\ session' = [c \in Clients |-> <<>>] /\ busy' = Idle
      /\ logins' = load_logins(users_db) /\ acked' = logins' /\ users_db' = users_db
      /\ m_subscriptions' = [ch \in Channels |-> {}]
  BY DEF Restart
<1>2. GoodLogins(load_logins(users_db))
  <2>1. CASE users_db = NoPath BY <2>1, DefaultIsGood DEF load_logins, NoPath
  <2>2. CASE users_db # NoPath BY <2>2 DEF IInv, Shape, GoodFile
  <2> QED BY <2>1, <2>2
<1>3. GoodBusy' BY <1>1 DEF GoodBusy
<1>4. GoodFile' BY <1>1 DEF IInv, Shape, GoodFile
<1>5. \A c \in Clients : session'[c] = <<>> /\ GoodSession(session'[c])
  BY <1>1 DEF GoodSession
<1>6. Shape' BY <1>1, <1>2, <1>3, <1>4, <1>5 DEF IInv, Shape
<1>7. \A ch \in Channels : m_subscriptions'[ch] = {} BY <1>1
<1>8. SubscriptionsMirror' BY <1>5, <1>7 DEF SubscriptionsMirror
<1> QED BY <1>6, <1>8 DEF IInv

LEMMA UnchangedKeeps ==
  ASSUME IInv, UNCHANGED <<svars, m_subscriptions, piped>>
  PROVE  IInv'
<1>1. UNCHANGED <<session, logins, users_db, acked, busy, m_subscriptions, piped>> BY DEF svars
<1>2. GoodBusy' BY <1>1 DEF IInv, Shape, GoodBusy
<1>3. GoodFile' BY <1>1 DEF IInv, Shape, GoodFile
<1>4. Shape' BY <1>1, <1>2, <1>3 DEF IInv, Shape
<1>5. SubscriptionsMirror' BY <1>1 DEF IInv, SubscriptionsMirror, Info
<1> QED BY <1>4, <1>5 DEF IInv

LEMMA StepKeeps == IInv /\ [Next]_vars => IInv'
<1> SUFFICES ASSUME IInv, [Next]_vars PROVE IInv' OBVIOUS
<1>1. ASSUME NEW c \in Clients, add_client(c), UNCHANGED pvars PROVE IInv'
  BY <1>1, AddClient
<1>2. ASSUME NEW c \in Clients, NEW name \in Users, NEW password \in Passwords,
             request_auth(c, name, password), UNCHANGED pvars
      PROVE  IInv'
  BY <1>2, Authenticates
<1>3. ASSUME NEW c \in Clients, PartStep(c), UNCHANGED pvars PROVE IInv'
  BY <1>3, AccountsKeep, TransactionKeeps, BindKeeps DEF PartStep
<1>4. CASE (persist_nowhere \/ write_tmp) /\ UNCHANGED pvars BY <1>4, Nowhere, WriteTmp
<1>5. CASE rename_tmp /\ UNCHANGED pvars BY <1>5, RenameTmp
<1>6. ASSUME NEW c \in Clients, PubSubStep(c) PROVE IInv'
  BY <1>6, PubSubKeeps
<1>7. CASE perform_write \/ push_publish BY <1>7, HandlerEnds
<1>8. ASSUME NEW w \in Workers, event_publish(w) \/ publish(w) PROVE IInv'
  BY <1>8, UnchangedKeeps, Zenon DEF event_publish, publish
<1>9. ASSUME NEW c \in Clients, pre_client_delete(c) PROVE IInv' BY <1>9, PreDelete
<1>10. CASE remove_client BY <1>10, Removes
<1>11. CASE Restart BY <1>11, Restarts
<1>12. CASE UNCHANGED vars BY <1>12, UnchangedKeeps DEF vars, pvars
<1> QED BY <1>1, <1>2, <1>3, <1>4, <1>5, <1>6, <1>7, <1>8, <1>9, <1>10, <1>11, <1>12 DEF Next

LEMMA Inductive == Spec => []IInv
BY Initially, StepKeeps, PTL DEF Spec

\* A connection that has changed its subscriptions outside PIPEs only is in the
\* server's subscriptions exactly while its session lists the channel and it is
\* not being destroyed (request_subscribe, pre_client_delete and
\* session_set_auth): event_publish does not meet it when it is gone.
THEOREM SubscribersExist == Spec => []SubscriptionsMirror
<1>1. IInv => SubscriptionsMirror BY DEF IInv
<1> QED BY <1>1, Inductive, PTL

\* Wherever the process of a server with a users file dies in persist_logins, the
\* file holds the accounts of the last answer or those of the request being
\* served, and between requests those in memory.
THEOREM AccountsAreSaved == Spec => []AccountsSurvive
<1>1. IInv => AccountsSurvive BY DEF IInv, Shape, GoodFile, AccountsSurvive, Idle
<1> QED BY <1>1, Inductive, PTL

-----------------------------------------------------------------------------
(* The transactions *)

Record == {"begin", "commit", "discard"} \X Nat \X Int

\* The transaction a session is in was begun and has not ended.
GoodTrn(r, journal, next) ==
  /\ r.database \in Int /\ r.trn_id \in Nat
  /\ r.trn_id # NO_TRN_ID =>
       /\ r.trn_id < next
       /\ \E i \in DOMAIN journal : journal[i][2] = r.trn_id
       /\ \A i \in DOMAIN journal : journal[i][2] = r.trn_id => journal[i][1] = "begin"

TInv ==
  /\ counter \in Nat /\ counter > NO_TRN_ID
  /\ trns \in Seq(Record)
  /\ \A i \in DOMAIN trns : trns[i][2] < counter
  /\ \A c \in Clients : session[c] # <<>> => GoodTrn(Info(c), trns, counter)
  /\ TransactionsPaired

LEMMA TInitially == Init => TInv
<1> SUFFICES ASSUME Init PROVE TInv OBVIOUS
<1>1. trns = <<>> /\ counter = 4 /\ \A c \in Clients : session[c] = <<>>
  BY DEF Init, SInit, FIRST_CLIENT_TRN_ID
<1> QED BY <1>1 DEF TInv, TransactionsPaired, NO_TRN_ID

\* What the invariant says of the journal alone, and of two of its records.
LEMMA JournalIs ==
  ASSUME TInv
  PROVE  /\ counter \in Nat /\ counter > NO_TRN_ID /\ trns \in Seq(Record)
         /\ \A i \in DOMAIN trns : trns[i][2] < counter
BY Zenon DEF TInv

LEMMA PairOf ==
  ASSUME TInv, NEW i \in DOMAIN trns, NEW j \in DOMAIN trns, i < j, trns[i][2] = trns[j][2]
  PROVE  trns[i][1] = "begin" /\ trns[j][1] # "begin"
BY DEF TInv, TransactionsPaired

\* A step that leaves the journal alone, and the transaction of every session
\* that is still there.
LEMMA JournalKept ==
  ASSUME TInv, UNCHANGED <<trns, counter>>,
         \A c \in Clients : session'[c] # <<>> =>
            /\ session'[c][1].database \in Int
            /\ \/ session'[c][1].trn_id = NO_TRN_ID
               \/ session[c] # <<>> /\ session'[c][1].trn_id = Info(c).trn_id
  PROVE  TInv'
<1>1. ASSUME NEW c \in Clients, session'[c] # <<>> PROVE GoodTrn(session'[c][1], trns', counter')
  <2>1. CASE session'[c][1].trn_id = NO_TRN_ID BY <1>1, <2>1 DEF GoodTrn, NO_TRN_ID
  <2>2. CASE session[c] # <<>> /\ session'[c][1].trn_id = Info(c).trn_id
    <3>1. GoodTrn(Info(c), trns, counter) BY <2>2, Zenon DEF TInv
    <3> QED BY <1>1, <2>2, <3>1 DEF GoodTrn
  <2> QED BY <1>1, <2>1, <2>2, Zenon
<1>2. TransactionsPaired'
  BY DEF TInv, TransactionsPaired, Info
<1> QED BY <1>1, <1>2 DEF TInv, Info

LEMMA BeginKeeps ==
  ASSUME TInv, IInv, NEW c \in Clients, request_transact_begin(c)
  PROVE  TInv'
<1> DEFINE r == [Info(c) EXCEPT !.trn_id = counter]
           rec == <<"begin", counter, Info(c).database>>
<1>1. session[c] # <<>> BY DEF request_transact_begin, Serves
<1>2. GoodInfo(Info(c)) /\ GoodTrn(Info(c), trns, counter) BY <1>1, InfoIsGood DEF TInv
<1>3. r.trn_id = counter /\ r.database = Info(c).database BY <1>2 DEF GoodInfo
<1>4. /\ session'[c] = <<r>> /\ \A x \in Clients \ {c} : session'[x] = session[x]
      /\ trns' = Append(trns, rec) /\ counter' = counter + 1
  BY DEF request_transact_begin, IInv, Shape, Info
<1>5. rec \in Record /\ rec[1] = "begin" /\ rec[2] = counter BY <1>2, Zenon DEF TInv, Record, GoodTrn
<1> HIDE DEF r, rec
<1>6. /\ trns' \in Seq(Record) /\ DOMAIN trns' = DOMAIN trns \cup {Len(trns) + 1}
      /\ trns'[Len(trns) + 1] = rec /\ \A i \in DOMAIN trns : trns'[i] = trns[i]
      /\ DOMAIN trns = 1 .. Len(trns) /\ Len(trns) \in Nat
  BY <1>4, <1>5, JournalIs
<1>7. \A i \in DOMAIN trns : trns[i][2] \in Nat /\ trns[i][2] < counter /\ trns[i] \in Record
  BY JournalIs DEF Record
<1>8. counter' \in Nat /\ counter' > NO_TRN_ID BY <1>4, JournalIs DEF NO_TRN_ID
<1>9. \A i \in DOMAIN trns' : trns'[i][2] < counter'
  BY <1>4, <1>5, <1>6, <1>7, JournalIs
<1>10. \A x \in Clients : session'[x] # <<>> => GoodTrn(session'[x][1], trns', counter')
  <2> SUFFICES ASSUME NEW x \in Clients, session'[x] # <<>> PROVE GoodTrn(session'[x][1], trns', counter')
    OBVIOUS
  <2>1. CASE x = c
    <3>1. session'[x][1] = r BY <1>4, <2>1
    <3>2. r.database \in Int /\ r.trn_id \in Nat /\ r.trn_id < counter'
      BY <1>2, <1>3, <1>4, JournalIs DEF GoodTrn
    <3>3. \E i \in DOMAIN trns' : trns'[i][2] = r.trn_id BY <1>3, <1>5, <1>6
    <3>4. \A i \in DOMAIN trns' : trns'[i][2] = r.trn_id => trns'[i][1] = "begin"
      BY <1>3, <1>5, <1>6, <1>7, JournalIs
    <3> QED BY <3>1, <3>2, <3>3, <3>4, Zenon DEF GoodTrn
  <2>2. CASE x # c
    <3>1. session'[x][1] = Info(x) /\ GoodTrn(Info(x), trns, counter) BY <1>4, <2>2, Zenon DEF TInv, Info
    <3> DEFINE id == Info(x).trn_id
    <3>2. id \in Nat /\ Info(x).database \in Int /\ (id # NO_TRN_ID => id < counter')
      BY <1>4, <3>1, JournalIs DEF GoodTrn
    <3>3. id # NO_TRN_ID => \E i \in DOMAIN trns' : trns'[i][2] = id
      BY <1>6, <3>1, Zenon DEF GoodTrn
    <3>4. id # NO_TRN_ID => \A i \in DOMAIN trns' : trns'[i][2] = id => trns'[i][1] = "begin"
      BY <1>5, <1>6, <3>1, Zenon DEF GoodTrn
    <3> QED BY <3>1, <3>2, <3>3, <3>4, Zenon DEF GoodTrn
  <2> QED BY <2>1, <2>2
<1>11. TransactionsPaired'
  <2>1. ASSUME NEW i \in DOMAIN trns', NEW j \in DOMAIN trns', i < j, trns'[i][2] = trns'[j][2]
        PROVE  trns'[i][1] = "begin" /\ trns'[j][1] # "begin"
    <3>1. i \in DOMAIN trns /\ j \in DOMAIN trns
      <4>1. i \in DOMAIN trns BY <1>6, <2>1
      <4>2. j # Len(trns) + 1
        BY <1>5, <1>6, <1>7, <2>1, <4>1, JournalIs
      <4> QED BY <1>6, <4>1, <4>2, Zenon
    <3>2. trns'[i] = trns[i] /\ trns'[j] = trns[j] BY <1>6, <3>1, Zenon
    <3> QED BY <2>1, <3>1, <3>2, PairOf
  <2>2. ASSUME NEW j \in DOMAIN trns', trns'[j][1] # "begin"
        PROVE  \E i \in 1 .. j - 1 : trns'[i][2] = trns'[j][2]
    <3>1. j \in DOMAIN trns BY <1>5, <1>6, <2>2
    <3>2. PICK i \in 1 .. j - 1 : trns[i][2] = trns[j][2]
      BY <1>6, <2>2, <3>1, Zenon DEF TInv, TransactionsPaired
    <3>3. i \in DOMAIN trns BY <1>6, <3>1
    <3> QED BY <1>6, <3>1, <3>2, <3>3, Zenon
  <2>3. ASSUME NEW x \in Clients, NEW y \in Clients, x # y, session'[x] # <<>>, session'[y] # <<>>,
               session'[x][1].trn_id = session'[y][1].trn_id
        PROVE  session'[x][1].trn_id = NO_TRN_ID
    <3>1. ASSUME NEW z \in Clients \ {c}, session'[z] # <<>> PROVE session'[z][1].trn_id # counter
      <4>1. session'[z][1] = Info(z) /\ GoodTrn(Info(z), trns, counter)
        BY <1>4, <3>1, Zenon DEF TInv, Info
      <4> QED BY <4>1, JournalIs DEF GoodTrn
    <3>2. session'[c][1].trn_id = counter BY <1>3, <1>4
    <3>3. x # c /\ y # c BY <2>3, <3>1, <3>2
    <3>4. session'[x] = session[x] /\ session'[y] = session[y] BY <1>4, <3>3, Zenon
    <3>5. TransactionsPaired BY Zenon DEF TInv
    <3> QED BY <2>3, <3>4, <3>5, Zenon DEF TransactionsPaired, Info
  <2> QED BY <2>1, <2>2, <2>3, Zenon DEF TransactionsPaired, Info
<1> QED BY <1>6, <1>8, <1>9, <1>10, <1>11, Zenon DEF TInv, Info

\* A commit or a discard: the session's transaction is over.
LEMMA EndKeeps ==
  ASSUME TInv, IInv, NEW c \in Clients, NEW op, NEW record \in {"commit", "discard"},
         EndTransaction(c, op, record)
  PROVE  TInv'
<1> DEFINE r == [Info(c) EXCEPT !.trn_id = NO_TRN_ID]
           id == Info(c).trn_id
           rec == <<record, id, Info(c).database>>
<1>1. session[c] # <<>> /\ id # NO_TRN_ID BY DEF EndTransaction, Serves
<1>2. GoodInfo(Info(c)) /\ GoodTrn(Info(c), trns, counter) BY <1>1, InfoIsGood DEF TInv
<1>3. r.trn_id = NO_TRN_ID /\ r.database = Info(c).database BY <1>2 DEF GoodInfo
<1>4. /\ session'[c] = <<r>> /\ \A x \in Clients \ {c} : session'[x] = session[x]
      /\ trns' = Append(trns, rec) /\ counter' = counter
  BY Zenon DEF EndTransaction, IInv, Shape, Info
<1>5. /\ id \in Nat /\ id < counter /\ \E i \in DOMAIN trns : trns[i][2] = id
      /\ \A i \in DOMAIN trns : trns[i][2] = id => trns[i][1] = "begin"
      /\ Info(c).database \in Int
  BY <1>1, <1>2, Zenon DEF GoodTrn
<1>6. rec \in Record /\ rec[1] # "begin" /\ rec[2] = id BY <1>5, Zenon DEF Record
<1>7. \A x \in Clients \ {c} : session[x] # <<>> => Info(x).trn_id # id
  BY <1>1, Zenon DEF TInv, TransactionsPaired
<1> HIDE DEF r, rec, id
<1>8. /\ trns' \in Seq(Record) /\ DOMAIN trns' = DOMAIN trns \cup {Len(trns) + 1}
      /\ trns'[Len(trns) + 1] = rec /\ \A i \in DOMAIN trns : trns'[i] = trns[i]
      /\ DOMAIN trns = 1 .. Len(trns) /\ Len(trns) \in Nat
  BY <1>4, <1>6, JournalIs
<1>9. \A i \in DOMAIN trns' : trns'[i][2] < counter'
  BY <1>4, <1>5, <1>6, <1>8, Zenon DEF TInv
<1>10. \A x \in Clients : session'[x] # <<>> => GoodTrn(session'[x][1], trns', counter')
  <2> SUFFICES ASSUME NEW x \in Clients, session'[x] # <<>>
               PROVE  GoodTrn(session'[x][1], trns', counter')
    OBVIOUS
  <2>1. CASE x = c
    <3>1. session'[x][1] = r BY <1>4, <2>1
    <3> QED BY <1>3, <1>5, <3>1 DEF GoodTrn, NO_TRN_ID
  <2>2. CASE x # c
    <3>1. session'[x][1] = Info(x) /\ GoodTrn(Info(x), trns, counter) /\ Info(x).trn_id # id
      BY <1>4, <1>7, <2>2, Zenon DEF TInv, Info
    <3> DEFINE other == Info(x).trn_id
    <3>2. other \in Nat /\ Info(x).database \in Int /\ (other # NO_TRN_ID => other < counter')
      BY <1>4, <3>1, Zenon DEF GoodTrn
    <3>3. other # NO_TRN_ID => \E i \in DOMAIN trns' : trns'[i][2] = other
      BY <1>8, <3>1, Zenon DEF GoodTrn
    <3>4. other # NO_TRN_ID => \A i \in DOMAIN trns' : trns'[i][2] = other => trns'[i][1] = "begin"
      BY <1>6, <1>8, <3>1, Zenon DEF GoodTrn
    <3> QED BY <3>1, <3>2, <3>3, <3>4, Zenon DEF GoodTrn
  <2> QED BY <2>1, <2>2
<1>11. TransactionsPaired'
  <2>1. ASSUME NEW i \in DOMAIN trns', NEW j \in DOMAIN trns', i < j, trns'[i][2] = trns'[j][2]
        PROVE  trns'[i][1] = "begin" /\ trns'[j][1] # "begin"
    <3>0. i \in DOMAIN trns BY <1>8, <2>1
    <3>1. CASE j \in DOMAIN trns
      <4>1. trns'[i] = trns[i] /\ trns'[j] = trns[j] BY <1>8, <3>0, <3>1, Zenon
      <4> QED BY <2>1, <3>0, <3>1, <4>1, PairOf
    <3>2. CASE j = Len(trns) + 1
      BY <1>5, <1>6, <1>8, <2>1, <3>0, <3>2, Zenon
    <3> QED BY <1>8, <3>1, <3>2, Zenon
  <2>2. ASSUME NEW j \in DOMAIN trns', trns'[j][1] # "begin"
        PROVE  \E i \in 1 .. j - 1 : trns'[i][2] = trns'[j][2]
    <3>1. CASE j \in DOMAIN trns
      <4>1. PICK i \in 1 .. j - 1 : trns[i][2] = trns[j][2]
        BY <1>8, <2>2, <3>1, Zenon DEF TInv, TransactionsPaired
      <4>2. i \in DOMAIN trns BY <1>8, <3>1
      <4> QED BY <1>8, <3>1, <4>1, <4>2, Zenon
    <3>2. CASE j = Len(trns) + 1
      <4>1. PICK i \in DOMAIN trns : trns[i][2] = id BY <1>5
      <4>2. i \in 1 .. j - 1 BY <1>8, <3>2
      <4> QED BY <1>6, <1>8, <3>2, <4>1, <4>2
    <3> QED BY <1>8, <3>1, <3>2
  <2>3. ASSUME NEW x \in Clients, NEW y \in Clients, x # y, session'[x] # <<>>, session'[y] # <<>>,
               session'[x][1].trn_id = session'[y][1].trn_id
        PROVE  session'[x][1].trn_id = NO_TRN_ID
    <3>1. session'[c][1].trn_id = NO_TRN_ID BY <1>3, <1>4
    <3>2. CASE x # c /\ y # c
      <4>1. session'[x] = session[x] /\ session'[y] = session[y] BY <1>4, <3>2, Zenon
      <4>2. TransactionsPaired BY Zenon DEF TInv
      <4> QED BY <2>3, <4>1, <4>2, Zenon DEF TransactionsPaired, Info
    <3>3. CASE x = c \/ y = c BY <2>3, <3>1, <3>3
    <3> QED BY <3>2, <3>3
  <2> QED BY <2>1, <2>2, <2>3, Zenon DEF TransactionsPaired, Info
<1>12. counter' \in Nat /\ counter' > NO_TRN_ID BY <1>4, Zenon DEF TInv
<1> QED BY <1>8, <1>9, <1>10, <1>11, <1>12, Zenon DEF TInv, Info

\* The steps that change no session.
LEMMA SessionsKept ==
  ASSUME TInv, UNCHANGED <<session, trns, counter>>
  PROVE  TInv'
<1>1. \A c \in Clients : session[c] # <<>> => Info(c).database \in Int
  BY DEF TInv, GoodTrn
<1> QED BY <1>1, JournalKept DEF Info

\* The steps that give one session another content and its transaction back.
LEMMA OneSession ==
  ASSUME TInv, IInv, NEW c \in Clients, NEW r, session' = [session EXCEPT ![c] = <<r>>],
         r.database \in Int,
         r.trn_id = NO_TRN_ID \/ (session[c] # <<>> /\ r.trn_id = Info(c).trn_id),
         UNCHANGED <<trns, counter>>
  PROVE  TInv'
<1>1. session'[c] = <<r>> /\ \A x \in Clients \ {c} : session'[x] = session[x]
  BY DEF IInv, Shape
<1>2. \A x \in Clients : session[x] # <<>> => Info(x).database \in Int BY Zenon DEF TInv, GoodTrn
<1>3. ASSUME NEW x \in Clients, session'[x] # <<>>
      PROVE  /\ session'[x][1].database \in Int
             /\ \/ session'[x][1].trn_id = NO_TRN_ID
                \/ session[x] # <<>> /\ session'[x][1].trn_id = Info(x).trn_id
  <2>1. CASE x = c BY <1>1, <2>1
  <2>2. CASE x # c BY <1>1, <1>2, <1>3, <2>2 DEF Info
  <2> QED BY <2>1, <2>2, Zenon
<1> QED BY <1>3, JournalKept, Zenon

LEMMA ChannelsKept ==
  ASSUME TInv, IInv, NEW c \in Clients, NEW chs, session[c] # <<>>, SetChannels(c, chs),
         UNCHANGED <<trns, counter>>
  PROVE  TInv'
<1> DEFINE r == [Info(c) EXCEPT !.channels = chs]
<1>1. GoodInfo(Info(c)) /\ GoodTrn(Info(c), trns, counter) BY InfoIsGood, Zenon DEF TInv
<1>2. r.database \in Int /\ r.trn_id = Info(c).trn_id BY <1>1 DEF GoodInfo, GoodTrn
<1>3. session' = [session EXCEPT ![c] = <<r>>] BY DEF SetChannels, Info
<1> HIDE DEF r
<1> QED BY <1>2, <1>3, OneSession, Zenon

LEMMA FreshSession ==
  ASSUME NEW level, NEW name
  PROVE  user_data_t(level, name).database \in Int /\ user_data_t(level, name).trn_id = NO_TRN_ID
BY DEF user_data_t

LEMMA TStepKeeps == TInv /\ IInv /\ [Next]_vars => TInv'
<1> SUFFICES ASSUME TInv, IInv, [Next]_vars PROVE TInv' OBVIOUS
<1>1. ASSUME NEW c \in Clients, add_client(c) PROVE TInv'
  BY <1>1, FreshSession, OneSession, Zenon DEF add_client, monostate
<1>2. ASSUME NEW c \in Clients, NEW name, NEW password, request_auth(c, name, password)
      PROVE  TInv'
  BY <1>2, FreshSession, OneSession, Zenon DEF request_auth, session_set_auth
<1>3. ASSUME NEW c \in Clients, AccountsStep(c) PROVE TInv'
  <2>1. UNCHANGED <<session, trns, counter>>
    BY <1>3 DEF AccountsStep, request_add_user, request_edit_user, request_del_user,
                request_change_password, Change, AccountsRefused, svars
  <2> QED BY <2>1, SessionsKept
<1>4. ASSUME NEW c \in Clients, TransactionStep(c) PROVE TInv'
  <2>1. ASSUME NEW db \in 0 .. NumDatabases, request_switch_db(c, db) PROVE TInv'
    <3> DEFINE r == [Info(c) EXCEPT !.database = db]
    <3>1. session[c] # <<>> /\ db \in Int /\ UNCHANGED <<trns, counter>>
      BY <2>1 DEF request_switch_db, Serves
    <3>2. GoodInfo(Info(c)) BY <3>1, InfoIsGood
    <3>3. r.database \in Int /\ r.trn_id = Info(c).trn_id BY <3>1, <3>2 DEF GoodInfo
    <3>4. session' = [session EXCEPT ![c] = <<r>>] BY <2>1 DEF request_switch_db, Info
    <3> HIDE DEF r
    <3> QED BY <3>1, <3>3, <3>4, OneSession, Zenon
  <2> QED BY <1>4, <2>1, BeginKeeps, EndKeeps DEF TransactionStep
<1>5. ASSUME NEW c \in Clients, BindStep(c) PROVE TInv'
  BY <1>5, SessionsKept DEF BindStep, request_bind, request_unbind
<1>6. ASSUME NEW c \in Clients, PubSubStep(c) PROVE TInv'
  BY <1>6, ChannelsKept, SessionsKept, Zenon
  DEF PubSubStep, request_subscribe, request_unsubscribe, request_unsubscribe_all,
      request_publish, request_pipe, ServesAs
<1>7. CASE \/ persist_nowhere \/ write_tmp \/ rename_tmp \/ perform_write \/ push_publish
           \/ \E c \in Clients : pre_client_delete(c)
  BY <1>7, SessionsKept, Zenon
  DEF persist_nowhere, write_tmp, rename_tmp, perform_write, push_publish, pre_client_delete
<1>8. CASE \E w \in Workers : event_publish(w) \/ publish(w)
  BY <1>8, SessionsKept, Zenon DEF event_publish, publish, svars
<1>9. CASE remove_client
  <2>1. \A x \in Clients : session[x] # <<>> => Info(x).database \in Int BY DEF TInv, GoodTrn
  <2>2. \A x \in Clients : session'[x] = <<>> \/ session'[x] = session[x]
    BY <1>9 DEF remove_client, IInv, Shape
  <2>3. UNCHANGED <<trns, counter>> BY <1>9 DEF remove_client
  <2> QED BY <2>1, <2>2, <2>3, JournalKept, Zenon DEF Info
<1>10. CASE Restart
  <2>1. (\A x \in Clients : session'[x] = <<>>) /\ trns' = <<>> /\ counter' = 4
    BY <1>10 DEF Restart, FIRST_CLIENT_TRN_ID
  <2> QED BY <2>1 DEF TInv, TransactionsPaired, NO_TRN_ID
<1>11. CASE UNCHANGED vars BY <1>11, SessionsKept DEF vars, svars
<1> QED BY <1>1, <1>2, <1>3, <1>4, <1>5, <1>6, <1>7, <1>8, <1>9, <1>10, <1>11 DEF Next, PartStep

\* However clients interleave, come and go, and wherever earlier runs ended, every
\* transaction of one run of the server is begun once and ended at most once and
\* after that, and is one session's at most (request_transact_begin, _commit and
\* _discard, session_set_auth).
THEOREM TransactionsArePaired == Spec => []TransactionsPaired
<1>1. TInv => TransactionsPaired BY DEF TInv
<1> QED BY <1>1, TInitially, TStepKeeps, Inductive, PTL DEF Spec

-----------------------------------------------------------------------------
(* Publishing *)

Entry == [channel : Channels, message : Nat]

\* The messages of a queue, and that none is there twice.
Messages(s) == {s[k].message : k \in DOMAIN s}

OnceEach(s) == \A j, k \in DOMAIN s : s[j].message = s[k].message => j = k

GoodQueue(s, p) == s \in Seq(Entry) /\ Messages(s) \subseteq 1 .. p /\ OnceEach(s)

\* A message is in the queue, in one worker's hands or delivered, and in one of
\* these places only.
RInv ==
  /\ published \in Nat
  /\ GoodQueue(m_publish_queue, published)
  /\ batch = [w \in Workers |-> batch[w]]
  /\ \A w \in Workers :
       /\ GoodQueue(batch[w], published) /\ Messages(batch[w]) \intersect Messages(m_publish_queue) = {}
       /\ \A v \in Workers : v # w => Messages(batch[w]) \intersect Messages(batch[v]) = {}
  /\ DOMAIN received = Clients
  /\ \A c \in Clients, n \in 1 .. MaxPublished :
       /\ received[c][n] \in {0, 1}
       /\ received[c][n] = 1 =>
            /\ n <= published /\ n \notin Messages(m_publish_queue)
            /\ \A w \in Workers : n \notin Messages(batch[w])

LEMMA EmptyIsGood == Messages(<<>>) = {} /\ \A p : GoodQueue(<<>>, p)
<1>1. Messages(<<>>) = {} /\ OnceEach(<<>>) /\ <<>> \in Seq(Entry) BY DEF Messages, OnceEach
<1> QED BY <1>1 DEF GoodQueue

LEMMA RInitially == Init => RInv
<1> SUFFICES ASSUME Init PROVE RInv OBVIOUS
<1>1. /\ published = 0 /\ m_publish_queue = <<>> /\ batch = [w \in Workers |-> <<>>]
      /\ received = [c \in Clients |-> NothingYet]
  BY DEF Init
<1>2. Messages(<<>>) = {} /\ GoodQueue(<<>>, 0) BY EmptyIsGood
<1>3. /\ DOMAIN received = Clients
      /\ \A c \in Clients, n \in 1 .. MaxPublished : received[c][n] = 0
  BY <1>1 DEF NothingYet
<1>5. /\ batch = [w \in Workers |-> batch[w]]
      /\ \A w \in Workers : batch[w] = <<>>
  BY <1>1
<1> QED BY <1>1, <1>2, <1>3, <1>5 DEF RInv

\* What a published message adds to the queue.
LEMMA Queued ==
  ASSUME NEW s, GoodQueue(s, published), published \in Nat, NEW ch \in Channels, published' = published + 1
  PROVE  LET t == Append(s, [channel |-> ch, message |-> published']) IN
         /\ t \in Seq(Entry) /\ OnceEach(t) /\ Messages(t) = Messages(s) \union {published'}
         /\ published' \notin Messages(s) /\ Messages(s) \subseteq 1 .. published'
<1> DEFINE x == [channel |-> ch, message |-> published']
           t == Append(s, x)
<1>1. x \in Entry /\ x.message = published' BY DEF Entry
<1> HIDE DEF x
<1>2. s \in Seq(Entry) /\ Len(s) \in Nat /\ DOMAIN s = 1 .. Len(s) BY DEF GoodQueue
<1>3. /\ t \in Seq(Entry) /\ DOMAIN t = 1 .. Len(s) + 1 /\ t[Len(s) + 1] = x
      /\ \A k \in 1 .. Len(s) : t[k] = s[k]
  BY <1>1, <1>2
<1>4. /\ \A k \in 1 .. Len(s) : s[k].message \in 1 .. published
      /\ \A j, k \in 1 .. Len(s) : s[j].message = s[k].message => j = k
  BY <1>2 DEF GoodQueue, Messages, OnceEach
<1>5. \A k \in 1 .. Len(s) : s[k].message # published' BY <1>4
<1> HIDE DEF t
<1>6. \A k \in 1 .. Len(s) + 1 : k \in 1 .. Len(s) \/ k = Len(s) + 1 BY <1>2
<1>7. OnceEach(t) BY <1>1, <1>3, <1>4, <1>5, <1>6 DEF OnceEach
<1>8. Messages(t) = Messages(s) \union {published'}
  <2>1. 1 .. Len(s) \subseteq 1 .. Len(s) + 1 /\ Len(s) + 1 \in 1 .. Len(s) + 1 BY <1>2
  <2>2. \A n : n \in Messages(t) <=> n \in Messages(s) \/ n = published'
    BY <1>1, <1>2, <1>3, <1>6, <2>1 DEF Messages
  <2> QED BY <2>2
<1>9. published' \notin Messages(s) BY <1>2, <1>5 DEF Messages
<1>10. Messages(s) \subseteq 1 .. published' BY DEF GoodQueue
<1> QED BY <1>3, <1>7, <1>8, <1>9, <1>10 DEF t, x

LEMMA PublishKeeps ==
  ASSUME RInv, NEW c, NEW a, NEW ch \in Channels, request_publish(c, a, ch)
  PROVE  RInv'
<1> DEFINE q == m_publish_queue
           t == m_publish_queue'
           p == published'
<1>1. /\ published \in Nat /\ GoodQueue(q, published) /\ p = published + 1
      /\ t = Append(q, [channel |-> ch, message |-> p])
      /\ UNCHANGED <<batch, received>>
  BY DEF RInv, request_publish
<1>2. /\ t \in Seq(Entry) /\ OnceEach(t) /\ Messages(t) = Messages(q) \union {p}
      /\ p \notin Messages(q) /\ Messages(q) \subseteq 1 .. p
  BY <1>1, Queued
<1> HIDE DEF t, p
<1>3. p \in Nat /\ 1 .. published \subseteq 1 .. p /\ p \in 1 .. p /\ p \notin 1 .. published
  BY <1>1
<1>4. GoodQueue(t, p) BY <1>2, <1>3 DEF GoodQueue
<1>5. ASSUME NEW w \in Workers
      PROVE  GoodQueue(batch[w], p) /\ p \notin Messages(batch[w])
             /\ Messages(batch[w]) \intersect Messages(t) = {}
  <2>1. GoodQueue(batch[w], published) /\ Messages(batch[w]) \intersect Messages(q) = {} BY DEF RInv
  <2>2. p \notin Messages(batch[w]) BY <1>3, <2>1 DEF GoodQueue
  <2>3. GoodQueue(batch[w], p) BY <1>3, <2>1 DEF GoodQueue
  <2> QED BY <1>2, <2>1, <2>2, <2>3
<1>6. ASSUME NEW d \in Clients, NEW n \in 1 .. MaxPublished, received[d][n] = 1
      PROVE  n <= p /\ n \notin Messages(t)
  <2>1. n <= published /\ n \notin Messages(q) BY <1>6 DEF RInv
  <2>2. n <= p /\ n # p BY <1>1, <2>1
  <2> QED BY <1>2, <2>1, <2>2
<1> QED BY <1>1, <1>3, <1>4, <1>5, <1>6 DEF RInv, t, p

LEMMA SwapKeeps ==
  ASSUME RInv, NEW w \in Workers, event_publish(w)
  PROVE  RInv'
<1> DEFINE q == m_publish_queue
<1>1. /\ published' = published /\ received' = received /\ m_publish_queue' = <<>>
      /\ batch[w] = <<>> /\ batch' = [batch EXCEPT ![w] = q]
  BY DEF event_publish
<1>2. batch = [v \in Workers |-> batch[v]] BY DEF RInv
<1>3. /\ batch'[w] = q /\ \A v \in Workers \ {w} : batch'[v] = batch[v]
      /\ batch' = [v \in Workers |-> batch'[v]]
  BY <1>1, <1>2
<1>4. Messages(<<>>) = {} /\ GoodQueue(<<>>, published) BY EmptyIsGood
<1>5. /\ published \in Nat /\ GoodQueue(q, published)
      /\ \A v \in Workers :
           /\ GoodQueue(batch[v], published) /\ Messages(batch[v]) \intersect Messages(q) = {}
           /\ \A u \in Workers : u # v => Messages(batch[v]) \intersect Messages(batch[u]) = {}
  BY Zenon DEF RInv
<1>6. ASSUME NEW v \in Workers
      PROVE  /\ GoodQueue(batch'[v], published) /\ Messages(batch'[v]) \intersect Messages(<<>>) = {}
             /\ \A u \in Workers : u # v => Messages(batch'[v]) \intersect Messages(batch'[u]) = {}
  <2>1. \A u \in Workers \ {w} : /\ Messages(batch[u]) \intersect Messages(q) = {}
                                 /\ Messages(q) \intersect Messages(batch[u]) = {}
    BY <1>5
  <2>2. CASE v = w BY <1>3, <1>4, <1>5, <2>1, <2>2
  <2>3. CASE v # w BY <1>3, <1>4, <1>5, <2>1, <2>3
  <2> QED BY <2>2, <2>3
<1>7. ASSUME NEW c \in Clients, NEW n \in 1 .. MaxPublished, received[c][n] = 1
      PROVE  /\ n <= published /\ n \notin Messages(<<>>)
             /\ \A v \in Workers : n \notin Messages(batch'[v])
  BY <1>3, <1>4, <1>7 DEF RInv
<1> QED BY <1>1, <1>3, <1>4, <1>5, <1>6, <1>7 DEF RInv

\* What event_publish writes: each message of the batch at most once.
LEMMA WrittenOnce ==
  ASSUME NEW b, OnceEach(b), NEW c, NEW n
  PROVE  LET S == {k \in DOMAIN b : b[k].message = n /\ c \in Reached(b[k].channel)} IN
         /\ Cardinality(S) \in {0, 1}
         /\ n \notin Messages(b) => Cardinality(S) = 0
<1> DEFINE S == {k \in DOMAIN b : b[k].message = n /\ c \in Reached(b[k].channel)}
<1>1. CASE S = {} BY <1>1, FS_EmptySet
<1>2. CASE S # {}
  <2>1. PICK k : k \in S BY <1>2
  <2>2. S = {k} BY <2>1 DEF OnceEach
  <2>3. n \in Messages(b) BY <2>1 DEF Messages
  <2> HIDE DEF S
  <2>4. Cardinality(S) = 1 BY <2>2, FS_Singleton
  <2> QED BY <2>3, <2>4 DEF S
<1> QED BY <1>1, <1>2

LEMMA DeliverKeeps ==
  ASSUME RInv, NEW w \in Workers, publish(w)
  PROVE  RInv'
<1> DEFINE b == batch[w]
           C(c, n) == Cardinality({i \in DOMAIN b : b[i].message = n /\ c \in Reached(b[i].channel)})
<1>1. /\ published' = published /\ m_publish_queue' = m_publish_queue
      /\ batch' = [batch EXCEPT ![w] = <<>>]
      /\ DOMAIN received' = Clients
      /\ \A c \in Clients : \A n \in 1 .. MaxPublished : received'[c][n] = received[c][n] + C(c, n)
  BY DEF publish
<1>2. batch = [v \in Workers |-> batch[v]] BY DEF RInv
<1>3. /\ batch'[w] = <<>> /\ \A v \in Workers \ {w} : batch'[v] = batch[v]
      /\ batch' = [v \in Workers |-> batch'[v]]
  BY <1>1, <1>2
<1>4. Messages(<<>>) = {} /\ GoodQueue(<<>>, published) BY EmptyIsGood
<1>5. /\ published \in Nat /\ GoodQueue(m_publish_queue, published)
      /\ \A v \in Workers :
           /\ GoodQueue(batch[v], published) /\ Messages(batch[v]) \intersect Messages(m_publish_queue) = {}
           /\ \A u \in Workers : u # v => Messages(batch[v]) \intersect Messages(batch[u]) = {}
  BY Zenon DEF RInv
<1>6. \A c, n : C(c, n) \in {0, 1} /\ (n \notin Messages(b) => C(c, n) = 0)
  BY <1>5, WrittenOnce DEF GoodQueue
<1> HIDE DEF C
<1>7. ASSUME NEW v \in Workers
      PROVE  /\ GoodQueue(batch'[v], published)
             /\ Messages(batch'[v]) \intersect Messages(m_publish_queue) = {}
             /\ \A u \in Workers : u # v => Messages(batch'[v]) \intersect Messages(batch'[u]) = {}
  <2>1. CASE v = w BY <1>3, <1>4, <1>5, <2>1
  <2>2. CASE v # w BY <1>3, <1>4, <1>5, <2>2
  <2> QED BY <2>1, <2>2
<1>8. ASSUME NEW c \in Clients, NEW n \in 1 .. MaxPublished
      PROVE  /\ received'[c][n] \in {0, 1}
             /\ received'[c][n] = 1 =>
                  /\ n <= published /\ n \notin Messages(m_publish_queue)
                  /\ \A v \in Workers : n \notin Messages(batch'[v])
  <2>1. /\ received[c][n] \in {0, 1}
        /\ received[c][n] = 1 =>
             /\ n <= published /\ n \notin Messages(m_publish_queue)
             /\ \A v \in Workers : n \notin Messages(batch[v])
    BY DEF RInv
  <2>2. received'[c][n] = received[c][n] + C(c, n) BY <1>1
  <2>3. CASE n \in Messages(b)
    <3>1. received[c][n] = 0 /\ received'[c][n] \in {0, 1} BY <1>6, <2>1, <2>2, <2>3
    <3>2. n <= published /\ n \notin Messages(m_publish_queue)
      <4>1. GoodQueue(b, published) /\ Messages(b) \intersect Messages(m_publish_queue) = {}
        BY <1>5, Zenon
      <4>2. n \in 1 .. published /\ n \notin Messages(m_publish_queue)
        BY <2>3, <4>1, Zenon DEF GoodQueue
      <4> QED BY <1>5, <4>2
    <3>3. \A v \in Workers \ {w} : n \notin Messages(batch[v]) BY <1>5, <2>3
    <3> QED BY <1>3, <1>4, <3>1, <3>2, <3>3
  <2>4. CASE n \notin Messages(b)
    <3>1. received'[c][n] = received[c][n] BY <1>6, <2>1, <2>2, <2>4
    <3> QED BY <1>3, <1>4, <2>1, <3>1
  <2> QED BY <2>3, <2>4
<1> QED BY <1>1, <1>3, <1>5, <1>7, <1>8 DEF RInv

\* A client that is gone has received nothing.
LEMMA GoneKeeps ==
  ASSUME RInv, remove_client
  PROVE  RInv'
<1>1. /\ UNCHANGED <<published, m_publish_queue, batch>>
      /\ received' = [received EXCEPT ![busy[2]] = NothingYet]
  BY DEF remove_client
<1>2. DOMAIN received' = Clients /\ \A c \in Clients : received'[c] \in {received[c], NothingYet}
  BY <1>1 DEF RInv
<1>3. \A n \in 1 .. MaxPublished : NothingYet[n] = 0 BY DEF NothingYet
<1> QED BY <1>1, <1>2, <1>3 DEF RInv

\* A new process has nothing to deliver.
LEMMA RestartDelivers ==
  ASSUME RInv, Restart
  PROVE  RInv'
<1>1. /\ published' = published /\ m_publish_queue' = <<>> /\ batch' = [w \in Workers |-> <<>>]
      /\ received' = [c \in Clients |-> NothingYet]
  BY DEF Restart
<1>2. Messages(<<>>) = {} /\ GoodQueue(<<>>, published) BY EmptyIsGood
<1>3. /\ DOMAIN received' = Clients
      /\ \A c \in Clients, n \in 1 .. MaxPublished : received'[c][n] = 0
  BY <1>1 DEF NothingYet
<1>4. batch' = [w \in Workers |-> batch'[w]] /\ \A w \in Workers : batch'[w] = <<>>
  BY <1>1
<1>5. published \in Nat BY DEF RInv
<1> QED BY <1>1, <1>2, <1>3, <1>4, <1>5 DEF RInv

LEMMA RStepKeeps == RInv /\ [Next]_vars => RInv'
<1> SUFFICES ASSUME RInv, [Next]_vars PROVE RInv' OBVIOUS
<1>1. CASE UNCHANGED <<m_publish_queue, batch, published, received>> BY <1>1 DEF RInv
<1>2. CASE UNCHANGED pvars BY <1>1, <1>2 DEF pvars
<1>3. ASSUME NEW c \in Clients, PubSubStep(c) PROVE RInv'
  BY <1>1, <1>3, PublishKeeps, Zenon
  DEF PubSubStep, request_subscribe, request_unsubscribe, request_unsubscribe_all, request_pipe, pvars
<1>4. CASE perform_write \/ push_publish
  BY <1>1, <1>2, <1>4, Zenon DEF perform_write, push_publish
<1>5. CASE \E c \in Clients : pre_client_delete(c) BY <1>1, <1>5, Zenon DEF pre_client_delete
<1> QED BY <1>2, <1>3, <1>4, <1>5, RestartDelivers, SwapKeeps, DeliverKeeps, GoneKeeps, Zenon DEF Next, vars

\* request_publish queues a message under one lock and event_publish swaps the queue
\* out under it, then delivers under another: for any number of workers woken for any
\* number of messages, no message is written twice to a connection.
THEOREM NothingReceivedTwice == Spec => []ReceivedOnce
<1>1. RInv => ReceivedOnce
  <2> SUFFICES ASSUME RInv, NEW c \in Clients, NEW n \in 1 .. MaxPublished
               PROVE  received[c][n] <= 1
    BY DEF ReceivedOnce
  <2>1. received[c][n] = 0 \/ received[c][n] = 1 BY DEF RInv
  <2> QED BY <2>1
<1> QED BY <1>1, RInitially, RStepKeeps, PTL DEF Spec
=============================================================================
