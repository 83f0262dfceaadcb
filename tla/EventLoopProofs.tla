--------------------------- MODULE EventLoopProofs ---------------------------
(***************************************************************************)
(* The poll handshake keeps the sockets in the hands of one worker, no     *)
(* wake-up of a worker is lost and no thread outlives Server::run, for any *)
(* number of workers, requests, signals and queued events.                 *)
(***************************************************************************)
EXTENDS EventLoop, FiniteSetTheorems, TLAPS

\* The type of the flags, which is a matter for Zenon, and that of the rest.
FlagType == /\ polled \in BOOLEAN /\ running \in BOOLEAN
            /\ stopped \in BOOLEAN /\ terminating \in BOOLEAN

RestType ==
    /\ queue \in Seq(Events)
    /\ pushing \subseteq Threads
    /\ wpc \in [Workers -> {"get", "waiting", "epoll", "busy", "terminate", "done"}]
    /\ pollpc \in {"wait", "handshake", "done"}
    /\ repeatpc \in {"sleep", "due", "done"}
    /\ stage \in {"serving", "joined", "repeat_stop", "clients_stopped", "poll_stop", "exited"}
    /\ inbox \in Nat /\ requests \in Nat /\ signals \in Nat

LEMMA TypeSplit == TypeOK <=> FlagType /\ RestType
  BY Zenon DEF TypeOK, FlagType, RestType

\* Pushing an event other than epoll_ready queues no further one.
LEMMA PushOther ==
    ASSUME TypeOK, NEW t \in Threads, NEW e \in Events, e # "epoll_ready", Push(t, e)
    PROVE  Queued' = Queued /\ queue' \in Seq(Events) /\ pushing' \subseteq Threads
<1>1. /\ queue \in Seq(Events) /\ queue' = Append(queue, e)
      /\ Len(queue) \in Nat /\ DOMAIN queue = 1 .. Len(queue)
      /\ queue' \in Seq(Events) /\ DOMAIN queue' = 1 .. Len(queue) + 1
      /\ \A i \in 1 .. Len(queue) : queue'[i] = queue[i]
      /\ queue'[Len(queue) + 1] = e
  BY DEF TypeOK, Push
<1>2. Queued' = Queued
  BY <1>1 DEF Queued
<1> QED BY <1>1, <1>2 DEF Push, TypeOK

\* Taking the first event moves the others up by one.
LEMMA TakeQueued ==
    ASSUME TypeOK, queue # <<>>, queue' = Tail(queue)
    PROVE  /\ queue' \in Seq(Events) /\ Head(queue) \in Events
           /\ Head(queue) = "epoll_ready" <=> 1 \in Queued
           /\ \A i \in Queued' : i + 1 \in Queued /\ i \in Nat /\ i + 1 # 1
<1>1. /\ queue \in Seq(Events) /\ Len(queue) \in Nat /\ Len(queue) > 0
      /\ DOMAIN queue = 1 .. Len(queue) /\ Head(queue) = queue[1]
      /\ queue' \in Seq(Events) /\ DOMAIN queue' = 1 .. Len(queue) - 1
      /\ \A i \in 1 .. Len(queue) - 1 : queue'[i] = queue[i + 1]
  BY DEF TypeOK
<1>2. Head(queue) \in Events /\ (Head(queue) = "epoll_ready" <=> 1 \in Queued)
  BY <1>1 DEF Queued
<1>3. ASSUME NEW i \in Queued' PROVE i + 1 \in Queued /\ i \in Nat /\ i + 1 # 1
  <2>1. i \in 1 .. Len(queue) - 1 /\ queue'[i] = "epoll_ready"
    BY <1>1, <1>3 DEF Queued
  <2> QED BY <1>1, <2>1 DEF Queued
<1> QED BY <1>1, <1>2, <1>3

LEMMA InitHandshake == Init => TypeOK /\ HandshakeInv
<1> SUFFICES ASSUME Init PROVE TypeOK /\ HandshakeInv
  OBVIOUS
<1>1. TypeOK
  <2>1. FlagType
    BY Zenon DEF Init, FlagType
  <2>2. RestType
    BY EventLoopAssumption DEF Init, RestType
  <2> QED BY <2>1, <2>2, TypeSplit
<1>2. Queued = {} /\ ~Claimed
  BY DEF Init, Queued, Claimed
<1> QED BY <1>1, <1>2 DEF Init, HandshakeInv, OneServer

\* The steps of a worker.
LEMMA WorkerKeepsHandshake ==
    ASSUME TypeOK, HandshakeInv, NEW w \in Workers, WorkerStep(w) \/ WakeUp(w)
    PROVE  TypeOK' /\ HandshakeInv'
<1> USE DEF pollVars, mainVars, envVars
<1>0. w \in Threads /\ \A v \in Workers : wpc'[v] = IF v = w THEN wpc'[w] ELSE wpc[v]
  BY DEF Threads, TypeOK, WorkerStep, WakeUp, Wait, Take, HandlerReturns, Leave, ServeRequest,
         EpollReturns, Becomes
<1>1. CASE Wait(w) \/ WakeUp(w) \/ HandlerReturns(w)
  <2>1. TypeOK'
    BY <1>1 DEF Wait, WakeUp, HandlerReturns, Becomes, TypeOK
  <2>2. UNCHANGED <<queue, pollpc, polled>> /\ wpc[w] # "epoll" /\ wpc'[w] # "epoll" /\ Queued' = Queued
    BY <1>1 DEF Wait, WakeUp, HandlerReturns, Becomes, TypeOK, Queued
  <2> QED BY <1>0, <2>1, <2>2 DEF HandshakeInv, OneServer, Claimed
<1>2. CASE Take(w)
  <2>1. /\ queue # <<>> /\ queue' = Tail(queue) /\ UNCHANGED <<pollpc, polled>>
        /\ wpc[w] = "get" /\ wpc'[w] = Handler(Head(queue))
    BY <1>2 DEF Take, Becomes, TypeOK
  <2>2. /\ Head(queue) = "epoll_ready" <=> wpc'[w] = "epoll"
        /\ wpc'[w] \in {"epoll", "terminate", "busy"}
    BY <2>1 DEF Handler
  <2>3. TypeOK'
    BY <1>2, <2>1, <2>2, TakeQueued DEF Take, Becomes, TypeOK
  <2>4. CASE Head(queue) = "epoll_ready"
    <3>1. 1 \in Queued /\ Queued' = {} /\ wpc'[w] = "epoll"
      BY <2>1, <2>2, <2>4, TakeQueued DEF HandshakeInv
    <3>2. \A v \in Workers : wpc[v] # "epoll"
      BY <3>1 DEF HandshakeInv
    <3> QED BY <1>0, <2>1, <2>3, <3>1, <3>2 DEF HandshakeInv, OneServer, Claimed
  <2>5. CASE Head(queue) # "epoll_ready"
    <3>1. wpc'[w] # "epoll"
      BY <2>2, <2>5
    <3>2. \A i \in Queued' : i + 1 \in Queued /\ i \in Nat
      BY <2>1, TakeQueued
    <3>3. \A i, j \in Queued' : i = j
      BY <3>2 DEF HandshakeInv
    <3> QED BY <1>0, <2>1, <2>3, <3>1, <3>2, <3>3 DEF HandshakeInv, OneServer, Claimed
  <2> QED BY <2>4, <2>5
<1>3. CASE Leave(w)
  <2>1. Queued' = Queued /\ TypeOK'
    BY <1>0, <1>3, PushOther DEF Leave, Becomes, TypeOK, Events
  <2>2. UNCHANGED <<pollpc, polled>> /\ wpc[w] # "epoll" /\ wpc'[w] # "epoll"
    BY <1>3 DEF Leave, Becomes, TypeOK
  <2> QED BY <1>0, <2>1, <2>2 DEF HandshakeInv, OneServer, Claimed
<1>4. CASE ServeRequest(w)
  <2>1. UNCHANGED <<pollpc, polled, wpc>>
    BY <1>4 DEF ServeRequest
  <2>2. Queued' = Queued /\ queue' \in Seq(Events) /\ pushing' \subseteq Threads
    <3>1. CASE UNCHANGED <<queue, pushing>>
      BY <3>1 DEF TypeOK, Queued
    <3>2. CASE Push(w, "publish") \/ Push(w, "terminate")
      BY <1>0, <3>2, PushOther DEF Events
    <3> QED BY <1>4, <3>1, <3>2 DEF ServeRequest
  <2>3. TypeOK'
    <3>1. FlagType'
      BY <1>4, Zenon, TypeSplit DEF ServeRequest, FlagType
    <3>2. RestType'
      BY <1>4, <2>2, TypeSplit DEF ServeRequest, RestType
    <3> QED BY <3>1, <3>2, Zenon DEF TypeOK, FlagType, RestType
  <2> QED BY <2>1, <2>2, <2>3 DEF HandshakeInv, OneServer, Claimed
<1>5. CASE EpollReturns(w)
  <2>1. /\ TypeOK' /\ Queued' = Queued /\ wpc[w] = "epoll" /\ wpc'[w] # "epoll"
        /\ pollpc' = pollpc /\ polled'
    BY <1>5 DEF EpollReturns, Becomes, TypeOK, Queued
  <2>2. Queued = {} /\ pollpc = "handshake" /\ \A v \in Workers : wpc'[v] # "epoll"
    BY <1>0, <2>1 DEF HandshakeInv, OneServer, Claimed
  <2> QED BY <2>1, <2>2 DEF HandshakeInv, OneServer, Claimed
<1> QED BY <1>1, <1>2, <1>3, <1>4, <1>5 DEF WorkerStep

\* The steps of the poll thread.
LEMMA PollKeepsHandshake ==
    ASSUME TypeOK, HandshakeInv, PollStep
    PROVE  TypeOK' /\ HandshakeInv'
<1> USE DEF pollVars, mainVars, envVars
<1>1. CASE PollReady
  <2>1. /\ queue \in Seq(Events) /\ queue' = Append(queue, "epoll_ready")
        /\ Len(queue) \in Nat /\ DOMAIN queue = 1 .. Len(queue)
        /\ queue' \in Seq(Events) /\ DOMAIN queue' = 1 .. Len(queue) + 1
        /\ \A i \in 1 .. Len(queue) : queue'[i] = queue[i]
        /\ pollpc = "wait" /\ pollpc' = "handshake" /\ UNCHANGED <<wpc, polled>>
    BY <1>1 DEF PollReady, Push, TypeOK, Events
  <2>2. TypeOK'
    BY <1>1, <2>1 DEF PollReady, Push, TypeOK, Threads
  <2>3. ~polled /\ Queued = {} /\ \A w \in Workers : wpc[w] # "epoll"
    BY <2>1 DEF HandshakeInv, Claimed
  <2>4. \A i \in Queued' : i = Len(queue) + 1
    BY <2>1, <2>3 DEF Queued
  <2> QED BY <2>1, <2>2, <2>3, <2>4 DEF HandshakeInv, OneServer, Claimed
<1>2. CASE PollContinue \/ PollLeave
  <2>1. TypeOK'
    <3>1. FlagType'
      BY <1>2, Zenon, TypeSplit DEF PollContinue, PollLeave, FlagType
    <3>2. RestType'
      BY <1>2, TypeSplit DEF PollContinue, PollLeave, RestType
    <3> QED BY <3>1, <3>2, Zenon DEF TypeOK, FlagType, RestType
  <2>2. /\ Queued' = Queued /\ wpc' = wpc
        /\ (polled \/ pollpc = "wait") /\ ~polled'
    BY <1>2 DEF PollContinue, PollLeave, Queued, HandshakeInv
  <2>3. ~Claimed
    BY <2>2 DEF HandshakeInv
  <2> QED BY <2>1, <2>2, <2>3 DEF HandshakeInv, OneServer, Claimed
<1> QED BY <1>1, <1>2 DEF PollStep

\* The other threads never touch the handshake; clearing the queue when every
\* worker has left drops the epoll_ready that nobody will answer.
LEMMA OthersKeepHandshake ==
    ASSUME TypeOK, HandshakeInv,
           \/ \E t \in Threads : Notify(t)
           \/ RepeatTimeout \/ RepeatEvent \/ RepeatLeave \/ MainStep
           \/ RequestArrives \/ SignalArrives
    PROVE  TypeOK' /\ HandshakeInv'
<1> USE DEF pollVars, mainVars, envVars
<1>1. ASSUME NEW t \in Threads, Notify(t) PROVE TypeOK' /\ HandshakeInv'
  <2>1. /\ TypeOK' /\ UNCHANGED <<pollpc, polled>> /\ Queued' = Queued
        /\ \A w \in Workers : wpc'[w] = "epoll" <=> wpc[w] = "epoll"
    BY <1>1 DEF Notify, TypeOK, Queued
  <2> QED BY <2>1 DEF HandshakeInv, OneServer, Claimed
<1>2. CASE RepeatEvent \/ SignalArrives
  <2>1. /\ Queued' = Queued /\ queue' \in Seq(Events) /\ pushing' \subseteq Threads
        /\ UNCHANGED <<pollpc, polled, wpc>>
    BY <1>2, PushOther DEF RepeatEvent, SignalArrives, Threads, Repeated, Events
  <2>2. TypeOK'
    <3>1. FlagType'
      BY <1>2, Zenon, TypeSplit DEF RepeatEvent, SignalArrives, FlagType
    <3>2. RestType'
      BY <1>2, <2>1, TypeSplit DEF RepeatEvent, SignalArrives, RestType
    <3> QED BY <3>1, <3>2, Zenon DEF TypeOK, FlagType, RestType
  <2> QED BY <2>1, <2>2 DEF HandshakeInv, OneServer, Claimed
<1>3. CASE RepeatTimeout \/ RepeatLeave \/ MainStep \/ RequestArrives
  <2> USE DEF RepeatTimeout, RepeatLeave, MainStep, RequestArrives, JoinWorkers,
              RepeatStop, StopClients, PollStop, StopListeners, Stage
  <2>0. TypeOK'
    <3>1. FlagType'
      BY <1>3, Zenon, TypeSplit DEF FlagType
    <3>2. RestType
      BY TypeSplit
    <3>3. RestType'
      <4>1. CASE RepeatTimeout \/ RepeatLeave \/ RequestArrives
        BY <3>2, <4>1 DEF RestType
      <4>2. CASE JoinWorkers
        <5>1. queue' = <<>> /\ stage' = "joined"
              /\ UNCHANGED <<pushing, wpc, pollpc, repeatpc, inbox, requests, signals>>
          BY <4>2
        <5> QED BY <3>2, <5>1 DEF RestType
      <4>4. CASE RepeatStop \/ PollStop
        BY <3>2, <4>4 DEF RestType
      <4>3. CASE StopClients \/ StopListeners
        BY <3>2, <4>3 DEF RestType
      <4> QED BY <1>3, <4>1, <4>2, <4>3, <4>4, Zenon
    <3> QED BY <3>1, <3>3, Zenon DEF TypeOK, FlagType, RestType
  <2>1. UNCHANGED <<pollpc, polled, wpc>> /\ (queue' = queue \/ queue' = <<>>)
    BY <1>3
  <2>2. Queued' = Queued \/ Queued' = {}
    BY <2>1 DEF Queued
  <2> QED BY <2>0, <2>1, <2>2 DEF HandshakeInv, OneServer, Claimed
<1> QED BY <1>1, <1>2, <1>3

\* Sockets are served by one worker at a time, whatever the number of workers
\* and of queued events: the static event arrays of epoll_ready, the readers and
\* m_clients need no lock.
THEOREM OneServerAtATime == Spec => [](TypeOK /\ HandshakeInv)
<1>1. ASSUME TypeOK, HandshakeInv, [Next]_vars PROVE TypeOK' /\ HandshakeInv'
  <2>1. CASE UNCHANGED vars
    <3>1. Queued' = Queued
      BY <2>1 DEF vars, Queued
    <3> QED BY <1>1, <2>1, <3>1 DEF vars, pollVars, mainVars, envVars, TypeOK, HandshakeInv,
                OneServer, Claimed
  <2> QED BY <1>1, <2>1, WorkerKeepsHandshake, PollKeepsHandshake, OthersKeepHandshake DEF Next
<1> QED BY <1>1, InitHandshake, PTL DEF Spec
-----------------------------------------------------------------------------
(* Queue::push and Queue::get: no wake-up is lost. *)

\* The workers that are about to look at the queue.
Getting == {w \in Workers : wpc[w] = "get"}

LEMMA Counted ==
    ASSUME TypeOK
    PROVE  /\ IsFiniteSet(Getting) /\ Cardinality(Getting) \in Nat
           /\ IsFiniteSet(pushing) /\ Cardinality(pushing) \in Nat
           /\ queue \in Seq(Events) /\ Len(queue) \in Nat
<1>1. IsFiniteSet(Workers)
  BY EventLoopAssumption
<1>2. Getting \subseteq Workers
  BY DEF Getting
<1>3. IsFiniteSet(Threads)
  <2>1. IsFiniteSet({Poll, Repeat, Signal})
    <3>1. IsFiniteSet({Poll})
      BY FS_Singleton
    <3>2. IsFiniteSet({Poll} \cup {Repeat})
      BY <3>1, FS_AddElement
    <3>3. IsFiniteSet(({Poll} \cup {Repeat}) \cup {Signal})
      BY <3>2, FS_AddElement
    <3>4. {Poll, Repeat, Signal} = ({Poll} \cup {Repeat}) \cup {Signal}
      OBVIOUS
    <3> QED BY <3>3, <3>4, Zenon
  <2> QED BY <1>1, <2>1, FS_Union DEF Threads
<1>4. pushing \subseteq Threads /\ queue \in Seq(Events)
  BY DEF TypeOK
<1>5. IsFiniteSet(Getting) /\ IsFiniteSet(pushing)
  BY <1>1, <1>2, <1>3, <1>4, FS_Subset
<1> QED BY <1>4, <1>5, FS_CardinalityType

\* An event more in the queue is a notification more on its way.
LEMMA PushCounts ==
    ASSUME TypeOK, NEW t \in Threads, NEW e \in Events, Push(t, e)
    PROVE  /\ Len(queue') = Len(queue) + 1
           /\ Cardinality(pushing') = Cardinality(pushing) + 1
<1>1. t \notin pushing /\ queue' = Append(queue, e) /\ pushing' = pushing \cup {t}
  BY DEF Push
<1>2. Len(queue') = Len(queue) + 1
  BY <1>1, Counted
<1>3. Cardinality(pushing \cup {t}) = Cardinality(pushing) + 1
  BY <1>1, Counted, FS_AddElement
<1> QED BY <1>1, <1>2, <1>3

\* A worker that goes on from `from' to `to'.
LEMMA BecomesCounts ==
    ASSUME TypeOK, NEW w \in Workers, NEW from, NEW to, Becomes(w, from, to)
    PROVE  /\ from = "get" /\ to # "get" => Cardinality(Getting') = Cardinality(Getting) - 1
           /\ from # "get" /\ to = "get" => Cardinality(Getting') = Cardinality(Getting) + 1
           /\ from # "get" /\ to # "get" => Getting' = Getting
           /\ to # "waiting" => \A v \in Workers : wpc'[v] = "waiting" => wpc[v] = "waiting"
<1>1. /\ wpc[w] = from /\ wpc'[w] = to
      /\ \A v \in Workers : v # w => wpc'[v] = wpc[v]
  BY DEF TypeOK, Becomes
<1>2. from = "get" /\ to # "get" => Getting' = Getting \ {w} /\ w \in Getting
  BY <1>1 DEF Getting
<1>3. from # "get" /\ to = "get" => Getting' = Getting \cup {w} /\ w \notin Getting
  BY <1>1 DEF Getting
<1>4. from # "get" /\ to # "get" => Getting' = Getting
  BY <1>1 DEF Getting
<1>5. to # "waiting" => \A v \in Workers : wpc'[v] = "waiting" => wpc[v] = "waiting"
  BY <1>1
<1> QED BY <1>2, <1>3, <1>4, <1>5, Counted, FS_AddElement, FS_RemoveElement

\* The same as NoLostWakeup.
LEMMA WakeupIs ==
    NoLostWakeup <=> \/ \A w \in Workers : wpc[w] # "waiting"
                     \/ Len(queue) <= Cardinality(Getting) + Cardinality(pushing)
  BY DEF NoLostWakeup, Getting

LEMMA NextWakeup ==
    ASSUME TypeOK, NoLostWakeup, [Next]_vars
    PROVE  NoLostWakeup'
<1> USE DEF pollVars, mainVars, envVars
<1> DEFINE Sleeps == \E w \in Workers : wpc[w] = "waiting"
           G == Cardinality(Getting)
           P == Cardinality(pushing)
<1>0. /\ G \in Nat /\ P \in Nat /\ Len(queue) \in Nat
      /\ Sleeps => Len(queue) <= G + P
  BY Counted, WakeupIs
<1>a. SUFFICES Sleeps' => Len(queue') <= G' + P'
  BY WakeupIs DEF NoLostWakeup, Getting
<1>b. ASSUME UNCHANGED wpc PROVE Getting' = Getting /\ (Sleeps' <=> Sleeps)
  BY <1>b DEF Getting
<1>1. ASSUME NEW w \in Workers, WorkerStep(w) \/ WakeUp(w) PROVE Sleeps' => Len(queue') <= G' + P'
  <2>0. w \in Threads /\ "publish" \in Events /\ "terminate" \in Events
    BY DEF Threads, Events
  <2>1. CASE Wait(w)
    <3>1. queue' = <<>> /\ P' = P /\ Becomes(w, "get", "waiting")
      BY <2>1 DEF Wait
    <3>2. G' = G - 1 /\ w \in Getting
      BY <3>1, BecomesCounts DEF Becomes, Getting
    <3>3. G # 0
      BY <3>2, Counted, FS_EmptySet
    <3> QED BY <1>0, <3>1, <3>2, <3>3
  <2>2. CASE Take(w)
    <3>1. /\ queue # <<>> /\ queue' = Tail(queue) /\ P' = P
          /\ Becomes(w, "get", Handler(Head(queue)))
      BY <2>2 DEF Take
    <3>2. Handler(Head(queue)) \notin {"get", "waiting"}
      BY DEF Handler
    <3>3. G' = G - 1 /\ (Sleeps' => Sleeps)
      BY <3>1, <3>2, BecomesCounts
    <3>4. Len(queue') = Len(queue) - 1
      BY <3>1, Counted
    <3> QED BY <1>0, <3>1, <3>3, <3>4
  <2>3. CASE WakeUp(w) \/ HandlerReturns(w) \/ EpollReturns(w)
    <3>1. /\ queue' = queue /\ P' = P
          /\ \E from \in {"waiting", "busy", "epoll"} : Becomes(w, from, "get")
      BY <2>3 DEF WakeUp, HandlerReturns, EpollReturns
    <3>2. G' = G + 1 /\ (Sleeps' => Sleeps)
      BY <3>1, BecomesCounts
    <3> QED BY <1>0, <3>1, <3>2
  <2>4. CASE Leave(w)
    <3>1. Becomes(w, "terminate", "done") /\ Push(w, "terminate")
      BY <2>4 DEF Leave
    <3>2. G' = G /\ (Sleeps' => Sleeps)
      BY <3>1, BecomesCounts
    <3>3. Len(queue') = Len(queue) + 1 /\ P' = P + 1
      BY <2>0, <3>1, PushCounts
    <3> QED BY <1>0, <3>2, <3>3
  <2>5. CASE ServeRequest(w)
    <3>1. wpc' = wpc /\ (UNCHANGED <<queue, pushing>> \/ Push(w, "publish") \/ Push(w, "terminate"))
      BY <2>5 DEF ServeRequest
    <3>2. \/ queue' = queue /\ P' = P
          \/ Len(queue') = Len(queue) + 1 /\ P' = P + 1
      BY <2>0, <3>1, PushCounts
    <3> QED BY <1>0, <1>b, <3>1, <3>2
  <2> QED BY <1>1, <2>1, <2>2, <2>3, <2>4, <2>5 DEF WorkerStep
<1>2. ASSUME NEW t \in Threads, Notify(t) PROVE Sleeps' => Len(queue') <= G' + P'
  <2>1. t \in pushing /\ pushing' = pushing \ {t} /\ queue' = queue
    BY <1>2 DEF Notify
  <2>2. P' = P - 1
    BY <2>1, Counted, FS_RemoveElement
  <2>3. CASE ~Sleeps /\ UNCHANGED wpc
    BY <1>b, <2>3
  <2>4. ASSUME NEW w \in Workers, wpc[w] = "waiting", wpc' = [wpc EXCEPT ![w] = "get"]
        PROVE  G' = G + 1 /\ Sleeps
    <3>1. Getting' = Getting \cup {w} /\ w \notin Getting
      BY <2>4 DEF TypeOK, Getting
    <3> QED BY <2>4, <3>1, Counted, FS_AddElement
  <2> QED BY <1>0, <1>2, <2>1, <2>2, <2>3, <2>4 DEF Notify
<1>3. CASE PollReady \/ RepeatEvent \/ SignalArrives
  <2>1. wpc' = wpc /\ \E t \in Threads, e \in Events : Push(t, e)
    BY <1>3 DEF PollReady, RepeatEvent, SignalArrives, Threads, Events
  <2>2. Len(queue') = Len(queue) + 1 /\ P' = P + 1
    BY <2>1, PushCounts
  <2> QED BY <1>0, <1>b, <2>1, <2>2
<1>4. CASE \/ PollContinue \/ PollLeave \/ RepeatTimeout \/ RepeatLeave
           \/ MainStep \/ RequestArrives \/ UNCHANGED vars
  <2>1. wpc' = wpc /\ pushing' = pushing /\ (queue' = queue \/ queue' = <<>>)
    BY <1>4 DEF PollContinue, PollLeave, RepeatTimeout, RepeatLeave, MainStep, JoinWorkers,
         RepeatStop, StopClients, PollStop, StopListeners, RequestArrives, vars
  <2> QED BY <1>0, <1>b, <2>1
<1> QED BY <1>1, <1>2, <1>3, <1>4 DEF Next, PollStep

\* No event waits for a busy worker while another worker sleeps: Queue::push
\* notifies after it has unlocked, Queue::get looks before it waits, and whatever
\* the interleaving there are enough workers awake or notifications on their way.
THEOREM WakeupsNotLost == Spec => []NoLostWakeup
<1>1. Init => NoLostWakeup
  BY DEF Init, NoLostWakeup
<1> QED BY <1>1, NextWakeup, OneServerAtATime, PTL DEF Spec

-----------------------------------------------------------------------------
(* Server::run and Server::stop: nothing outlives the main thread. *)

\* What has ended at each stage of Server::run; a thread that has ended does not
\* come back.
JoinedInv ==
    /\ stage # "serving" => \A w \in Workers : wpc[w] = "done"
    /\ stage \in {"clients_stopped", "poll_stop", "exited"} => repeatpc = "done"
    /\ stage = "exited" => pollpc = "done"

LEMMA NextJoined ==
    ASSUME TypeOK, JoinedInv, [Next]_vars
    PROVE  JoinedInv'
<1> USE DEF pollVars, mainVars, envVars
<1>1. ASSUME NEW w \in Workers, WorkerStep(w) \/ WakeUp(w) PROVE JoinedInv'
  <2>1. wpc[w] # "done" /\ UNCHANGED <<stage, repeatpc, pollpc>>
    BY <1>1 DEF WorkerStep, WakeUp, Wait, Take, HandlerReturns, Leave, ServeRequest,
         EpollReturns, Becomes
  <2> QED BY <2>1 DEF JoinedInv
<1>2. ASSUME NEW t \in Threads, Notify(t) PROVE JoinedInv'
  <2>1. UNCHANGED <<stage, repeatpc, pollpc>> /\ (wpc' = wpc \/ \E w \in Workers : wpc[w] # "done")
    BY <1>2 DEF Notify
  <2> QED BY <2>1 DEF JoinedInv
<1>3. CASE PollStep \/ RepeatTimeout \/ RepeatEvent \/ RepeatLeave
  <2>1. UNCHANGED <<stage, wpc>>
    BY <1>3 DEF PollStep, PollReady, PollContinue, PollLeave, RepeatTimeout, RepeatEvent, RepeatLeave
  <2>2. (pollpc # "done" \/ pollpc' = pollpc) /\ (repeatpc # "done" \/ repeatpc' = repeatpc)
    BY <1>3 DEF PollStep, PollReady, PollContinue, PollLeave, RepeatTimeout, RepeatEvent, RepeatLeave
  <2> QED BY <2>1, <2>2 DEF JoinedInv
<1>4. CASE MainStep
  BY <1>4 DEF JoinedInv, MainStep, Stage, JoinWorkers, RepeatStop, StopClients, PollStop, StopListeners
<1>5. CASE RequestArrives \/ SignalArrives \/ UNCHANGED vars
  BY <1>5 DEF JoinedInv, RequestArrives, SignalArrives, vars
<1> QED BY <1>1, <1>2, <1>3, <1>4, <1>5 DEF Next

\* When Server::run returns, the workers, the repeat thread and the poll thread
\* have all ended, whatever they were doing when the server was told to stop.
THEOREM NothingOutlivesRun == Spec => []CleanExit
<1>1. Init => JoinedInv
  BY DEF Init, JoinedInv
<1>2. JoinedInv => CleanExit
  BY DEF JoinedInv, CleanExit
<1> QED BY <1>1, <1>2, NextJoined, OneServerAtATime, PTL DEF Spec
=============================================================================
