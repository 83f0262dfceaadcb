------------------------------ MODULE EventLoop ------------------------------
(***************************************************************************)
(* The threads of the server and how they stop: the event queue and its    *)
(* workers (vanity/event_server.cpp, utils/queue.h), the poll thread and   *)
(* its handshake with the worker that serves the sockets (poll_server.cpp, *)
(* utils/event.h), the repeat thread (repeat_event_server.cpp), and the    *)
(* main thread in Server::run and Server::stop (server.cpp).               *)
(*                                                                         *)
(* What the handlers do is left to other modules: here a handler is a step *)
(* that may push events.  A socket that is ready is one pending request.   *)
(***************************************************************************)
EXTENDS Naturals, Sequences, FiniteSets

CONSTANTS
    Workers,      \* the M_THREADS threads that run event_loop
    Main,         \* the one of them that runs Server::run
    Poll, Repeat, Signal, \* the poll and repeat threads, a signal handler
    MaxRequests,  \* bound: number of requests sent
    MaxSignals,   \* bound: number of SIGINT and SIGTERM
    MaxQueue      \* bound: events queued when the repeat thread pushes one

ASSUME EventLoopAssumption ==
    /\ IsFiniteSet(Workers) /\ Main \in Workers
    /\ Poll \notin Workers /\ Repeat \notin Workers /\ Signal \notin Workers
    /\ Poll # Repeat /\ Poll # Signal /\ Repeat # Signal
    /\ MaxRequests \in Nat /\ MaxSignals \in Nat /\ MaxQueue \in Nat

Repeated == {"persist", "expire", "pulse"}
Events == Repeated \cup {"epoll_ready", "publish", "terminate"}
Threads == Workers \cup {Poll, Repeat, Signal}

VARIABLES
    queue,       \* m_event_queue
    pushing,     \* threads in Queue::push past the unlock, before notify_one
    wpc,         \* what each worker is doing
    pollpc,      \* what the poll thread is doing
    polled,      \* m_polled
    running,     \* m_running of the PollServer
    repeatpc,    \* what the repeat thread is doing
    stopped,     \* m_stopped of the RepeatEventServer
    stage,       \* how far the main thread is in Server::run
    inbox,       \* requests that wait in sockets
    requests, signals, \* bounded counters
    terminating  \* history: somebody asked the server to terminate

pollVars == <<pollpc, polled, running>>
mainVars == <<repeatpc, stopped, stage>>
envVars == <<inbox, requests, signals, terminating>>
vars == <<queue, pushing, wpc, pollVars, mainVars, envVars>>

Init ==
    /\ queue = <<>> /\ pushing = {}
    /\ wpc = [w \in Workers |-> "get"]
    /\ pollpc = "wait" /\ polled = FALSE /\ running = TRUE
    /\ repeatpc = "sleep" /\ stopped = FALSE
    /\ stage = "serving"
    /\ inbox = 0 /\ requests = 0 /\ signals = 0 /\ terminating = FALSE

-----------------------------------------------------------------------------
(* The queue. *)

\* Mutant: the element is pushed and nobody is notified.
PushSilently(t, e) ==
    /\ t \notin pushing
    /\ queue' = Append(queue, e)
    /\ pushing' = pushing

\* Queue::push up to the unlock of the mutex; the thread goes on after Notify.
Push(t, e) ==
    /\ t \notin pushing
    /\ queue' = Append(queue, e)
    /\ pushing' = pushing \cup {t}

\* notify_one wakes one of the workers that wait, if there is one.
Notify(t) ==
    /\ t \in pushing
    /\ pushing' = pushing \ {t}
    /\ \/ /\ \A w \in Workers : wpc[w] # "waiting"
          /\ UNCHANGED wpc
       \/ \E w \in Workers :
            /\ wpc[w] = "waiting"
            /\ wpc' = [wpc EXCEPT ![w] = "get"]
    /\ UNCHANGED <<queue, pollVars, mainVars, envVars>>

-----------------------------------------------------------------------------
(* Workers: EventServer::event_loop. *)

Becomes(w, from, to) ==
    /\ w \notin pushing /\ wpc[w] = from
    /\ wpc' = [wpc EXCEPT ![w] = to]

\* Queue::get on an empty queue.
Wait(w) ==
    /\ queue = <<>>
    /\ Becomes(w, "get", "waiting")
    /\ UNCHANGED <<queue, pushing, pollVars, mainVars, envVars>>

\* A condition variable may wake up without a notification.
WakeUp(w) ==
    /\ Becomes(w, "waiting", "get")
    /\ UNCHANGED <<queue, pushing, pollVars, mainVars, envVars>>

Handler(e) ==
    CASE e = "epoll_ready" -> "epoll"
      [] e = "terminate" -> "terminate"
      [] OTHER -> "busy"

\* Queue::get and the switch on the event.
Take(w) ==
    /\ queue # <<>>
    /\ Becomes(w, "get", Handler(Head(queue)))
    /\ queue' = Tail(queue)
    /\ UNCHANGED <<pushing, pollVars, mainVars, envVars>>

\* event_persist, event_expire, event_publish or event_pulse returns.
HandlerReturns(w) ==
    /\ Becomes(w, "busy", "get")
    /\ UNCHANGED <<queue, pushing, pollVars, mainVars, envVars>>

\* terminate is pushed again for the next worker, and the loop returns.
Leave(w) ==
    /\ Becomes(w, "terminate", "done")
    /\ Push(w, "terminate")
    /\ UNCHANGED <<pollVars, mainVars, envVars>>

\* epoll_ready serves the ready sockets one by one.  A PUBLISH pushes a publish
\* event, a TERMINATE asks the server to terminate.
ServeRequest(w) ==
    /\ wpc[w] = "epoll" /\ inbox > 0
    /\ inbox' = inbox - 1
    /\ \/ w \notin pushing /\ UNCHANGED <<queue, pushing, terminating>>
       \/ Push(w, "publish") /\ UNCHANGED terminating
       \/ Push(w, "terminate") /\ terminating' = TRUE
    /\ UNCHANGED <<wpc, pollVars, mainVars, requests, signals>>

\* Mutant: epoll_ready returns and m_polled is not set.
EpollForgetsPolled(w) ==
    /\ inbox = 0
    /\ Becomes(w, "epoll", "get")
    /\ UNCHANGED <<queue, pushing, pollVars, mainVars, envVars>>

\* Nothing is ready any more: epoll_ready returns and m_polled is set.
EpollReturns(w) ==
    /\ inbox = 0
    /\ Becomes(w, "epoll", "get")
    /\ polled' = TRUE
    /\ UNCHANGED <<queue, pushing, pollpc, running, mainVars, envVars>>

WorkerStep(w) ==
    \/ Wait(w) \/ Take(w) \/ HandlerReturns(w) \/ Leave(w)
    \/ ServeRequest(w) \/ EpollReturns(w)

-----------------------------------------------------------------------------
(* The poll thread: PollServer::poll. *)

\* Mutant: the poll thread does not wait for the worker.
PollAgain ==
    /\ pollpc = "wait" /\ inbox > 0
    /\ Push(Poll, "epoll_ready")
    /\ UNCHANGED <<wpc, pollVars, mainVars, envVars>>

\* epoll_wait reports that a socket is ready.
PollReady ==
    /\ pollpc = "wait" /\ inbox > 0
    /\ Push(Poll, "epoll_ready")
    /\ pollpc' = "handshake"
    /\ UNCHANGED <<wpc, polled, running, mainVars, envVars>>

\* m_polled.wait() returns and the event is cleared.
PollContinue ==
    /\ pollpc = "handshake" /\ Poll \notin pushing /\ polled
    /\ pollpc' = "wait" /\ polled' = FALSE
    /\ UNCHANGED <<queue, pushing, wpc, running, mainVars, envVars>>

\* epoll_wait times out and the server is stopping.
PollLeave ==
    /\ pollpc = "wait" /\ Poll \notin pushing /\ inbox = 0 /\ ~running
    /\ pollpc' = "done"
    /\ UNCHANGED <<queue, pushing, wpc, polled, running, mainVars, envVars>>

PollStep == PollReady \/ PollContinue \/ PollLeave

-----------------------------------------------------------------------------
(* The repeat thread: RepeatEventServer::repeat_loop. *)

\* m_stopped.wait(sleep_time) times out ...
RepeatTimeout ==
    /\ repeatpc = "sleep" /\ Repeat \notin pushing /\ ~stopped /\ Len(queue) < MaxQueue
    /\ repeatpc' = "due"
    /\ UNCHANGED <<queue, pushing, wpc, pollVars, stopped, stage, envVars>>

\* ... and the event is pushed, even if m_stopped is set by now.
RepeatEvent ==
    /\ repeatpc = "due"
    /\ \E e \in Repeated : Push(Repeat, e)
    /\ repeatpc' = "sleep"
    /\ UNCHANGED <<wpc, pollVars, stopped, stage, envVars>>

RepeatLeave ==
    /\ repeatpc = "sleep" /\ Repeat \notin pushing /\ stopped
    /\ repeatpc' = "done"
    /\ UNCHANGED <<queue, pushing, wpc, pollVars, stopped, stage, envVars>>

-----------------------------------------------------------------------------
(* The main thread: the rest of EventServer::run, then Server::stop. *)

Stage(from, to) == stage = from /\ stage' = to /\ Main \notin pushing

\* EventServer::run joins the other workers and clears the queue.
JoinWorkers ==
    /\ Stage("serving", "joined")
    /\ \A w \in Workers : wpc[w] = "done" /\ w \notin pushing
    /\ queue' = <<>>
    /\ UNCHANGED <<pushing, wpc, pollVars, repeatpc, stopped, envVars>>

\* Mutant: m_stopped is not set.
RepeatNotStopped ==
    /\ Stage("joined", "repeat_stop")
    /\ UNCHANGED <<queue, pushing, wpc, pollVars, repeatpc, stopped, envVars>>

\* RepeatEventServer::stop sets m_stopped ...
RepeatStop ==
    /\ Stage("joined", "repeat_stop")
    /\ stopped' = TRUE
    /\ UNCHANGED <<queue, pushing, wpc, pollVars, repeatpc, envVars>>

\* ... and joins the thread; then PersistentServer::stop persists and
\* ClientServer::stop closes every client with what it had sent.
StopClients ==
    /\ Stage("repeat_stop", "clients_stopped")
    /\ repeatpc = "done"
    /\ inbox' = 0
    /\ UNCHANGED <<queue, pushing, wpc, pollVars, repeatpc, stopped, requests, signals, terminating>>

\* PollServer::stop clears m_running ...
PollStop ==
    /\ Stage("clients_stopped", "poll_stop")
    /\ running' = FALSE
    /\ UNCHANGED <<queue, pushing, wpc, pollpc, polled, repeatpc, stopped, envVars>>

\* Mutant: the poll thread is not joined.
StopListenersAtOnce ==
    /\ Stage("poll_stop", "exited")
    /\ inbox' = 0
    /\ UNCHANGED <<queue, pushing, wpc, pollVars, repeatpc, stopped, requests, signals, terminating>>

\* ... and joins the thread; then BindServer::stop, and Server::run returns.
StopListeners ==
    /\ Stage("poll_stop", "exited")
    /\ pollpc = "done"
    /\ inbox' = 0
    /\ UNCHANGED <<queue, pushing, wpc, pollVars, repeatpc, stopped, requests, signals, terminating>>

MainStep == JoinWorkers \/ RepeatStop \/ StopClients \/ PollStop \/ StopListeners

-----------------------------------------------------------------------------
(* Clients and signals. *)

\* A request arrives, or a connection to a listener.
RequestArrives ==
    /\ stage # "exited" /\ requests < MaxRequests
    /\ inbox' = inbox + 1 /\ requests' = requests + 1
    /\ UNCHANGED <<queue, pushing, wpc, pollVars, mainVars, signals, terminating>>

\* signal::handle calls terminate().
SignalArrives ==
    /\ stage # "exited" /\ signals < MaxSignals
    /\ Push(Signal, "terminate")
    /\ signals' = signals + 1 /\ terminating' = TRUE
    /\ UNCHANGED <<wpc, pollVars, mainVars, inbox, requests>>

Next ==
    \/ \E w \in Workers : WorkerStep(w) \/ WakeUp(w)
    \/ \E t \in Threads : Notify(t)
    \/ PollStep \/ RepeatTimeout \/ RepeatEvent \/ RepeatLeave \/ MainStep
    \/ RequestArrives \/ SignalArrives

Spec == Init /\ [][Next]_vars

\* The operating system runs every thread that can run, and a mutex that is
\* free again and again is granted.  Nothing is assumed of clients, signals and
\* the repeat thread's timer.
FairSpec ==
    /\ Spec
    /\ \A w \in Workers : WF_vars(WorkerStep(w))
    /\ \A t \in Threads : WF_vars(Notify(t))
    /\ WF_vars(PollStep) /\ WF_vars(RepeatEvent \/ RepeatLeave) /\ WF_vars(MainStep)

-----------------------------------------------------------------------------
(* Properties. *)

\* Every variable has its type.
TypeOK ==
    /\ queue \in Seq(Events)
    /\ pushing \subseteq Threads
    /\ wpc \in [Workers -> {"get", "waiting", "epoll", "busy", "terminate", "done"}]
    /\ pollpc \in {"wait", "handshake", "done"}
    /\ polled \in BOOLEAN /\ running \in BOOLEAN
    /\ repeatpc \in {"sleep", "due", "done"} /\ stopped \in BOOLEAN
    /\ stage \in {"serving", "joined", "repeat_stop", "clients_stopped", "poll_stop", "exited"}
    /\ inbox \in Nat /\ requests \in Nat /\ signals \in Nat
    /\ terminating \in BOOLEAN

\* The sockets are served by one worker at a time: no two workers are inside
\* epoll_ready, whose event arrays are static and whose readers, sessions and
\* m_clients have no lock.
OneServer ==
    \A v, w \in Workers : wpc[v] = "epoll" /\ wpc[w] = "epoll" => v = w

\* The positions in the queue that hold an epoll_ready.
Queued == {i \in DOMAIN queue : queue[i] = "epoll_ready"}

\* A worker has to answer the poll thread.
Claimed == Queued # {} \/ \E w \in Workers : wpc[w] = "epoll"

\* The handshake behind OneServer: there is at most one epoll_ready, in the
\* queue or in a worker, and while there is one the poll thread waits for it.
HandshakeInv ==
    /\ OneServer
    /\ \A i, j \in Queued : i = j
    /\ \A w \in Workers : wpc[w] = "epoll" => Queued = {}
    /\ Claimed => pollpc = "handshake" /\ ~polled
    /\ polled => pollpc = "handshake"

\* No wake-up is lost: as long as a worker sleeps in Queue::get, there are no
\* more events in the queue than workers about to take one and notifications on
\* their way, so no event waits for a busy worker while another one sleeps.
NoLostWakeup ==
    (\E w \in Workers : wpc[w] = "waiting") =>
        Len(queue) <= Cardinality({w \in Workers : wpc[w] = "get"}) + Cardinality(pushing)

\* No thread outlives what it uses: when Server::run is about to return, every
\* other thread has ended.
CleanExit ==
    stage = "exited" =>
        /\ pollpc = "done" /\ repeatpc = "done"
        /\ \A w \in Workers : wpc[w] = "done"

\* A request that arrives is served, unless the server has been asked to
\* terminate.
RequestsServed == inbox > 0 ~> inbox = 0 \/ terminating

Outstanding == pollpc = "handshake" /\ ~polled

\* terminate() ends the process, except when the workers leave while the poll
\* thread waits for one of them to serve a ready socket.
ExitsUnlessHandshake ==
    terminating ~> \/ stage = "exited"
                   \/ Outstanding /\ \A w \in Workers : wpc[w] = "done"

\* terminate() ends the process: abstract_server.h says of it "request the
\* server to terminate", and PollServer::stop is there to "stop polling".
Terminates == terminating ~> stage = "exited"
=============================================================================
