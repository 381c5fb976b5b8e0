---------------------------- MODULE EventListener ----------------------------
(***************************************************************************)
(* pypowervm.adapter._EventListener and _EventPollThread: creating the one *)
(* listener of a Session, (un)subscribing handlers, the poll threads that  *)
(* read the event queue, and the dispatch that calls the handlers while    *)
(* holding the listener's RLock.  Events are numbered as they happen.  A   *)
(* session token is the number of times the Session has logged on again;   *)
(* the application id, the MD5 sum of a token, is the token.  Handlers,    *)
(* poll threads and the queue are those of one listener.                   *)
(***************************************************************************)
EXTENDS Naturals, Sequences, SequencesExt

CONSTANTS
  Handlers,     \* event handlers
  Users,        \* threads that call Session.get_event_listener
  NoUser,
  MaxRelogins,  \* bound on the times the Session logs on again
  Reenter,      \* handlers call the listener from process()
  MaxPollers,   \* bound on the poll threads started
  MaxEvents     \* bound on the events that happen

ASSUME ListenerConstantsOK ==
  /\ NoUser \notin Users
  /\ Reenter \in BOOLEAN
  /\ MaxPollers \in Nat /\ MaxEvents \in Nat /\ MaxRelogins \in Nat

VARIABLES
  listener,   \* Session._eventlistener, named by the thread that made it
  upc,        \* user -> where in get_event_listener
  has,        \* user -> the listener it was returned
  token,      \* Session._sessToken
  appOf,      \* user -> appid of the listener it makes
  feedOf,     \* application id -> the client it has an event queue for
  handlers,   \* the subscribed handlers, in order
  pthread,    \* the current poll thread, 0 for None
  started,    \* poll threads started so far: 1 .. started
  done,       \* poll threads that have been told to stop
  ppc,        \* poll thread -> where in run()
  batch,      \* poll thread -> last event of the batch it has read, 0 if empty
  index,      \* next position in the list that is being iterated over
  lock,       \* the poll thread inside _dispatch_events, or 0
  owed,       \* handlers subscribed all through this dispatch, not called yet
  last,       \* handler -> last event it was given
  happened,   \* events so far
  consumed,   \* events taken from the server's queue
  lapsed      \* at some time the last handler was unsubscribed

making == <<listener, upc, has, token, appOf, feedOf>>
subscribing == <<handlers, pthread, started, done, lapsed>>
polling == <<ppc, batch, index, lock, last>>
queue == <<happened, consumed>>
vars == <<making, subscribing, polling, queue, owed>>

Pollers == 1 .. MaxPollers
Tokens == 0 .. MaxRelogins

TypeOK ==
  /\ listener \in Users \cup {NoUser}
  /\ upc \in [Users -> {"idle", "construct", "prime", "store", "return", "have", "active", "notunique"}]
  /\ has \in [Users -> Users \cup {NoUser}]
  /\ token \in Tokens
  /\ appOf \in [Users -> Tokens]
  /\ feedOf \in [Tokens -> Users \cup {NoUser}]
  /\ handlers \in Seq(Handlers) /\ IsInjective(handlers)
  /\ pthread \in 0 .. started
  /\ started \in 0 .. MaxPollers
  /\ done \subseteq 1 .. started
  /\ ppc \in [Pollers -> {"loop", "read", "dispatch", "call", "exit"}]
  /\ batch \in [Pollers -> 0 .. MaxEvents]
  /\ index \in Nat
  /\ lock \in 0 .. started
  /\ owed \subseteq Handlers
  /\ last \in [Handlers -> 0 .. MaxEvents]
  /\ happened \in 0 .. MaxEvents
  /\ consumed \in 0 .. happened
  /\ lapsed \in BOOLEAN

Init ==
  /\ listener = NoUser
  /\ upc = [u \in Users |-> "idle"]
  /\ has = [u \in Users |-> NoUser]
  /\ token = 0
  /\ appOf = [u \in Users |-> 0]
  /\ feedOf = [a \in Tokens |-> NoUser]
  /\ handlers = <<>>
  /\ pthread = 0
  /\ started = 0
  /\ done = {}
  /\ ppc = [p \in Pollers |-> "loop"]
  /\ batch = [p \in Pollers |-> 0]
  /\ index = 1
  /\ lock = 0
  /\ owed = {}
  /\ last = [h \in Handlers |-> 0]
  /\ happened = 0
  /\ consumed = 0
  /\ lapsed = FALSE

-----------------------------------------------------------------------------
(* Session.get_event_listener, which takes no lock.                        *)

Goto(u, where) == upc' = [upc EXCEPT ![u] = where]

Get(u) ==
  /\ upc[u] = "idle"
  /\ Goto(u, IF listener = NoUser THEN "construct" ELSE "return")
  /\ UNCHANGED <<listener, has, token, appOf, feedOf, subscribing, polling, queue, owed>>

\* _EventListener.__init__: the application id is made of the token of the moment.
Construct(u) ==
  /\ upc[u] = "construct"
  /\ IF listener = NoUser
     THEN Goto(u, "prime") /\ appOf' = [appOf EXCEPT ![u] = token]
     ELSE Goto(u, "active") /\ UNCHANGED appOf
  /\ UNCHANGED <<listener, has, token, feedOf, subscribing, polling, queue, owed>>

\* _prime: the first reader of an application id is told NEW_CLIENT, every
\* other one is refused.
NoQueue(u) == feedOf[appOf[u]] = NoUser
AnyFeed(u) == TRUE                          \* mutant: 'init' is not asked for
IsNewClient(u) == NoQueue(u)

Prime(u) ==
  /\ upc[u] = "prime"
  /\ Goto(u, IF IsNewClient(u) THEN "store" ELSE "notunique")
  /\ feedOf' = IF NoQueue(u) THEN [feedOf EXCEPT ![appOf[u]] = u] ELSE feedOf
  /\ UNCHANGED <<listener, has, token, appOf, subscribing, polling, queue, owed>>

\* _get_events swallows the error of the read and returns no events, so there
\* is no 'init' among them; the server may have set up the queue.
PrimeNoResponse(u) ==
  /\ upc[u] = "prime"
  /\ Goto(u, "notunique")
  /\ \/ UNCHANGED feedOf
     \/ NoQueue(u) /\ feedOf' = [feedOf EXCEPT ![appOf[u]] = u]
  /\ UNCHANGED <<listener, has, token, appOf, subscribing, polling, queue, owed>>

Store(u) ==
  /\ upc[u] = "store"
  /\ listener' = u
  /\ Goto(u, "return")
  /\ UNCHANGED <<has, token, appOf, feedOf, subscribing, polling, queue, owed>>

Return(u) ==
  /\ upc[u] = "return"
  /\ has' = [has EXCEPT ![u] = listener]
  /\ Goto(u, "have")
  /\ UNCHANGED <<listener, token, appOf, feedOf, subscribing, polling, queue, owed>>

\* Meanwhile a request of the Session is refused, and it logs on again.
Relogin ==
  /\ token < MaxRelogins
  /\ token' = token + 1
  /\ UNCHANGED <<listener, upc, has, appOf, feedOf, subscribing, polling, queue, owed>>

-----------------------------------------------------------------------------
(* The bodies of subscribe, unsubscribe and shutdown.                      *)

Subscribed == Range(handlers)

NotYet(h) == h \notin Subscribed

StartsAnother == TRUE                       \* mutant: a thread per handler
NeedsPoller == pthread = 0

DoSubscribe(h) ==
  /\ NotYet(h)
  /\ handlers' = Append(handlers, h)
  /\ IF NeedsPoller
     THEN started < MaxPollers /\ started' = started + 1 /\ pthread' = started + 1
     ELSE UNCHANGED <<started, pthread>>
  /\ UNCHANGED <<done, lapsed>>

\* The list that remains; without handlers the poll thread is stopped.
KeepsThread == pthread                      \* mutant: _pthread = None is missing
NoPthread == 0

Remains(hs) ==
  /\ handlers' = hs
  /\ IF hs = <<>> /\ handlers # <<>>
     THEN done' = done \cup {pthread} /\ pthread' = NoPthread /\ lapsed' = TRUE
     ELSE UNCHANGED <<done, pthread, lapsed>>
  /\ UNCHANGED started

DoUnsubscribe(h) ==
  \E i \in DOMAIN handlers : handlers[i] = h /\ Remains(RemoveAt(handlers, i))

\* shutdown() iterates over the list that unsubscribe() shortens: every second
\* handler is passed over.
EverySecond(hs) == [i \in 1 .. Len(hs) \div 2 |-> hs[2 * i]]

DoShutdown == Remains(EverySecond(handlers))

\* Called from other threads: each body holds the lock throughout.
FromOutside(op) ==
  /\ listener # NoUser
  /\ lock = 0
  /\ op
  /\ UNCHANGED <<making, polling, queue, owed>>

Subscribe(h) == FromOutside(DoSubscribe(h))
Unsubscribe(h) == FromOutside(DoUnsubscribe(h))
Shutdown == FromOutside(DoShutdown)

-----------------------------------------------------------------------------
(* _EventPollThread.run, _get_events and _dispatch_events.                 *)

\* while not self.done
ToldToStop(p) == p \in done

Loop(p) ==
  /\ p <= started /\ ppc[p] = "loop"
  /\ ppc' = [ppc EXCEPT ![p] = IF ToldToStop(p) THEN "exit" ELSE "read"]
  /\ UNCHANGED <<making, subscribing, batch, index, lock, last, queue, owed>>

\* All events queued for the application id are returned and dropped.
ReadEvents(p) ==
  /\ ppc[p] = "read"
  /\ consumed < happened
  /\ consumed' = happened
  /\ batch' = [batch EXCEPT ![p] = happened]
  /\ ppc' = [ppc EXCEPT ![p] = "dispatch"]
  /\ UNCHANGED <<making, subscribing, index, lock, last, happened, owed>>

\* A timeout or an error, after which the thread sleeps and dispatches nothing.
ReadNothing(p) ==
  /\ ppc[p] = "read"
  /\ ppc' = [ppc EXCEPT ![p] = "dispatch"]
  /\ UNCHANGED <<making, subscribing, batch, index, lock, last, queue, owed>>

BeginDispatch(p) ==
  /\ ppc[p] = "dispatch" /\ lock = 0
  /\ lock' = p
  /\ owed' = Subscribed
  /\ ppc' = [ppc EXCEPT ![p] = "call"]
  /\ UNCHANGED <<making, subscribing, batch, index, last, queue>>

\* handler.process(); what it raises is logged.  It may call the listener back,
\* for the lock is re-entrant.
CallHandler(p) ==
  /\ ppc[p] = "call" /\ index <= Len(handlers)
  /\ LET h == handlers[index] IN
     /\ last' = [last EXCEPT ![h] = IF batch[p] = 0 THEN @ ELSE batch[p]]
     /\ \/ UNCHANGED subscribing
        \/ Reenter /\ \E g \in Handlers : DoSubscribe(g) \/ DoUnsubscribe(g)
        \/ Reenter /\ DoShutdown
     /\ owed' = (owed \ {h}) \cap Range(handlers')
  /\ index' = index + 1
  /\ UNCHANGED <<making, ppc, batch, lock, queue>>

EndDispatch(p) ==
  /\ ppc[p] = "call" /\ index > Len(handlers)
  /\ lock' = 0
  /\ index' = 1
  /\ batch' = [batch EXCEPT ![p] = 0]
  /\ ppc' = [ppc EXCEPT ![p] = "loop"]
  /\ UNCHANGED <<making, subscribing, last, queue, owed>>

\* Something happens on the managed system.
Event ==
  /\ \E a \in Tokens : feedOf[a] # NoUser
  /\ happened < MaxEvents
  /\ happened' = happened + 1
  /\ UNCHANGED <<making, subscribing, polling, consumed, owed>>

-----------------------------------------------------------------------------
Making(u) == Get(u) \/ Construct(u) \/ Prime(u) \/ PrimeNoResponse(u) \/ Store(u) \/ Return(u)

Polling(p) ==
  \/ Loop(p) \/ ReadEvents(p) \/ ReadNothing(p)
  \/ BeginDispatch(p) \/ CallHandler(p) \/ EndDispatch(p)

Next ==
  \/ \E u \in Users : Making(u)
  \/ \E h \in Handlers : Subscribe(h) \/ Unsubscribe(h)
  \/ Relogin \/ Shutdown \/ Event
  \/ \E p \in Pollers : Polling(p)

Spec == Init /\ [][Next]_vars

\* The poll threads run, reads time out and handlers return; a read that could
\* return events does so again and again.
Fairness ==
  \A p \in Pollers : WF_vars(Polling(p)) /\ SF_vars(ReadEvents(p)) /\ SF_vars(BeginDispatch(p))

FairSpec == Spec /\ Fairness

-----------------------------------------------------------------------------
\* However the threads race through get_event_listener, everybody is returned
\* the same listener, the one the Session will shut down, unless the Session
\* logged on again while they did: there is one for each token.
OneListener ==
  \A u \in {v \in Users : upc[v] = "have"} :
    /\ appOf[has[u]] = appOf[listener] => has[u] = listener
    /\ \A v \in Users : upc[v] = "have" /\ appOf[has[v]] = appOf[has[u]] => has[v] = has[u]

\* There is a poll thread exactly while there are handlers, and every other
\* thread that was started has been told to stop.
OnePollerWhileSubscribed ==
  /\ (pthread # 0) <=> (handlers # <<>>)
  /\ (1 .. started) \ done = IF pthread = 0 THEN {} ELSE {pthread}

\* A handler gets the events in the order in which they happened, unless all
\* handlers were gone for a while (then a stopped thread may still deliver an
\* old batch after the new thread's first one).
InOrderUnlessLapsed == [][\A h \in Handlers : last'[h] >= last[h] \/ lapsed]_vars

\* An event reaches every handler that stays subscribed, also across poll
\* threads that come and go, unless a callback that unsubscribed a handler made
\* _dispatch_events pass over this one.
EveryHandlerHears ==
  \A n \in 1 .. MaxEvents : \A h \in Handlers :
    (happened >= n /\ consumed < n /\ h \in Subscribed)
      ~> (last[h] >= n \/ h \notin Subscribed \/ (lock = 0 /\ h \in owed))

-----------------------------------------------------------------------------
(* What comments and docstrings say and the code does not keep: TLC refutes *)
(* each of these (README, "Disagreements").                                 *)

\* _EventListener.__init__: "An event listener is already active on the session."
\* That check and the id of the token let two threads make one each, when the
\* Session logs on again in between; Session.__del__ shuts down the later one.
ListenerOfTheSession == \A u \in Users : upc[u] = "have" => has[u] = listener

\* EventListener.shutdown: "Shutdown this EventListener."
ShutdownStopsPolling == [][Shutdown => pthread' = 0]_vars
=============================================================================
