----------------------------- MODULE EventProofs -----------------------------
(***************************************************************************)
(* Proofs about the event listener for any number of users, handlers, poll *)
(* threads and events, with handlers that call back; and about what        *)
(* _format_events makes of a feed, for feeds of every length over every    *)
(* set of URIs.                                                            *)
(***************************************************************************)
EXTENDS EventListener, EventFeed, SequenceTheorems, TLAPS

-----------------------------------------------------------------------------
(* The one listener.                                                       *)

\* Whoever has passed _prime owns the event queue of its application id, and
\* only such a one stores a listener; what is stored or returned was stored once.
Stored(l) == l \in Users /\ upc[l] \in {"return", "have"} /\ feedOf[appOf[l]] = l

MakingOK ==
  /\ token \in Tokens /\ appOf \in [Users -> Tokens]
  /\ feedOf \in [Tokens -> Users \cup {NoUser}]
  /\ upc \in [Users -> {"idle", "construct", "prime", "store", "return", "have", "active", "notunique"}]
  /\ has \in [Users -> Users \cup {NoUser}]
  /\ listener = NoUser \/ Stored(listener)
  /\ \A u \in Users :
       /\ upc[u] = "store" => feedOf[appOf[u]] = u
       /\ upc[u] = "return" => listener # NoUser
       /\ upc[u] = "have" => listener # NoUser /\ Stored(has[u])

\* Nobody makes a listener at first.
LEMMA MakingInit == Init => MakingOK
BY ListenerConstantsOK DEF Init, MakingOK, Tokens

\* Every step of get_event_listener, of the listener and of the poll threads keeps MakingOK.
LEMMA MakingStep == MakingOK /\ [Next]_vars => MakingOK'
<1> SUFFICES ASSUME MakingOK, [Next]_vars PROVE MakingOK'
  OBVIOUS
<1> USE ListenerConstantsOK DEF MakingOK, Stored, Goto
<1>1. ASSUME NEW u \in Users, Get(u) PROVE MakingOK'
  BY <1>1 DEF Get
<1>2. ASSUME NEW u \in Users, Construct(u) PROVE MakingOK'
  BY <1>2 DEF Construct
<1>3. ASSUME NEW u \in Users, Prime(u) PROVE MakingOK'
  BY <1>3 DEF Prime, IsNewClient, NoQueue
<1>4. ASSUME NEW u \in Users, PrimeNoResponse(u) PROVE MakingOK'
  BY <1>4 DEF PrimeNoResponse, NoQueue
<1>5. ASSUME NEW u \in Users, Store(u) PROVE MakingOK'
  BY <1>5 DEF Store
<1>6. ASSUME NEW u \in Users, Return(u) PROVE MakingOK'
  BY <1>6 DEF Return
<1>7. CASE Relogin
  BY <1>7 DEF Relogin, Tokens
<1>8. CASE UNCHANGED making
  BY <1>8 DEF making
<1>9. ASSUME NEW h \in Handlers, Subscribe(h) \/ Unsubscribe(h) PROVE UNCHANGED making
  BY <1>9 DEF Subscribe, Unsubscribe, FromOutside
<1>10. Shutdown \/ Event => UNCHANGED making
  BY DEF Shutdown, FromOutside, Event
<1>11. ASSUME NEW p \in Pollers, Polling(p) PROVE UNCHANGED making
  BY <1>11 DEF Polling, Loop, ReadEvents, ReadNothing, BeginDispatch, CallHandler, EndDispatch
<1>12. UNCHANGED vars => UNCHANGED making
  BY DEF vars
<1> QED
  BY <1>1, <1>2, <1>3, <1>4, <1>5, <1>6, <1>7, <1>8, <1>9, <1>10, <1>11, <1>12 DEF Next, Making

\* However many threads race through get_event_listener without a lock, and
\* however often the Session logs on again meanwhile: no two of them are returned
\* different listeners for one token, nor another one than the Session keeps.
THEOREM ListenerIsUnique == Spec => []OneListener
<1>1. MakingOK => OneListener
  BY DEF MakingOK, Stored, OneListener
<1> QED  BY <1>1, MakingInit, MakingStep, PTL DEF Spec

-----------------------------------------------------------------------------
(* The one poll thread.                                                    *)

PollersOK ==
  /\ handlers \in Seq(Handlers)
  /\ started \in Nat /\ pthread \in 0 .. started
  /\ done \subseteq 1 .. started
  /\ OnePollerWhileSubscribed

\* There is no poll thread at first.
LEMMA PollersInit == Init => PollersOK
BY DEF Init, PollersOK, OnePollerWhileSubscribed

\* subscribe starts a poll thread with the first handler.
LEMMA SubscribeKeeps ==
  ASSUME PollersOK, NEW h \in Handlers, DoSubscribe(h)
  PROVE  PollersOK'
<1> USE DEF PollersOK, OnePollerWhileSubscribed
<1>1. handlers' \in Seq(Handlers) /\ handlers' # <<>>
  BY DEF DoSubscribe
<1>2. CASE pthread = 0
  <2>1. started' = started + 1 /\ pthread' = started + 1 /\ done' = done
    BY <1>2 DEF DoSubscribe, NeedsPoller
  <2>2. (1 .. started) \ done = {}
    BY <1>2
  <2>3. (1 .. started') \ done' = {pthread'}
    BY <2>1, <2>2
  <2> QED  BY <1>1, <2>1, <2>3
<1>3. CASE pthread # 0
  BY <1>1, <1>3 DEF DoSubscribe, NeedsPoller
<1> QED  BY <1>2, <1>3

\* The poll thread is told to stop when no handler remains.
LEMMA RemainsKeeps ==
  ASSUME PollersOK, NEW hs \in Seq(Handlers), handlers = <<>> => hs = <<>>, Remains(hs)
  PROVE  PollersOK'
<1> USE DEF PollersOK, OnePollerWhileSubscribed
<1>1. CASE hs = <<>> /\ handlers # <<>>
  <2>1. done' = done \cup {pthread} /\ pthread' = 0 /\ started' = started /\ handlers' = <<>>
    BY <1>1 DEF Remains, NoPthread
  <2>2. (1 .. started) \ done = {pthread} /\ pthread \in 1 .. started
    BY <1>1
  <2>3. (1 .. started') \ done' = {}
    BY <2>1, <2>2
  <2> QED  BY <2>1, <2>2, <2>3
<1>2. CASE ~(hs = <<>> /\ handlers # <<>>)
  BY <1>2 DEF Remains
<1> QED  BY <1>1, <1>2

\* unsubscribe of a handler.
LEMMA UnsubscribeKeeps ==
  ASSUME PollersOK, NEW h \in Handlers, DoUnsubscribe(h)
  PROVE  PollersOK'
<1>1. PICK i \in DOMAIN handlers : Remains(RemoveAt(handlers, i))
  BY DEF DoUnsubscribe
<1>2. handlers \in Seq(Handlers) /\ i \in 1 .. Len(handlers)
  BY <1>1 DEF PollersOK
<1>3. RemoveAt(handlers, i) \in Seq(Handlers)
  BY <1>2 DEF RemoveAt
<1>4. handlers # <<>>
  BY <1>2
<1> QED  BY <1>1, <1>3, <1>4, RemainsKeeps

\* shutdown, whichever handlers its loop skips.
LEMMA ShutdownKeeps ==
  ASSUME PollersOK, DoShutdown
  PROVE  PollersOK'
<1>1. handlers \in Seq(Handlers) /\ Len(handlers) \in Nat
  BY DEF PollersOK
<1>2. \A i \in 1 .. Len(handlers) \div 2 : 2 * i \in 1 .. Len(handlers)
  BY <1>1
<1>3. EverySecond(handlers) \in Seq(Handlers)
  BY <1>1, <1>2 DEF EverySecond
<1>4. handlers = <<>> => EverySecond(handlers) = <<>>
  BY <1>3, EmptySeq DEF EverySecond
<1> QED  BY <1>3, <1>4, RemainsKeeps DEF DoShutdown

\* Every step keeps PollersOK.
LEMMA PollersStep == PollersOK /\ [Next]_vars => PollersOK'
<1> SUFFICES ASSUME PollersOK, [Next]_vars PROVE PollersOK'
  OBVIOUS
<1>1. CASE UNCHANGED subscribing
  BY <1>1 DEF subscribing, PollersOK, OnePollerWhileSubscribed
<1>2. ASSUME NEW h \in Handlers, Subscribe(h) \/ Unsubscribe(h) PROVE PollersOK'
  BY <1>2, SubscribeKeeps, UnsubscribeKeeps DEF Subscribe, Unsubscribe, FromOutside
<1>3. CASE Shutdown
  BY <1>3, ShutdownKeeps DEF Shutdown, FromOutside
<1>4. ASSUME NEW p \in Pollers, CallHandler(p) PROVE PollersOK'
  BY <1>1, <1>4, SubscribeKeeps, UnsubscribeKeeps, ShutdownKeeps DEF CallHandler
<1>5. ASSUME NEW p \in Pollers, Polling(p), ~CallHandler(p) PROVE UNCHANGED subscribing
  BY <1>5 DEF Polling, Loop, ReadEvents, ReadNothing, BeginDispatch, EndDispatch
<1>6. ASSUME NEW u \in Users, Making(u) PROVE UNCHANGED subscribing
  BY <1>6 DEF Making, Get, Construct, Prime, PrimeNoResponse, Store, Return
<1>7. Relogin \/ Event \/ UNCHANGED vars => UNCHANGED subscribing
  BY DEF Relogin, Event, vars
<1> QED  BY <1>1, <1>2, <1>3, <1>4, <1>5, <1>6, <1>7 DEF Next

\* However handlers come and go, from outside and from callbacks: there is a
\* poll thread that has not been told to stop exactly while there are handlers,
\* and never a second one.
THEOREM PollerIsUnique == Spec => []OnePollerWhileSubscribed
<1>1. PollersOK => OnePollerWhileSubscribed
  BY DEF PollersOK
<1> QED  BY <1>1, PollersInit, PollersStep, PTL DEF Spec

\* As long as the last handler has not been unsubscribed, no thread has been told to
\* stop, so there is one at most. Who has read nothing owes nothing; a batch under
\* way is at least as new as what any handler was given, and the queue has no
\* event again that was read before.
OrderOK ==
  /\ happened \in Nat /\ consumed \in 0 .. happened
  /\ last \in [Handlers -> 0 .. consumed]
  /\ batch \in [Pollers -> 0 .. consumed]
  /\ DOMAIN ppc = Pollers
  /\ \A p \in Pollers : p > started => ppc[p] = "loop" /\ batch[p] = 0
  /\ lapsed \in BOOLEAN /\ (~lapsed => done = {})
  /\ ~lapsed => \A p \in Pollers, h \in Handlers : batch[p] # 0 => last[h] <= batch[p]

\* Nothing has happened at first.
LEMMA OrderInit == Init => OrderOK
<1>1. Init => /\ last \in [Handlers -> 0 .. consumed]
              /\ batch \in [Pollers -> 0 .. consumed]
  BY DEF Init
<1>2. Init => \A p \in Pollers : ppc[p] = "loop" /\ batch[p] = 0
  BY DEF Init
<1>3. Init => /\ happened \in Nat /\ consumed \in 0 .. happened
              /\ DOMAIN ppc = Pollers
  BY DEF Init
<1>4. Init => lapsed \in BOOLEAN /\ done = {}
  BY DEF Init
<1> QED  BY <1>1, <1>2, <1>3, <1>4 DEF OrderOK

\* The bodies of subscribe, unsubscribe and shutdown: threads are only added, and
\* lapsed says when one is told to stop.
BodySteps ==
  /\ started' \in {started, started + 1}
  /\ lapsed' \in BOOLEAN /\ (lapsed => lapsed')
  /\ ~lapsed' => done' = done

\* Each body, and a step that runs none, does no more.
LEMMA BodiesStep ==
  ASSUME lapsed \in BOOLEAN,
         \/ UNCHANGED subscribing
         \/ \E h \in Handlers : DoSubscribe(h) \/ DoUnsubscribe(h)
         \/ DoShutdown
  PROVE  BodySteps
<1>1. ASSUME NEW hs, Remains(hs) PROVE BodySteps
  BY <1>1 DEF Remains, BodySteps
<1>2. ASSUME NEW h \in Handlers, DoSubscribe(h) PROVE BodySteps
  BY <1>2 DEF DoSubscribe, BodySteps
<1>3. CASE UNCHANGED subscribing
  BY <1>3 DEF subscribing, BodySteps
<1> QED  BY <1>1, <1>2, <1>3 DEF DoUnsubscribe, DoShutdown

\* With no thread told to stop, the thread that works is the only one.
LEMMA OnlyOneWorks ==
  ASSUME PollersOK, OrderOK, ~lapsed, NEW p \in Pollers, ppc[p] # "loop", NEW q \in Pollers, q # p
  PROVE  batch[q] = 0
<1>1. p \in 1 .. started /\ started \in Nat /\ done = {}
  BY DEF OrderOK, PollersOK, Pollers
<1>2. 1 .. started = {pthread}
  BY <1>1 DEF PollersOK, OnePollerWhileSubscribed
<1>3. q \notin 1 .. started
  BY <1>1, <1>2
<1> QED  BY <1>1, <1>3 DEF OrderOK, Pollers

\* A handler is called with a batch: nothing older than what anyone was given.
LEMMA CallKeepsOrder ==
  ASSUME PollersOK, OrderOK, NEW p \in Pollers, CallHandler(p)
  PROVE  OrderOK' /\ (lapsed \/ \A h \in Handlers : last'[h] >= last[h])
<1> USE ListenerConstantsOK
<1>1. BodySteps
  BY BodiesStep DEF CallHandler, OrderOK
<1>2. PICK h : last' = [last EXCEPT ![h] = IF batch[p] = 0 THEN @ ELSE batch[p]]
  BY DEF CallHandler
<1>3. ppc[p] = "call" /\ UNCHANGED <<ppc, batch, happened, consumed>>
  BY DEF CallHandler, queue
<1>4. \A g \in Handlers : last'[g] = last[g] \/ (last'[g] = batch[p] /\ batch[p] # 0)
  BY <1>2 DEF OrderOK
<1>5. last' \in [Handlers -> 0 .. consumed']
  <2>1. \A g \in Handlers : last'[g] \in 0 .. consumed
    BY <1>4 DEF OrderOK
  <2> QED  BY <1>2, <1>3, <2>1 DEF OrderOK
<1>6. ASSUME ~lapsed PROVE \A g \in Handlers : last'[g] >= last[g]
  BY <1>4, <1>6 DEF OrderOK
<1>7. ASSUME ~lapsed, NEW q \in Pollers, NEW g \in Handlers, batch[q] # 0 PROVE last'[g] <= batch[q]
  <2>1. q = p
    BY <1>3, <1>7, OnlyOneWorks
  <2> QED  BY <1>4, <1>7, <2>1 DEF OrderOK
<1>8. started \in Nat /\ started' \in Nat /\ started' >= started
  BY <1>1 DEF BodySteps, PollersOK
<1>9. \A q \in Pollers : q > started' => q > started
  BY <1>8 DEF Pollers
<1> QED  BY <1>1, <1>3, <1>5, <1>6, <1>7, <1>9 DEF BodySteps, OrderOK

\* Every step keeps the order, in what it gives to handlers and in what it leaves.
LEMMA OrderStep ==
  ASSUME PollersOK, OrderOK, [Next]_vars
  PROVE  OrderOK' /\ (lapsed \/ \A h \in Handlers : last'[h] >= last[h])
<1> USE ListenerConstantsOK
<1> DEFINE Goal == OrderOK' /\ (lapsed \/ \A h \in Handlers : last'[h] >= last[h])
<1>0. started \in Nat /\ \A h \in Handlers : last[h] \in Nat
  BY DEF PollersOK, OrderOK
<1>1. ASSUME UNCHANGED <<ppc, batch, last, consumed>>, happened' \in {happened, happened + 1}, BodySteps PROVE Goal
  <2>1. \A q \in Pollers : q > started' => q > started
    BY <1>0, <1>1 DEF BodySteps, Pollers
  <2>2. happened' \in Nat /\ consumed' \in 0 .. happened'
    BY <1>1 DEF OrderOK
  <2> QED  BY <1>0, <1>1, <2>1, <2>2 DEF BodySteps, OrderOK
<1>2. ASSUME NEW u \in Users, Making(u) PROVE Goal
  <2>1. UNCHANGED <<ppc, batch, last, happened, consumed>> /\ UNCHANGED subscribing
    BY <1>2 DEF Making, Get, Construct, Prime, PrimeNoResponse, Store, Return, polling, queue
  <2> QED  BY <1>1, <2>1, BodiesStep DEF OrderOK
<1>3. ASSUME NEW h \in Handlers, Subscribe(h) \/ Unsubscribe(h) PROVE Goal
  <2>1. UNCHANGED <<ppc, batch, last, happened, consumed>>
    BY <1>3 DEF Subscribe, Unsubscribe, FromOutside, polling, queue
  <2>2. DoSubscribe(h) \/ DoUnsubscribe(h)
    BY <1>3 DEF Subscribe, Unsubscribe, FromOutside
  <2> QED  BY <1>1, <2>1, <2>2, BodiesStep DEF OrderOK
<1>4. CASE Shutdown
  BY <1>1, <1>4, BodiesStep DEF Shutdown, FromOutside, polling, queue, OrderOK
<1>5. CASE Relogin \/ Event \/ UNCHANGED vars
  <2>1. UNCHANGED <<ppc, batch, last, consumed>> /\ UNCHANGED subscribing /\ happened' \in {happened, happened + 1}
    BY <1>5 DEF Relogin, Event, vars, polling, queue
  <2> QED  BY <1>1, <2>1, BodiesStep DEF OrderOK
<1>6. ASSUME NEW p \in Pollers, CallHandler(p) PROVE Goal
  BY <1>6, CallKeepsOrder
<1>7. ASSUME NEW p \in Pollers, Loop(p) \/ ReadNothing(p) \/ BeginDispatch(p) PROVE Goal
  <2>1. UNCHANGED <<batch, last, happened, consumed>> /\ UNCHANGED subscribing
    BY <1>7 DEF Loop, ReadNothing, BeginDispatch, queue
  <2>2. p <= started
    BY <1>0, <1>7 DEF Loop, ReadNothing, BeginDispatch, OrderOK, Pollers
  <2>3. DOMAIN ppc' = Pollers /\ \A q \in Pollers : q # p => ppc'[q] = ppc[q]
    BY <1>7 DEF Loop, ReadNothing, BeginDispatch, OrderOK
  <2> QED  BY <1>0, <2>1, <2>2, <2>3 DEF subscribing, OrderOK, Pollers
<1>8. ASSUME NEW p \in Pollers, ReadEvents(p) PROVE Goal
  <2>1. /\ UNCHANGED <<last, happened>> /\ UNCHANGED subscribing
        /\ consumed < happened /\ consumed' = happened
        /\ batch' = [batch EXCEPT ![p] = happened] /\ ppc' = [ppc EXCEPT ![p] = "dispatch"]
        /\ ppc[p] = "read"
    BY <1>8 DEF ReadEvents
  <2>2. p <= started
    BY <1>0, <2>1 DEF OrderOK, Pollers
  <2>3. /\ last' \in [Handlers -> 0 .. consumed'] /\ batch' \in [Pollers -> 0 .. consumed']
        /\ happened' \in Nat /\ consumed' \in 0 .. happened' /\ DOMAIN ppc' = Pollers
    BY <2>1 DEF OrderOK
  <2>4. ASSUME ~lapsed, NEW q \in Pollers, NEW h \in Handlers, batch'[q] # 0 PROVE last'[h] <= batch'[q]
    BY <2>1, <2>4 DEF OrderOK
  <2>5. \A q \in Pollers : q > started' => ppc'[q] = "loop" /\ batch'[q] = 0
    BY <1>0, <2>1, <2>2 DEF subscribing, OrderOK, Pollers
  <2> QED  BY <1>0, <2>1, <2>3, <2>4, <2>5 DEF subscribing, OrderOK
<1>9. ASSUME NEW p \in Pollers, EndDispatch(p) PROVE Goal
  <2>1. /\ UNCHANGED <<last, happened, consumed>> /\ UNCHANGED subscribing
        /\ batch' = [batch EXCEPT ![p] = 0] /\ ppc' = [ppc EXCEPT ![p] = "loop"]
    BY <1>9 DEF EndDispatch, queue
  <2> QED  BY <1>0, <2>1 DEF subscribing, OrderOK
<1> QED  BY <1>2, <1>3, <1>4, <1>5, <1>6, <1>7, <1>8, <1>9 DEF Next, Polling

\* Events reach a handler in the order in which they happened, whichever callbacks
\* and other threads subscribe and unsubscribe, until the last handler has gone.
THEOREM EventsComeInOrder == Spec => InOrderUnlessLapsed
<1>1. Init => PollersOK /\ OrderOK
  BY PollersInit, OrderInit
<1>2. PollersOK /\ OrderOK /\ [Next]_vars => PollersOK' /\ OrderOK'
  BY PollersStep, OrderStep
<1>3. PollersOK /\ OrderOK /\ [Next]_vars => [\A h \in Handlers : last'[h] >= last[h] \/ lapsed]_vars
  BY OrderStep
<1> QED  BY <1>1, <1>2, <1>3, PTL DEF Spec, InOrderUnlessLapsed

-----------------------------------------------------------------------------
(* The summary of a feed.                                                  *)

\* The keys of URIs never hold 'init', the action of the key 'general'.
UriActions == \A u \in Uris : events[u] # "init"

FeedInv == FeedTypeOK /\ UriActions /\ LastWordWins /\ GeneralIsLast

\* Of an empty feed nothing is reported.
LEMMA FeedInitial == FeedInit => FeedInv
BY FeedConstantsOK
DEF FeedInit, FeedInv, FeedTypeOK, UriActions, LastWordWins, GeneralIsLast, LastIs, Quiet, Keys, Actions

\* The feed after an entry has been appended.
LEMMA Appended ==
  ASSUME FeedTypeOK, NEW entry \in Entries, FormatEvent(entry)
  PROVE  /\ Len(feed) \in Nat
         /\ Len(feed') = Len(feed) + 1
         /\ feed'[Len(feed) + 1] = entry
         /\ \A i \in 1 .. Len(feed) : feed'[i] = feed[i]
BY DEF FeedTypeOK, FormatEvent

\* _format_events keeps the types; "init" is never the action of a URI.
LEMMA TypeStep == FeedTypeOK /\ UriActions /\ [FeedNext]_feedVars => FeedTypeOK' /\ UriActions'
<1> SUFFICES ASSUME FeedTypeOK, UriActions, [FeedNext]_feedVars PROVE FeedTypeOK' /\ UriActions'
  OBVIOUS
<1> USE FeedConstantsOK DEF FeedTypeOK, UriActions
<1>1. ASSUME NEW entry \in Entries, FormatEvent(entry) PROVE FeedTypeOK' /\ UriActions'
  <2>1. feed' \in Seq(Entries)
    BY <1>1 DEF FormatEvent
  <2>2. entry.href \in Uris /\ entry.type \in Types
    BY DEF Entries
  <2>3. Touched(events, entry.href) \in [Keys -> Actions]
    BY <2>2 DEF Touched, Keys, Actions
  <2>4. Cleared(events) \in [Keys -> Actions]
    BY DEF Cleared, Keys, Actions
  <2>5. Formatted(events, entry) \in [Keys -> Actions]
    BY <2>2, <2>3, <2>4 DEF Formatted, Keys, Actions
  <2>6. \A u \in Uris : Formatted(events, entry)[u] # "init"
    BY <2>2 DEF Formatted, Touched, Cleared, Keys
  <2> QED  BY <1>1, <2>1, <2>5, <2>6 DEF FormatEvent
<1>2. CASE UNCHANGED feedVars
  BY <1>2 DEF feedVars
<1> QED  BY <1>1, <1>2 DEF FeedNext

\* Whether nothing of these types follows an entry, after one more entry.
LEMMA NoneAfterStep ==
  ASSUME FeedTypeOK, NEW entry \in Entries, FormatEvent(entry), NEW types,
         NEW n, n = Len(feed) + 1
  PROVE  /\ \A i \in 1 .. Len(feed) :
              NoneAfter(i, types)' <=> NoneAfter(i, types) /\ entry.type \notin types
         /\ NoneAfter(n, types)'
<1> USE Appended
<1>1. ASSUME NEW i \in 1 .. Len(feed)
      PROVE  NoneAfter(i, types)' <=> NoneAfter(i, types) /\ entry.type \notin types
  BY DEF NoneAfter
<1>2. NoneAfter(n, types)'
  BY DEF NoneAfter
<1> QED  BY <1>1, <1>2

\* The same for what follows of one URI.
LEMMA NoneAfterOfStep ==
  ASSUME FeedTypeOK, NEW entry \in Entries, FormatEvent(entry), NEW types, NEW u,
         NEW n, n = Len(feed) + 1
  PROVE  /\ \A i \in 1 .. Len(feed) :
              NoneAfterOf(i, types, u)' <=>
                NoneAfterOf(i, types, u) /\ ~(entry.type \in types /\ entry.href = u)
         /\ NoneAfterOf(n, types, u)'
<1> USE Appended
<1>1. ASSUME NEW i \in 1 .. Len(feed)
      PROVE  NoneAfterOf(i, types, u)' <=>
               NoneAfterOf(i, types, u) /\ ~(entry.type \in types /\ entry.href = u)
  BY DEF NoneAfterOf
<1>2. NoneAfterOf(n, types, u)'
  BY DEF NoneAfterOf
<1> QED  BY <1>1, <1>2

\* How an entry changes what last happened to u.
LEMMA LastIsStep ==
  ASSUME FeedTypeOK, NEW entry \in Entries, FormatEvent(entry), NEW type \in Decisive, NEW u \in Uris
  PROVE  LastIs(type, u)' <=>
           \/ entry.type = type /\ entry.href = u
           \/ /\ LastIs(type, u)
              /\ entry.type \notin Clears
              /\ ~(entry.type \in Decisive /\ entry.href = u)
<1>0. PICK n : n = Len(feed) + 1
  OBVIOUS
<1> USE Appended, <1>0
<1>1. ASSUME entry.type = type, entry.href = u PROVE LastIs(type, u)'
  <2>1. NoneAfter(n, Clears)' /\ NoneAfterOf(n, Decisive, u)'
    BY NoneAfterStep, NoneAfterOfStep
  <2>2. n \in 1 .. Len(feed') /\ feed'[n] = entry
    OBVIOUS
  <2> HIDE Appended, <1>0
  <2> QED  BY <1>1, <2>1, <2>2 DEF LastIs
<1>2. ASSUME NEW i \in 1 .. Len(feed)
      PROVE  NoneAfter(i, Clears)' <=> NoneAfter(i, Clears) /\ entry.type \notin Clears
  BY NoneAfterStep
<1>3. ASSUME NEW i \in 1 .. Len(feed)
      PROVE  NoneAfterOf(i, Decisive, u)' <=>
               NoneAfterOf(i, Decisive, u) /\ ~(entry.type \in Decisive /\ entry.href = u)
  BY NoneAfterOfStep
<1>4. ASSUME LastIs(type, u), entry.type \notin Clears,
             ~(entry.type \in Decisive /\ entry.href = u)
      PROVE  LastIs(type, u)'
  <2>1. PICK i \in 1 .. Len(feed) :
          /\ feed[i].type = type /\ feed[i].href = u
          /\ NoneAfter(i, Clears) /\ NoneAfterOf(i, Decisive, u)
    BY <1>4 DEF LastIs
  <2>2. NoneAfter(i, Clears)' /\ NoneAfterOf(i, Decisive, u)'
    BY <1>2, <1>3, <1>4, <2>1
  <2>3. i \in 1 .. Len(feed') /\ feed'[i] = feed[i]
    OBVIOUS
  <2> QED  BY <2>1, <2>2, <2>3 DEF LastIs
<1>5. ASSUME LastIs(type, u)', ~(entry.type = type /\ entry.href = u)
      PROVE  /\ LastIs(type, u)
             /\ entry.type \notin Clears
             /\ ~(entry.type \in Decisive /\ entry.href = u)
  <2>1. PICK i \in 1 .. Len(feed') :
          /\ feed'[i].type = type /\ feed'[i].href = u
          /\ NoneAfter(i, Clears)' /\ NoneAfterOf(i, Decisive, u)'
    BY <1>5 DEF LastIs
  <2>2. i \in 1 .. Len(feed)
    BY <1>5, <2>1
  <2> QED  BY <1>2, <1>3, <2>1, <2>2 DEF LastIs
<1> QED  BY <1>1, <1>4, <1>5

\* An entry that clears the cache makes every URI quiet, any other one leaves
\* quiet the URIs it is not about.
LEMMA QuietStep ==
  ASSUME FeedTypeOK, NEW entry \in Entries, FormatEvent(entry), NEW u \in Uris
  PROVE  Quiet(u)' <=>
           \/ entry.type \in Clears
           \/ Quiet(u) /\ ~(entry.type \in Touches \cup Decisive /\ entry.href = u)
<1>0. PICK n : n = Len(feed) + 1
  OBVIOUS
<1> USE Appended, <1>0
<1>1. ASSUME NEW i \in 1 .. Len(feed)
      PROVE  NoneAfter(i, Clears)' <=> NoneAfter(i, Clears) /\ entry.type \notin Clears
  BY NoneAfterStep
<1>2. NoneAfter(n, Clears)'
  BY NoneAfterStep
<1>3. ASSUME entry.type \in Clears PROVE Quiet(u)'
  <2> SUFFICES ASSUME NEW i \in 1 .. Len(feed'),
                      feed'[i].type \in Touches \cup Decisive, feed'[i].href = u
               PROVE  ~NoneAfter(i, Clears)'
    BY DEF Quiet
  <2>1. i \in 1 .. Len(feed)
    BY <1>3 DEF Clears, Touches, Decisive
  <2> QED  BY <1>1, <1>3, <2>1
<1>4. ASSUME Quiet(u), ~(entry.type \in Touches \cup Decisive /\ entry.href = u) PROVE Quiet(u)'
  <2> SUFFICES ASSUME NEW i \in 1 .. Len(feed'),
                      feed'[i].type \in Touches \cup Decisive, feed'[i].href = u
               PROVE  ~NoneAfter(i, Clears)'
    BY DEF Quiet
  <2>1. i \in 1 .. Len(feed) /\ feed'[i] = feed[i]
    BY <1>4
  <2> QED  BY <1>1, <1>4, <2>1 DEF Quiet
<1>5. ASSUME Quiet(u)', entry.type \notin Clears
      PROVE  Quiet(u) /\ ~(entry.type \in Touches \cup Decisive /\ entry.href = u)
  <2>1. ~(entry.type \in Touches \cup Decisive /\ entry.href = u)
    <3>1. n \in 1 .. Len(feed') /\ feed'[n] = entry
      OBVIOUS
    <3> HIDE Appended, <1>0
    <3> QED  BY <1>2, <1>5, <3>1 DEF Quiet
  <2>2. ASSUME NEW i \in 1 .. Len(feed),
               feed[i].type \in Touches \cup Decisive, feed[i].href = u
        PROVE  ~NoneAfter(i, Clears)
    <3>1. i \in 1 .. Len(feed') /\ feed'[i] = feed[i]
      OBVIOUS
    <3> QED  BY <1>1, <1>5, <2>2, <3>1 DEF Quiet
  <2> QED  BY <2>1, <2>2 DEF Quiet
<1> QED  BY <1>3, <1>4, <1>5

\* An entry of any type leaves, for every URI, the last word on it.
LEMMA WordStep ==
  ASSUME FeedInv, NEW entry \in Entries, FormatEvent(entry)
  PROVE  LastWordWins'
<1> USE DEF FeedInv
<1> SUFFICES ASSUME NEW u \in Uris
             PROVE  /\ events'[u] = "add" <=> LastIs("ADD_URI", u)'
                    /\ events'[u] = "delete" <=> LastIs("DELETE_URI", u)'
                    /\ events'[u] = "none" <=> Quiet(u)'
  BY DEF LastWordWins
<1>1. /\ entry.href \in Uris /\ entry.type \in Types
      /\ u # General /\ u \in Keys
      /\ events \in [Keys -> Actions]
      /\ events' = Formatted(events, entry)
  BY FeedConstantsOK DEF Entries, Keys, FeedTypeOK, FormatEvent
<1>2. /\ events[u] = "add" <=> LastIs("ADD_URI", u)
      /\ events[u] = "delete" <=> LastIs("DELETE_URI", u)
      /\ events[u] = "none" <=> Quiet(u)
  BY DEF LastWordWins
<1>3. ASSUME NEW type \in Decisive
      PROVE  LastIs(type, u)' <=>
               \/ entry.type = type /\ entry.href = u
               \/ /\ LastIs(type, u)
                  /\ entry.type \notin Clears
                  /\ ~(entry.type \in Decisive /\ entry.href = u)
  BY LastIsStep
<1>4. Quiet(u)' <=>
        \/ entry.type \in Clears
        \/ Quiet(u) /\ ~(entry.type \in Touches \cup Decisive /\ entry.href = u)
  BY QuietStep
<1>5. CASE entry.type \in Clears
  <2>1. events'[u] = "none"
    BY <1>1, <1>5 DEF Formatted, Cleared, Clears, Resets, Keys
  <2> QED  BY <1>3, <1>4, <1>5, <2>1 DEF Clears, Decisive
<1>6. CASE \/ entry.type \in Resets \cup Ignored
           \/ entry.href # u /\ entry.type \notin Clears
  <2>1. events'[u] = events[u]
    BY <1>1, <1>6
    DEF Formatted, Touched, Clears, Resets, Ignored, Touches, Types, Decisive, Keys
  <2> QED
    BY <1>2, <1>3, <1>4, <1>6, <2>1 DEF Clears, Resets, Ignored, Touches, Decisive
<1>7. CASE entry.type \in Decisive /\ entry.href = u
  <2>1. events'[u] = IF entry.type = "ADD_URI" THEN "add" ELSE "delete"
    BY <1>1, <1>7 DEF Formatted, Clears, Resets, Decisive
  <2>2. entry.type \notin Clears
    BY <1>7 DEF Clears, Decisive
  <2> QED  BY <1>3, <1>4, <1>7, <2>1, <2>2 DEF Decisive
<1>8. CASE entry.type \in Touches /\ entry.href = u
  <2>1. events'[u] = IF events[u] = "none" THEN "invalidate" ELSE events[u]
    BY <1>1, <1>8 DEF Formatted, Touched, Clears, Resets, Touches
  <2>2. entry.type \notin Clears /\ entry.type \notin Decisive
    BY <1>8 DEF Clears, Decisive, Touches
  <2> QED  BY <1>2, <1>3, <1>4, <1>8, <2>1, <2>2 DEF Decisive
<1> QED  BY <1>1, <1>5, <1>6, <1>7, <1>8 DEF Types

\* An entry of any type leaves the general event as the feed has it.
LEMMA GeneralStep ==
  ASSUME FeedInv, NEW entry \in Entries, FormatEvent(entry)
  PROVE  GeneralIsLast'
<1> USE DEF FeedInv
<1>0. PICK n : n = Len(feed) + 1
  OBVIOUS
<1>1. /\ entry.href \in Uris /\ entry.href # General /\ General \in Keys
      /\ events \in [Keys -> Actions]
      /\ events' = Formatted(events, entry)
  BY FeedConstantsOK DEF Entries, Keys, FeedTypeOK, FormatEvent
<1>2. /\ \A i \in 1 .. Len(feed) :
           NoneAfter(i, Clears)' <=> NoneAfter(i, Clears) /\ entry.type \notin Clears
      /\ NoneAfter(n, Clears)'
  BY <1>0, NoneAfterStep
<1>3. /\ \A i \in 1 .. Len(feed) :
           NoneAfter(i, Resets)' <=> NoneAfter(i, Resets) /\ entry.type \notin Resets
      /\ NoneAfter(n, Resets)'
  BY <1>0, NoneAfterStep
<1>4. /\ 1 .. Len(feed') = (1 .. Len(feed)) \cup {n}
      /\ feed'[n] = entry
      /\ \A i \in 1 .. Len(feed) : feed'[i] = feed[i]
  BY <1>0, Appended
<1>5. Resets \cap Clears = {}
  BY DEF Resets, Clears
<1>6. CASE entry.type \in Clears
  <2>1. events'[General] = "invalidate"
    BY <1>1, <1>5, <1>6 DEF Formatted, Cleared
  <2>2. \E i \in 1 .. Len(feed') : feed'[i].type \in Clears /\ NoneAfter(i, Resets)'
    BY <1>3, <1>4, <1>6
  <2>3. ~\E i \in 1 .. Len(feed') : feed'[i].type \in Resets /\ NoneAfter(i, Clears)'
    BY <1>2, <1>4, <1>5, <1>6
  <2> QED  BY <2>1, <2>2, <2>3 DEF GeneralIsLast
<1>7. CASE entry.type \in Resets
  <2>1. events'[General] = "init"
    BY <1>1, <1>5, <1>7 DEF Formatted
  <2>2. \E i \in 1 .. Len(feed') : feed'[i].type \in Resets /\ NoneAfter(i, Clears)'
    BY <1>2, <1>4, <1>7
  <2>3. ~\E i \in 1 .. Len(feed') : feed'[i].type \in Clears /\ NoneAfter(i, Resets)'
    BY <1>3, <1>4, <1>5, <1>7
  <2> QED  BY <2>1, <2>2, <2>3 DEF GeneralIsLast
<1>8. CASE entry.type \notin Resets \cup Clears
  <2>1. events'[General] = events[General]
    BY <1>1, <1>8 DEF Formatted, Touched
  <2>2. (\E i \in 1 .. Len(feed') : feed'[i].type \in Resets /\ NoneAfter(i, Clears)') <=>
        (\E i \in 1 .. Len(feed) : feed[i].type \in Resets /\ NoneAfter(i, Clears))
    BY <1>2, <1>4, <1>8
  <2>3. (\E i \in 1 .. Len(feed') : feed'[i].type \in Clears /\ NoneAfter(i, Resets)') <=>
        (\E i \in 1 .. Len(feed) : feed[i].type \in Clears /\ NoneAfter(i, Resets))
    BY <1>3, <1>4, <1>8
  <2> QED  BY <2>1, <2>2, <2>3 DEF GeneralIsLast
<1> QED  BY <1>6, <1>7, <1>8

\* FeedInv is an invariant.
LEMMA FeedInvariant == FeedSpec => []FeedInv
<1>1. FeedInv /\ [FeedNext]_feedVars => FeedInv'
  <2> SUFFICES ASSUME FeedInv, [FeedNext]_feedVars PROVE FeedInv'
    OBVIOUS
  <2>1. FeedTypeOK' /\ UriActions'
    BY TypeStep DEF FeedInv
  <2>2. CASE FeedNext
    BY <2>1, <2>2, WordStep, GeneralStep DEF FeedNext, FeedInv
  <2>3. CASE UNCHANGED feedVars
    BY <2>1, <2>3, SMTT(30)
    DEF feedVars, FeedInv, LastWordWins, GeneralIsLast, LastIs, Quiet, NoneAfter, NoneAfterOf
  <2> QED  BY <2>2, <2>3
<1> QED  BY <1>1, FeedInitial, PTL DEF FeedSpec

\* Whatever feed the server returns, a handler finds 'add' or 'delete' for a URI
\* exactly when that is what last happened to it since the cache was cleared.
THEOREM LastWordIsReported == FeedSpec => []LastWordWins
BY FeedInvariant, PTL DEF FeedInv

\* Whatever feed the server returns, a handler is told to re-read everything
\* exactly when events were lost after the client was last initialized.
THEOREM LossIsReported == FeedSpec => []GeneralIsLast
BY FeedInvariant, PTL DEF FeedInv
=============================================================================
