---------------------------- MODULE ClientProofs ----------------------------
(***************************************************************************)
(* Proofs about what a client of the REST API holds: its Session, for any  *)
(* number of threads, requests and expiries, and the EntryWrappers it got, *)
(* for any schema, documents, objects and lists of views.  The documents   *)
(* need lemmas about sequences that are built by steps, cut at a position  *)
(* and put together again; each edit of an Element is shown to keep the    *)
(* order of the schema and to change what is said of one tag only.         *)
(***************************************************************************)
EXTENDS Session, Wrappers, NaturalsInduction, WellFoundedInduction, SequenceTheorems, TLAPS

-----------------------------------------------------------------------------
(* The Session.                                                            *)

\* A thread is inside re-login processing, which it does under the lock.
Relogging(t) == pc[t] = "logon" \/ (retrying[t] /\ pc[t] # "idle")

LockInv ==
  /\ \A t \in Threads : Relogging(t) => lock = t
  /\ lock \in Threads => Relogging(lock)
  /\ closer = "delete" <=> lock = "closer"

\* Before the constructor is done nothing happens; afterwards a thread that
\* has seen a 401 has seen it for a token that will never be valid again, and
\* one that logs on does so for the token of the Session.
TokenInv ==
  /\ token <= issued
  /\ ctor # "ready" => /\ \A t \in Threads : pc[t] = "idle"
                       /\ closer = "idle" /\ ~unsafe /\ token = 0
  /\ \A t \in Threads : tried[t] <= issued
  /\ \A t \in Threads : pc[t] \in {"unauth", "logon"} => tried[t] \notin valid
  /\ \A t \in Threads : pc[t] = "logon" => tried[t] = token /\ ~unsafe

\* The first rejected logon ends the Session's logons.
RejectInv ==
  /\ rejected <= 1
  /\ rejected = 0 \/ unsafe \/ ctor = "failed"

IInv == TypeOK /\ LockInv /\ TokenInv /\ RejectInv

\* Before the first logon IInv holds.
LEMMA SessionInit == Init => IInv
<1> SUFFICES ASSUME Init PROVE IInv
  OBVIOUS
<1>1. TypeOK
  <2>1. valid \subseteq 1 .. issued /\ orphans \subseteq 1 .. issued
    BY DEF Init
  <2>2. payload \in [Threads -> Payloads \cup {"none"}]
    BY DEF Init
  <2>3. /\ pc \in [Threads -> {"idle", "send", "sent", "unauth", "logon"}]
        /\ carried \in [Threads -> {"none", "body", "file"}]
        /\ result \in [Threads -> Results]
    BY DEF Init, Results
  <2>4. /\ tried \in [Threads -> Nat] /\ served \in [Threads -> Nat]
        /\ retrying \in [Threads -> BOOLEAN]
        /\ count \in [Threads -> 0 .. MaxRequests]
    BY SessionConstantsOK DEF Init
  <2>5. loggedIn \in BOOLEAN /\ unsafe \in BOOLEAN /\ refusing \in BOOLEAN
    BY Zenon DEF Init
  <2>6. /\ ctor \in {"trying", "ready", "failed"} /\ connTry \in 1 .. ConnTries
        /\ token \in Nat /\ issued \in Nat /\ rejected \in Nat
        /\ lock \in Threads \cup {NoThread, "closer"}
        /\ closer \in {"idle", "logoff", "delete", "done"}
        /\ expired \in 0 .. MaxExpire
    BY SessionConstantsOK DEF Init
  <2> QED  BY <2>1, <2>2, <2>3, <2>4, <2>5, <2>6 DEF TypeOK
<1>2. LockInv /\ TokenInv /\ RejectInv
  BY SessionConstantsOK DEF Init, LockInv, Relogging, TokenInv, RejectInv
<1> QED  BY <1>1, <1>2 DEF IInv

\* A token that the server issues is a new one.
LEMMA IssueType ==
  ASSUME TypeOK, Issue
  PROVE  /\ issued' \in Nat /\ valid' \subseteq 1 .. issued'
         /\ orphans \subseteq 1 .. issued'
         /\ orphans \cup {issued + 1} \subseteq 1 .. issued'
BY DEF TypeOK, Issue

\* Every step of the constructor, of a request, of a re-login, of logoff and of the server keeps
\* IInv.
LEMMA SessionStep == IInv /\ [Next]_vars => IInv'
<1> SUFFICES ASSUME IInv, [Next]_vars PROVE IInv'
  OBVIOUS
<1> USE SessionConstantsOK DEF IInv, client, thread, server, Results, Payloads
<1>1. CASE CtorLogon \/ CtorNoConnection \/ CtorFails
  <2>1. TypeOK'
    <3>1. CASE CtorLogon
      BY <3>1 DEF CtorLogon, Issue, TypeOK
    <3>2. CASE CtorNoConnection
      BY <3>2 DEF CtorNoConnection, TriesLeft, TypeOK
    <3>3. CASE CtorFails
      <4>1. /\ valid' \subseteq 1 .. issued' /\ issued' \in Nat
            /\ orphans' \subseteq 1 .. issued' /\ rejected' \in Nat
        <5>1. CASE Issue /\ orphans' = orphans \cup {issued + 1} /\ rejected' = rejected
          BY <5>1, IssueType DEF TypeOK
        <5>2. CASE rejected' = rejected + 1 /\ UNCHANGED <<valid, issued, orphans>>
          BY <5>2 DEF TypeOK
        <5>3. CASE UNCHANGED server
          BY <5>3 DEF TypeOK
        <5> QED  BY <3>3, <5>1, <5>2, <5>3 DEF CtorFails
      <4>2. expired' = expired /\ refusing' = refusing
        BY <3>3 DEF CtorFails
      <4> QED  BY <3>3, <4>1, <4>2 DEF CtorFails, TypeOK
    <3> QED  BY <1>1, <3>1, <3>2, <3>3
  <2>2. LockInv'
    BY <1>1 DEF CtorLogon, CtorNoConnection, CtorFails, LockInv, Relogging
  <2>3. TokenInv'
    BY <1>1 DEF CtorLogon, CtorNoConnection, CtorFails, Issue, TypeOK, TokenInv
  <2>4. RejectInv'
    BY <1>1 DEF CtorLogon, CtorNoConnection, CtorFails, Issue, TypeOK, TokenInv, RejectInv
  <2> QED  BY <2>1, <2>2, <2>3, <2>4
<1>2. CASE Logoff \/ LogoffDelete
  <2>1. TypeOK'
    BY <1>2 DEF Logoff, LogoffDelete, UnsafeAfterLogoff, TypeOK
  <2>2. LockInv'
    BY <1>2 DEF Logoff, LogoffDelete, LockInv, Relogging, TypeOK
  <2>3. TokenInv'
    BY <1>2 DEF Logoff, LogoffDelete, UnsafeAfterLogoff, TypeOK, TokenInv, LockInv, Relogging
  <2>4. RejectInv'
    BY <1>2 DEF Logoff, LogoffDelete, UnsafeAfterLogoff, RejectInv
  <2> QED  BY <2>1, <2>2, <2>3, <2>4
<1>3. CASE Refuse \/ \E k \in 1 .. issued : Expire(k)
  <2>1. TypeOK'
    <3>1. CASE Refuse
      BY <3>1 DEF Refuse, TypeOK
    <3>2. CASE \E k \in 1 .. issued : Expire(k)
      BY <3>2 DEF Expire, TypeOK
    <3> QED  BY <1>3, <3>1, <3>2
  <2>2. LockInv' /\ TokenInv' /\ RejectInv'
    BY <1>3 DEF Refuse, Expire, LockInv, Relogging, TokenInv, RejectInv
  <2> QED  BY <2>1, <2>2
<1>4. ASSUME NEW t \in Threads, NEW p \in Payloads, Request(t, p) PROVE IInv'
  <2>1. TypeOK'
    BY <1>4 DEF Request, TypeOK
  <2>2. LockInv'
    BY <1>4 DEF Request, LockInv, Relogging, TypeOK
  <2>3. TokenInv' /\ RejectInv'
    BY <1>4 DEF Request, TokenInv, RejectInv, TypeOK
  <2> QED  BY <2>1, <2>2, <2>3
<1>5. ASSUME NEW t \in Threads, Send(t) \/ Unauthorized(t) PROVE IInv'
  <2>1. TypeOK'
    <3>1. CASE Send(t)
      BY <3>1 DEF Send, TypeOK
    <3>2. CASE Unauthorized(t)
      BY <3>2 DEF Unauthorized, TypeOK
    <3> QED  BY <1>5, <3>1, <3>2
  <2>2. LockInv'
    BY <1>5 DEF Send, Unauthorized, LockInv, Relogging, TypeOK
  <2>3. TokenInv' /\ RejectInv'
    BY <1>5 DEF Send, Unauthorized, TokenInv, RejectInv, TypeOK
  <2> QED  BY <2>1, <2>2, <2>3
<1>6. ASSUME NEW t \in Threads, NEW how \in Results, End(t, how), UNCHANGED closer,
             pc[t] # "idle", UNCHANGED retrying
      PROVE  LockInv'
  BY <1>6 DEF End, Unlocked, LockInv, Relogging, TypeOK
<1>7. ASSUME NEW t \in Threads,
             NoResponse(t) \/ GiveUp(t) \/ \E how \in {"ok", "http_error"} : Accepted(t, how)
      PROVE  IInv'
  <2>1. TypeOK'
    <3>1. CASE NoResponse(t)
      BY <3>1 DEF NoResponse, TransportError, End, Unlocked, TypeOK
    <3>2. CASE GiveUp(t)
      BY <3>2 DEF GiveUp, End, Unlocked, TypeOK
    <3>3. CASE \E how \in {"ok", "http_error"} : Accepted(t, how)
      BY <3>3 DEF Accepted, End, Unlocked, TypeOK
    <3> QED  BY <1>7, <3>1, <3>2, <3>3
  <2>2. LockInv'
    BY <1>6, <1>7 DEF NoResponse, TransportError, GiveUp, Accepted, Results
  <2>3. TokenInv' /\ RejectInv'
    BY <1>7 DEF NoResponse, TransportError, GiveUp, Accepted, End, TokenInv, RejectInv, TypeOK
  <2> QED  BY <2>1, <2>2, <2>3
<1>8. ASSUME NEW t \in Threads, ReloginElsewhere(t) \/ BeginRelogin(t) PROVE IInv'
  <2>1. TypeOK'
    <3>1. CASE ReloginElsewhere(t)
      BY <3>1 DEF ReloginElsewhere, Resend, TypeOK
    <3>2. CASE BeginRelogin(t)
      BY <3>2 DEF BeginRelogin, TypeOK
    <3> QED  BY <1>8, <3>1, <3>2
  <2>2. LockInv'
    BY <1>8 DEF ReloginElsewhere, BeginRelogin, Resend, LockAvailable, LockInv, Relogging, TypeOK
  <2>3. TokenInv' /\ RejectInv'
    BY <1>8 DEF ReloginElsewhere, BeginRelogin, Resend, MayNotRelogin, DoneElsewhere,
                TokenInv, RejectInv, TypeOK
  <2> QED  BY <2>1, <2>2, <2>3
<1>9. ASSUME NEW t \in Threads, Relogin(t) PROVE IInv'
  <2>1. TypeOK'
    BY <1>9 DEF Relogin, Issue, Resend, TypeOK
  <2>2. LockInv'
    BY <1>9 DEF Relogin, Resend, LockInv, Relogging, TypeOK
  <2>3. TokenInv'
    BY <1>9 DEF Relogin, Issue, Resend, LockInv, Relogging, TokenInv, TypeOK
  <2>4. RejectInv'
    BY <1>9 DEF Relogin, RejectInv
  <2> QED  BY <2>1, <2>2, <2>3, <2>4
<1>10. ASSUME NEW t \in Threads, ReloginRejected(t) PROVE IInv'
  <2>1. TypeOK'
    BY <1>10 DEF ReloginRejected, UnsafeNow, End, Unlocked, TypeOK
  <2>2. LockInv'
    BY <1>6, <1>10 DEF ReloginRejected
  <2>3. TokenInv'
    BY <1>10 DEF ReloginRejected, End, LockInv, Relogging, TokenInv, TypeOK
  <2>4. RejectInv'
    BY <1>10 DEF ReloginRejected, UnsafeNow, RejectInv, TokenInv, TypeOK
  <2> QED  BY <2>1, <2>2, <2>3, <2>4
<1>11. ASSUME NEW t \in Threads, ReloginFails(t) PROVE IInv'
  <2>1. TypeOK'
    <3>1. /\ valid' \subseteq 1 .. issued' /\ issued' \in Nat
          /\ orphans' \subseteq 1 .. issued'
      BY <1>11, IssueType DEF ReloginFails, TypeOK
    <3> QED  BY <1>11, <3>1 DEF ReloginFails, End, Unlocked, TypeOK
  <2>2. LockInv'
    BY <1>6, <1>11 DEF ReloginFails
  <2>3. TokenInv'
    BY <1>11 DEF ReloginFails, Issue, End, TokenInv, TypeOK
  <2>4. RejectInv'
    BY <1>11 DEF ReloginFails, RejectInv
  <2> QED  BY <2>1, <2>2, <2>3, <2>4
<1>12. CASE UNCHANGED vars
  BY <1>12 DEF vars, TypeOK, LockInv, Relogging, TokenInv, RejectInv
<1> QED
  BY <1>1, <1>2, <1>3, <1>4, <1>5, <1>7, <1>8, <1>9, <1>10, <1>11, <1>12
  DEF Next, Ctor, Close, Server, RequestStep

\* IInv is an invariant.
LEMMA SessionInvariant == Spec => []IInv
BY SessionInit, SessionStep, PTL DEF Spec

\* The server refuses at most one logon of a Session, however many threads
\* run into a 401 together ("lest we lock the account").
THEOREM AccountIsNotLocked == Spec => []AtMostOneRejectedLogon
<1>1. IInv => AtMostOneRejectedLogon
  BY DEF IInv, RejectInv, AtMostOneRejectedLogon
<1> QED  BY <1>1, SessionInvariant, PTL

\* Re-login processing, up to the end of the retried request, is done by one
\* thread at a time.
THEOREM OneReloginAtATime == Spec => []ReloginIsExclusive
<1>1. IInv => ReloginIsExclusive
  BY DEF IInv, LockInv, Relogging, ReloginIsExclusive
<1> QED  BY <1>1, SessionInvariant, PTL

\* A Session whose re-login has been deemed unsafe never changes its token.
THEOREM UnsafeIsForever == Spec => NoReloginOnceUnsafe
<1>1. IInv /\ [Next]_vars => [unsafe => token' = token /\ unsafe']_vars
  <2> SUFFICES ASSUME IInv, Next, unsafe PROVE token' = token /\ unsafe'
    BY DEF vars
  <2>1. CASE Ctor
    BY <2>1 DEF Ctor, CtorLogon, CtorNoConnection, CtorFails, IInv, TokenInv
  <2>2. CASE Close
    BY <2>2 DEF Close, Logoff, LogoffDelete, UnsafeAfterLogoff
  <2>3. CASE Server
    BY <2>3 DEF Server, Refuse, Expire, client
  <2>4. ASSUME NEW t \in Threads, NEW p \in Payloads, Request(t, p)
        PROVE  token' = token /\ unsafe'
    BY <2>4 DEF Request, client
  <2>5. ASSUME NEW t \in Threads, RequestStep(t) PROVE token' = token /\ unsafe'
    <3>1. pc[t] # "logon"
      BY DEF IInv, TokenInv
    <3> QED
      BY <2>5, <3>1
      DEF RequestStep, Send, NoResponse, Unauthorized, GiveUp, Accepted,
          ReloginElsewhere, BeginRelogin, Relogin, ReloginRejected, ReloginFails, client
  <2> QED  BY <2>1, <2>2, <2>3, <2>4, <2>5 DEF Next
<1> QED  BY <1>1, SessionInvariant, PTL DEF Spec, NoReloginOnceUnsafe

\* A token is replaced only when the server does not accept it any more.
THEOREM NoTokenIsLeft == Spec => ReloginOnlyIfExpired
<1>1. IInv /\ [Next]_vars => [token' # token => token \notin valid]_vars
  <2> SUFFICES ASSUME IInv, Next, token' # token PROVE token \notin valid
    BY DEF vars
  <2>1. CASE Ctor
    BY <2>1 DEF Ctor, CtorLogon, CtorNoConnection, CtorFails, IInv, TokenInv, TypeOK
  <2>2. CASE Close \/ Server
    BY <2>2 DEF Close, Server, Logoff, LogoffDelete, Refuse, Expire, client
  <2>3. ASSUME NEW t \in Threads, NEW p \in Payloads, Request(t, p) PROVE FALSE
    BY <2>3 DEF Request, client
  <2>4. ASSUME NEW t \in Threads, RequestStep(t) PROVE token \notin valid
    <3>1. Relogin(t)
      BY <2>4
      DEF RequestStep, Send, NoResponse, Unauthorized, GiveUp, Accepted,
          ReloginElsewhere, BeginRelogin, ReloginRejected, ReloginFails, client
    <3> QED  BY <3>1 DEF Relogin, IInv, TokenInv
  <2> QED  BY <2>1, <2>2, <2>3, <2>4 DEF Next
<1> QED  BY <1>1, SessionInvariant, PTL DEF Spec, ReloginOnlyIfExpired

\* A request in progress has not been carried out yet, and one that returned
\* normally has been carried out.
ServedInv ==
  \A t \in Threads :
    /\ pc[t] # "idle" => served[t] = 0 /\ result[t] = "none"
    /\ served[t] <= 1
    /\ result[t] = "ok" => served[t] = 1

\* Every step keeps the count of what the server has carried out.
LEMMA ServedStep == IInv /\ ServedInv /\ [Next]_vars => ServedInv'
<1> SUFFICES ASSUME TypeOK, ServedInv, [Next]_vars PROVE ServedInv'
  BY DEF IInv
<1>1. CASE Ctor \/ Close \/ Server \/ UNCHANGED vars
  BY <1>1 DEF Ctor, CtorLogon, CtorNoConnection, CtorFails, Close, Logoff, LogoffDelete,
              Server, Refuse, Expire, thread, vars, ServedInv
<1>2. ASSUME NEW t \in Threads, NEW p \in Payloads, Request(t, p) PROVE ServedInv'
  BY <1>2 DEF Request, ServedInv, TypeOK
<1>3. ASSUME NEW t \in Threads, NEW how \in Results \ {"ok"}, End(t, how), UNCHANGED served
      PROVE  ServedInv'
  BY <1>3 DEF End, ServedInv, TypeOK
<1>4. ASSUME NEW t \in Threads, Send(t) \/ Unauthorized(t) \/ BeginRelogin(t) PROVE ServedInv'
  BY <1>4 DEF Send, Unauthorized, BeginRelogin, ServedInv, TypeOK
<1>5. ASSUME NEW t \in Threads, ReloginElsewhere(t) \/ Relogin(t) PROVE ServedInv'
  BY <1>5 DEF ReloginElsewhere, Relogin, Resend, ServedInv, TypeOK
<1>6. ASSUME NEW t \in Threads, GiveUp(t) \/ ReloginRejected(t) \/ ReloginFails(t)
      PROVE  ServedInv'
  BY <1>3, <1>6 DEF GiveUp, ReloginRejected, ReloginFails, Results
<1>7. ASSUME NEW t \in Threads, NoResponse(t) PROVE ServedInv'
  BY <1>7 DEF NoResponse, TransportError, End, ServedInv, TypeOK
<1>8. ASSUME NEW t \in Threads, NEW how \in {"ok", "http_error"}, Accepted(t, how)
      PROVE  ServedInv'
  <2>1. served[t] = 0
    BY <1>8 DEF Accepted, ServedInv
  <2>2. CASE how = "ok"
    BY <1>8, <2>1, <2>2 DEF Accepted, End, ServedInv, TypeOK
  <2>3. CASE how = "http_error"
    BY <1>8, <2>1, <2>3 DEF Accepted, End, ServedInv, TypeOK
  <2> QED  BY <2>2, <2>3
<1> QED
  BY <1>1, <1>2, <1>4, <1>5, <1>6, <1>7, <1>8 DEF Next, RequestStep

\* Re-login never makes the server carry out a request twice, and a request
\* that returns normally has been carried out.
THEOREM OnceAndOnlyOnce == Spec => []CarriedOutOnce
<1>1. Init => ServedInv
  <2> HAVE Init
  <2>1. \A t \in Threads : pc[t] = "idle" /\ served[t] = 0 /\ result[t] = "none"
    BY DEF Init
  <2>2. ASSUME NEW t \in Threads PROVE served[t] <= 1
    <3>1. served[t] = 0
      BY <2>1
    <3>2. 0 <= 1
      OBVIOUS
    <3> QED  BY <3>1, <3>2
  <2>3. \A t \in Threads : result[t] # "ok"
    BY <2>1
  <2> QED  BY <2>1, <2>2, <2>3 DEF ServedInv
<1>2. ServedInv => CarriedOutOnce
  BY DEF ServedInv, CarriedOutOnce
<1> QED  BY <1>1, <1>2, ServedStep, SessionInvariant, PTL DEF Spec

-----------------------------------------------------------------------------
(* Numbers and sequences.                                                  *)

\* A nonempty set of naturals has a least element.
LEMMA LeastNat == ASSUME NEW T \in SUBSET Nat, T # {} PROVE \E x \in T : \A y \in T : x <= y
<1>1. PICK x \in T : \A y \in T : ~(<<y, x>> \in OpToRel(<, Nat))
  BY NatLessThanWellFounded, WFMin
<1>2. \A y \in T : ~(y < x)
  BY <1>1 DEF OpToRel
<1> QED
  BY <1>2

\* Min of the library is that element.
LEMMA MinIn == ASSUME NEW T \in SUBSET Nat, T # {} PROVE Min(T) \in T /\ \A y \in T : Min(T) <= y
  BY LeastNat DEF Min

\* Max of the library, over a bounded set.
LEMMA MaxIn == ASSUME NEW n \in Nat, NEW T \in SUBSET (0 .. n), T # {} PROVE Max(T) \in T /\ \A y \in T : Max(T) >= y
<1> DEFINE Rest == {n - x : x \in T}
<1>0. \A x \in T : x \in Nat /\ n - x \in Nat
  OBVIOUS
<1>1. Rest \in SUBSET Nat /\ Rest # {}
  BY <1>0
<1>2. PICK r \in Rest : \A y \in Rest : r <= y
  BY <1>1, LeastNat
<1>3. PICK x \in T : r = n - x
  BY <1>2
<1>4. \A y \in T : n - x <= n - y
  BY <1>2, <1>3
<1>5. \A y \in T : x >= y
  BY <1>4
<1> QED
  BY <1>5 DEF Max

\* What holds of 0, and of every number up to N if it holds of the one before, holds up to N.
LEMMA UpToN ==
  ASSUME NEW N \in Nat, NEW T, 0 \in T, \A n \in 1 .. N : n - 1 \in T => n \in T
  PROVE  \A n \in 0 .. N : n \in T
<1> DEFINE Bad == {n \in 0 .. N : n \notin T}
<1> SUFFICES ASSUME Bad # {} PROVE FALSE
  OBVIOUS
<1>1. PICK m \in Bad : \A y \in Bad : m <= y
  <2>1. Bad \in SUBSET Nat
    OBVIOUS
  <2> QED
    BY <2>1, LeastNat
<1>2. m \in 1 .. N /\ m - 1 \in 0 .. N
  BY <1>1
<1>3. m - 1 \in T
  BY <1>1, <1>2
<1> QED
  BY <1>1, <1>2, <1>3

\* A sequence of N steps from x exists.
Stepped(N, S, x, G, f) ==
  f \in [0 .. N -> S] /\ \A n \in 0 .. N : f[n] = IF n = 0 THEN x ELSE G[<<n, f[n - 1]>>]

\* A recursion over N steps has a solution.
LEMMA StepsExist ==
  ASSUME NEW N \in Nat, NEW S, NEW x \in S, NEW G \in [(1 .. N) \X S -> S]
  PROVE  \E f : Stepped(N, S, x, G, f)
<1> DEFINE By(m, f) == f \in [0 .. m -> S] /\ \A n \in 0 .. m : f[n] = IF n = 0 THEN x ELSE G[<<n, f[n - 1]>>]
           T == {m \in 0 .. N : \E f : By(m, f)}
<1>1. 0 \in T
  <2> DEFINE f == [n \in 0 .. 0 |-> x]
  <2>1. By(0, f)
    OBVIOUS
  <2> HIDE DEF f, By
  <2>2. \E h : By(0, h)
    BY <2>1
  <2> QED
    BY <2>2
<1>2. ASSUME NEW m \in 1 .. N, m - 1 \in T PROVE m \in T
  <2>1. PICK g : By(m - 1, g)
    BY <1>2
  <2> DEFINE y == G[<<m, g[m - 1]>>]
             f == [n \in 0 .. m |-> IF n = m THEN y ELSE g[n]]
  <2>2. m - 1 \in 0 .. m - 1 /\ m # 0
    OBVIOUS
  <2>3. y \in S
    BY <2>1, <2>2
  <2>4. f \in [0 .. m -> S]
    BY <2>1, <2>3
  <2>5. ASSUME NEW n \in 0 .. m PROVE f[n] = IF n = 0 THEN x ELSE G[<<n, f[n - 1]>>]
    <3>1. CASE n = m
      <4>1. f[n] = y /\ f[n - 1] = g[m - 1]
        BY <3>1
      <4>2. n # 0 /\ y = G[<<n, g[m - 1]>>]
        BY <3>1, <2>2
      <4> HIDE DEF f, y
      <4>3. f[n] = G[<<n, f[n - 1]>>]
        BY <4>1, <4>2
      <4> QED
        BY <4>2, <4>3
    <3>2. CASE n = 0
      <4>1. 0 \in 0 .. m - 1 /\ 0 # m
        BY <2>2
      <4>2. f[0] = g[0]
        BY <4>1
      <4>3. g[0] = x
        BY <2>1, <4>1
      <4> HIDE DEF f
      <4> QED
        BY <3>2, <4>2, <4>3
    <3>3. CASE n # 0 /\ n # m
      <4>1. n \in 0 .. m - 1 /\ n - 1 \in 0 .. m - 1
        BY <3>3
      <4>2. f[n] = g[n] /\ f[n - 1] = g[n - 1]
        BY <3>3, <4>1
      <4>3. g[n] = G[<<n, g[n - 1]>>]
        BY <3>3, <4>1, <2>1
      <4> QED
        BY <3>3, <4>2, <4>3
    <3> QED
      BY <3>1, <3>2, <3>3
  <2> HIDE DEF f
  <2>6. By(m, f)
    BY <2>4, <2>5
  <2> HIDE DEF By
  <2>7. \E h : By(m, h)
    BY <2>6
  <2> QED
    BY <2>7
<1>3. N \in T
  <2> HIDE DEF T
  <2> QED
    BY <1>1, <1>2, UpToN
<1>4. PICK f : By(N, f)
  BY <1>3
<1>5. Stepped(N, S, x, G, f)
  BY <1>4 DEF Stepped
<1> QED
  BY <1>5

\* The parts of a sequence before and after a position.
Before(d, i) == SubSeq(d, 1, i - 1)
After(d, i) == SubSeq(d, i + 1, Len(d))

\* A part of a sequence.
LEMMA Part ==
  ASSUME NEW S, NEW d \in Seq(S), NEW i \in 1 .. Len(d) + 1, NEW j \in 0 .. Len(d), i <= j + 1
  PROVE  /\ SubSeq(d, i, j) \in Seq(S) /\ Len(SubSeq(d, i, j)) = j + 1 - i
         /\ \A k \in 1 .. j + 1 - i : SubSeq(d, i, j)[k] = d[k + i - 1]
<1>1. DOMAIN d = 1 .. Len(d) /\ Len(d) \in Nat
  OBVIOUS
<1>2. \A k \in i .. j : d[k] \in S
  BY <1>1
<1>3. /\ SubSeq(d, i, j) \in Seq(S) /\ Len(SubSeq(d, i, j)) = IF i <= j THEN j - i + 1 ELSE 0
      /\ \A k \in 1 .. j - i + 1 : SubSeq(d, i, j)[k] = d[i + k - 1]
  BY <1>1, <1>2, SubSeqProperties
<1>4. Len(SubSeq(d, i, j)) = j + 1 - i
  BY <1>1, <1>3
<1>5. ASSUME NEW k \in 1 .. j + 1 - i PROVE SubSeq(d, i, j)[k] = d[k + i - 1]
  <2>1. k \in 1 .. j - i + 1 /\ i + k - 1 = k + i - 1
    BY <1>1
  <2> QED
    BY <1>3, <2>1
<1> QED
  BY <1>3, <1>4, <1>5

\* One that is put together.
LEMMA Joined ==
  ASSUME NEW S, NEW p \in Seq(S), NEW s \in Seq(S)
  PROVE  /\ p \o s \in Seq(S) /\ Len(p \o s) = Len(p) + Len(s) /\ DOMAIN (p \o s) = 1 .. Len(p) + Len(s)
         /\ \A k \in 1 .. Len(p) + Len(s) : (p \o s)[k] = IF k <= Len(p) THEN p[k] ELSE s[k - Len(p)]
         /\ ToSet(p \o s) = ToSet(p) \cup ToSet(s)
<1>1. /\ p \o s \in Seq(S) /\ Len(p \o s) = Len(p) + Len(s)
      /\ \A k \in 1 .. Len(p) + Len(s) : (p \o s)[k] = IF k <= Len(p) THEN p[k] ELSE s[k - Len(p)]
  BY ConcatProperties
<1>2. /\ DOMAIN p = 1 .. Len(p) /\ DOMAIN s = 1 .. Len(s) /\ Len(p) \in Nat /\ Len(s) \in Nat
      /\ DOMAIN (p \o s) = 1 .. Len(p) + Len(s)
  BY <1>1
<1>3. ASSUME NEW x \in ToSet(p \o s) PROVE x \in ToSet(p) \cup ToSet(s)
  <2>1. PICK k \in 1 .. Len(p) + Len(s) : x = (p \o s)[k]
    BY <1>2, <1>3 DEF ToSet
  <2>2. CASE k <= Len(p)
    <3>1. k \in DOMAIN p /\ x = p[k]
      BY <1>1, <1>2, <2>1, <2>2
    <3> QED
      BY <3>1 DEF ToSet
  <2>3. CASE ~(k <= Len(p))
    <3>1. k - Len(p) \in DOMAIN s /\ x = s[k - Len(p)]
      BY <1>1, <1>2, <2>1, <2>3
    <3> QED
      BY <3>1 DEF ToSet
  <2> QED
    BY <2>2, <2>3
<1>4. ASSUME NEW x \in ToSet(p) PROVE x \in ToSet(p \o s)
  <2>1. PICK k \in DOMAIN p : x = p[k]
    BY <1>4 DEF ToSet
  <2>2. k \in 1 .. Len(p) + Len(s) /\ k <= Len(p)
    BY <1>2
  <2>3. x = (p \o s)[k]
    BY <1>1, <2>1, <2>2
  <2> QED
    BY <1>2, <2>2, <2>3 DEF ToSet
<1>5. ASSUME NEW x \in ToSet(s) PROVE x \in ToSet(p \o s)
  <2>1. PICK k \in DOMAIN s : x = s[k]
    BY <1>5 DEF ToSet
  <2>2. k + Len(p) \in 1 .. Len(p) + Len(s) /\ ~(k + Len(p) <= Len(p)) /\ k + Len(p) - Len(p) = k
    BY <1>2
  <2>3. x = (p \o s)[k + Len(p)]
    BY <1>1, <2>1, <2>2
  <2> QED
    BY <1>2, <2>2, <2>3 DEF ToSet
<1>6. ToSet(p \o s) = ToSet(p) \cup ToSet(s)
  BY <1>3, <1>4, <1>5
<1> QED
  BY <1>1, <1>2, <1>6

\* One with another element at its end.
LEMMA Extended ==
  ASSUME NEW S, NEW a \in Seq(S), NEW x \in S
  PROVE  ToSet(Append(a, x)) = ToSet(a) \cup {x}
<1>1. /\ DOMAIN a = 1 .. Len(a) /\ Len(a) \in Nat /\ DOMAIN Append(a, x) = 1 .. Len(a) + 1
      /\ Append(a, x)[Len(a) + 1] = x /\ \A k \in 1 .. Len(a) : Append(a, x)[k] = a[k]
  OBVIOUS
<1> DEFINE b == Append(a, x)
<1> HIDE DEF b
<1>2. ASSUME NEW y \in ToSet(b) PROVE y \in ToSet(a) \cup {x}
  <2>1. PICK k \in 1 .. Len(a) + 1 : y = b[k]
    BY <1>1, <1>2 DEF ToSet, b
  <2>2. k = Len(a) + 1 \/ k \in 1 .. Len(a)
    BY <1>1
  <2>3. k \in 1 .. Len(a) => b[k] = a[k]
    BY <1>1 DEF b
  <2> QED
    BY <1>1, <2>1, <2>2, <2>3 DEF ToSet, b
<1>3. ASSUME NEW y \in ToSet(a) PROVE y \in ToSet(b)
  <2>1. PICK k \in 1 .. Len(a) : y = a[k]
    BY <1>1, <1>3 DEF ToSet
  <2>2. k \in 1 .. Len(a) + 1 /\ b[k] = y
    BY <1>1, <2>1 DEF b
  <2> QED
    BY <1>1, <2>2 DEF ToSet, b
<1>4. x \in ToSet(b)
  BY <1>1 DEF ToSet, b
<1>5. ToSet(b) = ToSet(a) \cup {x}
  BY <1>2, <1>3, <1>4
<1> QED
  BY <1>5 DEF b

\* One with an element between two others.
LEMMA Between ==
  ASSUME NEW S, NEW p \in Seq(S), NEW s \in Seq(S), NEW c \in S
  PROVE  /\ p \o <<c>> \o s \in Seq(S) /\ DOMAIN (p \o <<c>> \o s) = 1 .. Len(p) + 1 + Len(s)
         /\ \A k \in 1 .. Len(p) + 1 + Len(s) : (p \o <<c>> \o s)[k] =
              IF k <= Len(p) THEN p[k] ELSE IF k = Len(p) + 1 THEN c ELSE s[k - Len(p) - 1]
         /\ ToSet(p \o <<c>> \o s) = ToSet(p) \cup {c} \cup ToSet(s)
<1> DEFINE one == <<c>>
           q == p \o one
<1>1. one \in Seq(S) /\ Len(one) = 1 /\ one[1] = c /\ ToSet(one) = {c}
  BY DEF ToSet
<1>2. Len(p) \in Nat /\ Len(s) \in Nat
  OBVIOUS
<1> HIDE DEF one
<1>c. one \in Seq(S)
  BY <1>1
<1>a. /\ q \in Seq(S) /\ Len(q) = Len(p) + Len(one) /\ ToSet(q) = ToSet(p) \cup ToSet(one)
      /\ \A k \in 1 .. Len(p) + Len(one) : q[k] = IF k <= Len(p) THEN p[k] ELSE one[k - Len(p)]
  BY <1>c, Joined
<1> HIDE DEF q
<1>3. /\ q \in Seq(S) /\ Len(q) = Len(p) + 1 /\ ToSet(q) = ToSet(p) \cup {c}
      /\ \A k \in 1 .. Len(p) + 1 : q[k] = IF k <= Len(p) THEN p[k] ELSE one[k - Len(p)]
  BY <1>1, <1>a
<1>4. q[Len(p) + 1] = c /\ \A k \in 1 .. Len(p) : q[k] = p[k]
  <2>1. Len(p) + 1 \in 1 .. Len(p) + 1 /\ ~(Len(p) + 1 <= Len(p)) /\ Len(p) + 1 - Len(p) = 1
    BY <1>2
  <2>2. q[Len(p) + 1] = c
    BY <1>1, <1>3, <2>1
  <2> QED
    BY <1>2, <1>3, <2>2
<1>b. q \in Seq(S)
  BY <1>3
<1>5. /\ q \o s \in Seq(S) /\ DOMAIN (q \o s) = 1 .. Len(q) + Len(s) /\ ToSet(q \o s) = ToSet(q) \cup ToSet(s)
      /\ \A k \in 1 .. Len(q) + Len(s) : (q \o s)[k] = IF k <= Len(q) THEN q[k] ELSE s[k - Len(q)]
  BY <1>b, Joined
<1>6. ASSUME NEW k \in 1 .. Len(p) + 1 + Len(s)
      PROVE  (q \o s)[k] = IF k <= Len(p) THEN p[k] ELSE IF k = Len(p) + 1 THEN c ELSE s[k - Len(p) - 1]
  <2>1. (q \o s)[k] = IF k <= Len(p) + 1 THEN q[k] ELSE s[k - (Len(p) + 1)]
    BY <1>3, <1>5
  <2>2. CASE k <= Len(p)
    BY <1>2, <1>4, <2>1, <2>2
  <2>3. CASE k = Len(p) + 1
    BY <1>2, <1>4, <2>1, <2>3
  <2>4. CASE k > Len(p) + 1
    <3>1. k - (Len(p) + 1) = k - Len(p) - 1 /\ ~(k <= Len(p)) /\ k # Len(p) + 1 /\ ~(k <= Len(p) + 1)
      BY <1>2, <2>4
    <3> QED
      BY <2>1, <3>1
  <2>5. k <= Len(p) \/ k = Len(p) + 1 \/ k > Len(p) + 1
    BY <1>2
  <2> QED
    BY <2>2, <2>3, <2>4, <2>5
<1>7. ToSet(q \o s) = ToSet(p) \cup {c} \cup ToSet(s)
  BY <1>3, <1>5
<1> QED
  BY <1>3, <1>5, <1>6, <1>7 DEF q, one

\* What is before and after a position.
LEMMA Sides ==
  ASSUME NEW S, NEW d \in Seq(S), NEW i \in DOMAIN d
  PROVE  /\ Before(d, i) \in Seq(S) /\ Len(Before(d, i)) = i - 1 /\ \A k \in 1 .. i - 1 : Before(d, i)[k] = d[k]
         /\ After(d, i) \in Seq(S) /\ Len(After(d, i)) = Len(d) - i /\ \A k \in 1 .. Len(d) - i : After(d, i)[k] = d[k + i]
<1>1. i \in 1 .. Len(d) /\ Len(d) \in Nat
  OBVIOUS
<1>2. /\ Before(d, i) \in Seq(S) /\ Len(Before(d, i)) = i - 1
      /\ \A k \in 1 .. i - 1 : Before(d, i)[k] = d[k]
  <2>0. 1 \in 1 .. Len(d) + 1 /\ i - 1 \in 0 .. Len(d) /\ 1 <= i - 1 + 1
    BY <1>1
  <2>1. /\ Before(d, i) \in Seq(S) /\ Len(Before(d, i)) = (i - 1) + 1 - 1
        /\ \A k \in 1 .. (i - 1) + 1 - 1 : Before(d, i)[k] = d[k + 1 - 1]
    BY <2>0, Part DEF Before
  <2> QED
    BY <1>1, <2>1
<1>3. /\ After(d, i) \in Seq(S) /\ Len(After(d, i)) = Len(d) - i
      /\ \A k \in 1 .. Len(d) - i : After(d, i)[k] = d[k + i]
  <2>1. /\ After(d, i) \in Seq(S) /\ Len(After(d, i)) = Len(d) + 1 - (i + 1)
        /\ \A k \in 1 .. Len(d) + 1 - (i + 1) : After(d, i)[k] = d[k + (i + 1) - 1]
    BY <1>1, Part DEF After
  <2>2. ASSUME NEW k \in 1 .. Len(d) - i PROVE After(d, i)[k] = d[k + i]
    <3>1. k \in 1 .. Len(d) + 1 - (i + 1) /\ k + (i + 1) - 1 = k + i
      BY <1>1
    <3> QED
      BY <2>1, <3>1
  <2> QED
    BY <1>1, <2>1, <2>2
<1> QED
  BY <1>2, <1>3

\* What the edits of a sequence at a position come to.
LEMMA CutAt ==
  ASSUME NEW S, NEW d \in Seq(S), NEW i \in DOMAIN d, NEW c \in S
  PROVE  /\ Before(d, i) \in Seq(S) /\ Len(Before(d, i)) = i - 1 /\ \A k \in 1 .. i - 1 : Before(d, i)[k] = d[k]
         /\ After(d, i) \in Seq(S) /\ Len(After(d, i)) = Len(d) - i
         /\ d = Before(d, i) \o <<d[i]>> \o After(d, i)
         /\ [d EXCEPT ![i] = c] = Before(d, i) \o <<c>> \o After(d, i)
         /\ RemoveAt(d, i) = Before(d, i) \o After(d, i)
<1>1. i \in 1 .. Len(d) /\ Len(d) \in Nat /\ d[i] \in S /\ DOMAIN d = 1 .. Len(d)
  OBVIOUS
<1>2. /\ Before(d, i) \in Seq(S) /\ Len(Before(d, i)) = i - 1
      /\ \A k \in 1 .. i - 1 : Before(d, i)[k] = d[k]
  BY Sides
<1>3. /\ After(d, i) \in Seq(S) /\ Len(After(d, i)) = Len(d) - i
      /\ \A k \in 1 .. Len(d) - i : After(d, i)[k] = d[k + i]
  BY Sides
<1>4. ASSUME NEW x \in S, NEW e \in Seq(S), Len(e) = Len(d), e[i] = x, \A k \in 1 .. Len(d) : k # i => e[k] = d[k]
      PROVE  e = Before(d, i) \o <<x>> \o After(d, i)
  <2> DEFINE q == Before(d, i) \o <<x>> \o After(d, i)
  <2>0. Before(d, i) \in Seq(S) /\ After(d, i) \in Seq(S)
    BY <1>2, <1>3
  <2>a. /\ q \in Seq(S) /\ DOMAIN q = 1 .. Len(Before(d, i)) + 1 + Len(After(d, i))
        /\ \A k \in 1 .. Len(Before(d, i)) + 1 + Len(After(d, i)) : q[k] =
             IF k <= Len(Before(d, i)) THEN Before(d, i)[k]
             ELSE IF k = Len(Before(d, i)) + 1 THEN x ELSE After(d, i)[k - Len(Before(d, i)) - 1]
    BY <2>0, Between
  <2> HIDE DEF q
  <2>1. /\ q \in Seq(S) /\ DOMAIN q = 1 .. (i - 1) + 1 + (Len(d) - i)
        /\ \A k \in 1 .. (i - 1) + 1 + (Len(d) - i) : q[k] =
             IF k <= i - 1 THEN Before(d, i)[k] ELSE IF k = (i - 1) + 1 THEN x ELSE After(d, i)[k - (i - 1) - 1]
    BY <1>2, <1>3, <2>a
  <2>2. DOMAIN q = 1 .. Len(d) /\ Len(q) = Len(d)
    BY <1>1, <2>1
  <2>3. ASSUME NEW k \in 1 .. Len(d) PROVE q[k] = e[k]
    <3>1. q[k] = IF k <= i - 1 THEN Before(d, i)[k] ELSE IF k = i THEN x ELSE After(d, i)[k - i]
      <4>1. (i - 1) + 1 = i /\ k - (i - 1) - 1 = k - i /\ k \in 1 .. (i - 1) + 1 + (Len(d) - i)
        BY <1>1
      <4> QED
        BY <2>1, <4>1
    <3>2. CASE k <= i - 1
      BY <1>1, <1>2, <1>4, <3>1, <3>2
    <3>3. CASE k = i
      BY <1>1, <1>4, <3>1, <3>3
    <3>4. CASE k > i
      <4>1. k - i \in 1 .. Len(d) - i /\ k - i + i = k /\ ~(k <= i - 1) /\ k # i
        BY <1>1, <3>4
      <4> QED
        BY <1>3, <1>4, <3>1, <4>1
    <3> QED
      BY <1>1, <3>2, <3>3, <3>4
  <2>4. q = e
    BY <1>4, <2>1, <2>2, <2>3, SeqEqual
  <2> QED
    BY <2>4 DEF q
<1>5. d = Before(d, i) \o <<d[i]>> \o After(d, i)
  BY <1>1, <1>4
<1>6. [d EXCEPT ![i] = c] = Before(d, i) \o <<c>> \o After(d, i)
  <2> DEFINE e == [d EXCEPT ![i] = c]
  <2>1. e \in Seq(S) /\ Len(e) = Len(d) /\ e[i] = c /\ \A k \in 1 .. Len(d) : k # i => e[k] = d[k]
    BY <1>1
  <2> QED
    BY <1>4, <2>1
<1>7. RemoveAt(d, i) = Before(d, i) \o After(d, i)
  BY DEF RemoveAt, Before, After
<1> QED
  BY <1>2, <1>3, <1>5, <1>6, <1>7

\* The same for a gap.
LEMMA CutBefore ==
  ASSUME NEW S, NEW d \in Seq(S), NEW i \in 1 .. Len(d) + 1
  PROVE  /\ Before(d, i) \in Seq(S) /\ Len(Before(d, i)) = i - 1 /\ \A k \in 1 .. i - 1 : Before(d, i)[k] = d[k]
         /\ SubSeq(d, i, Len(d)) \in Seq(S) /\ Len(SubSeq(d, i, Len(d))) = Len(d) + 1 - i
         /\ \A k \in 1 .. Len(d) + 1 - i : SubSeq(d, i, Len(d))[k] = d[k + i - 1]
         /\ d = Before(d, i) \o SubSeq(d, i, Len(d))
<1> DEFINE p == Before(d, i)
           s == SubSeq(d, i, Len(d))
<1>1. Len(d) \in Nat /\ DOMAIN d = 1 .. Len(d) /\ i - 1 \in 0 .. Len(d)
  OBVIOUS
<1>2. p \in Seq(S) /\ Len(p) = i - 1 /\ \A k \in 1 .. i - 1 : p[k] = d[k]
  <2>1. /\ p \in Seq(S) /\ Len(p) = (i - 1) + 1 - 1
        /\ \A k \in 1 .. (i - 1) + 1 - 1 : p[k] = d[k + 1 - 1]
    BY <1>1, Part DEF Before
  <2> HIDE DEF p
  <2> QED
    BY <1>1, <2>1
<1>3. s \in Seq(S) /\ Len(s) = Len(d) + 1 - i /\ \A k \in 1 .. Len(d) + 1 - i : s[k] = d[k + i - 1]
  BY <1>1, Part, SMTT(30)
<1> HIDE DEF p, s
<1>4. /\ p \o s \in Seq(S) /\ Len(p \o s) = Len(p) + Len(s)
      /\ \A k \in 1 .. Len(p) + Len(s) : (p \o s)[k] = IF k <= Len(p) THEN p[k] ELSE s[k - Len(p)]
  BY <1>2, <1>3, Joined, ZenonT(60)
<1>5. Len(p) + Len(s) = Len(d)
  BY <1>1, <1>2, <1>3
<1>6. ASSUME NEW k \in 1 .. Len(d) PROVE (p \o s)[k] = d[k]
  <2>1. CASE k <= i - 1
    BY <1>1, <1>2, <1>4, <1>5, <2>1
  <2>2. CASE ~(k <= i - 1)
    <3>1. k - (i - 1) \in 1 .. Len(d) + 1 - i /\ k - (i - 1) + i - 1 = k
      BY <1>1, <2>2
    <3>2. (p \o s)[k] = s[k - (i - 1)]
      BY <1>2, <1>4, <1>5, <2>2
    <3> QED
      BY <1>3, <3>1, <3>2
  <2> QED
    BY <2>1, <2>2
<1>7. d = p \o s
  BY <1>4, <1>5, <1>6, SeqEqual
<1> QED
  BY <1>2, <1>3, <1>7 DEF p, s

-----------------------------------------------------------------------------
(* Documents.                                                              *)

\* The values of texts and of lists, and the children, of any document.
ServerChildren == UNION {ToSet(d) : d \in ServerDocs}
Items == Vals \cup UNION {ToSet(c.val) : c \in {x \in ServerChildren : x.tag = ListTag}}
AnyVal == Vals \cup {""} \cup {c.val : c \in ServerChildren} \cup Seq(Items)
Children == {c \in [tag : AllTags, val : AnyVal, id : Nat] : c.tag = ListTag => c.val \in Seq(Items)}

\* A child is typed.
LEMMA ChildTyped ==
  ASSUME NEW c \in Children
  PROVE  c.tag \in AllTags /\ c.val \in AnyVal /\ c.id \in Nat /\ (c.tag = ListTag => c.val \in Seq(Items))
  BY DEF Children

\* ValuesOf, step by step.
ValSteps(d, t, f) ==
  /\ f \in [0 .. Len(d) -> Seq(AnyVal)] /\ f[0] = <<>>
  /\ \A n \in 1 .. Len(d) : f[n] = IF d[n].tag = t THEN Append(f[n - 1], d[n].val) ELSE f[n - 1]

IsValues(d, t, f) ==
  f = [n \in 0 .. Len(d) |-> IF n = 0 THEN <<>> ELSE IF d[n].tag = t THEN Append(f[n - 1], d[n].val) ELSE f[n - 1]]

\* ValuesOf is what its recursion says.
LEMMA ValuesBySteps ==
  ASSUME NEW d \in Seq(Children), NEW t
  PROVE  \E f : ValSteps(d, t, f) /\ ValuesOf(d, t) = f[Len(d)]
<1> DEFINE N == Len(d)
           S == Seq(AnyVal)
           G == [p \in (1 .. N) \X S |-> IF d[p[1]].tag = t THEN Append(p[2], d[p[1]].val) ELSE p[2]]
           zero == <<>>
           h == CHOOSE f : IsValues(d, t, f)
<1>1. N \in Nat /\ \A n \in 1 .. N : d[n] \in Children
  OBVIOUS
<1>2. zero \in S
  OBVIOUS
<1>3. G \in [(1 .. N) \X S -> S]
  <2> SUFFICES ASSUME NEW p \in (1 .. N) \X S PROVE (IF d[p[1]].tag = t THEN Append(p[2], d[p[1]].val) ELSE p[2]) \in S
    OBVIOUS
  <2>1. p[1] \in 1 .. N /\ p[2] \in S
    OBVIOUS
  <2>2. d[p[1]].val \in AnyVal
    BY <1>1, <2>1, ChildTyped
  <2> QED
    BY <2>1, <2>2
<1>4. ASSUME NEW n \in 1 .. N, NEW s \in S PROVE G[<<n, s>>] = IF d[n].tag = t THEN Append(s, d[n].val) ELSE s
  OBVIOUS
<1> HIDE DEF G, S, zero
<1>a. PICK f : Stepped(N, S, zero, G, f)
  BY <1>1, <1>2, <1>3, StepsExist
<1>5. f \in [0 .. N -> S] /\ \A n \in 0 .. N : f[n] = IF n = 0 THEN zero ELSE G[<<n, f[n - 1]>>]
  BY <1>a DEF Stepped
<1>7. ASSUME NEW n \in 0 .. N
      PROVE  f[n] = IF n = 0 THEN zero ELSE IF d[n].tag = t THEN Append(f[n - 1], d[n].val) ELSE f[n - 1]
  <2>1. CASE n = 0
    BY <1>5, <2>1
  <2>2. CASE n # 0
    <3>1. n \in 1 .. N /\ n - 1 \in 0 .. N
      BY <1>1, <2>2
    <3>2. f[n - 1] \in S
      BY <1>5, <3>1
    <3> QED
      BY <1>4, <1>5, <2>2, <3>1, <3>2
  <2> QED
    BY <2>1, <2>2
<1>8. IsValues(d, t, f)
  <2>1. f = [n \in 0 .. N |-> f[n]]
    BY <1>5
  <2> QED
    BY <1>7, <2>1 DEF IsValues, zero
<1>9. IsValues(d, t, h)
  BY <1>8
<1>10. ValuesOf(d, t) = h[N]
  BY DEF ValuesOf, IsValues
<1> HIDE DEF h
<1>11. \A n \in 0 .. N : h[n] = IF n = 0 THEN zero ELSE IF d[n].tag = t THEN Append(h[n - 1], d[n].val) ELSE h[n - 1]
  BY <1>9 DEF IsValues, zero
<1> DEFINE T == {n \in 0 .. N : h[n] = f[n]}
<1>12. 0 \in T
  BY <1>1, <1>7, <1>11
<1>13. ASSUME NEW n \in 1 .. N, n - 1 \in T PROVE n \in T
  <2>1. n \in 0 .. N /\ n # 0 /\ h[n - 1] = f[n - 1]
    BY <1>1, <1>13
  <2> QED
    BY <1>7, <1>11, <2>1
<1>14. \A n \in 0 .. N : h[n] = f[n]
  <2> HIDE DEF T
  <2>1. \A n \in 0 .. N : n \in T
    BY <1>1, <1>12, <1>13, UpToN
  <2> QED
    BY <2>1 DEF T
<1>15. ValSteps(d, t, f)
  <2>1. f \in [0 .. Len(d) -> Seq(AnyVal)]
    BY <1>5 DEF S
  <2>2. f[0] = <<>>
    BY <1>1, <1>7 DEF zero
  <2>3. ASSUME NEW n \in 1 .. Len(d) PROVE f[n] = IF d[n].tag = t THEN Append(f[n - 1], d[n].val) ELSE f[n - 1]
    <3>1. n \in 0 .. N /\ n # 0
      BY <1>1
    <3> QED
      BY <1>7, <3>1
  <2> QED
    BY <2>1, <2>2, <2>3 DEF ValSteps
<1>16. h[N] = f[N]
  BY <1>1, <1>14
<1> QED
  BY <1>10, <1>15, <1>16

\* A sequence of values is a sequence of values.
LEMMA ValuesTyped == ASSUME NEW d \in Seq(Children), NEW t PROVE ValuesOf(d, t) \in Seq(AnyVal)
<1>1. PICK f : ValSteps(d, t, f) /\ ValuesOf(d, t) = f[Len(d)]
  BY ValuesBySteps
<1>2. Len(d) \in 0 .. Len(d)
  OBVIOUS
<1> QED
  BY <1>1, <1>2 DEF ValSteps

\* What is appended to two sequences is appended to the second.
LEMMA AppendJoined ==
  ASSUME NEW a \in Seq(AnyVal), NEW b \in Seq(AnyVal), NEW x \in AnyVal
  PROVE  Append(a \o b, x) = a \o Append(b, x)
<1> DEFINE one == <<x>>
<1>1. one \in Seq(AnyVal) /\ a \o b \in Seq(AnyVal)
  BY ConcatProperties
<1>2. Append(a \o b, x) = (a \o b) \o one /\ Append(b, x) = b \o one
  BY <1>1, AppendIsConcat
<1> HIDE DEF one
<1>3. (a \o b) \o one = a \o (b \o one)
  BY <1>1, ConcatAssociative
<1> QED
  BY <1>2, <1>3

\* The values of two documents one after the other.
LEMMA ValuesJoined ==
  ASSUME NEW p \in Seq(Children), NEW s \in Seq(Children), NEW t
  PROVE  ValuesOf(p \o s, t) = ValuesOf(p, t) \o ValuesOf(s, t)
<1> DEFINE d == p \o s
           L == Len(p)
           M == Len(s)
           A == Seq(AnyVal)
<1>1. /\ d \in Seq(Children) /\ Len(d) = L + M /\ L \in Nat /\ M \in Nat
      /\ \A k \in 1 .. L + M : d[k] = IF k <= L THEN p[k] ELSE s[k - L]
      /\ \A k \in 1 .. M : s[k] \in Children
  BY Joined
<1> HIDE DEF d
<1>2. PICK f : ValSteps(d, t, f) /\ ValuesOf(d, t) = f[Len(d)]
  BY <1>1, ValuesBySteps
<1>3. PICK g : ValSteps(p, t, g) /\ ValuesOf(p, t) = g[L]
  BY ValuesBySteps
<1>4. PICK h : ValSteps(s, t, h) /\ ValuesOf(s, t) = h[M]
  BY ValuesBySteps
<1>5. /\ f \in [0 .. L + M -> A] /\ f[0] = <<>>
      /\ \A n \in 1 .. L + M : f[n] = IF d[n].tag = t THEN Append(f[n - 1], d[n].val) ELSE f[n - 1]
  BY <1>1, <1>2 DEF ValSteps
<1>6. /\ g[0] = <<>> /\ g[L] \in A
      /\ \A n \in 1 .. L : g[n] = IF p[n].tag = t THEN Append(g[n - 1], p[n].val) ELSE g[n - 1]
  BY <1>1, <1>3 DEF ValSteps
<1>7. /\ h \in [0 .. M -> A] /\ h[0] = <<>>
      /\ \A n \in 1 .. M : h[n] = IF s[n].tag = t THEN Append(h[n - 1], s[n].val) ELSE h[n - 1]
  BY <1>4 DEF ValSteps
<1> DEFINE T1 == {n \in 0 .. L : f[n] = g[n]}
           T2 == {n \in 0 .. M : f[L + n] = g[L] \o h[n]}
<1>8. f[L] = g[L]
  <2>1. 0 \in T1
    BY <1>1, <1>5, <1>6
  <2>2. ASSUME NEW n \in 1 .. L, n - 1 \in T1 PROVE n \in T1
    <3>1. n \in 1 .. L + M /\ n <= L /\ d[n] = p[n]
      BY <1>1
    <3> QED
      BY <1>5, <1>6, <2>2, <3>1, SMTT(30)
  <2> HIDE DEF T1
  <2>3. \A n \in 0 .. L : n \in T1
    BY <1>1, <2>1, <2>2, UpToN
  <2>4. L \in T1
    BY <1>1, <2>3
  <2> QED
    BY <2>4 DEF T1
<1>9. f[L + M] = g[L] \o h[M]
  <2>1. 0 \in T2
    <3>1. g[L] \o <<>> = g[L]
      BY <1>6
    <3>2. f[L + 0] = g[L] \o h[0] /\ 0 \in 0 .. M
      BY <1>1, <1>7, <1>8, <3>1
    <3> QED
      BY <3>2
  <2>2. ASSUME NEW n \in 1 .. M, n - 1 \in T2 PROVE n \in T2
    <3>1. L + n \in 1 .. L + M /\ ~(L + n <= L) /\ L + n - L = n /\ L + n - 1 = L + (n - 1)
      BY <1>1
    <3>2. d[L + n] = s[n]
      BY <1>1, <3>1
    <3>3. f[L + n - 1] = g[L] \o h[n - 1]
      BY <2>2, <3>1
    <3>4. h[n - 1] \in A /\ s[n].val \in AnyVal
      <4>1. n - 1 \in 0 .. M /\ s[n] \in Children
        BY <1>1
      <4> QED
        BY <1>7, <4>1, ChildTyped
    <3>5. Append(g[L] \o h[n - 1], s[n].val) = g[L] \o Append(h[n - 1], s[n].val)
      BY <1>6, <3>4, AppendJoined
    <3>6. f[L + n] = IF s[n].tag = t THEN Append(f[L + n - 1], s[n].val) ELSE f[L + n - 1]
      BY <1>5, <3>1, <3>2, SMTT(30)
    <3>7. f[L + n] = g[L] \o h[n]
      BY <1>7, <3>3, <3>5, <3>6
    <3>8. n \in 0 .. M
      BY <1>1
    <3> QED
      BY <3>7, <3>8
  <2> HIDE DEF T2
  <2>3. \A n \in 0 .. M : n \in T2
    BY <1>1, <2>1, <2>2, UpToN
  <2>4. M \in T2
    BY <1>1, <2>3
  <2> QED
    BY <2>4 DEF T2
<1> QED
  BY <1>1, <1>2, <1>3, <1>4, <1>8, <1>9 DEF d

\* An empty document has no values, one child has its own.
LEMMA ValuesOfOne ==
  ASSUME NEW t
  PROVE  /\ ValuesOf(<<>>, t) = <<>>
         /\ \A c \in Children : ValuesOf(<<c>>, t) = IF c.tag = t THEN <<c.val>> ELSE <<>>
<1>1. ValuesOf(<<>>, t) = <<>>
  <2>1. <<>> \in Seq(Children) /\ Len(<<>>) = 0
    OBVIOUS
  <2>2. PICK f : ValSteps(<<>>, t, f) /\ ValuesOf(<<>>, t) = f[Len(<<>>)]
    BY <2>1, ValuesBySteps
  <2> QED
    BY <2>1, <2>2 DEF ValSteps
<1>2. ASSUME NEW c \in Children PROVE ValuesOf(<<c>>, t) = IF c.tag = t THEN <<c.val>> ELSE <<>>
  <2> DEFINE d == <<c>>
  <2>1. d \in Seq(Children) /\ Len(d) = 1 /\ d[1] = c
    OBVIOUS
  <2> HIDE DEF d
  <2>2. PICK f : ValSteps(d, t, f) /\ ValuesOf(d, t) = f[Len(d)]
    BY <2>1, ValuesBySteps
  <2>3. f[0] = <<>> /\ \A n \in 1 .. 1 : f[n] = IF d[n].tag = t THEN Append(f[n - 1], d[n].val) ELSE f[n - 1]
    BY <2>1, <2>2 DEF ValSteps
  <2>4. f[1] = IF c.tag = t THEN Append(<<>>, c.val) ELSE <<>>
    <3>1. 1 \in 1 .. 1 /\ 1 - 1 = 0
      OBVIOUS
    <3>2. f[1] = IF d[1].tag = t THEN Append(f[0], d[1].val) ELSE f[0]
      BY <2>3, <3>1
    <3> QED
      BY <2>1, <2>3, <3>2
  <2>5. ValuesOf(d, t) = f[1]
    BY <2>1, <2>2
  <2> QED
    BY <2>4, <2>5 DEF d
<1> QED
  BY <1>1, <1>2

\* The values are those of the children with the tag.
LEMMA ValuesMembers ==
  ASSUME NEW d \in Seq(Children), NEW t
  PROVE  \A x : x \in ToSet(ValuesOf(d, t)) <=> \E c \in ToSet(d) : c.tag = t /\ c.val = x
<1> DEFINE N == Len(d)
           Has(n, x) == \E k \in 1 .. n : d[k].tag = t /\ d[k].val = x
<1>1. PICK f : ValSteps(d, t, f) /\ ValuesOf(d, t) = f[N]
  BY ValuesBySteps
<1>2. /\ f \in [0 .. N -> Seq(AnyVal)] /\ f[0] = <<>>
      /\ \A n \in 1 .. N : f[n] = IF d[n].tag = t THEN Append(f[n - 1], d[n].val) ELSE f[n - 1]
  BY <1>1 DEF ValSteps
<1>3. N \in Nat /\ DOMAIN d = 1 .. N /\ \A n \in 1 .. N : d[n] \in Children
  OBVIOUS
<1> DEFINE T == {n \in 0 .. N : \A x : x \in ToSet(f[n]) <=> Has(n, x)}
<1>4. 0 \in T
  <2>1. ToSet(<<>>) = {}
    BY DEF ToSet
  <2>2. \A x : ~Has(0, x)
    BY <1>3
  <2> QED
    BY <1>2, <1>3, <2>1, <2>2
<1>5. ASSUME NEW n \in 1 .. N, n - 1 \in T PROVE n \in T
  <2>1. n - 1 \in 0 .. N /\ n \in 0 .. N /\ f[n - 1] \in Seq(AnyVal) /\ d[n].val \in AnyVal
    BY <1>2, <1>3, ChildTyped, SMTT(30)
  <2>2. \A x : x \in ToSet(f[n - 1]) <=> Has(n - 1, x)
    BY <1>5
  <2>3. \A x : Has(n, x) <=> Has(n - 1, x) \/ (d[n].tag = t /\ d[n].val = x)
    <3>1. \A k : k \in 1 .. n <=> k \in 1 .. n - 1 \/ k = n
      BY <1>3
    <3> QED
      BY <3>1
  <2>4. ToSet(Append(f[n - 1], d[n].val)) = ToSet(f[n - 1]) \cup {d[n].val}
    BY <2>1, Extended
  <2> HIDE DEF Has
  <2>5. ASSUME NEW x PROVE x \in ToSet(f[n]) <=> Has(n, x)
    <3>1. CASE d[n].tag = t
      <4>1. f[n] = Append(f[n - 1], d[n].val)
        BY <1>2, <3>1
      <4>2. x \in ToSet(f[n]) <=> x \in ToSet(f[n - 1]) \/ x = d[n].val
        BY <2>4, <4>1
      <4> QED
        BY <2>2, <2>3, <3>1, <4>2
    <3>2. CASE d[n].tag # t
      <4>1. f[n] = f[n - 1]
        BY <1>2, <3>2
      <4> QED
        BY <2>2, <2>3, <3>2, <4>1
    <3> QED
      BY <3>1, <3>2
  <2> QED
    BY <2>1, <2>5
<1>6. \A x : x \in ToSet(f[N]) <=> Has(N, x)
  <2> HIDE DEF T
  <2>1. \A n \in 0 .. N : n \in T
    BY <1>3, <1>4, <1>5, UpToN
  <2>2. N \in T
    BY <1>3, <2>1
  <2> HIDE DEF Has
  <2> QED
    BY <2>2 DEF T
<1>7. ASSUME NEW x PROVE Has(N, x) <=> \E c \in ToSet(d) : c.tag = t /\ c.val = x
  BY <1>3 DEF ToSet
<1> HIDE DEF Has
<1> QED
  BY <1>1, <1>6, <1>7

\* A document without the tag has no such values.
LEMMA ValuesNone ==
  ASSUME NEW d \in Seq(Children), NEW t, \A c \in ToSet(d) : c.tag # t
  PROVE  ValuesOf(d, t) = <<>>
<1>1. \A x : x \notin ToSet(ValuesOf(d, t))
  BY ValuesMembers
<1>2. ValuesOf(d, t) \in Seq(AnyVal)
  BY ValuesTyped
<1> DEFINE v == ValuesOf(d, t)
<1> HIDE DEF v
<1>3. ASSUME v # <<>>, v \in Seq(AnyVal) PROVE v[1] \in ToSet(v)
  <2>1. 1 \in DOMAIN v
    BY <1>3
  <2> QED
    BY <2>1 DEF ToSet
<1> QED
  BY <1>1, <1>2, <1>3 DEF v

\* To other tags a child makes no difference.
SameValues(d, e, t) == ValuesOf(d, t) = ValuesOf(e, t)

\* The values around a child.
LEMMA ValuesAround ==
  ASSUME NEW p \in Seq(Children), NEW s \in Seq(Children), NEW c \in Children, NEW t
  PROVE  /\ ValuesOf(p \o <<c>> \o s, t) =
              ValuesOf(p, t) \o (IF c.tag = t THEN <<c.val>> ELSE <<>>) \o ValuesOf(s, t)
         /\ c.tag # t => SameValues(p \o <<c>> \o s, p \o s, t)
<1> DEFINE one == <<c>>
<1>1. one \in Seq(Children)
  OBVIOUS
<1>2. ValuesOf(one, t) = IF c.tag = t THEN <<c.val>> ELSE <<>>
  BY ValuesOfOne
<1> HIDE DEF one
<1>3. p \o one \in Seq(Children)
  BY <1>1, ConcatProperties
<1>4. ValuesOf(p \o one, t) = ValuesOf(p, t) \o ValuesOf(one, t)
  BY <1>1, ValuesJoined
<1>5. ValuesOf(p \o one \o s, t) = ValuesOf(p \o one, t) \o ValuesOf(s, t)
  BY <1>3, ValuesJoined
<1>6. ValuesOf(p \o s, t) = ValuesOf(p, t) \o ValuesOf(s, t)
  BY ValuesJoined
<1>7. ValuesOf(p, t) \o <<>> = ValuesOf(p, t)
  BY ValuesTyped, ConcatEmptySeq
<1>8. ValuesOf(p \o one \o s, t) = ValuesOf(p, t) \o ValuesOf(one, t) \o ValuesOf(s, t)
  BY <1>4, <1>5
<1>9. c.tag # t => ValuesOf(p \o one \o s, t) = ValuesOf(p \o s, t)
  BY <1>2, <1>6, <1>7, <1>8
<1> QED
  BY <1>2, <1>8, <1>9 DEF one, SameValues

\* The first and the last element of a set of positions, as the searches find them.
LEMMA FirstFound ==
  ASSUME NEW n \in Nat, NEW T \in SUBSET (1 .. n)
  PROVE  /\ (IF T # {} THEN Min(T) ELSE 0) = 0 <=> T = {}
         /\ T # {} => Min(T) \in T /\ \A i \in T : Min(T) <= i
<1>1. T \in SUBSET Nat /\ 0 \notin T
  OBVIOUS
<1> QED
  BY <1>1, MinIn

\* The last of a set of positions.
LEMMA LastFound ==
  ASSUME NEW n \in Nat, NEW T \in SUBSET (1 .. n)
  PROVE  /\ (IF T # {} THEN Max(T) ELSE 0) = 0 <=> T = {}
         /\ T # {} => Max(T) \in T /\ \A i \in T : Max(T) >= i
<1>1. T \in SUBSET (0 .. n) /\ 0 \notin T
  OBVIOUS
<1> QED
  BY <1>1, MaxIn

\* The first child with a tag, if there is one.
LEMMA FindFirst ==
  ASSUME NEW d \in Seq(Children), NEW t
  PROVE  /\ Find(d, t) = 0 <=> \A c \in ToSet(d) : c.tag # t
         /\ Find(d, t) # 0 => Find(d, t) \in DOMAIN d /\ d[Find(d, t)].tag = t
<1> DEFINE T == {i \in 1 .. Len(d) : d[i].tag = t}
<1>1. Len(d) \in Nat /\ DOMAIN d = 1 .. Len(d) /\ T \in SUBSET (1 .. Len(d))
  OBVIOUS
<1>2. Find(d, t) = IF T # {} THEN Min(T) ELSE 0
  BY DEF Find, SelectInSeq
<1>3. T = {} <=> \A c \in ToSet(d) : c.tag # t
  BY <1>1 DEF ToSet
<1>4. ASSUME NEW i \in T PROVE i \in DOMAIN d /\ d[i].tag = t
  BY <1>1
<1> HIDE DEF T
<1> QED
  BY <1>1, <1>2, <1>3, <1>4, FirstFound

\* FindLast finds the last child with a tag, or none.
LEMMA FindTheLast ==
  ASSUME NEW d \in Seq(Children), NEW t
  PROVE  /\ FindLast(d, t) = 0 <=> \A c \in ToSet(d) : c.tag # t
         /\ FindLast(d, t) # 0 => /\ FindLast(d, t) \in DOMAIN d /\ d[FindLast(d, t)].tag = t
                                  /\ \A i \in DOMAIN d : i > FindLast(d, t) => d[i].tag # t
<1> DEFINE T == {i \in 1 .. Len(d) : d[i].tag = t}
<1>1. Len(d) \in Nat /\ DOMAIN d = 1 .. Len(d) /\ T \in SUBSET (1 .. Len(d))
  OBVIOUS
<1>2. FindLast(d, t) = IF T # {} THEN Max(T) ELSE 0
  BY DEF FindLast, SelectLastInSeq
<1>3. T = {} <=> \A c \in ToSet(d) : c.tag # t
  BY <1>1 DEF ToSet
<1>4. \A i \in DOMAIN d : i \in T <=> d[i].tag = t
  BY <1>1
<1> HIDE DEF T
<1>a. T # {} => Max(T) \in T /\ \A i \in T : Max(T) >= i
  BY <1>1, LastFound
<1>5. T # {} => FindLast(d, t) \in T /\ \A i \in T : FindLast(d, t) >= i
  BY <1>2, <1>a
<1>6. FindLast(d, t) = 0 <=> T = {}
  <2>1. 0 \notin T
    BY <1>1
  <2> QED
    BY <1>2, <1>5, <2>1
<1>7. ASSUME T # {}, NEW i \in DOMAIN d, i > FindLast(d, t) PROVE i \notin T
  <2>1. FindLast(d, t) \in T
    BY <1>5, <1>7
  <2>2. FindLast(d, t) \in 1 .. Len(d)
    BY <1>1, <2>1
  <2>3. i \in 1 .. Len(d)
    BY <1>1
  <2> QED
    BY <1>1, <1>5, <1>7, <2>2, <2>3
<1> QED
  BY <1>1, <1>3, <1>4, <1>5, <1>6, <1>7

\* The place of a tag tells the tag.
LEMMA Placed ==
  /\ \A t \in AllTags : Place(t) \in 1 .. Len(ChildOrder) /\ ChildOrder[Place(t)] = t
  /\ \A t : Place(t) \in Nat
<1>0. Len(ChildOrder) \in Nat /\ DOMAIN ChildOrder = 1 .. Len(ChildOrder)
  BY WrapperConstantsOK
<1>1. ASSUME NEW t
      PROVE  Place(t) \in Nat /\ (t \in AllTags => Place(t) \in 1 .. Len(ChildOrder) /\ ChildOrder[Place(t)] = t)
  <2> DEFINE T == {i \in 1 .. Len(ChildOrder) : ChildOrder[i] = t}
  <2>1. T \in SUBSET (1 .. Len(ChildOrder))
    OBVIOUS
  <2>2. Place(t) = IF T # {} THEN Min(T) ELSE 0
    BY DEF Place, SelectInSeq
  <2>3. t \in AllTags => T # {}
    BY <1>0 DEF AllTags, ToSet
  <2>4. \A i \in T : i \in 1 .. Len(ChildOrder) /\ ChildOrder[i] = t
    OBVIOUS
  <2> HIDE DEF T
  <2>5. T # {} => Min(T) \in T
    BY <1>0, <2>1, FirstFound
  <2>6. T # {} => Place(t) \in 1 .. Len(ChildOrder) /\ ChildOrder[Place(t)] = t
    BY <2>2, <2>4, <2>5
  <2>7. T = {} => Place(t) = 0
    BY <2>2
  <2> QED
    BY <1>0, <2>3, <2>6, <2>7
<1> QED
  BY <1>1

\* The tags before a tag are those with a lower place.
LEMMA PredecessorsPlaced ==
  ASSUME NEW t \in AllTags, NEW u \in AllTags
  PROVE  u \in Predecessors(t) <=> Place(u) < Place(t)
<1>0. Len(ChildOrder) \in Nat /\ DOMAIN ChildOrder = 1 .. Len(ChildOrder)
  BY WrapperConstantsOK
<1>1. Place(t) \in 1 .. Len(ChildOrder) /\ Place(u) \in 1 .. Len(ChildOrder) /\ ChildOrder[Place(u)] = u
  BY Placed
<1>2. Place(u) < Place(t) => u \in Predecessors(t)
  BY <1>0, <1>1 DEF Predecessors
<1>3. ASSUME u \in Predecessors(t) PROVE Place(u) < Place(t)
  <2>1. PICK i \in 1 .. Place(t) - 1 : u = ChildOrder[i]
    BY <1>3 DEF Predecessors
  <2> DEFINE T == {k \in 1 .. Len(ChildOrder) : ChildOrder[k] = u}
  <2>2. T \in SUBSET (1 .. Len(ChildOrder)) /\ i \in T
    BY <1>0, <1>1, <2>1
  <2>3. Place(u) = IF T # {} THEN Min(T) ELSE 0
    BY DEF Place, SelectInSeq
  <2> HIDE DEF T
  <2>a. \A k \in T : Min(T) <= k
    BY <1>0, <2>2, FirstFound
  <2>4. Place(u) <= i
    BY <2>2, <2>3, <2>a
  <2> QED
    BY <1>0, <1>1, <2>1, <2>4
<1> QED
  BY <1>2, <1>3

-----------------------------------------------------------------------------
(* The order of the children.                                              *)

\* a may stand before b.
MayPrecede(a, b) == Place(a.tag) <= Place(b.tag) /\ (a.tag = b.tag => a.tag = RepeatedTag)

\* Documents in the order of the schema.
Docs == {d \in Seq(Children) : InSchemaOrder(d)}

\* The order of two documents one after the other.
LEMMA OrderJoined ==
  ASSUME NEW p \in Seq(Children), NEW s \in Seq(Children)
  PROVE  InSchemaOrder(p \o s) <=>
           InSchemaOrder(p) /\ InSchemaOrder(s) /\ \A a \in ToSet(p), b \in ToSet(s) : MayPrecede(a, b)
<1> DEFINE d == p \o s
           L == Len(p)
           M == Len(s)
<1>1. /\ d \in Seq(Children) /\ DOMAIN d = 1 .. L + M /\ L \in Nat /\ M \in Nat
      /\ \A k \in 1 .. L + M : d[k] = IF k <= L THEN p[k] ELSE s[k - L]
      /\ DOMAIN p = 1 .. L /\ DOMAIN s = 1 .. M
  BY Joined
<1> HIDE DEF d
<1>2. ASSUME InSchemaOrder(d)
      PROVE  InSchemaOrder(p) /\ InSchemaOrder(s) /\ \A a \in ToSet(p), b \in ToSet(s) : MayPrecede(a, b)
  <2>0. \A i, j \in 1 .. L + M : i < j => MayPrecede(d[i], d[j])
    BY <1>1, <1>2 DEF InSchemaOrder, MayPrecede
  <2>1. ASSUME NEW i \in 1 .. L, NEW j \in 1 .. L, i < j PROVE MayPrecede(p[i], p[j])
    <3>1. i \in 1 .. L + M /\ j \in 1 .. L + M /\ d[i] = p[i] /\ d[j] = p[j]
      BY <1>1
    <3> QED
      BY <2>0, <2>1, <3>1
  <2>2. ASSUME NEW i \in 1 .. M, NEW j \in 1 .. M, i < j PROVE MayPrecede(s[i], s[j])
    <3>1. L + i \in 1 .. L + M /\ L + j \in 1 .. L + M /\ L + i < L + j /\ ~(L + i <= L) /\ ~(L + j <= L)
          /\ L + i - L = i /\ L + j - L = j
      BY <1>1, <2>2
    <3>2. d[L + i] = s[i] /\ d[L + j] = s[j]
      BY <1>1, <3>1, SMTT(30)
    <3> QED
      BY <2>0, <3>1, <3>2
  <2>3. ASSUME NEW a \in ToSet(p), NEW b \in ToSet(s) PROVE MayPrecede(a, b)
    <3>1. PICK i \in 1 .. L : a = p[i]
      BY <1>1 DEF ToSet
    <3>2. PICK j \in 1 .. M : b = s[j]
      BY <1>1 DEF ToSet
    <3>3. i \in 1 .. L + M /\ L + j \in 1 .. L + M /\ i < L + j /\ i <= L /\ ~(L + j <= L) /\ L + j - L = j
      BY <1>1
    <3>4. d[i] = p[i] /\ d[L + j] = s[j]
      BY <1>1, <3>3, SMTT(30)
    <3> QED
      BY <2>0, <3>1, <3>2, <3>3, <3>4
  <2>4. InSchemaOrder(p)
    BY <1>1, <2>1 DEF InSchemaOrder, MayPrecede
  <2>5. InSchemaOrder(s)
    BY <1>1, <2>2 DEF InSchemaOrder, MayPrecede
  <2> QED
    BY <2>3, <2>4, <2>5
<1>3. ASSUME InSchemaOrder(p), InSchemaOrder(s), \A a \in ToSet(p), b \in ToSet(s) : MayPrecede(a, b)
      PROVE  InSchemaOrder(d)
  <2>1. \A i, j \in 1 .. L : i < j => MayPrecede(p[i], p[j])
    BY <1>1, <1>3 DEF InSchemaOrder, MayPrecede
  <2>2. \A i, j \in 1 .. M : i < j => MayPrecede(s[i], s[j])
    BY <1>1, <1>3 DEF InSchemaOrder, MayPrecede
  <2>3. ASSUME NEW i \in 1 .. L + M, NEW j \in 1 .. L + M, i < j PROVE MayPrecede(d[i], d[j])
    <3>1. CASE j <= L
      <4>1. i \in 1 .. L /\ j \in 1 .. L /\ d[i] = p[i] /\ d[j] = p[j]
        BY <1>1, <2>3, <3>1
      <4> QED
        BY <2>1, <2>3, <4>1
    <3>2. CASE i <= L /\ ~(j <= L)
      <4>1. d[i] = p[i] /\ d[j] = s[j - L] /\ i \in DOMAIN p /\ j - L \in DOMAIN s
        BY <1>1, <3>2
      <4>2. p[i] \in ToSet(p) /\ s[j - L] \in ToSet(s)
        BY <4>1 DEF ToSet
      <4> QED
        BY <1>3, <4>1, <4>2
    <3>3. CASE ~(i <= L)
      <4>1. d[i] = s[i - L] /\ d[j] = s[j - L] /\ i - L \in 1 .. M /\ j - L \in 1 .. M /\ i - L < j - L
        BY <1>1, <2>3, <3>3
      <4> QED
        BY <2>2, <4>1
    <3> QED
      BY <1>1, <2>3, <3>1, <3>2, <3>3
  <2> QED
    BY <1>1, <2>3 DEF InSchemaOrder, MayPrecede
<1> QED
  BY <1>2, <1>3 DEF d

\* One child is in order.
LEMMA OrderOne ==
  /\ <<>> \in Docs
  /\ \A c \in Children : <<c>> \in Docs
<1>1. <<>> \in Seq(Children) /\ \A c \in Children : <<c>> \in Seq(Children)
  OBVIOUS
<1>2. InSchemaOrder(<<>>)
  BY DEF InSchemaOrder
<1>3. ASSUME NEW c \in Children PROVE InSchemaOrder(<<c>>)
  <2>1. DOMAIN <<c>> = 1 .. 1
    OBVIOUS
  <2>2. \A i, j \in 1 .. 1 : ~(i < j)
    OBVIOUS
  <2> QED
    BY <2>1, <2>2 DEF InSchemaOrder
<1> QED
  BY <1>1, <1>2, <1>3 DEF Docs

\* The order around a child.
LEMMA OrderAround ==
  ASSUME NEW p \in Seq(Children), NEW s \in Seq(Children), NEW c \in Children
  PROVE  /\ p \o <<c>> \o s \in Seq(Children)
         /\ InSchemaOrder(p \o <<c>> \o s) <=>
              /\ InSchemaOrder(p \o s)
              /\ \A a \in ToSet(p) : MayPrecede(a, c)
              /\ \A b \in ToSet(s) : MayPrecede(c, b)
<1> DEFINE one == <<c>>
           q == p \o one
<1>1. one \in Seq(Children) /\ InSchemaOrder(one)
  BY OrderOne DEF Docs
<1>2. ToSet(one) = {c}
  BY DEF ToSet
<1> HIDE DEF one
<1>3. q \in Seq(Children) /\ ToSet(q) = ToSet(p) \cup {c}
  BY <1>1, <1>2, Joined
<1>4. InSchemaOrder(q) <=> InSchemaOrder(p) /\ \A a \in ToSet(p) : MayPrecede(a, c)
  BY <1>1, <1>2, OrderJoined
<1> HIDE DEF q
<1>5. q \o s \in Seq(Children)
  BY <1>3, Joined
<1>6. InSchemaOrder(q \o s) <=>
        InSchemaOrder(q) /\ InSchemaOrder(s) /\ \A a \in ToSet(q), b \in ToSet(s) : MayPrecede(a, b)
  BY <1>3, OrderJoined
<1>7. InSchemaOrder(p \o s) <=>
        InSchemaOrder(p) /\ InSchemaOrder(s) /\ \A a \in ToSet(p), b \in ToSet(s) : MayPrecede(a, b)
  BY OrderJoined
<1>8. (\A a \in ToSet(q), b \in ToSet(s) : MayPrecede(a, b)) <=>
        (\A a \in ToSet(p), b \in ToSet(s) : MayPrecede(a, b)) /\ \A b \in ToSet(s) : MayPrecede(c, b)
  BY <1>3
<1> DEFINE P == InSchemaOrder(p)
           S == InSchemaOrder(s)
           PS == \A a \in ToSet(p), b \in ToSet(s) : MayPrecede(a, b)
           QS == \A a \in ToSet(q), b \in ToSet(s) : MayPrecede(a, b)
           PC == \A a \in ToSet(p) : MayPrecede(a, c)
           CS == \A b \in ToSet(s) : MayPrecede(c, b)
<1>9. /\ InSchemaOrder(q) <=> P /\ PC
      /\ InSchemaOrder(q \o s) <=> InSchemaOrder(q) /\ S /\ QS
      /\ InSchemaOrder(p \o s) <=> P /\ S /\ PS
      /\ QS <=> PS /\ CS
  BY <1>4, <1>6, <1>7, <1>8
<1> HIDE DEF P, S, PS, QS, PC, CS
<1>10. InSchemaOrder(q \o s) <=> InSchemaOrder(p \o s) /\ PC /\ CS
  BY <1>9
<1> QED
  BY <1>5, <1>10 DEF q, one, PC, CS

\* e is d with c put between p and s, or in the place of b.
Put(d, e, c, p, s) == p \in Seq(Children) /\ s \in Seq(Children) /\ d = p \o s /\ e = p \o <<c>> \o s /\ e \in Docs
Swap(d, e, b, c, p, s) ==
  /\ p \in Seq(Children) /\ s \in Seq(Children) /\ b \in Children /\ b.tag = c.tag
  /\ d = p \o <<b>> \o s /\ e = p \o <<c>> \o s /\ e \in Docs

\* A child with another value in its place.
LEMMA Swapped ==
  ASSUME NEW d \in Docs, NEW i \in DOMAIN d, NEW c \in Children, c.tag = d[i].tag
  PROVE  \E p, s : Swap(d, [d EXCEPT ![i] = c], d[i], c, p, s)
<1> DEFINE p == Before(d, i)
           s == After(d, i)
           b == d[i]
           e == [d EXCEPT ![i] = c]
<1>1. d \in Seq(Children) /\ InSchemaOrder(d) /\ b \in Children
  BY DEF Docs
<1>2. p \in Seq(Children) /\ s \in Seq(Children) /\ d = p \o <<b>> \o s /\ e = p \o <<c>> \o s
  BY <1>1, CutAt, SMTT(30)
<1> HIDE DEF p, s, b, e
<1>3. /\ \A a \in ToSet(p) : MayPrecede(a, b)
      /\ \A a \in ToSet(s) : MayPrecede(b, a)
      /\ InSchemaOrder(p \o s)
  BY <1>1, <1>2, OrderAround
<1>a. c.tag = b.tag
  BY DEF b
<1>4. /\ \A a \in ToSet(p) : MayPrecede(a, c)
      /\ \A a \in ToSet(s) : MayPrecede(c, a)
  BY <1>3, <1>a DEF MayPrecede
<1>5. e \in Seq(Children) /\ InSchemaOrder(e)
  BY <1>2, <1>3, <1>4, OrderAround
<1>6. Swap(d, e, b, c, p, s)
  BY <1>1, <1>2, <1>5, <1>a DEF Swap, Docs
<1> QED
  BY <1>6 DEF e, b

\* A child with a new tag, or one more with the tag that repeats.
LEMMA InjectPuts ==
  ASSUME NEW d \in Docs, NEW c \in Children, NEW replace \in BOOLEAN,
         (\A x \in ToSet(d) : x.tag # c.tag) \/ (~replace /\ c.tag = RepeatedTag)
  PROVE  \E p, s : Put(d, Inject(d, c, replace), c, p, s) /\ \A x \in ToSet(s) : x.tag # c.tag
<1> DEFINE last == FindLast(d, c.tag)
           N == Len(d)
           T == {i \in 1 .. N : d[i].tag \notin Predecessors(c.tag)}
           next == SelectInSeq(d, LAMBDA x : x.tag \notin Predecessors(c.tag))
           e == Inject(d, c, replace)
<1>1. d \in Seq(Children) /\ InSchemaOrder(d) /\ N \in Nat /\ DOMAIN d = 1 .. N
  BY DEF Docs
<1>2. c.tag \in AllTags /\ c.tag \in ToSet(ChildOrder)
  BY ChildTyped DEF AllTags
<1>3. \A i \in 1 .. N : d[i] \in Children /\ d[i].tag \in AllTags /\ Place(d[i].tag) \in Nat
  BY <1>1, ChildTyped, Placed
<1>4. \A i, j \in 1 .. N : i < j => MayPrecede(d[i], d[j])
  BY <1>1 DEF InSchemaOrder, MayPrecede
<1>5. Place(c.tag) \in Nat
  BY <1>2, Placed
<1>6. ASSUME last = 0 PROVE \E p, s : Put(d, e, c, p, s) /\ \A x \in ToSet(s) : x.tag # c.tag
  <2>1. \A x \in ToSet(d) : x.tag # c.tag
    BY <1>1, <1>6, FindTheLast
  <2>2. next = IF T # {} THEN Min(T) ELSE 0
    BY DEF SelectInSeq
  <2>3. T \in SUBSET (1 .. N) /\ \A i \in 1 .. N : i \in T <=> ~(Place(d[i].tag) < Place(c.tag))
    BY <1>2, <1>3, PredecessorsPlaced
  <2>4. e = IF next = 0 THEN Append(d, c) ELSE InsertAt(d, next, c)
    BY <1>2, <1>6 DEF Inject
  <2> HIDE DEF T, next, e
  <2>5. T # {} => Min(T) \in T /\ \A i \in T : Min(T) <= i
    BY <1>1, <2>3, FirstFound
  <2>6. next = 0 <=> T = {}
    <3>1. 0 \notin T
      BY <1>1, <2>3
    <3> QED
      BY <2>2, <2>5, <3>1
  <2>7. CASE T = {}
    <3> DEFINE s == <<>>
    <3>1. e = Append(d, c)
      BY <2>4, <2>6, <2>7
    <3>2. e = d \o <<c>>
      BY <1>1, <3>1, AppendIsConcat
    <3>3. s \in Seq(Children) /\ ToSet(s) = {} /\ d \o s = d
      BY <1>1, ConcatEmptySeq DEF ToSet
    <3>4. d \o <<c>> \in Seq(Children)
      BY <1>1, <3>1, <3>2
    <3>5. d \o <<c>> \o s = e
      BY <3>2, <3>4, ConcatEmptySeq
    <3> HIDE DEF s
    <3>6. ASSUME NEW a \in ToSet(d) PROVE MayPrecede(a, c)
      <4>1. PICK i \in 1 .. N : a = d[i]
        BY <1>1 DEF ToSet
      <4>2. Place(d[i].tag) < Place(c.tag)
        BY <2>3, <2>7
      <4> QED
        BY <1>3, <1>5, <2>1, <4>1, <4>2 DEF MayPrecede
    <3>7. e \in Seq(Children) /\ InSchemaOrder(e)
      <4>1. InSchemaOrder(d \o s) /\ \A a \in ToSet(s) : MayPrecede(c, a)
        BY <1>1, <3>3
      <4>2. d \o <<c>> \o s \in Seq(Children) /\ InSchemaOrder(d \o <<c>> \o s)
        BY <1>1, <3>3, <3>6, <4>1, OrderAround
      <4> QED
        BY <3>5, <4>2
    <3>8. Put(d, e, c, d, s) /\ \A x \in ToSet(s) : x.tag # c.tag
      BY <1>1, <3>3, <3>5, <3>7 DEF Put, Docs
    <3> QED
      BY <3>8
  <2>8. CASE T # {}
    <3> DEFINE p == Before(d, next)
               s == SubSeq(d, next, Len(d))
    <3>1. /\ next \in T /\ next \in 1 .. N /\ next # 0
          /\ \A i \in T : next <= i
      BY <2>2, <2>3, <2>5, <2>6, <2>8
    <3>2. e = p \o <<c>> \o s
      BY <2>4, <3>1 DEF InsertAt, Before
    <3>3. next \in 1 .. Len(d) + 1
      BY <1>1, <3>1
    <3>4. /\ p \in Seq(Children) /\ Len(p) = next - 1 /\ \A k \in 1 .. next - 1 : p[k] = d[k]
          /\ s \in Seq(Children) /\ Len(s) = N + 1 - next
          /\ \A k \in 1 .. N + 1 - next : s[k] = d[k + next - 1]
          /\ d = p \o s
      BY <1>1, <3>3, CutBefore
    <3> HIDE DEF p, s
    <3>5. DOMAIN p = 1 .. next - 1 /\ DOMAIN s = 1 .. N + 1 - next
      BY <3>4
    <3>6. ASSUME NEW a \in ToSet(p) PROVE MayPrecede(a, c)
      <4>1. PICK i \in 1 .. next - 1 : a = d[i]
        BY <3>4, <3>5 DEF ToSet
      <4>2. i \in 1 .. N /\ i < next
        BY <1>1, <3>1
      <4>3. i \notin T
        BY <1>1, <3>1, <4>2
      <4>4. Place(a.tag) < Place(c.tag) /\ Place(a.tag) \in Nat
        BY <1>3, <2>3, <4>1, <4>2, <4>3
      <4> QED
        BY <1>5, <4>4 DEF MayPrecede
    <3>7. ASSUME NEW a \in ToSet(s) PROVE MayPrecede(c, a) /\ a.tag # c.tag
      <4>1. PICK k \in 1 .. N + 1 - next : a = s[k]
        BY <3>5 DEF ToSet
      <4>2. k + next - 1 \in 1 .. N /\ next <= k + next - 1
        BY <1>1, <3>1
      <4>3. PICK j \in 1 .. N : a = d[j] /\ next <= j
        BY <3>4, <4>1, <4>2
      <4>4. Place(d[next].tag) <= Place(d[j].tag)
        <5>1. CASE next = j
          BY <1>3, <5>1
        <5>2. CASE next < j
          BY <1>4, <3>1, <5>2 DEF MayPrecede
        <5> QED
          BY <1>1, <3>1, <4>3, <5>1, <5>2
      <4>5. ~(Place(d[next].tag) < Place(c.tag)) /\ Place(d[next].tag) \in Nat /\ Place(d[j].tag) \in Nat
        BY <1>3, <2>3, <3>1
      <4>6. Place(c.tag) <= Place(d[j].tag)
        BY <1>5, <4>4, <4>5
      <4>7. a.tag # c.tag
        <5>1. a \in ToSet(d)
          BY <1>1, <4>3 DEF ToSet
        <5> QED
          BY <2>1, <5>1
      <4> QED
        BY <4>3, <4>6, <4>7 DEF MayPrecede
    <3>8. e \in Seq(Children) /\ InSchemaOrder(e)
      <4>1. InSchemaOrder(p \o s)
        BY <1>1, <3>4
      <4> QED
        BY <3>2, <3>4, <3>6, <3>7, <4>1, OrderAround
    <3>9. Put(d, e, c, p, s) /\ \A x \in ToSet(s) : x.tag # c.tag
      BY <3>2, <3>4, <3>7, <3>8 DEF Put, Docs
    <3> QED
      BY <3>9
  <2> QED
    BY <2>7, <2>8
<1>7. ASSUME last # 0 PROVE \E p, s : Put(d, e, c, p, s) /\ \A x \in ToSet(s) : x.tag # c.tag
  <2>1. last \in DOMAIN d /\ d[last].tag = c.tag /\ \A i \in DOMAIN d : i > last => d[i].tag # c.tag
    BY <1>1, <1>7, FindTheLast
  <2>2. ~replace /\ c.tag = RepeatedTag
    BY <2>1 DEF ToSet
  <2>3. e = InsertAt(d, last + 1, c)
    BY <1>7, <2>2 DEF Inject
  <2> HIDE DEF last, e
  <2> DEFINE g == last + 1
             p == Before(d, g)
             s == SubSeq(d, g, Len(d))
  <2>4. last \in 1 .. N /\ g \in 1 .. Len(d) + 1
    BY <1>1, <2>1
  <2>5. e = p \o <<c>> \o s
    BY <2>3 DEF InsertAt, Before
  <2>6. /\ p \in Seq(Children) /\ Len(p) = g - 1 /\ \A k \in 1 .. g - 1 : p[k] = d[k]
        /\ s \in Seq(Children) /\ Len(s) = N + 1 - g
        /\ \A k \in 1 .. N + 1 - g : s[k] = d[k + g - 1]
        /\ d = p \o s
    BY <1>1, <2>4, CutBefore
  <2> HIDE DEF p, s
  <2>7. DOMAIN p = 1 .. last /\ DOMAIN s = 1 .. N - last
    BY <1>1, <2>4, <2>6
  <2>8. ASSUME NEW a \in ToSet(p) PROVE MayPrecede(a, c)
    <3>1. PICK i \in 1 .. last : a = p[i]
      BY <2>7 DEF ToSet
    <3>2. a = d[i] /\ i \in 1 .. N
      BY <1>1, <2>4, <2>6, <3>1
    <3>3. Place(d[i].tag) <= Place(d[last].tag)
      <4>1. CASE i = last
        BY <1>3, <3>2, <4>1
      <4>2. CASE i < last
        BY <1>4, <2>4, <3>2, <4>2 DEF MayPrecede
      <4> QED
        BY <1>1, <2>4, <4>1, <4>2
    <3> QED
      BY <2>1, <2>2, <3>2, <3>3 DEF MayPrecede
  <2>9. ASSUME NEW a \in ToSet(s) PROVE MayPrecede(c, a) /\ a.tag # c.tag
    <3>1. PICK k \in 1 .. N - last : a = s[k]
      BY <2>7 DEF ToSet
    <3>2. k + last \in 1 .. N /\ last < k + last /\ k \in 1 .. N + 1 - g /\ k + g - 1 = k + last
      BY <1>1, <2>4
    <3>3. PICK j \in 1 .. N : a = d[j] /\ last < j
      BY <2>6, <3>1, <3>2
    <3>4. MayPrecede(d[last], d[j])
      BY <1>4, <2>4, <3>3
    <3>5. d[j].tag # c.tag
      <4>1. j \in DOMAIN d /\ j > last
        BY <1>1, <2>4, <3>3
      <4> QED
        BY <2>1, <4>1
    <3> QED
      BY <2>1, <3>3, <3>4, <3>5 DEF MayPrecede
  <2>10. e \in Seq(Children) /\ InSchemaOrder(e)
    <3>1. InSchemaOrder(p \o s)
      BY <1>1, <2>6
    <3> QED
      BY <2>5, <2>6, <2>8, <2>9, <3>1, OrderAround
  <2>11. Put(d, e, c, p, s) /\ \A x \in ToSet(s) : x.tag # c.tag
    BY <2>5, <2>6, <2>9, <2>10 DEF Put, Docs
  <2> QED
    BY <2>11
<1> QED
  BY <1>6, <1>7

\* A child in the place of the one with its tag.
LEMMA InjectSwaps ==
  ASSUME NEW d \in Docs, NEW c \in Children, \E x \in ToSet(d) : x.tag = c.tag
  PROVE  \E b, p, s : Swap(d, Inject(d, c, TRUE), b, c, p, s)
<1> DEFINE last == FindLast(d, c.tag)
<1>1. last \in DOMAIN d /\ d[last].tag = c.tag /\ last # 0
  BY FindTheLast DEF Docs
<1>2. Inject(d, c, TRUE) = [d EXCEPT ![last] = c]
  BY <1>1 DEF Inject
<1> HIDE DEF last
<1>3. \E p, s : Swap(d, [d EXCEPT ![last] = c], d[last], c, p, s)
  BY <1>1, Swapped
<1> QED
  BY <1>2, <1>3

-----------------------------------------------------------------------------
(* What the edits of a document come to.                                   *)

\* The children with a tag.
Of(d, t) == {x \in ToSet(d) : x.tag = t}

\* Nothing but the children with the tag t differs.
Same(d, e, t) == e \in Docs /\ \A u : u # t => ValuesOf(e, u) = ValuesOf(d, u) /\ Of(e, u) = Of(d, u)

\* c is the only child with its tag.
Only(d, c) == ValuesOf(d, c.tag) = <<c.val>> /\ Of(d, c.tag) = {c}

\* There is one more value at the end.
Grown(d, e, c) == ValuesOf(e, c.tag) = Append(ValuesOf(d, c.tag), c.val)

\* Two edits of the same tag are an edit of it.
LEMMA SameTwice ==
  ASSUME NEW d, NEW e, NEW f, NEW t, Same(d, e, t), Same(e, f, t)
  PROVE  Same(d, f, t)
  BY DEF Same

\* A child with a new tag, or one more.
LEMMA PutEffect ==
  ASSUME NEW d, NEW e, NEW c \in Children, NEW p, NEW s, Put(d, e, c, p, s), \A x \in ToSet(s) : x.tag # c.tag
  PROVE  Same(d, e, c.tag) /\ Grown(d, e, c) /\ Of(e, c.tag) = Of(d, c.tag) \cup {c}
<1>1. p \in Seq(Children) /\ s \in Seq(Children) /\ d = p \o s /\ e = p \o <<c>> \o s /\ e \in Docs
  BY DEF Put
<1>a. p \in Seq(Children) /\ s \in Seq(Children)
  BY <1>1
<1>2. ToSet(e) = ToSet(p) \cup {c} \cup ToSet(s)
  BY <1>1, Between
<1>3. ToSet(d) = ToSet(p) \cup ToSet(s)
  BY <1>1, Joined
<1>4. ASSUME NEW u, u # c.tag PROVE ValuesOf(e, u) = ValuesOf(d, u) /\ Of(e, u) = Of(d, u)
  <2>a. SameValues(p \o <<c>> \o s, p \o s, u)
    BY <1>a, <1>4, ValuesAround
  <2>1. ValuesOf(e, u) = ValuesOf(d, u)
    BY <1>1, <2>a DEF SameValues
  <2>2. Of(e, u) = Of(d, u)
    BY <1>2, <1>3, <1>4 DEF Of
  <2> QED
    BY <2>1, <2>2
<1>5. Of(e, c.tag) = Of(d, c.tag) \cup {c}
  BY <1>2, <1>3 DEF Of
<1> DEFINE t == c.tag
           a == ValuesOf(p, t)
           one == <<c.val>>
           none == <<>>
<1>6. ValuesOf(s, t) = none
  BY <1>1, ValuesNone
<1>7. ValuesOf(e, t) = a \o one \o ValuesOf(s, t)
  BY <1>1, ValuesAround
<1>8. ValuesOf(d, t) = a \o ValuesOf(s, t)
  BY <1>1, ValuesJoined
<1>9. a \in Seq(AnyVal) /\ c.val \in AnyVal /\ one \in Seq(AnyVal)
  BY <1>1, ValuesTyped, ChildTyped
<1>10. Append(a, c.val) = a \o one
  BY <1>9, AppendIsConcat
<1> HIDE DEF a, one
<1>11. a \o none = a /\ a \o one \o none = a \o one
  <2>1. a \o one \in Seq(AnyVal)
    BY <1>9, ConcatProperties
  <2> QED
    BY <1>9, <2>1, ConcatEmptySeq
<1>12. ValuesOf(e, t) = Append(ValuesOf(d, t), c.val)
  BY <1>6, <1>7, <1>8, <1>10, <1>11
<1> QED
  BY <1>1, <1>4, <1>5, <1>12 DEF Same, Grown

\* A tag that occurs once has one value.
LEMMA SingleValue ==
  ASSUME NEW e \in Docs, NEW c \in Children, c.tag # RepeatedTag, NEW p \in Seq(Children), NEW s \in Seq(Children),
         e = p \o <<c>> \o s
  PROVE  Only(e, c)
<1>1. e \in Seq(Children) /\ InSchemaOrder(e)
  BY DEF Docs
<1>2. (\A a \in ToSet(p) : MayPrecede(a, c)) /\ \A a \in ToSet(s) : MayPrecede(c, a)
  BY <1>1, OrderAround
<1>3. (\A a \in ToSet(p) : a.tag # c.tag) /\ \A a \in ToSet(s) : a.tag # c.tag
  BY <1>2 DEF MayPrecede
<1>4. ToSet(e) = ToSet(p) \cup {c} \cup ToSet(s)
  BY Between
<1>5. Of(e, c.tag) = {c}
  BY <1>3, <1>4 DEF Of
<1> DEFINE t == c.tag
           one == <<c.val>>
<1>6. ValuesOf(s, t) = <<>> /\ ValuesOf(p, t) = <<>>
  BY <1>3, ValuesNone
<1>7. ValuesOf(e, t) = ValuesOf(p, t) \o one \o ValuesOf(s, t)
  BY ValuesAround
<1>8. c.val \in AnyVal /\ one \in Seq(AnyVal)
  BY ChildTyped
<1> HIDE DEF one
<1>9. <<>> \o one = one /\ one \o <<>> = one
  BY <1>8, ConcatEmptySeq
<1>10. ValuesOf(e, t) = one
  BY <1>6, <1>7, <1>9
<1> QED
  BY <1>5, <1>10 DEF one, Only

\* A child in the place of another.
LEMMA SwapEffect ==
  ASSUME NEW d \in Docs, NEW e, NEW b, NEW c \in Children, NEW p, NEW s, Swap(d, e, b, c, p, s)
  PROVE  /\ Same(d, e, c.tag)
         /\ c.tag # RepeatedTag => Only(d, b) /\ Only(e, c)
<1>1. /\ p \in Seq(Children) /\ s \in Seq(Children) /\ b \in Children /\ b.tag = c.tag
      /\ d = p \o <<b>> \o s /\ e = p \o <<c>> \o s /\ e \in Docs
  BY DEF Swap
<1>a. p \in Seq(Children) /\ s \in Seq(Children) /\ b \in Children
  BY <1>1
<1>b. /\ ToSet(p \o <<c>> \o s) = ToSet(p) \cup {c} \cup ToSet(s)
      /\ ToSet(p \o <<b>> \o s) = ToSet(p) \cup {b} \cup ToSet(s)
  BY <1>a, Between
<1>2. ToSet(e) = ToSet(p) \cup {c} \cup ToSet(s)
  BY <1>1, <1>b
<1>3. ToSet(d) = ToSet(p) \cup {b} \cup ToSet(s)
  BY <1>1, <1>b
<1>4. ASSUME NEW u, u # c.tag PROVE ValuesOf(e, u) = ValuesOf(d, u) /\ Of(e, u) = Of(d, u)
  <2>a. SameValues(p \o <<c>> \o s, p \o s, u)
    BY <1>a, <1>4, ValuesAround
  <2>b. b.tag # u
    BY <1>1, <1>4
  <2>c. SameValues(p \o <<b>> \o s, p \o s, u)
    BY <1>a, <2>b, ValuesAround
  <2>1. ValuesOf(e, u) = ValuesOf(p \o s, u)
    BY <1>1, <2>a DEF SameValues
  <2>2. ValuesOf(d, u) = ValuesOf(p \o s, u)
    BY <1>1, <2>c DEF SameValues
  <2>3. Of(e, u) = Of(d, u)
    BY <1>1, <1>2, <1>3, <1>4 DEF Of
  <2> QED
    BY <2>1, <2>2, <2>3
<1>5. Same(d, e, c.tag)
  BY <1>1, <1>4 DEF Same
<1>6. ASSUME c.tag # RepeatedTag PROVE Only(d, b)
  BY <1>1, <1>6, SingleValue
<1>7. ASSUME c.tag # RepeatedTag PROVE Only(e, c)
  BY <1>1, <1>7, SingleValue
<1> QED
  BY <1>5, <1>6, <1>7

\* A single child that is put in, whether or not there was one.
LEMMA InjectEffect ==
  ASSUME NEW d \in Docs, NEW c \in Children, c.tag # RepeatedTag
  PROVE  LET e == Inject(d, c, TRUE) IN
         Same(d, e, c.tag) /\ Only(e, c)
<1> DEFINE e == Inject(d, c, TRUE)
<1>1. CASE \A x \in ToSet(d) : x.tag # c.tag
  <2>1. PICK p, s : Put(d, e, c, p, s) /\ \A x \in ToSet(s) : x.tag # c.tag
    BY <1>1, InjectPuts
  <2> HIDE DEF e
  <2>2. p \in Seq(Children) /\ s \in Seq(Children) /\ e = p \o <<c>> \o s /\ e \in Docs
    BY <2>1 DEF Put
  <2>3. Same(d, e, c.tag)
    BY <2>1, PutEffect
  <2>4. Only(e, c)
    BY <2>2, SingleValue
  <2> QED
    BY <2>3, <2>4 DEF e
<1>2. CASE \E x \in ToSet(d) : x.tag = c.tag
  <2>1. PICK b, p, s : Swap(d, e, b, c, p, s)
    BY <1>2, InjectSwaps
  <2> HIDE DEF e
  <2>2. Same(d, e, c.tag) /\ Only(e, c)
    BY <2>1, SwapEffect
  <2> QED
    BY <2>2 DEF e
<1> QED
  BY <1>1, <1>2

\* A single child with another value.
LEMMA ReviseEffect ==
  ASSUME NEW d \in Docs, NEW i \in DOMAIN d, NEW c \in Children, c.tag = d[i].tag, c.tag # RepeatedTag
  PROVE  LET e == [d EXCEPT ![i] = c] IN
         Same(d, e, c.tag) /\ Only(e, c) /\ Only(d, d[i])
<1> DEFINE e == [d EXCEPT ![i] = c]
<1>1. PICK p, s : Swap(d, e, d[i], c, p, s)
  BY Swapped
<1> HIDE DEF e
<1>2. Same(d, e, c.tag) /\ Only(e, c) /\ Only(d, d[i])
  BY <1>1, SwapEffect
<1> QED
  BY <1>2 DEF e

\* A text that is set.
LEMMA SetParmValueEffect ==
  ASSUME NEW d \in Docs, NEW t \in TextTags, NEW v \in Vals
  PROVE  Same(d, SetParmValue(d, t, v), t) /\ ValuesOf(SetParmValue(d, t, v), t) = <<v>>
<1>1. t \in AllTags /\ t # ListTag /\ t # RepeatedTag /\ v \in AnyVal
  BY WrapperConstantsOK DEF AnyVal
<1>2. CASE Find(d, t) = 0
  <2> DEFINE c == Child(t, v, 0)
  <2>1. c \in Children /\ c.tag = t /\ c.val = v
    BY <1>1 DEF Child, Children
  <2>2. SetParmValue(d, t, v) = Inject(d, c, TRUE)
    BY <1>2 DEF SetParmValue
  <2> HIDE DEF c
  <2> QED
    BY <1>1, <2>1, <2>2, InjectEffect DEF Only
<1>3. CASE Find(d, t) # 0
  <2> DEFINE i == Find(d, t)
             c == [d[i] EXCEPT !.val = v]
  <2>1. i \in DOMAIN d /\ d[i].tag = t /\ d \in Seq(Children)
    BY <1>3, FindFirst DEF Docs
  <2>2. d[i] \in Children
    BY <2>1
  <2>3. c \in Children /\ c.tag = t /\ c.val = v
    BY <1>1, <2>1, <2>2 DEF Children
  <2>4. SetParmValue(d, t, v) = [d EXCEPT ![i] = c]
    BY <1>3 DEF SetParmValue
  <2> HIDE DEF c, i
  <2>5. c.tag = d[i].tag /\ c.tag # RepeatedTag
    BY <1>1, <2>1, <2>3
  <2>6. Same(d, [d EXCEPT ![i] = c], c.tag) /\ Only([d EXCEPT ![i] = c], c)
    BY <2>1, <2>3, <2>5, ReviseEffect
  <2> QED
    BY <2>3, <2>4, <2>6 DEF Only
<1> QED
  BY <1>2, <1>3

\* The list of a document, if it has one.
LEMMA TheList ==
  ASSUME NEW d \in Docs
  PROVE  /\ Find(d, ListTag) = 0 => Of(d, ListTag) = {} /\ ValuesOf(d, ListTag) = <<>>
         /\ Find(d, ListTag) # 0 => /\ Find(d, ListTag) \in DOMAIN d /\ d[Find(d, ListTag)] \in Children
                                    /\ Of(d, ListTag) = {d[Find(d, ListTag)]}
                                    /\ ValuesOf(d, ListTag) = <<d[Find(d, ListTag)].val>>
                                    /\ d[Find(d, ListTag)].tag = ListTag /\ d[Find(d, ListTag)].val \in Seq(Items)
<1>0. d \in Seq(Children) /\ ListTag # RepeatedTag
  BY WrapperConstantsOK DEF Docs
<1>1. ASSUME Find(d, ListTag) = 0 PROVE Of(d, ListTag) = {} /\ ValuesOf(d, ListTag) = <<>>
  <2>1. \A c \in ToSet(d) : c.tag # ListTag
    BY <1>0, <1>1, FindFirst
  <2>2. ValuesOf(d, ListTag) = <<>>
    BY <1>0, <2>1, ValuesNone
  <2> QED
    BY <2>1, <2>2 DEF Of
<1>2. ASSUME Find(d, ListTag) # 0
      PROVE  /\ Find(d, ListTag) \in DOMAIN d /\ d[Find(d, ListTag)] \in Children
             /\ Of(d, ListTag) = {d[Find(d, ListTag)]}
             /\ ValuesOf(d, ListTag) = <<d[Find(d, ListTag)].val>>
             /\ d[Find(d, ListTag)].tag = ListTag /\ d[Find(d, ListTag)].val \in Seq(Items)
  <2> DEFINE i == Find(d, ListTag)
             c == d[i]
  <2>1. i \in DOMAIN d /\ d[i].tag = ListTag
    BY <1>0, <1>2, FindFirst
  <2>2. c \in Children /\ c.tag = ListTag
    BY <1>0, <2>1
  <2>3. c.val \in Seq(Items)
    BY <2>2, ChildTyped
  <2>4. ValuesOf(d, ListTag) = <<d[i].val>> /\ Of(d, ListTag) = {d[i]}
    <3> HIDE DEF i, c
    <3>1. c = d[i]
      BY DEF c
    <3>2. c.tag # RepeatedTag /\ c.tag = d[i].tag
      BY <1>0, <2>1, <2>2
    <3>3. Only(d, d[i])
      BY <2>1, <2>2, <3>2, ReviseEffect
    <3> QED
      BY <2>1, <3>3 DEF Only
  <2> QED
    BY <2>1, <2>2, <2>3, <2>4
<1> QED
  BY <1>1, <1>2

\* A list that is put in the place of another, or seeded.
LEMMA ListPutIn ==
  ASSUME NEW d \in Docs, NEW vs \in Seq(Items), NEW n \in Nat
  PROVE  LET e == Inject(d, Child(ListTag, vs, n), TRUE) IN
         Same(d, e, ListTag) /\ ValuesOf(e, ListTag) = <<vs>> /\ Of(e, ListTag) = {Child(ListTag, vs, n)}
<1> DEFINE c == Child(ListTag, vs, n)
<1>1. c \in Children /\ c.tag = ListTag /\ c.val = vs /\ c.tag # RepeatedTag
  BY WrapperConstantsOK DEF Child, Children, AnyVal
<1> HIDE DEF c
<1>2. Same(d, Inject(d, c, TRUE), ListTag) /\ Only(Inject(d, c, TRUE), c)
  BY <1>1, InjectEffect
<1>3. ValuesOf(Inject(d, c, TRUE), ListTag) = <<vs>> /\ Of(Inject(d, c, TRUE), ListTag) = {c}
  BY <1>1, <1>2 DEF Only
<1> QED
  BY <1>2, <1>3 DEF c

\* What a list says.
ListOf(d) == Said(ValuesOf(d, ListTag), ListTag)

\* What is said of the list is what its one element contains.
LEMMA SaidOnce ==
  /\ \A vs : Said(<<vs>>, ListTag) = vs
  /\ Said(<<>>, ListTag) = <<>>
  /\ \A vs, t : t # ListTag => Said(vs, t) = vs
<1>1. ASSUME NEW vs PROVE Said(<<vs>>, ListTag) = vs
  <2>1. <<vs>> # <<>> /\ Head(<<vs>>) = vs
    OBVIOUS
  <2> QED
    BY <2>1 DEF Said
<1> QED
  BY <1>1 DEF Said

\* A list that is read.
LEMMA FindOrSeedEffect ==
  ASSUME NEW d \in Docs, NEW n \in Nat
  PROVE  LET e == FindOrSeed(d, n) IN
         /\ Same(d, e, ListTag) /\ ListOf(e) = ListOf(d)
         /\ e[Find(e, ListTag)] \in Children /\ Of(e, ListTag) = {e[Find(e, ListTag)]}
         /\ IsSeeded(d) => e = d
         /\ ~IsSeeded(d) => Of(e, ListTag) = {Child(ListTag, <<>>, n)}
<1> DEFINE e == FindOrSeed(d, n)
           one == Child(ListTag, <<>>, n)
<1>1. CASE IsSeeded(d)
  <2>1. e = d
    BY <1>1 DEF FindOrSeed
  <2>2. Find(d, ListTag) # 0
    BY <1>1 DEF IsSeeded
  <2>3. Same(d, d, ListTag)
    BY DEF Same
  <2> HIDE DEF e
  <2> QED
    BY <1>1, <2>1, <2>2, <2>3, TheList DEF e
<1>2. CASE ~IsSeeded(d)
  <2>1. <<>> \in Seq(Items)
    OBVIOUS
  <2>2. e = Inject(d, Child(ListTag, <<>>, n), TRUE)
    BY <1>2 DEF FindOrSeed
  <2>3. Same(d, e, ListTag) /\ ValuesOf(e, ListTag) = <<<<>>>> /\ Of(e, ListTag) = {one}
    BY <2>1, <2>2, ListPutIn
  <2> HIDE DEF e, one
  <2>4. ListOf(e) = <<>>
    BY <2>3, SaidOnce DEF ListOf
  <2>5. ListOf(d) = <<>>
    <3>1. CASE Find(d, ListTag) = 0
      BY <3>1, TheList, SaidOnce DEF ListOf
    <3>2. CASE Find(d, ListTag) # 0
      <4>1. d[Find(d, ListTag)].val = <<>>
        BY <1>2, <3>2 DEF IsSeeded
      <4> QED
        BY <3>2, <4>1, TheList, SaidOnce DEF ListOf
    <3> QED
      BY <3>1, <3>2
  <2>6. e \in Docs
    BY <2>3 DEF Same
  <2>7. Find(e, ListTag) # 0
    BY <2>3, <2>6, TheList
  <2>8. e[Find(e, ListTag)] \in Children /\ Of(e, ListTag) = {e[Find(e, ListTag)]}
    BY <2>6, <2>7, TheList
  <2> QED
    BY <1>2, <2>3, <2>4, <2>5, <2>8 DEF e, one
<1> QED
  BY <1>1, <1>2

\* A list whose elements are edited.
ListEdited(d, e, i, vs) ==
  /\ Same(d, e, ListTag) /\ ListOf(e) = vs /\ ListOf(d) = d[i].val
  /\ Of(d, ListTag) = {d[i]} /\ \A n : (\E c \in Of(e, ListTag) : c.id = n) <=> n = d[i].id

\* A list whose elements change is still the list, with the same identity.
LEMMA EditListEffect ==
  ASSUME NEW d \in Docs, NEW i \in DOMAIN d, d[i].tag = ListTag, NEW vs \in Seq(Items)
  PROVE  ListEdited(d, [d EXCEPT ![i].val = vs], i, vs)
<1> DEFINE c == [d[i] EXCEPT !.val = vs]
           e == [d EXCEPT ![i] = c]
<1>1. d \in Seq(Children) /\ d[i] \in Children
  BY DEF Docs
<1>2. c \in Children /\ c.tag = ListTag /\ c.val = vs /\ c.id = d[i].id
  BY <1>1 DEF Children, AnyVal
<1>3. [d EXCEPT ![i].val = vs] = e
  OBVIOUS
<1> HIDE DEF c
<1>4. c.tag = d[i].tag /\ c.tag # RepeatedTag
  BY <1>2, WrapperConstantsOK
<1>5. Same(d, e, c.tag) /\ Only(e, c) /\ Only(d, d[i])
  BY <1>2, <1>4, ReviseEffect
<1> HIDE DEF e
<1>6. ValuesOf(e, ListTag) = <<vs>> /\ Of(e, ListTag) = {c}
  BY <1>2, <1>5 DEF Only
<1>7. ValuesOf(d, ListTag) = <<d[i].val>> /\ Of(d, ListTag) = {d[i]}
  BY <1>5 DEF Only
<1>8. ListOf(e) = vs /\ ListOf(d) = d[i].val
  BY <1>6, <1>7, SaidOnce DEF ListOf
<1>9. \A n : (\E x \in Of(e, ListTag) : x.id = n) <=> n = d[i].id
  BY <1>2, <1>6
<1>10. ListEdited(d, e, i, vs)
  BY <1>2, <1>5, <1>7, <1>8, <1>9 DEF ListEdited
<1> QED
  BY <1>3, <1>10

\* A value that is appended.
LEMMA AppendValueEffect ==
  ASSUME NEW d \in Docs, NEW v \in Vals
  PROVE  LET e == AppendValue(d, v) IN
         Same(d, e, RepeatedTag) /\ ValuesOf(e, RepeatedTag) = Append(ValuesOf(d, RepeatedTag), v)
<1> DEFINE c == Child(RepeatedTag, v, 0)
           e == Inject(d, c, FALSE)
<1>1. c \in Children /\ c.tag = RepeatedTag /\ c.val = v
  BY WrapperConstantsOK DEF Child, Children, AnyVal
<1>2. AppendValue(d, v) = e
  BY DEF AppendValue
<1> HIDE DEF c
<1>3. PICK p, s : Put(d, e, c, p, s) /\ \A x \in ToSet(s) : x.tag # c.tag
  BY <1>1, InjectPuts
<1> HIDE DEF e
<1>4. Same(d, e, c.tag) /\ Grown(d, e, c)
  BY <1>1, <1>3, PutEffect
<1> QED
  BY <1>1, <1>2, <1>4 DEF Grown

\* The first of a value in a sequence, removed.
WithoutFirst(a, v, b) == RemoveFirst(a \o <<v>> \o b, v) = a \o b

\* What is removed is the first occurrence.
LEMMA FirstRemoved ==
  ASSUME NEW a \in Seq(AnyVal), NEW b \in Seq(AnyVal), NEW v \in AnyVal, v \notin ToSet(a)
  PROVE  WithoutFirst(a, v, b)
<1> DEFINE s == a \o <<v>> \o b
           L == Len(a)
           M == Len(b)
           T == {i \in 1 .. Len(s) : s[i] = v}
           k == SelectInSeq(s, LAMBDA x : x = v)
<1>1. /\ s \in Seq(AnyVal) /\ Len(s) = L + 1 + M /\ L \in Nat /\ M \in Nat
      /\ \A i \in 1 .. L + 1 + M : s[i] = IF i <= L THEN a[i] ELSE IF i = L + 1 THEN v ELSE b[i - L - 1]
      /\ DOMAIN a = 1 .. L /\ DOMAIN s = 1 .. L + 1 + M
  <2>1. /\ a \o <<v>> \o b \in Seq(AnyVal) /\ DOMAIN (a \o <<v>> \o b) = 1 .. L + 1 + M
        /\ \A i \in 1 .. L + 1 + M : (a \o <<v>> \o b)[i] = IF i <= L THEN a[i] ELSE IF i = L + 1 THEN v ELSE b[i - L - 1]
    BY Between
  <2>2. s \in Seq(AnyVal) /\ DOMAIN s = 1 .. L + 1 + M /\ L \in Nat /\ M \in Nat
    BY <2>1
  <2>3. Len(s) = L + 1 + M
    BY <2>2
  <2> QED
    BY <2>1, <2>2, <2>3
<1> HIDE DEF s
<1>2. L + 1 \in T /\ T \in SUBSET (1 .. Len(s))
  BY <1>1
<1>3. k = IF T # {} THEN Min(T) ELSE 0
  BY DEF SelectInSeq
<1>4. ASSUME NEW i \in T PROVE L + 1 <= i
  <2>1. i \in 1 .. L + 1 + M /\ s[i] = v
    BY <1>1
  <2>2. CASE i <= L
    <3>1. a[i] = v /\ i \in DOMAIN a
      BY <1>1, <2>1, <2>2
    <3> QED
      BY <3>1 DEF ToSet
  <2> QED
    BY <1>1, <2>1, <2>2
<1>5. \E i \in 1 .. Len(s) : s[i] = v
  BY <1>2
<1>6. RemoveFirst(s, v) = RemoveAt(s, k)
  BY <1>5 DEF RemoveFirst
<1> HIDE DEF T, k
<1>7. k = L + 1
  <2>1. k \in T /\ \A i \in T : k <= i
    <3>1. Min(T) \in T /\ \A i \in T : Min(T) <= i
      <4>1. Len(s) \in Nat /\ T # {}
        BY <1>1, <1>2
      <4> QED
        BY <1>2, <4>1, FirstFound
    <3>2. k = Min(T)
      BY <1>2, <1>3
    <3> QED
      BY <3>1, <3>2
  <2>2. k \in Nat
    BY <1>1, <1>2, <2>1
  <2> QED
    BY <1>1, <1>2, <1>4, <2>1, <2>2
<1> DEFINE p == Before(s, k)
           q == After(s, k)
<1>8. k \in DOMAIN s
  BY <1>1, <1>7
<1>9. /\ p \in Seq(AnyVal) /\ Len(p) = k - 1 /\ \A i \in 1 .. k - 1 : p[i] = s[i]
      /\ q \in Seq(AnyVal) /\ Len(q) = Len(s) - k /\ \A i \in 1 .. Len(s) - k : q[i] = s[i + k]
  <2>1. s \in Seq(AnyVal)
    BY <1>1
  <2> QED
    BY <1>8, <2>1, Sides
<1>10. RemoveAt(s, k) = p \o q
  BY DEF RemoveAt, Before, After
<1> HIDE DEF p, q
<1>11. p = a
  <2>1. Len(p) = Len(a) /\ \A i \in 1 .. Len(p) : p[i] = a[i]
    BY <1>1, <1>7, <1>9
  <2> QED
    BY <1>9, <2>1, SeqEqual
<1>12. q = b
  <2>1. Len(q) = Len(b)
    BY <1>1, <1>7, <1>9
  <2>2. ASSUME NEW i \in 1 .. Len(q) PROVE q[i] = b[i]
    <3>1. /\ i \in 1 .. Len(s) - k /\ i + k \in 1 .. L + 1 + M /\ ~(i + k <= L) /\ i + k # L + 1 /\ i + k - L - 1 = i
      BY <1>1, <1>7, <1>9
    <3>2. q[i] = s[i + k]
      BY <1>9, <3>1
    <3>3. s[i + k] = b[i + k - L - 1]
      <4>1. \A j \in 1 .. L + 1 + M : ~(j <= L) /\ j # L + 1 => s[j] = b[j - L - 1]
        BY <1>1
      <4> DEFINE j == i + k
      <4>2. j \in 1 .. L + 1 + M /\ ~(j <= L) /\ j # L + 1
        BY <3>1
      <4> HIDE DEF j
      <4>3. s[j] = b[j - L - 1]
        BY <4>1, <4>2
      <4>4. i \in Nat /\ k \in Nat /\ L \in Nat
        BY <1>1, <1>7, <1>9
      <4> QED
        BY <4>3, <4>4 DEF j
    <3> QED
      BY <3>1, <3>2, <3>3
  <2> QED
    BY <1>9, <2>1, <2>2, SeqEqual
<1> QED
  BY <1>6, <1>10, <1>11, <1>12 DEF WithoutFirst, s

\* The first child that repeats with a value.
LEMMA FindValueFirst ==
  ASSUME NEW d \in Seq(Children), NEW v
  PROVE  /\ FindValue(d, v) = 0 <=> \A c \in ToSet(d) : ~(c.tag = RepeatedTag /\ c.val = v)
         /\ FindValue(d, v) # 0 =>
              /\ FindValue(d, v) \in DOMAIN d
              /\ d[FindValue(d, v)].tag = RepeatedTag /\ d[FindValue(d, v)].val = v
              /\ \A i \in DOMAIN d : i < FindValue(d, v) => ~(d[i].tag = RepeatedTag /\ d[i].val = v)
<1> DEFINE T == {i \in 1 .. Len(d) : d[i].tag = RepeatedTag /\ d[i].val = v}
           k == FindValue(d, v)
<1>1. Len(d) \in Nat /\ DOMAIN d = 1 .. Len(d) /\ T \in SUBSET (1 .. Len(d))
  OBVIOUS
<1>2. k = IF T # {} THEN Min(T) ELSE 0
  BY DEF FindValue, SelectInSeq
<1>3. T = {} <=> \A c \in ToSet(d) : ~(c.tag = RepeatedTag /\ c.val = v)
  BY <1>1 DEF ToSet
<1>4. \A i \in DOMAIN d : i \in T <=> d[i].tag = RepeatedTag /\ d[i].val = v
  BY <1>1
<1> HIDE DEF T, k
<1>5. T # {} => Min(T) \in T /\ \A i \in T : Min(T) <= i
  BY <1>1, FirstFound
<1>6. T # {} => k \in T /\ \A i \in T : k <= i
  BY <1>2, <1>5
<1>7. k = 0 <=> T = {}
  <2>1. 0 \notin T
    BY <1>1
  <2> QED
    BY <1>2, <1>5, <2>1
<1>8. ASSUME T # {}, NEW i \in DOMAIN d, i < k PROVE i \notin T
  <2>1. k \in 1 .. Len(d) /\ i \in 1 .. Len(d)
    BY <1>1, <1>6, <1>8
  <2> QED
    BY <1>1, <1>6, <1>8, <2>1
<1>9. k # 0 => k \in DOMAIN d /\ k \in T
  BY <1>1, <1>6, <1>7
<1> QED
  BY <1>3, <1>4, <1>7, <1>8, <1>9 DEF k

\* A value that is removed.
Shrunk(d, e, v) == ValuesOf(e, RepeatedTag) = RemoveFirst(ValuesOf(d, RepeatedTag), v)

\* RemoveValue removes the first of a value from what is said of RepeatedTag.
LEMMA RemoveValueEffect ==
  ASSUME NEW d \in Docs, NEW v, FindValue(d, v) # 0
  PROVE  Same(d, RemoveValue(d, v), RepeatedTag) /\ Shrunk(d, RemoveValue(d, v), v)
<1> DEFINE i == FindValue(d, v)
           c == d[i]
           p == Before(d, i)
           s == After(d, i)
           t == RepeatedTag
           e == RemoveValue(d, v)
<1>0. d \in Seq(Children) /\ InSchemaOrder(d)
  BY DEF Docs
<1>1. i \in DOMAIN d /\ d[i].tag = t /\ d[i].val = v /\ \A j \in DOMAIN d : j < i => ~(d[j].tag = t /\ d[j].val = v)
  BY <1>0, FindValueFirst
<1> HIDE DEF i
<1>2. c \in Children /\ c.tag = t /\ c.val = v
  BY <1>0, <1>1
<1>3. e = RemoveAt(d, i)
  BY DEF RemoveValue, i
<1> HIDE DEF e
<1>4. /\ p \in Seq(Children) /\ Len(p) = i - 1 /\ (\A k \in 1 .. i - 1 : p[k] = d[k]) /\ s \in Seq(Children)
  BY <1>0, <1>1, Sides
<1>5. d = p \o <<c>> \o s /\ RemoveAt(d, i) = p \o s
  BY <1>0, <1>1, <1>2, CutAt
<1> HIDE DEF p, s, c
<1>6. e = p \o s
  BY <1>3, <1>5
<1>7. e \in Docs
  <2>1. p \o <<c>> \o s \in Seq(Children) /\ InSchemaOrder(p \o <<c>> \o s)
    BY <1>0, <1>5
  <2>2. InSchemaOrder(p \o s)
    BY <1>2, <1>4, <2>1, OrderAround
  <2>3. p \o s \in Seq(Children)
    BY <1>4, Joined
  <2> QED
    BY <1>6, <2>2, <2>3 DEF Docs
<1>8. ASSUME NEW u, u # t PROVE ValuesOf(e, u) = ValuesOf(d, u) /\ Of(e, u) = Of(d, u)
  <2>1. SameValues(p \o <<c>> \o s, p \o s, u)
    BY <1>2, <1>4, <1>8, ValuesAround
  <2>2. ToSet(p \o <<c>> \o s) = ToSet(p) \cup {c} \cup ToSet(s)
    BY <1>2, <1>4, Between
  <2>3. ToSet(p \o s) = ToSet(p) \cup ToSet(s)
    BY <1>4, Joined
  <2>4. Of(e, u) = Of(d, u)
    <3>1. ToSet(d) = ToSet(e) \cup {c}
      BY <1>5, <1>6, <2>2, <2>3
    <3> QED
      BY <1>2, <1>8, <3>1 DEF Of
  <2> QED
    BY <1>5, <1>6, <2>1, <2>4 DEF SameValues
<1> DEFINE a == ValuesOf(p, t)
           b == ValuesOf(s, t)
<1>9. v \notin ToSet(a)
  <2> SUFFICES ASSUME v \in ToSet(a) PROVE FALSE
    OBVIOUS
  <2>1. PICK x \in ToSet(p) : x.tag = t /\ x.val = v
    BY <1>4, ValuesMembers
  <2>2. PICK k \in DOMAIN p : x = p[k]
    BY <2>1 DEF ToSet
  <2>3. k \in 1 .. i - 1 /\ k \in DOMAIN d /\ k < i
    BY <1>0, <1>1, <1>4, <2>2
  <2> QED
    BY <1>1, <1>4, <2>1, <2>2, <2>3
<1>10. a \in Seq(AnyVal) /\ b \in Seq(AnyVal) /\ v \in AnyVal
  BY <1>2, <1>4, ValuesTyped, ChildTyped
<1>11. WithoutFirst(a, v, b)
  BY <1>9, <1>10, FirstRemoved
<1>12. ValuesOf(p \o <<c>> \o s, t) = ValuesOf(p, t) \o (IF c.tag = t THEN <<c.val>> ELSE <<>>) \o ValuesOf(s, t)
  BY <1>2, <1>4, ValuesAround
<1>13. ValuesOf(p \o s, t) = ValuesOf(p, t) \o ValuesOf(s, t)
  BY <1>4, ValuesJoined
<1>14. ValuesOf(p \o <<c>> \o s, t) = a \o <<v>> \o b
  BY <1>2, <1>12
<1> HIDE DEF a, b
<1>15. ValuesOf(d, t) = a \o <<v>> \o b
  BY <1>5, <1>14
<1>16. ValuesOf(e, t) = a \o b
  BY <1>6, <1>13 DEF a, b
<1>17. Shrunk(d, e, v)
  BY <1>11, <1>15, <1>16 DEF Shrunk, WithoutFirst
<1>18. Same(d, e, t)
  BY <1>7, <1>8 DEF Same
<1> QED
  BY <1>17, <1>18 DEF e

\* All values that are removed.
IsCleared(d, vs, f) == f = [n \in 0 .. Len(vs) |-> IF n = 0 THEN d ELSE RemoveValue(f[n - 1], vs[n])]
Emptied(e) == ValuesOf(e, RepeatedTag) = <<>>

\* The rest of a sequence, from its first element.
LEMMA RestOf ==
  ASSUME NEW vs \in Seq(AnyVal), NEW n \in 1 .. Len(vs)
  PROVE  /\ SubSeq(vs, n + 1, Len(vs)) \in Seq(AnyVal) /\ vs[n] \in AnyVal
         /\ vs[n] \in ToSet(SubSeq(vs, n, Len(vs)))
         /\ RemoveFirst(SubSeq(vs, n, Len(vs)), vs[n]) = SubSeq(vs, n + 1, Len(vs))
<1> DEFINE N == Len(vs)
           r == SubSeq(vs, n + 1, N)
           q == SubSeq(vs, n, N)
           v == vs[n]
           none == <<>>
<1>1. N \in Nat /\ n \in 1 .. N /\ N \in n .. N
  OBVIOUS
<1>2. r \in Seq(AnyVal) /\ v \in AnyVal
  <2>1. n + 1 \in 1 .. Len(vs) + 1 /\ N \in 0 .. Len(vs) /\ n + 1 <= N + 1
    BY <1>1
  <2> QED
    BY <2>1, Part
<1>3. q = <<v>> \o r
  BY <1>1, SubSeqRecursiveFirst
<1>4. none \in Seq(AnyVal) /\ ToSet(none) = {}
  BY DEF ToSet
<1>5. none \o <<v>> = <<v>> /\ none \o r = r
  <2>1. <<v>> \in Seq(AnyVal)
    BY <1>2
  <2> QED
    BY <1>2, <2>1, ConcatEmptySeq
<1>6. ToSet(none \o <<v>> \o r) = ToSet(none) \cup {v} \cup ToSet(r)
  <2> HIDE DEF none, v, r
  <2> QED
    BY <1>2, <1>4, Between
<1> HIDE DEF none, v, r, q
<1>7. WithoutFirst(none, v, r)
  BY <1>2, <1>4, FirstRemoved
<1>8. RemoveFirst(q, v) = r
  BY <1>3, <1>5, <1>7 DEF WithoutFirst
<1>9. v \in ToSet(q)
  BY <1>3, <1>5, <1>6
<1> QED
  BY <1>2, <1>8, <1>9 DEF v, r, q

\* ClearValues removes every value, and nothing else.
LEMMA ClearValuesEffect ==
  ASSUME NEW d \in Docs
  PROVE  Same(d, ClearValues(d), RepeatedTag) /\ Emptied(ClearValues(d))
<1> DEFINE vs == ValuesOf(d, RepeatedTag)
           N == Len(vs)
           G == [p \in (1 .. N) \X Docs |->
                   IF FindValue(p[2], vs[p[1]]) # 0 THEN RemoveValue(p[2], vs[p[1]]) ELSE p[2]]
           h == CHOOSE f : IsCleared(d, vs, f)
<1>1. vs \in Seq(AnyVal) /\ d \in Seq(Children)
  BY ValuesTyped DEF Docs
<1>2. N \in Nat
  BY <1>1
<1>3. ClearValues(d) = h[N]
  BY DEF ClearValues, IsCleared
<1> HIDE DEF vs, h
<1>4. G \in [(1 .. N) \X Docs -> Docs]
  <2> SUFFICES ASSUME NEW p \in (1 .. N) \X Docs
               PROVE  (IF FindValue(p[2], vs[p[1]]) # 0 THEN RemoveValue(p[2], vs[p[1]]) ELSE p[2]) \in Docs
    OBVIOUS
  <2>1. p[2] \in Docs
    OBVIOUS
  <2>2. FindValue(p[2], vs[p[1]]) # 0 => Same(p[2], RemoveValue(p[2], vs[p[1]]), RepeatedTag)
    BY <2>1, RemoveValueEffect
  <2> QED
    BY <2>1, <2>2 DEF Same
<1>5. ASSUME NEW n \in 1 .. N, NEW e \in Docs
      PROVE  G[<<n, e>>] = IF FindValue(e, vs[n]) # 0 THEN RemoveValue(e, vs[n]) ELSE e
  OBVIOUS
<1> HIDE DEF G
<1>6. PICK f : Stepped(N, Docs, d, G, f)
  BY <1>2, <1>4, StepsExist
<1>7. f \in [0 .. N -> Docs] /\ \A n \in 0 .. N : f[n] = IF n = 0 THEN d ELSE G[<<n, f[n - 1]>>]
  BY <1>6 DEF Stepped
<1> DEFINE Left(e, n) == Same(d, e, RepeatedTag) /\ ValuesOf(e, RepeatedTag) = SubSeq(vs, n + 1, N)
           T == {n \in 0 .. N : Left(f[n], n)}
<1>8. 0 \in T
  <2>0. 0 \in 0 .. N
    BY <1>2
  <2>1. f[0] = d /\ Same(d, d, RepeatedTag)
    BY <1>7, <2>0 DEF Same
  <2>2. SubSeq(vs, 1, Len(vs)) = vs
    BY <1>1, SubSeqFull
  <2>3. ValuesOf(d, RepeatedTag) = SubSeq(vs, 0 + 1, N)
    BY <2>2 DEF vs
  <2> QED
    BY <2>0, <2>1, <2>3
<1>9. ASSUME NEW n \in 1 .. N, n - 1 \in T
      PROVE  n \in T /\ f[n] = RemoveValue(f[n - 1], vs[n])
  <2> DEFINE e == f[n - 1]
  <2>1. n \in 0 .. N /\ n - 1 \in 0 .. N /\ n # 0 /\ n - 1 + 1 = n
    BY <1>2
  <2>2. e \in Docs /\ f[n] = G[<<n, e>>]
    BY <1>7, <2>1
  <2>3. Left(e, n - 1)
    BY <1>9
  <2>4. Same(d, e, RepeatedTag) /\ ValuesOf(e, RepeatedTag) = SubSeq(vs, n, N)
    BY <2>1, <2>3
  <2> HIDE DEF e
  <2>5. /\ vs[n] \in ToSet(SubSeq(vs, n, N))
        /\ RemoveFirst(SubSeq(vs, n, N), vs[n]) = SubSeq(vs, n + 1, N)
    BY <1>1, RestOf
  <2>6. FindValue(e, vs[n]) # 0
    <3>1. e \in Seq(Children) /\ vs[n] \in ToSet(ValuesOf(e, RepeatedTag))
      BY <2>2, <2>4, <2>5 DEF Docs
    <3>2. \E c \in ToSet(e) : c.tag = RepeatedTag /\ c.val = vs[n]
      BY <3>1, ValuesMembers
    <3> QED
      BY <3>1, <3>2, FindValueFirst
  <2>7. f[n] = RemoveValue(e, vs[n])
    BY <1>5, <2>2, <2>6
  <2>8. Same(e, f[n], RepeatedTag) /\ Shrunk(e, f[n], vs[n])
    BY <2>2, <2>6, <2>7, RemoveValueEffect
  <2>9. Same(d, f[n], RepeatedTag)
    BY <2>4, <2>8, SameTwice
  <2>10. ValuesOf(f[n], RepeatedTag) = SubSeq(vs, n + 1, N)
    BY <2>4, <2>5, <2>8 DEF Shrunk
  <2> QED
    BY <2>1, <2>7, <2>9, <2>10 DEF e
<1>10. \A n \in 0 .. N : n \in T
  <2> HIDE DEF T
  <2> QED
    BY <1>2, <1>8, <1>9, UpToN
<1>11. ASSUME NEW n \in 0 .. N PROVE f[n] = IF n = 0 THEN d ELSE RemoveValue(f[n - 1], vs[n])
  <2>1. CASE n = 0
    BY <1>7, <2>1
  <2>2. CASE n # 0
    <3>1. n \in 1 .. N /\ n - 1 \in 0 .. N
      BY <1>2, <2>2
    <3> HIDE DEF T
    <3> QED
      BY <1>9, <1>10, <2>2, <3>1
  <2> QED
    BY <2>1, <2>2
<1>12. IsCleared(d, vs, f)
  <2>1. f = [n \in 0 .. N |-> f[n]]
    BY <1>7
  <2> QED
    BY <1>11, <2>1 DEF IsCleared
<1>13. IsCleared(d, vs, h)
  BY <1>12 DEF h
<1>14. \A n \in 0 .. N : h[n] = IF n = 0 THEN d ELSE RemoveValue(h[n - 1], vs[n])
  BY <1>13 DEF IsCleared
<1> DEFINE U == {n \in 0 .. N : h[n] = f[n]}
<1>15. 0 \in U
  BY <1>2, <1>11, <1>14
<1>16. ASSUME NEW n \in 1 .. N, n - 1 \in U PROVE n \in U
  <2>1. n \in 0 .. N /\ n # 0 /\ h[n - 1] = f[n - 1]
    BY <1>2, <1>16
  <2> QED
    BY <1>11, <1>14, <2>1
<1>17. h[N] = f[N]
  <2> HIDE DEF U
  <2>1. \A n \in 0 .. N : n \in U
    BY <1>2, <1>15, <1>16, UpToN
  <2>2. N \in U
    BY <1>2, <2>1
  <2> QED
    BY <2>2 DEF U
<1>18. N \in T
  BY <1>2, <1>10
<1>19. Same(d, f[N], RepeatedTag) /\ ValuesOf(f[N], RepeatedTag) = SubSeq(vs, N + 1, N)
  BY <1>18
<1>20. SubSeq(vs, N + 1, N) = <<>>
  BY <1>2, SubSeqEmpty
<1> QED
  BY <1>3, <1>17, <1>19, <1>20 DEF Emptied

\* Values that replace all values.
IsFilled(d, vs, f) == f = [n \in 0 .. Len(vs) |-> IF n = 0 THEN ClearValues(d) ELSE AppendValue(f[n - 1], vs[n])]

\* SetElemList leaves exactly the values it is given.
LEMMA SetElemListEffect ==
  ASSUME NEW d \in Docs, NEW vs \in Seq(Vals)
  PROVE  Same(d, SetElemList(d, vs), RepeatedTag) /\ ValuesOf(SetElemList(d, vs), RepeatedTag) = vs
<1> DEFINE N == Len(vs)
           start == ClearValues(d)
           G == [p \in (1 .. N) \X Docs |-> AppendValue(p[2], vs[p[1]])]
           h == CHOOSE f : IsFilled(d, vs, f)
<1>1. N \in Nat /\ \A n \in 1 .. N : vs[n] \in Vals
  OBVIOUS
<1>2. Same(d, start, RepeatedTag) /\ ValuesOf(start, RepeatedTag) = <<>>
  BY ClearValuesEffect DEF Emptied
<1>3. SetElemList(d, vs) = h[N]
  BY DEF SetElemList, IsFilled
<1> HIDE DEF start, h
<1>a. start \in Docs
  BY <1>2 DEF Same
<1>4. G \in [(1 .. N) \X Docs -> Docs]
  <2> SUFFICES ASSUME NEW p \in (1 .. N) \X Docs PROVE AppendValue(p[2], vs[p[1]]) \in Docs
    OBVIOUS
  <2>1. p[2] \in Docs /\ vs[p[1]] \in Vals
    BY <1>1
  <2>2. Same(p[2], AppendValue(p[2], vs[p[1]]), RepeatedTag)
    BY <2>1, AppendValueEffect
  <2> QED
    BY <2>2 DEF Same
<1>5. ASSUME NEW n \in 1 .. N, NEW e \in Docs PROVE G[<<n, e>>] = AppendValue(e, vs[n])
  OBVIOUS
<1> HIDE DEF G
<1>6. PICK f : Stepped(N, Docs, start, G, f)
  BY <1>1, <1>4, <1>a, StepsExist
<1>7. f \in [0 .. N -> Docs] /\ \A n \in 0 .. N : f[n] = IF n = 0 THEN start ELSE G[<<n, f[n - 1]>>]
  BY <1>6 DEF Stepped
<1>8. ASSUME NEW n \in 0 .. N PROVE f[n] = IF n = 0 THEN start ELSE AppendValue(f[n - 1], vs[n])
  <2>1. CASE n = 0
    BY <1>7, <2>1
  <2>2. CASE n # 0
    <3>1. n \in 1 .. N /\ n - 1 \in 0 .. N
      BY <1>1, <2>2
    <3> QED
      BY <1>5, <1>7, <2>2, <3>1
  <2> QED
    BY <2>1, <2>2
<1>9. IsFilled(d, vs, f)
  <2>1. f = [n \in 0 .. N |-> f[n]]
    BY <1>7
  <2> QED
    BY <1>8, <2>1 DEF IsFilled, start
<1>10. IsFilled(d, vs, h)
  BY <1>9 DEF h
<1>11. \A n \in 0 .. N : h[n] = IF n = 0 THEN start ELSE AppendValue(h[n - 1], vs[n])
  BY <1>10 DEF IsFilled, start
<1> DEFINE Filled(e, n) == Same(d, e, RepeatedTag) /\ ValuesOf(e, RepeatedTag) = SubSeq(vs, 1, n)
           T == {n \in 0 .. N : h[n] = f[n] /\ Filled(f[n], n)}
<1>12. 0 \in T
  <2>1. SubSeq(vs, 1, 0) = <<>>
    BY SubSeqEmpty
  <2>2. 0 \in 0 .. N
    BY <1>1
  <2>3. f[0] = start /\ h[0] = start
    BY <1>8, <1>11, <2>2
  <2> QED
    BY <1>2, <2>1, <2>2, <2>3
<1>13. ASSUME NEW n \in 1 .. N, n - 1 \in T PROVE n \in T
  <2> DEFINE e == f[n - 1]
  <2>1. n \in 0 .. N /\ n - 1 \in 0 .. N /\ n # 0 /\ 1 \in 1 .. N /\ vs[n] \in Vals
    BY <1>1
  <2>2. e \in Docs /\ f[n] = AppendValue(e, vs[n]) /\ h[n - 1] = e
    BY <1>7, <1>8, <1>13, <2>1
  <2>3. Same(d, e, RepeatedTag) /\ ValuesOf(e, RepeatedTag) = SubSeq(vs, 1, n - 1)
    BY <1>13
  <2> HIDE DEF e
  <2>4. Same(e, f[n], RepeatedTag) /\ ValuesOf(f[n], RepeatedTag) = Append(ValuesOf(e, RepeatedTag), vs[n])
    BY <2>1, <2>2, AppendValueEffect
  <2>5. SubSeq(vs, 1, n) = Append(SubSeq(vs, 1, n - 1), vs[n])
    <3>1. SubSeq(vs, 1, n) = SubSeq(vs, 1, n - 1) \o <<vs[n]>>
      BY <1>1, <2>1, SubSeqRecursiveSecond
    <3>2. SubSeq(vs, 1, n - 1) \in Seq(Vals)
      <4>1. 1 \in 1 .. Len(vs) + 1 /\ 1 <= n - 1 + 1
        BY <1>1
      <4> QED
        BY <2>1, <4>1, Part
    <3> QED
      BY <2>1, <3>1, <3>2, AppendIsConcat
  <2>6. Same(d, f[n], RepeatedTag)
    BY <2>3, <2>4, SameTwice
  <2>7. h[n] = f[n]
    BY <1>11, <2>1, <2>2
  <2> QED
    BY <2>1, <2>3, <2>4, <2>5, <2>6, <2>7
<1>14. N \in T
  <2> HIDE DEF T
  <2>1. \A n \in 0 .. N : n \in T
    BY <1>1, <1>12, <1>13, UpToN
  <2> QED
    BY <1>1, <2>1
<1>15. h[N] = f[N] /\ Same(d, f[N], RepeatedTag) /\ ValuesOf(f[N], RepeatedTag) = SubSeq(vs, 1, N)
  BY <1>14
<1>16. SubSeq(vs, 1, Len(vs)) = vs
  BY SubSeqFull
<1> QED
  BY <1>3, <1>15, <1>16

-----------------------------------------------------------------------------
(* The invariant: what is typed, what a wrapper says, which views count.   *)

WObjects == ToSet(WrapObjects)
PlainDocs == {d \in Docs : \A c \in ToSet(d) : c.id = 0}
Stored == [ver : Nat, up : BOOLEAN, doc : PlainDocs]
Contents == {Content(d) : d \in Docs}

\* A wrapper says what was put into it; its lists have identities that were given out.
Wraps ==
  {w \in [obj : WObjects, etag : Nat \cup {NoEtag}, doc : Docs, made : Nat, content : Contents] :
     Content(w.doc) = w.content /\ \A c \in Of(w.doc, ListTag) : c.id <= w.made}

Views == [of : Nat, id : Nat, hist : {"live", "reseeded", "replaced"}]
HasList(d, n) == \E c \in Of(d, ListTag) : c.id = n

\* A view counts as long as the list it is a view of is in the document.
ViewOK(v, wr) ==
  v \in Views /\ v.of \in DOMAIN wr /\ v.id <= wr[v.of].made /\ (v.hist = "live" <=> HasList(wr[v.of].doc, v.id))
ViewsOK(hd, wr) ==
  hd \in [Holders -> Views \cup {NoList}] /\ \A h \in Holders : hd[h] # NoList => ViewOK(hd[h], wr)

DocumentsOK == srv \in [WObjects -> Stored] /\ wrap \in Seq(Wraps) /\ ViewsOK(held, wrap)

\* What the server may hold is a document in order.
LEMMA ServerDocsPlain == ServerDocs \subseteq PlainDocs
<1> SUFFICES ASSUME NEW d \in ServerDocs PROVE d \in PlainDocs
  OBVIOUS
<1>1. /\ d \in Seq(ToSet(d)) /\ InSchemaOrder(d)
      /\ \A c \in ToSet(d) : c = Child(c.tag, c.val, 0) /\ c.tag \in AllTags
      /\ \A c \in ToSet(d) : c.tag = ListTag => c.val \in Seq(ToSet(c.val))
  BY WrapperConstantsOK
<1>2. ASSUME NEW c \in ToSet(d) PROVE c \in Children /\ c.id = 0
  <2>1. c \in ServerChildren
    BY DEF ServerChildren
  <2>2. c.val \in AnyVal
    BY <2>1 DEF AnyVal
  <2>3. c = [tag |-> c.tag, val |-> c.val, id |-> 0] /\ c.tag \in AllTags
    BY <1>1 DEF Child
  <2>4. ASSUME c.tag = ListTag PROVE c.val \in Seq(Items)
    <3>1. ToSet(c.val) \subseteq Items
      BY <2>1, <2>4 DEF Items
    <3>2. c.val \in Seq(ToSet(c.val))
      BY <1>1, <2>4
    <3> QED
      BY <3>1, <3>2, SeqMonotonic
  <2>5. c \in [tag : AllTags, val : AnyVal, id : Nat] /\ c.id = 0
    BY <2>2, <2>3
  <2> QED
    BY <2>4, <2>5 DEF Children
<1>3. d \in Seq(Children)
  <2>1. ToSet(d) \subseteq Children
    BY <1>2
  <2> QED
    BY <1>1, <2>1, SeqMonotonic
<1> QED
  BY <1>1, <1>2, <1>3 DEF PlainDocs, Docs

\* What is sent has no identities, and is in order as well.
LEMMA SentPlain == ASSUME NEW d \in Docs PROVE Sent(d) \in PlainDocs
<1> DEFINE e == Sent(d)
<1>1. d \in Seq(Children) /\ InSchemaOrder(d) /\ Len(d) \in Nat /\ DOMAIN d = 1 .. Len(d)
  BY DEF Docs
<1>2. e = [i \in 1 .. Len(d) |-> [d[i] EXCEPT !.id = 0]]
  BY <1>1 DEF Sent
<1> HIDE DEF e
<1>3. ASSUME NEW i \in 1 .. Len(d) PROVE e[i] \in Children /\ e[i].id = 0 /\ e[i].tag = d[i].tag
  <2>1. d[i] \in Children
    BY <1>1
  <2>2. e[i] = [d[i] EXCEPT !.id = 0]
    BY <1>2
  <2> QED
    BY <2>1, <2>2 DEF Children
<1>4. e \in Seq(Children) /\ DOMAIN e = 1 .. Len(d)
  <2>1. e \in [1 .. Len(d) -> Children]
    BY <1>2, <1>3
  <2> QED
    BY <1>1, <2>1, SeqDef
<1>5. InSchemaOrder(e)
  BY <1>1, <1>3, <1>4 DEF InSchemaOrder
<1>6. \A c \in ToSet(e) : c.id = 0
  BY <1>3, <1>4 DEF ToSet
<1> QED
  BY <1>4, <1>5, <1>6 DEF PlainDocs, Docs, e

\* The children with a tag are children.
LEMMA OfTyped == ASSUME NEW d \in Docs, NEW t PROVE \A c \in Of(d, t) : c \in Children /\ c \in ToSet(d)
<1>1. d \in Seq(Children)
  BY DEF Docs
<1>2. \A c \in ToSet(d) : c \in Children
  BY <1>1 DEF ToSet
<1> QED
  BY <1>2 DEF Of

\* A wrapper whose document was edited at a tag.
Edited(w, e, m, t, vs) ==
  [obj |-> w.obj, etag |-> w.etag, doc |-> e, made |-> m, content |-> [w.content EXCEPT ![t] = vs]]

\* The fields of a wrapper.
LEMMA WrapTyped ==
  ASSUME NEW w \in Wraps
  PROVE  /\ w \in [obj : WObjects, etag : Nat \cup {NoEtag}, doc : Docs, made : Nat, content : Contents]
         /\ w.doc \in Docs /\ w.made \in Nat /\ w.content = Content(w.doc)
         /\ \A c \in Of(w.doc, ListTag) : c.id <= w.made
  BY DEF Wraps

\* An edit of one tag that keeps the order makes a wrapper that says what was put.
LEMMA EditedWraps ==
  ASSUME NEW w \in Wraps, NEW e, NEW m \in Nat, NEW t \in AllTags, NEW vs,
         Same(w.doc, e, t), Said(ValuesOf(e, t), t) = vs, \A c \in Of(e, ListTag) : c.id <= m
  PROVE  Edited(w, e, m, t, vs) \in Wraps
<1> DEFINE v == Edited(w, e, m, t, vs)
<1>1. e \in Docs /\ \A u : u # t => ValuesOf(e, u) = ValuesOf(w.doc, u)
  BY DEF Same
<1>2. w.content = [u \in AllTags |-> Said(ValuesOf(w.doc, u), u)]
  BY WrapTyped DEF Content
<1>3. [w.content EXCEPT ![t] = vs] = [u \in AllTags |-> Said(ValuesOf(e, u), u)]
  BY <1>1, <1>2
<1>4. [w.content EXCEPT ![t] = vs] = Content(e)
  BY <1>3 DEF Content
<1>5. w.obj \in WObjects /\ w.etag \in Nat \cup {NoEtag}
  BY WrapTyped
<1>6. Content(e) \in Contents
  BY <1>1 DEF Contents
<1>7. v = [obj |-> w.obj, etag |-> w.etag, doc |-> e, made |-> m, content |-> Content(e)]
  BY <1>4 DEF Edited
<1> HIDE DEF v
<1>8. v \in [obj : WObjects, etag : Nat \cup {NoEtag}, doc : Docs, made : Nat, content : Contents]
  BY <1>1, <1>5, <1>6, <1>7
<1>9. Content(v.doc) = v.content /\ \A c \in Of(v.doc, ListTag) : c.id <= v.made
  BY <1>7
<1> QED
  BY <1>8, <1>9 DEF Wraps, v

\* What does not touch the lists of the wrappers there are leaves the views as they are.
KeepsLists(wr, wr2) ==
  DOMAIN wr \subseteq DOMAIN wr2
  /\ \A i \in DOMAIN wr : wr2[i].made = wr[i].made /\ \A n : HasList(wr2[i].doc, n) <=> HasList(wr[i].doc, n)

\* The wrappers there are stay the wrappers of their objects, at the same versions.
Later(wr, wr2) ==
  DOMAIN wr \subseteq DOMAIN wr2 /\ \A i \in DOMAIN wr : wr2[i].obj = wr[i].obj /\ wr2[i].etag = wr[i].etag

\* The views stay as they are.
LEMMA ViewsKept ==
  ASSUME NEW hd, NEW wr, NEW wr2, ViewsOK(hd, wr), KeepsLists(wr, wr2)
  PROVE  ViewsOK(hd, wr2)
<1>1. ASSUME NEW h \in Holders, hd[h] # NoList PROVE ViewOK(hd[h], wr2)
  <2>1. ViewOK(hd[h], wr)
    BY <1>1 DEF ViewsOK
  <2>2. /\ hd[h].of \in DOMAIN wr2 /\ wr2[hd[h].of].made = wr[hd[h].of].made
        /\ HasList(wr2[hd[h].of].doc, hd[h].id) <=> HasList(wr[hd[h].of].doc, hd[h].id)
    BY <2>1 DEF ViewOK, KeepsLists
  <2> QED
    BY <2>1, <2>2 DEF ViewOK
<1> QED
  BY <1>1 DEF ViewsOK

\* More wrappers change nothing about the ones there are.
LEMMA WrappersAdded ==
  ASSUME NEW wr \in Seq(Wraps), NEW more \in Seq(Wraps)
  PROVE  /\ wr \o more \in Seq(Wraps) /\ KeepsLists(wr, wr \o more)
         /\ DOMAIN wr \subseteq DOMAIN (wr \o more) /\ \A i \in DOMAIN wr : (wr \o more)[i] = wr[i]
<1> DEFINE all == wr \o more
<1>1. /\ all \in Seq(Wraps) /\ DOMAIN all = 1 .. Len(wr) + Len(more)
      /\ \A k \in 1 .. Len(wr) + Len(more) : all[k] = IF k <= Len(wr) THEN wr[k] ELSE more[k - Len(wr)]
  BY Joined
<1>2. DOMAIN wr = 1 .. Len(wr) /\ Len(wr) \in Nat /\ Len(more) \in Nat
  OBVIOUS
<1> HIDE DEF all
<1>3. DOMAIN wr \subseteq DOMAIN all /\ \A i \in DOMAIN wr : all[i] = wr[i]
  BY <1>1, <1>2
<1>4. KeepsLists(wr, all)
  BY <1>3 DEF KeepsLists
<1> QED
  BY <1>1, <1>3, <1>4 DEF all

\* A list that is new is not the one of any view there is.
LEMMA ViewsSuperseded ==
  ASSUME NEW wr \in Seq(Wraps), ViewsOK(held, wr), NEW w \in DOMAIN wr, NEW e, NEW vs,
         Of(e, ListTag) = {Child(ListTag, vs, wr[w].made + 1)},
         NEW hist \in {"reseeded", "replaced"}, NEW wr2,
         wr2 = [wr EXCEPT ![w] = Edited(wr[w], e, wr[w].made + 1, ListTag, vs)]
  PROVE  ViewsOK(Supersede(w, hist), wr2)
<1> DEFINE hd == Supersede(w, hist)
<1>0. hd = [h \in Holders |-> IF held[h] # NoList /\ held[h].of = w THEN [held[h] EXCEPT !.hist = hist] ELSE held[h]]
  BY DEF Supersede
<1> HIDE DEF hd
<1>1. DOMAIN wr2 = DOMAIN wr /\ \A i \in DOMAIN wr : i # w => wr2[i] = wr[i]
  OBVIOUS
<1>2. wr2[w] = Edited(wr[w], e, wr[w].made + 1, ListTag, vs) /\ wr[w] \in Wraps
  OBVIOUS
<1>3. wr2[w].made = wr[w].made + 1 /\ wr2[w].doc = e /\ wr[w].made \in Nat
  BY <1>2, WrapTyped DEF Edited
<1>4. \A n : HasList(e, n) <=> n = wr[w].made + 1
  BY DEF HasList, Child
<1>5. ASSUME NEW h \in Holders, held[h] # NoList PROVE ViewOK(held[h], wr)
  BY <1>5 DEF ViewsOK
<1>6. ASSUME NEW h \in Holders PROVE hd[h] \in Views \cup {NoList} /\ (hd[h] # NoList => ViewOK(hd[h], wr2))
  <2>1. CASE held[h] = NoList
    BY <1>0, <2>1
  <2>2. CASE held[h] # NoList /\ held[h].of # w
    <3>1. ViewOK(held[h], wr) /\ hd[h] = held[h]
      BY <1>0, <1>5, <2>2
    <3>2. wr2[held[h].of] = wr[held[h].of] /\ held[h].of \in DOMAIN wr2
      BY <1>1, <2>2, <3>1 DEF ViewOK
    <3> QED
      BY <3>1, <3>2 DEF ViewOK
  <2>3. CASE held[h] # NoList /\ held[h].of = w
    <3>1. held[h] \in Views /\ held[h].id <= wr[w].made
      BY <1>5, <2>3 DEF ViewOK
    <3>2. hd[h] = [held[h] EXCEPT !.hist = hist]
      BY <1>0, <2>3
    <3>3. hd[h] \in Views /\ hd[h].of = w /\ hd[h].id = held[h].id /\ hd[h].hist # "live" /\ hd[h].id \in Nat
      BY <2>3, <3>1, <3>2 DEF Views
    <3>4. ~HasList(e, hd[h].id) /\ hd[h].id <= wr2[w].made
      BY <1>3, <1>4, <3>1, <3>3
    <3> QED
      BY <1>1, <1>3, <3>3, <3>4 DEF ViewOK
  <2> QED
    BY <2>1, <2>2, <2>3
<1> QED
  BY <1>0, <1>6 DEF ViewsOK, hd

-----------------------------------------------------------------------------
(* Every step keeps the documents and the views in order.                  *)

\* Nothing is wrapped at first, and the server's documents are in order.
LEMMA DocumentsInit == ASSUME WrapperInit PROVE DocumentsOK
<1>1. srv \in [WObjects -> {[ver |-> 1, up |-> TRUE, doc |-> d] : d \in ServerDocs}]
  BY DEF WrapperInit, WObjects
<1>2. {[ver |-> 1, up |-> TRUE, doc |-> d] : d \in ServerDocs} \subseteq Stored
  <2> SUFFICES ASSUME NEW d \in ServerDocs PROVE [ver |-> 1, up |-> TRUE, doc |-> d] \in Stored
    OBVIOUS
  <2>1. d \in PlainDocs
    BY ServerDocsPlain
  <2> QED
    BY <2>1 DEF Stored
<1>3. srv \in [WObjects -> Stored]
  BY <1>1, <1>2
<1>4. wrap = <<>> /\ held = [h \in Holders |-> NoList]
  BY DEF WrapperInit, NoWrappersYet
<1>5. wrap \in Seq(Wraps) /\ ViewsOK(held, wrap)
  BY <1>4 DEF ViewsOK
<1> QED
  BY <1>3, <1>5 DEF DocumentsOK

\* What is got from the server is a wrapper that says what the server holds.
LEMMA StoredTyped ==
  ASSUME DocumentsOK, NEW o \in WObjects
  PROVE  srv[o].ver \in Nat /\ srv[o].up \in BOOLEAN /\ srv[o].doc \in PlainDocs /\ srv[o] \in Stored /\ srv[o].doc \in Docs
  BY DEF DocumentsOK, Stored, PlainDocs

\* A document of the server, wrapped, is a wrapper.
LEMMA WrappedWraps == ASSUME DocumentsOK, NEW o \in WObjects PROVE Wrapped(o) \in Wraps
<1> DEFINE d == srv[o].doc
<1>1. d \in Docs /\ srv[o].ver \in Nat /\ \A c \in ToSet(d) : c.id = 0
  BY StoredTyped DEF PlainDocs
<1>2. Wrapped(o) = [obj |-> o, etag |-> srv[o].ver, doc |-> d, made |-> 0, content |-> Content(d)]
  BY DEF Wrapped
<1> HIDE DEF d
<1>3. \A c \in Of(d, ListTag) : c.id <= 0
  BY <1>1 DEF Of
<1>4. Content(d) \in Contents
  BY <1>1 DEF Contents
<1> QED
  BY <1>1, <1>2, <1>3, <1>4 DEF Wraps

\* A step that only adds wrappers.
Adds(more) == wrap' = wrap \o more /\ held' = held

\* Wrappers that are added change nothing about the others.
LEMMA AddedOK ==
  ASSUME DocumentsOK, NEW more \in Seq(Wraps), Adds(more), srv' \in [WObjects -> Stored]
  PROVE  DocumentsOK'
<1>1. wrap \in Seq(Wraps) /\ ViewsOK(held, wrap)
  BY DEF DocumentsOK
<1>2. wrap \o more \in Seq(Wraps) /\ KeepsLists(wrap, wrap \o more)
  BY <1>1, WrappersAdded
<1> DEFINE wr2 == wrap \o more
<1>3. wrap' = wr2 /\ held' = held
  BY DEF Adds
<1> HIDE DEF wr2
<1>4. wr2 \in Seq(Wraps) /\ ViewsOK(held, wr2)
  BY <1>1, <1>2, ViewsKept DEF wr2
<1>5. ViewsOK(held', wrap')
  BY <1>3, <1>4
<1> QED
  BY <1>3, <1>4, <1>5 DEF DocumentsOK

\* One wrapper that is added.
LEMMA OneAdded ==
  ASSUME DocumentsOK, NEW w \in Wraps, NewWrapper(w), held' = held, srv' \in [WObjects -> Stored]
  PROVE  DocumentsOK' /\ Adds(<<w>>)
<1>1. wrap \in Seq(Wraps)
  BY DEF DocumentsOK
<1>2. Append(wrap, w) = wrap \o <<w>>
  BY <1>1, AppendIsConcat
<1>3. Adds(<<w>>) /\ <<w>> \in Seq(Wraps)
  BY <1>2 DEF Adds, NewWrapper
<1> QED
  BY <1>3, AddedOK

\* A step that touches neither wrappers nor lists.
LEMMA NothingAdded ==
  ASSUME DocumentsOK, wrap' = wrap, held' = held, srv' \in [WObjects -> Stored]
  PROVE  DocumentsOK'
  BY DEF DocumentsOK

\* An object that is changed on the server.
LEMMA StoredSet ==
  ASSUME DocumentsOK, NEW o \in WObjects, NEW s \in Stored
  PROVE  [srv EXCEPT ![o] = s] \in [WObjects -> Stored]
  BY DEF DocumentsOK

\* A document in order that is stored.
LEMMA StoresOK ==
  ASSUME DocumentsOK, NEW o \in WObjects, NEW d \in PlainDocs, Stores(o, d)
  PROVE  srv' \in [WObjects -> Stored]
<1> DEFINE s == [ver |-> srv[o].ver + 1, up |-> TRUE, doc |-> d]
<1>1. srv[o].ver \in Nat
  BY StoredTyped
<1>2. s \in Stored
  BY <1>1 DEF Stored
<1>3. srv' = [srv EXCEPT ![o] = s]
  BY DEF Stores
<1> HIDE DEF s
<1> QED
  BY <1>2, <1>3, StoredSet

\* An object that is deleted.
LEMMA VanishesOK ==
  ASSUME DocumentsOK, NEW o \in WObjects, Vanishes(o)
  PROVE  srv' \in [WObjects -> Stored]
<1> DEFINE s == [ver |-> srv[o].ver + 1, up |-> FALSE, doc |-> srv[o].doc]
<1>1. srv[o].ver \in Nat /\ srv[o].doc \in PlainDocs
  BY StoredTyped
<1>2. s \in Stored
  BY <1>1 DEF Stored
<1>3. srv' = [srv EXCEPT ![o] = s]
  BY DEF Vanishes
<1> HIDE DEF s
<1> QED
  BY <1>2, <1>3, StoredSet

\* What is known of each wrapper.
LEMMA WrapAt ==
  ASSUME DocumentsOK, NEW w \in Ids
  PROVE  /\ wrap[w] \in Wraps /\ Doc(w) \in Docs /\ wrap[w].obj \in WObjects /\ wrap[w].made \in Nat
         /\ wrap[w].content = Content(Doc(w)) /\ wrap[w].etag \in Nat \cup {NoEtag}
         /\ \A c \in Of(Doc(w), ListTag) : c.id <= wrap[w].made
<1>1. wrap[w] \in Wraps
  BY DEF DocumentsOK, Ids
<1> QED
  BY <1>1, WrapTyped DEF Doc

\* A wrapper after a PUT or a POST: the same with another etag.
LEMMA EtagWraps ==
  ASSUME NEW w \in Wraps, NEW n \in Nat
  PROVE  [w EXCEPT !.etag = n] \in Wraps
<1> DEFINE v == [w EXCEPT !.etag = n]
<1>1. w \in [obj : WObjects, etag : Nat \cup {NoEtag}, doc : Docs, made : Nat, content : Contents]
  BY WrapTyped
<1>2. /\ v \in [obj : WObjects, etag : Nat \cup {NoEtag}, doc : Docs, made : Nat, content : Contents]
      /\ v.doc = w.doc /\ v.content = w.content /\ v.made = w.made
  BY <1>1
<1> QED
  BY <1>2, WrapTyped DEF Wraps

\* Calls of one wrapper.
LEMMA GetWrapperKeeps == ASSUME DocumentsOK, NEW o \in WObjects, GetWrapper(o) PROVE DocumentsOK' /\ Adds(<<Wrapped(o)>>)
<1>1. NewWrapper(Wrapped(o)) /\ srv' = srv /\ held' = held
  BY DEF GetWrapper
<1>2. srv' \in [WObjects -> Stored]
  BY <1>1 DEF DocumentsOK
<1> QED
  BY <1>1, <1>2, WrappedWraps, OneAdded

\* A wrapper that is built has one child, the first of the schema.
LEMMA BuildWrapperKeeps ==
  ASSUME DocumentsOK, NEW o \in WObjects, BuildWrapper(o)
  PROVE  DocumentsOK' /\ \E w \in Wraps : Adds(<<w>>)
<1> DEFINE c == Child(ChildOrder[1], "", 0)
           d == <<c>>
           w == [obj |-> o, etag |-> NoEtag, doc |-> d, made |-> 0, content |-> Content(d)]
<1>1. NewWrapper(w) /\ srv' = srv /\ held' = held
  BY DEF BuildWrapper
<1>2. c \in Children /\ c.tag # ListTag
  <2>1. ChildOrder[1] \in AllTags /\ ChildOrder[1] # ListTag
    <3>1. 1 \in DOMAIN ChildOrder
      BY WrapperConstantsOK
    <3> QED
      BY <3>1, WrapperConstantsOK
  <2> QED
    BY <2>1 DEF Child, Children, AnyVal
<1> HIDE DEF c
<1>3. d \in Docs
  BY <1>2, OrderOne
<1>4. Of(d, ListTag) = {}
  <2>1. ToSet(d) = {c}
    BY DEF ToSet
  <2> QED
    BY <1>2, <2>1 DEF Of
<1> HIDE DEF d
<1>5. Content(d) \in Contents
  BY <1>3 DEF Contents
<1>6. w \in Wraps
  BY <1>3, <1>4, <1>5 DEF Wraps
<1>7. srv' \in [WObjects -> Stored]
  BY <1>1 DEF DocumentsOK
<1> HIDE DEF w
<1> QED
  BY <1>1, <1>6, <1>7, OneAdded

\* create stores what the document says, and wraps the answer.
LEMMA CreateKeeps ==
  ASSUME DocumentsOK, NEW w \in Ids, CreateFromWrapper(w)
  PROVE  DocumentsOK' /\ \E v \in Wraps : Adds(<<v>>)
<1> DEFINE o == wrap[w].obj
           v == [wrap[w] EXCEPT !.etag = srv[o].ver + 1]
<1>1. o \in WObjects /\ wrap[w] \in Wraps /\ Sent(wrap[w].doc) \in PlainDocs
  BY WrapAt, SentPlain DEF Doc
<1>2. srv[o].ver + 1 \in Nat
  BY <1>1, StoredTyped
<1>3. v \in Wraps
  BY <1>1, <1>2, EtagWraps
<1>4. Stores(o, Sent(wrap[w].doc)) /\ NewWrapper(v) /\ held' = held
  BY DEF CreateFromWrapper
<1> HIDE DEF v, o
<1>5. srv' \in [WObjects -> Stored]
  BY <1>1, <1>4, StoresOK
<1> QED
  BY <1>3, <1>4, <1>5, OneAdded

\* update stores it if nobody changed the object, and else changes nothing.
LEMMA UpdateKeeps ==
  ASSUME DocumentsOK, NEW w \in Ids, UpdateWrapper(w)
  PROVE  DocumentsOK' /\ \E more \in Seq(Wraps) : Adds(more)
<1> DEFINE o == wrap[w].obj
           v == [wrap[w] EXCEPT !.etag = wrap[w].etag + 1]
<1>1. o \in WObjects /\ wrap[w] \in Wraps /\ Sent(wrap[w].doc) \in PlainDocs
  BY WrapAt, SentPlain DEF Doc
<1>2. srv[o].ver \in Nat
  BY <1>1, StoredTyped
<1>3. CASE IsCurrent(w)
  <2>1. wrap[w].etag + 1 \in Nat
    BY <1>2, <1>3 DEF IsCurrent
  <2>2. v \in Wraps
    BY <1>1, <2>1, EtagWraps
  <2>3. Stores(o, Sent(wrap[w].doc)) /\ NewWrapper(v) /\ held' = held
    BY <1>3 DEF UpdateWrapper
  <2> HIDE DEF v, o
  <2>4. srv' \in [WObjects -> Stored]
    BY <1>1, <2>3, StoresOK
  <2>5. <<v>> \in Seq(Wraps)
    BY <2>2
  <2> QED
    BY <2>2, <2>3, <2>4, <2>5, OneAdded
<1>4. CASE ~IsCurrent(w)
  <2> DEFINE none == <<>>
  <2>1. srv' = srv /\ wrap' = wrap /\ held' = held
    BY <1>4 DEF UpdateWrapper
  <2>2. none \in Seq(Wraps) /\ wrap \o none = wrap
    BY ConcatEmptySeq DEF DocumentsOK
  <2>3. Adds(none)
    BY <2>1, <2>2 DEF Adds
  <2> HIDE DEF none
  <2> QED
    BY <2>1, <2>2, <2>3 DEF DocumentsOK
<1> QED
  BY <1>3, <1>4

\* delete touches no wrapper.
LEMMA DeleteKeeps == ASSUME DocumentsOK, NEW w \in Ids, DeleteWrapper(w) PROVE DocumentsOK'
<1>1. wrap[w].obj \in WObjects
  BY WrapAt
<1>2. Vanishes(wrap[w].obj) /\ wrap' = wrap /\ held' = held
  BY DEF DeleteWrapper
<1> QED
  BY <1>1, <1>2, VanishesOK, NothingAdded

\* Others store documents in order.
LEMMA ForeignKeeps == ASSUME DocumentsOK, NEW o \in WObjects, ForeignChange(o) PROVE DocumentsOK'
<1>1. wrap' = wrap /\ held' = held
  BY DEF ForeignChange
<1>2. ASSUME NEW d \in ServerDocs, Stores(o, d) PROVE srv' \in [WObjects -> Stored]
  BY <1>2, ServerDocsPlain, StoresOK
<1>3. Vanishes(o) => srv' \in [WObjects -> Stored]
  BY VanishesOK
<1>4. srv' \in [WObjects -> Stored]
  BY <1>2, <1>3 DEF ForeignChange
<1> QED
  BY <1>1, <1>4, NothingAdded

\* Edits.
EditedAs(w, d, m, t, vs) == [w EXCEPT !.doc = d, !.made = m, !.content[t] = vs] = Edited(w, d, m, t, vs)

\* An edited wrapper, field by field.
LEMMA EditedRecord ==
  ASSUME NEW w \in Wraps, NEW d, NEW m, NEW t, NEW vs
  PROVE  EditedAs(w, d, m, t, vs)
<1> DEFINE k == [w.content EXCEPT ![t] = vs]
           v == [w EXCEPT !.doc = d, !.made = m, !.content = k]
<1>1. w \in [obj : WObjects, etag : Nat \cup {NoEtag}, doc : Docs, made : Nat, content : Contents]
  BY WrapTyped
<1>2. [w EXCEPT !.doc = d, !.made = m, !.content[t] = vs] = v
  OBVIOUS
<1> HIDE DEF k
<1>3. v \in [obj : WObjects, etag : Nat \cup {NoEtag}, doc : {d}, made : {m}, content : {k}]
  BY <1>1
<1>4. v.obj = w.obj /\ v.etag = w.etag
  BY <1>1
<1> HIDE DEF v
<1>5. v = [obj |-> v.obj, etag |-> v.etag, doc |-> d, made |-> m, content |-> k]
  BY <1>3
<1>6. v = Edited(w, d, m, t, vs)
  BY <1>4, <1>5 DEF Edited, k
<1> QED
  BY <1>2, <1>6 DEF EditedAs

\* An edit of two fields of a wrapper.
SetDoc(r, d, t, vs) == [r EXCEPT !.doc = d, !.content[t] = vs]

\* It is an edit like the others.
LEMMA TwoFields ==
  ASSUME NEW r \in Wraps, NEW d, NEW t, NEW vs
  PROVE  SetDoc(r, d, t, vs) = Edited(r, d, r.made, t, vs)
<1> DEFINE q == [r EXCEPT !.doc = d, !.content[t] = vs]
           v == [r EXCEPT !.doc = d, !.made = r.made, !.content[t] = vs]
<1>1. q = v
  <2>1. r \in [obj : WObjects, etag : Nat \cup {NoEtag}, doc : Docs, made : Nat, content : Contents]
    BY WrapTyped
  <2> QED
    BY <2>1
<1>2. EditedAs(r, d, r.made, t, vs)
  BY EditedRecord
<1> HIDE DEF q
<1>3. v = Edited(r, d, r.made, t, vs)
  BY <1>2 DEF EditedAs
<1>4. q = Edited(r, d, r.made, t, vs)
  BY <1>1, <1>3
<1> QED
  BY <1>4 DEF q, SetDoc

\* What Puts does to the wrapper.
LEMMA PutsEdited ==
  ASSUME DocumentsOK, NEW w \in Ids, NEW d, NEW t, NEW vs, Puts(w, d, t, vs)
  PROVE  wrap' = [wrap EXCEPT ![w] = Edited(wrap[w], d, wrap[w].made, t, vs)]
<1> DEFINE q == SetDoc(wrap[w], d, t, vs)
<1>1. wrap' = [wrap EXCEPT ![w] = q]
  BY DEF Puts, SetDoc
<1>2. q = Edited(wrap[w], d, wrap[w].made, t, vs)
  BY WrapAt, TwoFields
<1> HIDE DEF q
<1> QED
  BY <1>1, <1>2

\* An edit of another tag than the list's leaves every view as it is.
LEMMA EditElsewhere ==
  ASSUME DocumentsOK, NEW w \in Ids, NEW d, NEW t \in AllTags, t # ListTag, NEW vs,
         Puts(w, d, t, vs), Same(Doc(w), d, t), ValuesOf(d, t) = vs, held' = held, srv' = srv
  PROVE  DocumentsOK'
<1> DEFINE r == Edited(wrap[w], d, wrap[w].made, t, vs)
           wr2 == [wrap EXCEPT ![w] = r]
<1>1. wrap[w] \in Wraps /\ wrap[w].made \in Nat /\ wrap[w].doc = Doc(w) /\ \A c \in Of(wrap[w].doc, ListTag) : c.id <= wrap[w].made
  BY WrapAt DEF Doc
<1>2. Said(ValuesOf(d, t), t) = vs
  BY SaidOnce
<1>3. Of(d, ListTag) = Of(wrap[w].doc, ListTag)
  BY <1>1 DEF Same
<1>4. r \in Wraps
  BY <1>1, <1>2, <1>3, EditedWraps
<1>5. wrap' = wr2
  BY PutsEdited
<1>6. r.made = wrap[w].made /\ r.doc = d
  BY DEF Edited
<1> HIDE DEF r
<1>7. wrap \in Seq(Wraps) /\ ViewsOK(held, wrap) /\ w \in DOMAIN wrap
  BY DEF DocumentsOK, Ids
<1>8. wr2 \in Seq(Wraps) /\ DOMAIN wr2 = DOMAIN wrap /\ wr2[w] = r /\ \A i \in DOMAIN wrap : i # w => wr2[i] = wrap[i]
  BY <1>4, <1>7
<1> HIDE DEF wr2
<1>9. KeepsLists(wrap, wr2)
  <2> SUFFICES ASSUME NEW i \in DOMAIN wrap
               PROVE  wr2[i].made = wrap[i].made /\ \A n : HasList(wr2[i].doc, n) <=> HasList(wrap[i].doc, n)
    BY <1>8 DEF KeepsLists
  <2>1. CASE i = w
    BY <1>3, <1>6, <1>8, <2>1 DEF HasList
  <2>2. CASE i # w
    BY <1>8, <2>2
  <2> QED
    BY <2>1, <2>2
<1>10. ViewsOK(held, wr2)
  BY <1>7, <1>9, ViewsKept
<1>11. srv' \in [WObjects -> Stored]
  BY DEF DocumentsOK
<1> QED
  BY <1>5, <1>8, <1>10, <1>11 DEF DocumentsOK

\* What is said of a tag.
LEMMA MeansSaid ==
  ASSUME DocumentsOK, NEW w \in Ids, NEW t \in AllTags
  PROVE  Means(w, t) = Said(ValuesOf(Doc(w), t), t)
<1>1. Means(w, t) = Content(Doc(w))[t]
  BY WrapAt DEF Means
<1> QED
  BY <1>1 DEF Content

\* A text that is set.
LEMMA SetTextKeeps == ASSUME DocumentsOK, NEW w \in Ids, NEW t \in TextTags, NEW v \in Vals, SetText(w, t, v) PROVE DocumentsOK'
<1> DEFINE d == SetParmValue(Doc(w), t, v)
           vs == <<v>>
<1>1. Puts(w, d, t, vs) /\ held' = held /\ srv' = srv
  BY DEF SetText, Edits
<1>2. t \in AllTags /\ t # ListTag
  BY WrapperConstantsOK
<1>3. Doc(w) \in Docs
  BY WrapAt
<1>4. Same(Doc(w), d, t) /\ ValuesOf(d, t) = vs
  BY <1>3, SetParmValueEffect
<1> HIDE DEF d, vs
<1> QED
  BY <1>1, <1>2, <1>4, EditElsewhere

\* Values of an ElementList that are appended, removed or replaced.
LEMMA RepeatedKeeps ==
  ASSUME DocumentsOK, NEW w \in Ids
  PROVE  /\ \A v \in Vals : AppendRepeated(w, v) => DocumentsOK'
         /\ \A v : RemoveRepeated(w, v) => DocumentsOK'
         /\ \A vs \in Seq(Vals) : SetRepeated(w, vs) => DocumentsOK'
<1>1. RepeatedTag \in AllTags /\ RepeatedTag # ListTag
  BY WrapperConstantsOK
<1>2. Doc(w) \in Docs /\ Means(w, RepeatedTag) = ValuesOf(Doc(w), RepeatedTag)
  BY <1>1, WrapAt, MeansSaid, SaidOnce
<1>3. ASSUME NEW v \in Vals, AppendRepeated(w, v) PROVE DocumentsOK'
  <2> DEFINE d == AppendValue(Doc(w), v)
             vs == Append(Means(w, RepeatedTag), v)
  <2>1. Puts(w, d, RepeatedTag, vs) /\ held' = held /\ srv' = srv
    BY <1>3 DEF AppendRepeated, Edits
  <2>2. Same(Doc(w), d, RepeatedTag) /\ ValuesOf(d, RepeatedTag) = vs
    BY <1>2, AppendValueEffect
  <2> HIDE DEF d, vs
  <2> QED
    BY <1>1, <2>1, <2>2, EditElsewhere
<1>4. ASSUME NEW v, RemoveRepeated(w, v) PROVE DocumentsOK'
  <2> DEFINE d == RemoveValue(Doc(w), v)
             vs == RemoveFirst(Means(w, RepeatedTag), v)
  <2>1. Puts(w, d, RepeatedTag, vs) /\ held' = held /\ srv' = srv /\ FindValue(Doc(w), v) # 0
    BY <1>4 DEF RemoveRepeated, Edits
  <2>2. Same(Doc(w), d, RepeatedTag) /\ Shrunk(Doc(w), d, v)
    BY <1>2, <2>1, RemoveValueEffect
  <2>3. ValuesOf(d, RepeatedTag) = vs
    BY <1>2, <2>2 DEF Shrunk
  <2> HIDE DEF d, vs
  <2> QED
    BY <1>1, <2>1, <2>2, <2>3, EditElsewhere
<1>5. ASSUME NEW vs \in Seq(Vals), SetRepeated(w, vs) PROVE DocumentsOK'
  <2> DEFINE d == SetElemList(Doc(w), vs)
  <2>1. Puts(w, d, RepeatedTag, vs) /\ held' = held /\ srv' = srv
    BY <1>5 DEF SetRepeated, Edits
  <2>2. Same(Doc(w), d, RepeatedTag) /\ ValuesOf(d, RepeatedTag) = vs
    BY <1>2, SetElemListEffect
  <2> HIDE DEF d
  <2> QED
    BY <1>1, <2>1, <2>2, EditElsewhere
<1> QED
  BY <1>3, <1>4, <1>5

\* A list that is replaced.
LEMMA ReplaceListKeeps ==
  ASSUME DocumentsOK, NEW w \in Ids, NEW vs \in Seq(Items), ReplaceList(w, vs)
  PROVE  DocumentsOK'
<1> DEFINE n == wrap[w].made + 1
           d == Inject(Doc(w), Child(ListTag, vs, n), TRUE)
           r == Edited(wrap[w], d, n, ListTag, vs)
           wr2 == [wrap EXCEPT ![w] = r]
<1>1. wrap[w] \in Wraps /\ wrap[w].doc = Doc(w) /\ Doc(w) \in Docs /\ n \in Nat
  BY WrapAt DEF Doc
<1>2. Same(Doc(w), d, ListTag) /\ ValuesOf(d, ListTag) = <<vs>> /\ Of(d, ListTag) = {Child(ListTag, vs, n)}
  BY <1>1, ListPutIn
<1>3. /\ wrap' = [wrap EXCEPT ![w].doc = d, ![w].made = n, ![w].content[ListTag] = vs]
      /\ held' = Supersede(w, "replaced") /\ srv' = srv
  BY DEF ReplaceList, Edits, Doc
<1>a. wrap' = wr2
  <2> HIDE DEF d, n
  <2> DEFINE q == [wrap[w] EXCEPT !.doc = d, !.made = n, !.content[ListTag] = vs]
  <2>1. wrap' = [wrap EXCEPT ![w] = q]
    BY <1>3
  <2>2. EditedAs(wrap[w], d, n, ListTag, vs)
    BY <1>1, EditedRecord
  <2>3. q = r
    BY <2>2 DEF EditedAs
  <2> HIDE DEF q, r
  <2> QED
    BY <2>1, <2>3
<1>4. ListTag \in AllTags
  BY WrapperConstantsOK
<1>5. r \in Wraps
  <2>1. Said(ValuesOf(d, ListTag), ListTag) = vs
    BY <1>2, SaidOnce
  <2>2. \A c \in Of(d, ListTag) : c.id <= n
    <3> HIDE DEF d, n
    <3>1. Child(ListTag, vs, n).id = n
      BY DEF Child
    <3> QED
      BY <1>1, <1>2, <3>1
  <2> HIDE DEF d, n
  <2> QED
    BY <1>1, <1>2, <1>4, <2>1, <2>2, EditedWraps
<1> HIDE DEF d
<1>6. wrap \in Seq(Wraps) /\ ViewsOK(held, wrap) /\ w \in DOMAIN wrap
  BY DEF DocumentsOK, Ids
<1>7. ViewsOK(Supersede(w, "replaced"), wr2)
  BY <1>2, <1>6, ViewsSuperseded
<1> HIDE DEF r
<1>8. wr2 \in Seq(Wraps)
  BY <1>5, <1>6
<1> HIDE DEF wr2
<1>9. srv' \in [WObjects -> Stored]
  BY <1>3 DEF DocumentsOK
<1> QED
  BY <1>3, <1>a, <1>7, <1>8, <1>9 DEF DocumentsOK

\* A list that is read, and seeded if it is empty.
LEMMA ReadListKeeps ==
  ASSUME DocumentsOK, NEW w \in Ids, NEW h \in Holders, ReadList(w, h)
  PROVE  DocumentsOK'
<1> DEFINE seeds == ~IsSeeded(Doc(w))
           one == wrap[w].made + 1
           d == FindOrSeed(Doc(w), one)
           n == IF seeds THEN one ELSE wrap[w].made
           c == d[Find(d, ListTag)]
           view == [of |-> w, id |-> c.id, hist |-> "live"]
           vs == ListOf(Doc(w))
           r == Edited(wrap[w], d, n, ListTag, vs)
           wr2 == [wrap EXCEPT ![w] = r]
           hd == IF seeds THEN Supersede(w, "reseeded") ELSE held
<1>1. /\ wrap[w] \in Wraps /\ wrap[w].doc = Doc(w) /\ Doc(w) \in Docs /\ wrap[w].made \in Nat
      /\ \A x \in Of(Doc(w), ListTag) : x.id <= wrap[w].made
      /\ w \in DOMAIN wrap /\ wrap \in Seq(Wraps) /\ w \in Nat
  BY WrapAt DEF Doc, Ids, DocumentsOK
<1>2. ListTag \in AllTags
  BY WrapperConstantsOK
<1>3. one \in Nat /\ n \in Nat
  BY <1>1
<1>4. /\ wrap' = [wrap EXCEPT ![w].doc = d, ![w].made = IF seeds THEN wrap[w].made + 1 ELSE wrap[w].made]
      /\ held' = [hd EXCEPT ![h] = view] /\ srv' = srv
  BY DEF ReadList, Edits
<1>5. /\ Same(Doc(w), d, ListTag) /\ ListOf(d) = ListOf(Doc(w))
      /\ c \in Children /\ Of(d, ListTag) = {c}
      /\ ~seeds => d = Doc(w)
      /\ seeds => Of(d, ListTag) = {Child(ListTag, <<>>, one)}
  BY <1>1, <1>3, FindOrSeedEffect
<1> HIDE DEF seeds, d, one, c
<1>6. c.id \in Nat /\ c.id <= n
  <2>1. c.id \in Nat
    BY <1>5, ChildTyped
  <2>2. CASE seeds
    <3>1. c = Child(ListTag, <<>>, one)
      BY <1>5, <2>2
    <3> QED
      BY <1>3, <2>2, <3>1 DEF Child
  <2>3. CASE ~seeds
    BY <1>1, <1>5, <2>1, <2>3
  <2> QED
    BY <2>1, <2>2, <2>3
<1>7. r \in Wraps
  <2>1. Said(ValuesOf(d, ListTag), ListTag) = vs
    BY <1>5 DEF ListOf
  <2>2. \A x \in Of(d, ListTag) : x.id <= n
    BY <1>5, <1>6
  <2> HIDE DEF vs, n
  <2> QED
    BY <1>1, <1>2, <1>3, <1>5, <2>1, <2>2, EditedWraps
<1>8. wrap' = wr2
  <2>1. wrap[w].content[ListTag] = vs
    BY <1>2, MeansSaid DEF Means, ListOf
  <2>2. EditedAs(wrap[w], d, n, ListTag, vs)
    BY <1>1, EditedRecord
  <2> DEFINE p == [wrap[w] EXCEPT !.doc = d, !.made = n]
             q == [wrap[w] EXCEPT !.doc = d, !.made = n, !.content[ListTag] = vs]
  <2>3. wrap' = [wrap EXCEPT ![w] = p]
    BY <1>4 DEF one
  <2>4. q = p
    <3>1. wrap[w] \in [obj : WObjects, etag : Nat \cup {NoEtag}, doc : Docs, made : Nat, content : Contents]
      BY <1>1, WrapTyped
    <3>2. wrap[w].content \in [AllTags -> {Said(ValuesOf(Doc(w), t), t) : t \in AllTags}]
      BY <1>1, WrapTyped DEF Content
    <3> HIDE DEF vs, n
    <3>3. [wrap[w].content EXCEPT ![ListTag] = vs] = wrap[w].content
      BY <1>2, <2>1, <3>2
    <3> QED
      BY <3>1, <3>3
  <2> HIDE DEF p
  <2>5. r = p
    BY <2>2, <2>4 DEF EditedAs
  <2> QED
    BY <2>3, <2>5
<1>9. ViewsOK(hd, wr2)
  <2>0. ViewsOK(held, wrap)
    BY DEF DocumentsOK
  <2>1. CASE seeds
    <3>1. n = wrap[w].made + 1 /\ hd = Supersede(w, "reseeded")
      BY <2>1 DEF one
    <3>2. vs = <<>>
      <4>1. ListOf(d) = <<>>
        <5>1. ~IsSeeded(Doc(w))
          BY <2>1 DEF seeds
        <5>2. d = Inject(Doc(w), Child(ListTag, <<>>, one), TRUE)
          BY <5>1 DEF d, FindOrSeed
        <5>3. <<>> \in Seq(Items)
          OBVIOUS
        <5>4. ValuesOf(d, ListTag) = <<<<>>>>
          BY <1>1, <1>3, <5>2, <5>3, ListPutIn
        <5> QED
          BY <5>4, SaidOnce DEF ListOf
      <4> QED
        BY <1>5, <4>1
    <3>3. Of(d, ListTag) = {Child(ListTag, vs, wrap[w].made + 1)}
      BY <1>5, <2>1, <3>2 DEF one
    <3>4. wr2 = [wrap EXCEPT ![w] = Edited(wrap[w], d, wrap[w].made + 1, ListTag, vs)]
      BY <3>1
    <3> HIDE DEF vs, wr2, hd
    <3>5. ViewsOK(Supersede(w, "reseeded"), wr2)
      BY <1>1, <2>0, <3>3, <3>4, ViewsSuperseded
    <3> QED
      BY <3>1, <3>5
  <2>2. CASE ~seeds
    <3>1. n = wrap[w].made /\ hd = held /\ d = wrap[w].doc
      BY <1>1, <1>5, <2>2
    <3>2. r.made = wrap[w].made /\ r.doc = wrap[w].doc
      BY <3>1 DEF Edited
    <3> HIDE DEF r
    <3>3. DOMAIN wr2 = DOMAIN wrap /\ wr2[w] = r /\ \A i \in DOMAIN wrap : i # w => wr2[i] = wrap[i]
      BY <1>1
    <3> HIDE DEF wr2
    <3>4. KeepsLists(wrap, wr2)
      <4> SUFFICES ASSUME NEW i \in DOMAIN wrap
                   PROVE  wr2[i].made = wrap[i].made /\ \A k : HasList(wr2[i].doc, k) <=> HasList(wrap[i].doc, k)
        BY <3>3 DEF KeepsLists
      <4>1. CASE i = w
        BY <3>2, <3>3, <4>1
      <4>2. CASE i # w
        BY <3>3, <4>2
      <4> QED
        BY <4>1, <4>2
    <3>5. ViewsOK(held, wr2)
      BY <2>0, <3>4, ViewsKept
    <3> QED
      BY <3>1, <3>5
  <2> QED
    BY <2>1, <2>2
<1>10. ViewOK(view, wr2)
  <2>1. r.made = n /\ r.doc = d
    BY DEF Edited
  <2> HIDE DEF r, n
  <2>2. w \in DOMAIN wr2 /\ wr2[w] = r
    BY <1>1
  <2>3. HasList(d, c.id)
    BY <1>5 DEF HasList
  <2> HIDE DEF wr2
  <2>4. view \in Views /\ view.of = w /\ view.id = c.id /\ view.hist = "live"
    BY <1>1, <1>6 DEF Views
  <2> HIDE DEF view
  <2> QED
    BY <1>6, <2>1, <2>2, <2>3, <2>4 DEF ViewOK
<1> HIDE DEF hd, view, r
<1>11. wr2 \in Seq(Wraps)
  BY <1>1, <1>7
<1> HIDE DEF wr2
<1>12. ViewsOK(held', wr2)
  <2>1. hd \in [Holders -> Views \cup {NoList}] /\ \A k \in Holders : hd[k] # NoList => ViewOK(hd[k], wr2)
    BY <1>9 DEF ViewsOK
  <2>2. view \in Views
    BY <1>10 DEF ViewOK
  <2> QED
    BY <1>4, <1>10, <2>1, <2>2 DEF ViewsOK
<1>13. srv' \in [WObjects -> Stored]
  BY <1>4 DEF DocumentsOK
<1> QED
  BY <1>8, <1>11, <1>12, <1>13 DEF DocumentsOK

\* Wrappers that are as they should be, whether they are there or half way through an append.
WrapsOK(ws) == ws \in Seq(Wraps) /\ ViewsOK(held, ws)

\* What is known of each of them.
LEMMA WrapOf ==
  ASSUME NEW ws \in Seq(Wraps), NEW w \in DOMAIN ws
  PROVE  /\ ws[w] \in Wraps /\ ws[w].doc \in Docs /\ ws[w].made \in Nat
         /\ \A c \in Of(ws[w].doc, ListTag) : c.id <= ws[w].made
         /\ ws[w].content[ListTag] = ListOf(ws[w].doc)
<1>1. ws[w] \in Wraps /\ ListTag \in AllTags
  BY WrapperConstantsOK
<1>2. ws[w].content = Content(ws[w].doc)
  BY <1>1, WrapTyped
<1> QED
  BY <1>1, <1>2, WrapTyped DEF Content, ListOf

\* Where the list is that a view is a view of.
LEMMA ViewedInAt ==
  ASSUME NEW ws, WrapsOK(ws), NEW h \in Holders, held[h] # NoList
  PROVE  /\ held[h].of \in DOMAIN ws /\ held[h].id \in Nat
         /\ ViewedIn(ws, held[h]) = 0 <=> held[h].hist # "live"
         /\ ViewedIn(ws, held[h]) # 0 => /\ ViewedIn(ws, held[h]) \in DOMAIN ws[held[h].of].doc
                                         /\ ws[held[h].of].doc[ViewedIn(ws, held[h])].tag = ListTag
<1> DEFINE v == held[h]
           d == ws[v.of].doc
           k == ViewedIn(ws, v)
           T == {i \in 1 .. Len(d) : d[i].tag = ListTag /\ d[i].id = v.id}
<1>1. v \in Views /\ v.of \in DOMAIN ws /\ (v.hist = "live" <=> HasList(d, v.id)) /\ ws \in Seq(Wraps)
  BY DEF WrapsOK, ViewsOK, ViewOK
<1>2. d \in Seq(Children) /\ Len(d) \in Nat /\ DOMAIN d = 1 .. Len(d)
  BY <1>1, WrapOf DEF Docs
<1>3. k = IF T # {} THEN Min(T) ELSE 0
  BY DEF ViewedIn, SelectInSeq
<1>4. T \in SUBSET (1 .. Len(d)) /\ \A i \in T : d[i].tag = ListTag
  OBVIOUS
<1>5. HasList(d, v.id) <=> T # {}
  BY <1>2 DEF HasList, Of, ToSet
<1> HIDE DEF T, k, d
<1>6. T # {} => Min(T) \in T
  BY <1>2, <1>4, FirstFound
<1>7. k = 0 <=> T = {}
  <2>1. 0 \notin T
    BY <1>2, <1>4
  <2> QED
    BY <1>3, <1>6, <2>1
<1>8. k # 0 => k \in T
  BY <1>3, <1>6, <1>7
<1>9. k # 0 => k \in DOMAIN d /\ d[k].tag = ListTag
  BY <1>2, <1>4, <1>8
<1>10. v.id \in Nat
  BY <1>1 DEF Views
<1> QED
  BY <1>1, <1>5, <1>7, <1>9, <1>10 DEF k, d

\* The same of the wrappers that are there.
LEMMA ViewedAt ==
  ASSUME DocumentsOK, NEW h \in Holders, held[h] # NoList
  PROVE  /\ held[h].of \in Ids /\ held[h].id \in Nat
         /\ Viewed(held[h]) = 0 <=> held[h].hist # "live"
         /\ Viewed(held[h]) # 0 => /\ Viewed(held[h]) \in DOMAIN Doc(held[h].of)
                                   /\ Doc(held[h].of)[Viewed(held[h])].tag = ListTag
<1>1. WrapsOK(wrap)
  BY DEF DocumentsOK, WrapsOK
<1> QED
  BY <1>1, ViewedInAt DEF Viewed, Doc, Ids

\* The wrappers once the list that h is a view of has the elements vs.
Relisted(ws, h, vs) ==
  [ws EXCEPT ![h.of] = Edited(ws[h.of], [ws[h.of].doc EXCEPT ![ViewedIn(ws, h)].val = vs], ws[h.of].made, ListTag, vs)]

\* A list of which an element is appended or removed through a view that counts.
LEMMA RelistedOK ==
  ASSUME NEW ws, WrapsOK(ws), NEW h \in Holders, held[h] # NoList, ViewedIn(ws, held[h]) # 0, NEW vs \in Seq(Items)
  PROVE  WrapsOK(Relisted(ws, held[h], vs)) /\ Later(ws, Relisted(ws, held[h], vs))
<1> DEFINE w == held[h].of
           i == ViewedIn(ws, held[h])
           D == ws[w].doc
           d == [D EXCEPT ![i].val = vs]
           r == Edited(ws[w], d, ws[w].made, ListTag, vs)
           ws2 == [ws EXCEPT ![w] = r]
<1>1. w \in DOMAIN ws /\ i \in DOMAIN D /\ D[i].tag = ListTag /\ ws \in Seq(Wraps) /\ ViewsOK(held, ws)
  BY ViewedInAt DEF WrapsOK
<1>2. ws[w] \in Wraps /\ D \in Docs /\ ws[w].made \in Nat /\ \A x \in Of(D, ListTag) : x.id <= ws[w].made
  BY <1>1, WrapOf
<1>3. Relisted(ws, held[h], vs) = ws2
  BY DEF Relisted
<1> HIDE DEF i
<1>a. ListEdited(D, d, i, vs)
  <2> HIDE DEF D
  <2> QED
    BY <1>1, <1>2, EditListEffect
<1>0. ws[w].doc = D
  OBVIOUS
<1> HIDE DEF d, D, w
<1>4. /\ Same(D, d, ListTag) /\ ListOf(d) = vs /\ ListOf(D) = D[i].val
      /\ Of(D, ListTag) = {D[i]} /\ \A n : (\E c \in Of(d, ListTag) : c.id = n) <=> n = D[i].id
  BY <1>a DEF ListEdited
<1>6. ListTag \in AllTags
  BY WrapperConstantsOK
<1>7. r \in Wraps
  <2>1. Said(ValuesOf(d, ListTag), ListTag) = vs
    BY <1>4 DEF ListOf
  <2>2. \A c \in Of(d, ListTag) : c.id <= ws[w].made
    BY <1>2, <1>4
  <2> QED
    BY <1>0, <1>2, <1>4, <1>6, <2>1, <2>2, EditedWraps
<1>8. r.made = ws[w].made /\ r.doc = d /\ r.obj = ws[w].obj /\ r.etag = ws[w].etag
  BY DEF Edited
<1> HIDE DEF r
<1>9. ws2 \in Seq(Wraps) /\ DOMAIN ws2 = DOMAIN ws /\ ws2[w] = r /\ \A k \in DOMAIN ws : k # w => ws2[k] = ws[k]
  BY <1>1, <1>7
<1> HIDE DEF ws2
<1>10. \A n : HasList(d, n) <=> HasList(ws[w].doc, n)
  BY <1>0, <1>4 DEF HasList
<1>11. KeepsLists(ws, ws2) /\ Later(ws, ws2)
  <2> SUFFICES ASSUME NEW k \in DOMAIN ws
               PROVE  /\ ws2[k].made = ws[k].made /\ \A n : HasList(ws2[k].doc, n) <=> HasList(ws[k].doc, n)
                      /\ ws2[k].obj = ws[k].obj /\ ws2[k].etag = ws[k].etag
    BY <1>9 DEF KeepsLists, Later
  <2>1. CASE k = w
    BY <1>8, <1>9, <1>10, <2>1
  <2>2. CASE k # w
    BY <1>9, <2>2
  <2> QED
    BY <2>1, <2>2
<1>12. ViewsOK(held, ws2)
  BY <1>1, <1>11, ViewsKept
<1> QED
  BY <1>3, <1>9, <1>11, <1>12 DEF WrapsOK

\* The same in one step.
LEMMA EditThroughView ==
  ASSUME DocumentsOK, NEW h \in Holders, held[h] # NoList, Viewed(held[h]) # 0, NEW vs \in Seq(Items),
         Puts(held[h].of, [Doc(held[h].of) EXCEPT ![Viewed(held[h])].val = vs], ListTag, vs), held' = held, srv' = srv
  PROVE  DocumentsOK'
<1>1. WrapsOK(wrap) /\ srv' \in [WObjects -> Stored]
  BY DEF DocumentsOK, WrapsOK
<1>2. held[h].of \in Ids
  BY ViewedAt
<1>3. wrap' = Relisted(wrap, held[h], vs)
  BY <1>2, PutsEdited DEF Relisted, Viewed, Doc
<1>4. WrapsOK(Relisted(wrap, held[h], vs))
  BY <1>1, RelistedOK DEF Viewed
<1> QED
  BY <1>1, <1>3, <1>4 DEF DocumentsOK, WrapsOK

\* A sequence without an element.
LEMMA RemovedTyped ==
  ASSUME NEW S, NEW s \in Seq(S), NEW v
  PROVE  RemoveFirst(s, v) \in Seq(S)
<1> DEFINE T == {i \in 1 .. Len(s) : s[i] = v}
           k == SelectInSeq(s, LAMBDA x : x = v)
<1>1. DOMAIN s = 1 .. Len(s) /\ Len(s) \in Nat
  OBVIOUS
<1>2. CASE \E i \in 1 .. Len(s) : s[i] = v
  <2>1. k = IF T # {} THEN Min(T) ELSE 0
    BY DEF SelectInSeq
  <2>2. T # {} /\ T \in SUBSET (1 .. Len(s))
    BY <1>2
  <2> HIDE DEF T
  <2>3. k \in DOMAIN s
    BY <1>1, <2>1, <2>2, FirstFound
  <2> HIDE DEF k
  <2>4. Before(s, k) \in Seq(S) /\ After(s, k) \in Seq(S)
    BY <2>3, Sides
  <2>5. RemoveAt(s, k) = Before(s, k) \o After(s, k)
    BY DEF RemoveAt, Before, After
  <2>6. RemoveFirst(s, v) = RemoveAt(s, k)
    BY <1>2 DEF RemoveFirst, k
  <2> HIDE DEF Before, After
  <2> QED
    BY <2>4, <2>5, <2>6, ConcatProperties
<1>3. CASE ~\E i \in 1 .. Len(s) : s[i] = v
  BY <1>3 DEF RemoveFirst
<1> QED
  BY <1>2, <1>3

\* The same, with an element taken out by its place.
LEMMA RemovedAtTyped ==
  ASSUME NEW S, NEW s \in Seq(S), NEW k \in DOMAIN s
  PROVE  RemoveAt(s, k) \in Seq(S)
<1>1. Before(s, k) \in Seq(S) /\ After(s, k) \in Seq(S)
  BY Sides
<1>2. RemoveAt(s, k) = Before(s, k) \o After(s, k)
  BY DEF RemoveAt, Before, After
<1> HIDE DEF Before, After
<1> QED
  BY <1>1, <1>2, ConcatProperties

\* What a view that counts is a view of.
LEMMA ViewedInList ==
  ASSUME NEW ws, WrapsOK(ws), NEW h \in Holders, held[h] # NoList, ViewedIn(ws, held[h]) # 0
  PROVE  /\ held[h].hist = "live" /\ Listed(ws, held[h]) = ws[held[h].of].content[ListTag]
         /\ Listed(ws, held[h]) \in Seq(Items)
<1> DEFINE w == held[h].of
           i == ViewedIn(ws, held[h])
           e == ws[w].doc
           vs == e[i].val
<1>1. w \in DOMAIN ws /\ i \in DOMAIN e /\ e[i].tag = ListTag /\ held[h].hist = "live" /\ ws \in Seq(Wraps)
  BY ViewedInAt DEF WrapsOK
<1>2. e \in Docs /\ ws[w].content[ListTag] = ListOf(e)
  BY <1>1, WrapOf
<1>3. Listed(ws, held[h]) = vs
  BY DEF Listed
<1> HIDE DEF i, e, w
<1>4. vs \in Seq(Items)
  BY <1>1, <1>2 DEF Docs, Children
<1>5. ListOf(e) = vs
  <2> DEFINE us == vs
  <2>1. us \in Seq(Items)
    BY <1>4
  <2> HIDE DEF us
  <2>2. ListEdited(e, [e EXCEPT ![i].val = us], i, us)
    BY <1>1, <1>2, <2>1, EditListEffect
  <2> QED
    BY <2>2 DEF ListEdited
<1> QED
  BY <1>1, <1>2, <1>3, <1>4, <1>5 DEF w

\* The same of the wrappers that are there.
LEMMA ViewedList ==
  ASSUME DocumentsOK, NEW h \in Holders, held[h] # NoList, Viewed(held[h]) # 0
  PROVE  /\ held[h].of \in Ids /\ held[h].hist = "live"
         /\ Doc(held[h].of)[Viewed(held[h])].val = Means(held[h].of, ListTag)
         /\ Means(held[h].of, ListTag) \in Seq(Items)
<1>1. WrapsOK(wrap)
  BY DEF DocumentsOK, WrapsOK
<1>2. /\ held[h].hist = "live" /\ Listed(wrap, held[h]) = wrap[held[h].of].content[ListTag]
      /\ Listed(wrap, held[h]) \in Seq(Items)
  BY <1>1, ViewedInList DEF Viewed
<1>3. held[h].of \in Ids
  BY ViewedAt
<1> QED
  BY <1>2, <1>3 DEF Listed, Viewed, Means, Doc

\* Wrappers that are later than later ones.
LEMMA LaterStill ==
  ASSUME NEW ws, NEW ws1, NEW ws2, Later(ws, ws1), Later(ws1, ws2)
  PROVE  Later(ws, ws2)
  BY DEF Later

\* What is appended to a list that counts is in the document, to another it is lost.
LEMMA GainsKeeps ==
  ASSUME NEW ws, WrapsOK(ws), NEW h \in Holders, held[h] # NoList, NEW v \in Items
  PROVE  WrapsOK(Gains(ws, held[h], v)) /\ Later(ws, Gains(ws, held[h], v))
<1> DEFINE w == held[h].of
           i == ViewedIn(ws, held[h])
           r == ws[w]
           d == Longer(r.doc, i, v)
           vs == Meant(r.content[ListTag], held[h], v)
           q == SetDoc(r, d, ListTag, vs)
<1>1. w \in DOMAIN ws /\ (i = 0 <=> held[h].hist # "live") /\ ws \in Seq(Wraps)
  BY ViewedInAt DEF WrapsOK
<1>2. r \in Wraps /\ r.content[ListTag] = ListOf(r.doc)
  BY <1>1, WrapOf
<1>3. Gains(ws, held[h], v) = [ws EXCEPT ![w] = q]
  BY DEF Gains, SetDoc
<1>4. q = Edited(r, d, r.made, ListTag, vs)
  <2> HIDE DEF d, vs, r
  <2> QED
    BY <1>2, TwoFields
<1> HIDE DEF q
<1>5. CASE i = 0
  <2>1. d = r.doc /\ vs = r.content[ListTag]
    BY <1>1, <1>5 DEF Longer, Meant
  <2>2. Edited(r, r.doc, r.made, ListTag, r.content[ListTag]) = r
    <3> HIDE DEF r
    <3>1. r \in [obj : WObjects, etag : Nat \cup {NoEtag}, doc : Docs, made : Nat, content : Contents]
      BY <1>2, WrapTyped
    <3>2. r.content = [t \in AllTags |-> Said(ValuesOf(r.doc, t), t)]
      BY <1>2, WrapTyped DEF Content
    <3> DEFINE c == [r.content EXCEPT ![ListTag] = r.content[ListTag]]
    <3>3. c = r.content
      BY <3>2
    <3>4. Edited(r, r.doc, r.made, ListTag, r.content[ListTag]) = [obj |-> r.obj, etag |-> r.etag, doc |-> r.doc, made |-> r.made, content |-> c]
      BY DEF Edited
    <3> HIDE DEF c
    <3> QED
      BY <3>1, <3>3, <3>4
  <2>3. q = ws[w]
    BY <1>4, <2>1, <2>2
  <2>4. Gains(ws, held[h], v) = ws
    BY <1>1, <1>3, <2>3
  <2> QED
    BY <2>4 DEF Later
<1>6. CASE i # 0
  <2>1. r.doc[i].val = r.content[ListTag] /\ r.content[ListTag] \in Seq(Items) /\ held[h].hist = "live"
    BY <1>6, ViewedInList DEF Listed
  <2>2. d = [r.doc EXCEPT ![i].val = vs]
    BY <1>6, <2>1 DEF Longer, Meant
  <2>3. vs \in Seq(Items)
    BY <2>1 DEF Meant
  <2> HIDE DEF d, vs
  <2>4. Gains(ws, held[h], v) = Relisted(ws, held[h], vs)
    BY <1>3, <1>4, <2>2 DEF Relisted
  <2> QED
    BY <1>6, <2>3, <2>4, RelistedOK
<1> QED
  BY <1>5, <1>6

\* What is taken out of a list that counts is taken out of the document.
LEMMA LosesKeeps ==
  ASSUME NEW ws, WrapsOK(ws), NEW h \in Holders, held[h] # NoList, ViewedIn(ws, held[h]) # 0,
         NEW n \in DOMAIN Listed(ws, held[h])
  PROVE  WrapsOK(Loses(ws, held[h], n)) /\ Later(ws, Loses(ws, held[h], n))
<1> DEFINE w == held[h].of
           i == ViewedIn(ws, held[h])
           r == ws[w]
           d == [r.doc EXCEPT ![i].val = RemoveAt(r.doc[i].val, n)]
           vs == RemoveAt(r.content[ListTag], n)
           q == SetDoc(r, d, ListTag, vs)
<1>1. w \in DOMAIN ws /\ ws \in Seq(Wraps) /\ r \in Wraps
  BY ViewedInAt, WrapOf DEF WrapsOK
<1>2. Loses(ws, held[h], n) = [ws EXCEPT ![w] = q]
  BY DEF Loses, SetDoc
<1>3. q = Edited(r, d, r.made, ListTag, vs)
  <2> HIDE DEF d, vs, r
  <2> QED
    BY <1>1, TwoFields
<1> HIDE DEF q
<1>4. r.doc[i].val = r.content[ListTag] /\ r.content[ListTag] \in Seq(Items) /\ n \in DOMAIN r.content[ListTag]
  BY ViewedInList DEF Listed
<1>5. d = [r.doc EXCEPT ![i].val = vs]
  BY <1>4
<1>6. vs \in Seq(Items)
  BY <1>4, RemovedAtTyped
<1> HIDE DEF d, vs
<1>7. Loses(ws, held[h], n) = Relisted(ws, held[h], vs)
  BY <1>2, <1>3, <1>5 DEF Relisted
<1> QED
  BY <1>6, <1>7, RelistedOK

\* A new element is appended.
LEMMA AppendToListKeeps ==
  ASSUME DocumentsOK, NEW h \in Holders, NEW v \in Vals, AppendToList(h, v)
  PROVE  DocumentsOK' /\ Later(wrap, wrap')
<1>1. held[h] # NoList /\ held' = held /\ srv' = srv /\ wrap' = Gains(wrap, held[h], v)
  BY DEF AppendToList, Edits
<1>2. WrapsOK(wrap) /\ srv' \in [WObjects -> Stored] /\ v \in Items
  BY <1>1 DEF DocumentsOK, WrapsOK, Items
<1>3. WrapsOK(Gains(wrap, held[h], v)) /\ Later(wrap, Gains(wrap, held[h], v))
  BY <1>1, <1>2, GainsKeeps
<1> QED
  BY <1>1, <1>2, <1>3 DEF DocumentsOK, WrapsOK

\* An element of a list is appended to another list, or to the same one.
LEMMA MoveToListKeeps ==
  ASSUME DocumentsOK, NEW g \in Holders, NEW h \in Holders, MoveToList(g, h)
  PROVE  DocumentsOK' /\ Later(wrap, wrap')
<1>1. held[g] # NoList /\ held[h] # NoList /\ ViewedIn(wrap, held[g]) # 0 /\ held' = held /\ srv' = srv
  BY DEF MoveToList, Edits, Viewed
<1>2. PICK n \in DOMAIN Listed(wrap, held[g]) : wrap' = Gains(Loses(wrap, held[g], n), held[h], Listed(wrap, held[g])[n])
  BY DEF MoveToList
<1> DEFINE ws == Loses(wrap, held[g], n)
           v == Listed(wrap, held[g])[n]
<1>3. WrapsOK(wrap) /\ srv' \in [WObjects -> Stored]
  BY <1>1 DEF DocumentsOK, WrapsOK
<1>4. WrapsOK(ws) /\ Later(wrap, ws)
  BY <1>1, <1>3, LosesKeeps
<1>5. Listed(wrap, held[g]) \in Seq(Items)
  BY <1>1, <1>3, ViewedInList
<1>6. v \in Items
  BY <1>5
<1>7. wrap' = Gains(ws, held[h], v)
  BY <1>2
<1> HIDE DEF ws, v
<1>8. WrapsOK(wrap') /\ Later(ws, wrap')
  BY <1>1, <1>4, <1>6, <1>7, GainsKeeps
<1> QED
  BY <1>1, <1>3, <1>4, <1>8, LaterStill DEF DocumentsOK, WrapsOK

\* What is removed from a list that counts is removed from the document.
LEMMA RemoveFromListKeeps ==
  ASSUME DocumentsOK, NEW h \in Holders, NEW v \in Vals, RemoveFromList(h, v)
  PROVE  DocumentsOK'
<1> DEFINE w == held[h].of
           i == Viewed(held[h])
           vs == RemoveFirst(Means(w, ListTag), v)
<1>1. held[h] # NoList /\ i # 0 /\ held' = held /\ srv' = srv
  BY DEF RemoveFromList, Edits
<1>2. Doc(w)[i].val = Means(w, ListTag) /\ Means(w, ListTag) \in Seq(Items)
  BY <1>1, ViewedList
<1>3. Puts(w, [Doc(w) EXCEPT ![i].val = RemoveFirst(Doc(w)[i].val, v)], ListTag, vs)
  BY DEF RemoveFromList
<1>4. Puts(w, [Doc(w) EXCEPT ![i].val = vs], ListTag, vs)
  BY <1>2, <1>3
<1>5. vs \in Seq(Items)
  BY <1>2, RemovedTyped
<1> HIDE DEF vs
<1> QED
  BY <1>1, <1>4, <1>5, EditThroughView

-----------------------------------------------------------------------------
(* What a get() answers: no step takes anything from the wrappers there    *)
(* are, and versions only grow.                                            *)

Newer(sv, sv2) == \A o \in WObjects : sv[o].ver \in Nat /\ sv2[o].ver \in Nat /\ sv[o].ver <= sv2[o].ver

\* A wrapper that is not older than the call it is an answer to.
Fresh(w, since, wr) == w \in DOMAIN wr /\ wr[w].obj \in WObjects /\ wr[w].etag \in Nat /\ wr[w].etag >= since[wr[w].obj]
AllFresh(ids, since, wr) == \A i \in DOMAIN ids : Fresh(ids[i], since, wr)

GetCalls(ids) ==
  [kind : {"feed", "fetch", "uuid"}, refresh : BOOLEAN, asked : BOOLEAN, since : [WObjects -> Nat],
   todo : Seq(ids) \cup Seq(WObjects), new : Seq(ids)]

\* A get() under way: what it has found, and what it may still find in a cache.
CallOK(call, wr, sv, feed, uuid) ==
  /\ call \in GetCalls(DOMAIN wr)
  /\ \A o \in WObjects : call.since[o] <= sv[o].ver
  /\ call.kind = "feed" => call.refresh /\ call.todo \in Seq(DOMAIN wr)
  /\ call.kind = "uuid" => call.todo \in Seq(WObjects)
  /\ call.asked => AllFresh(call.new, call.since, wr)
  /\ call.kind = "fetch" /\ call.asked => feed = NoCache
  /\ call.kind = "uuid" /\ call.asked /\ ~call.refresh =>
       \A o \in WObjects : uuid[o] # NoCache => Fresh(uuid[o], call.since, wr)

FeedOK(feed, wr) == feed # NoCache => feed \in Seq(DOMAIN wr)
UuidOK(uuid, wr) == uuid \in [WObjects -> DOMAIN wr \cup {NoCache}]
GotOK(g, wr) == g # NoCache /\ g.asked => g.since \in [WObjects -> Nat] /\ AllFresh(g.ids, g.since, wr)

GetOK ==
  /\ FeedOK(feedCache, wrap) /\ UuidOK(uuidCache, wrap) /\ GotOK(got, wrap)
  /\ getCall # NoCall => CallOK(getCall, wrap, srv, feedCache, uuidCache)

\* What is fresh stays fresh.
LEMMA FreshLater ==
  ASSUME NEW wr, NEW wr2, Later(wr, wr2), NEW since
  PROVE  /\ \A w : Fresh(w, since, wr) => Fresh(w, since, wr2)
         /\ \A ids : AllFresh(ids, since, wr) => AllFresh(ids, since, wr2)
<1>1. ASSUME NEW w, Fresh(w, since, wr) PROVE Fresh(w, since, wr2)
  BY <1>1 DEF Fresh, Later
<1> QED
  BY <1>1 DEF AllFresh

\* A get() under way is not disturbed by other steps.
LEMMA CallLater ==
  ASSUME NEW call, NEW wr, NEW wr2, NEW sv, NEW sv2, NEW feed, NEW uuid,
         CallOK(call, wr, sv, feed, uuid), Later(wr, wr2), Newer(sv, sv2)
  PROVE  CallOK(call, wr2, sv2, feed, uuid)
<1>1. DOMAIN wr \subseteq DOMAIN wr2
  BY DEF Later
<1>2. Seq(DOMAIN wr) \subseteq Seq(DOMAIN wr2)
  BY <1>1, SeqMonotonic
<1>3. call \in GetCalls(DOMAIN wr2)
  BY <1>2 DEF CallOK, GetCalls
<1>4. \A o \in WObjects : call.since[o] <= sv2[o].ver
  <2> SUFFICES ASSUME NEW o \in WObjects PROVE call.since[o] <= sv2[o].ver
    OBVIOUS
  <2>1. call.since[o] \in Nat
    BY DEF CallOK, GetCalls
  <2>2. call.since[o] <= sv[o].ver
    BY DEF CallOK
  <2>3. sv[o].ver \in Nat /\ sv2[o].ver \in Nat /\ sv[o].ver <= sv2[o].ver
    BY DEF Newer
  <2> QED
    BY <2>1, <2>2, <2>3
<1>5. call.asked => AllFresh(call.new, call.since, wr2)
  BY FreshLater DEF CallOK
<1>6. call.kind = "uuid" /\ call.asked /\ ~call.refresh =>
        \A o \in WObjects : uuid[o] # NoCache => Fresh(uuid[o], call.since, wr2)
  BY FreshLater DEF CallOK
<1>7. /\ call.kind = "feed" => call.refresh /\ call.todo \in Seq(DOMAIN wr2)
      /\ call.kind = "uuid" => call.todo \in Seq(WObjects)
      /\ call.kind = "fetch" /\ call.asked => feed = NoCache
  BY <1>2 DEF CallOK
<1> QED
  BY <1>3, <1>4, <1>5, <1>6, <1>7 DEF CallOK

\* Neither are the caches and the last answer.
LEMMA CachesLater ==
  ASSUME NEW wr, NEW wr2, Later(wr, wr2)
  PROVE  /\ \A feed : FeedOK(feed, wr) => FeedOK(feed, wr2)
         /\ \A uuid : UuidOK(uuid, wr) => UuidOK(uuid, wr2)
         /\ \A g : GotOK(g, wr) => GotOK(g, wr2)
<1>1. DOMAIN wr \subseteq DOMAIN wr2
  BY DEF Later
<1>2. Seq(DOMAIN wr) \subseteq Seq(DOMAIN wr2)
  BY <1>1, SeqMonotonic
<1>3. \A feed : FeedOK(feed, wr) => FeedOK(feed, wr2)
  BY <1>2 DEF FeedOK
<1>4. \A uuid : UuidOK(uuid, wr) => UuidOK(uuid, wr2)
  BY <1>1 DEF UuidOK
<1>5. \A g : GotOK(g, wr) => GotOK(g, wr2)
  BY FreshLater DEF GotOK
<1> QED
  BY <1>3, <1>4, <1>5

\* A step that leaves the getters alone.
LEMMA GettersLater ==
  ASSUME GetOK, Later(wrap, wrap'), Newer(srv, srv'), UNCHANGED Getters
  PROVE  GetOK'
<1>1. feedCache' = feedCache /\ uuidCache' = uuidCache /\ getCall' = getCall /\ got' = got
  BY DEF Getters
<1>2. FeedOK(feedCache, wrap') /\ UuidOK(uuidCache, wrap') /\ GotOK(got, wrap')
  BY CachesLater DEF GetOK
<1>3. getCall # NoCall => CallOK(getCall, wrap', srv', feedCache, uuidCache)
  BY CallLater DEF GetOK
<1> QED
  BY <1>1, <1>2, <1>3 DEF GetOK

\* Wrappers that are added leave the others there.
LEMMA AddsLater ==
  ASSUME DocumentsOK, NEW more \in Seq(Wraps), Adds(more)
  PROVE  Later(wrap, wrap')
<1>1. wrap \in Seq(Wraps)
  BY DEF DocumentsOK
<1> DEFINE wr2 == wrap \o more
<1>2. DOMAIN wrap \subseteq DOMAIN wr2 /\ \A i \in DOMAIN wrap : wr2[i] = wrap[i]
  BY <1>1, WrappersAdded
<1>3. wrap' = wr2
  BY DEF Adds
<1> HIDE DEF wr2
<1> QED
  BY <1>2, <1>3 DEF Later

\* A step that does not change the server.
LEMMA SameNewer == ASSUME DocumentsOK, srv' = srv PROVE Newer(srv, srv')
  BY StoredTyped DEF Newer

\* A step that does not change the wrappers.
LEMMA SameLater == ASSUME wrap' = wrap PROVE Later(wrap, wrap')
  BY DEF Later

\* A change on the server makes a newer version.
LEMMA StoresNewer ==
  ASSUME DocumentsOK, NEW o \in WObjects
  PROVE  /\ \A d : Stores(o, d) => Newer(srv, srv')
         /\ Vanishes(o) => Newer(srv, srv')
<1>0. srv \in [WObjects -> Stored] /\ \A p \in WObjects : srv[p].ver \in Nat
  BY StoredTyped DEF DocumentsOK
<1>1. ASSUME NEW d, Stores(o, d) PROVE Newer(srv, srv')
  <2> DEFINE s == [ver |-> srv[o].ver + 1, up |-> TRUE, doc |-> d]
  <2>1. srv' = [srv EXCEPT ![o] = s]
    BY <1>1 DEF Stores
  <2>2. s.ver = srv[o].ver + 1
    OBVIOUS
  <2> HIDE DEF s
  <2> QED
    BY <1>0, <2>1, <2>2 DEF Newer
<1>2. ASSUME Vanishes(o) PROVE Newer(srv, srv')
  <2> DEFINE s == [ver |-> srv[o].ver + 1, up |-> FALSE, doc |-> srv[o].doc]
  <2>1. srv' = [srv EXCEPT ![o] = s]
    BY <1>2 DEF Vanishes
  <2>2. s.ver = srv[o].ver + 1
    OBVIOUS
  <2> HIDE DEF s
  <2> QED
    BY <1>0, <2>1, <2>2 DEF Newer
<1> QED
  BY <1>1, <1>2

\* A wrapper that is edited is the same object at the same version.
LEMMA EditedLater ==
  ASSUME DocumentsOK, NEW w \in Ids, NEW d, NEW m, NEW t, NEW vs,
         wrap' = [wrap EXCEPT ![w] = Edited(wrap[w], d, m, t, vs)]
  PROVE  Later(wrap, wrap')
<1> DEFINE r == Edited(wrap[w], d, m, t, vs)
<1>1. r.obj = wrap[w].obj /\ r.etag = wrap[w].etag
  BY DEF Edited
<1>2. wrap' = [wrap EXCEPT ![w] = r] /\ w \in DOMAIN wrap
  BY DEF Ids
<1> HIDE DEF r
<1> QED
  BY <1>1, <1>2 DEF Later

\* An edit is no new version.
LEMMA PutsLater == ASSUME DocumentsOK, NEW w \in Ids, NEW d, NEW t, NEW vs, Puts(w, d, t, vs) PROVE Later(wrap, wrap')
  BY PutsEdited, EditedLater

\* The same for texts and values,
LEMMA EditsLater ==
  ASSUME DocumentsOK, NEW w \in Ids
  PROVE  /\ \A t, v : SetText(w, t, v) => Later(wrap, wrap')
         /\ \A v : AppendRepeated(w, v) => Later(wrap, wrap')
         /\ \A v : RemoveRepeated(w, v) => Later(wrap, wrap')
         /\ \A vs : SetRepeated(w, vs) => Later(wrap, wrap')
<1>1. ASSUME NEW t, NEW v, SetText(w, t, v) PROVE Later(wrap, wrap')
  BY <1>1, PutsLater DEF SetText
<1>2. ASSUME NEW v, AppendRepeated(w, v) PROVE Later(wrap, wrap')
  BY <1>2, PutsLater DEF AppendRepeated
<1>3. ASSUME NEW v, RemoveRepeated(w, v) PROVE Later(wrap, wrap')
  BY <1>3, PutsLater DEF RemoveRepeated
<1>4. ASSUME NEW vs, SetRepeated(w, vs) PROVE Later(wrap, wrap')
  BY <1>4, PutsLater DEF SetRepeated
<1> QED
  BY <1>1, <1>2, <1>3, <1>4

\* and for lists that are read or replaced.
LEMMA ListsLater ==
  ASSUME DocumentsOK, NEW w \in Ids
  PROVE  /\ \A h : ReadList(w, h) => Later(wrap, wrap')
         /\ \A vs : ReplaceList(w, vs) => Later(wrap, wrap')
<1>0. /\ wrap \in Seq(Wraps) /\ w \in DOMAIN wrap
      /\ wrap[w] \in [obj : WObjects, etag : Nat \cup {NoEtag}, doc : Docs, made : Nat, content : Contents]
  BY WrapAt, WrapTyped DEF DocumentsOK, Ids
<1>1. ASSUME NEW h, ReadList(w, h) PROVE Later(wrap, wrap')
  <2> DEFINE d == FindOrSeed(Doc(w), wrap[w].made + 1)
             n == IF ~IsSeeded(Doc(w)) THEN wrap[w].made + 1 ELSE wrap[w].made
             q == [wrap[w] EXCEPT !.doc = d, !.made = n]
  <2>1. wrap' = [wrap EXCEPT ![w] = q]
    BY <1>1 DEF ReadList
  <2> HIDE DEF d, n
  <2>2. q.obj = wrap[w].obj /\ q.etag = wrap[w].etag
    BY <1>0
  <2> HIDE DEF q
  <2> QED
    BY <1>0, <2>1, <2>2 DEF Later
<1>2. ASSUME NEW vs, ReplaceList(w, vs) PROVE Later(wrap, wrap')
  <2> DEFINE d == Inject(wrap[w].doc, Child(ListTag, vs, wrap[w].made + 1), TRUE)
             n == wrap[w].made + 1
             q == [wrap[w] EXCEPT !.doc = d, !.made = n, !.content[ListTag] = vs]
  <2>1. wrap' = [wrap EXCEPT ![w] = q]
    BY <1>2 DEF ReplaceList
  <2> HIDE DEF d, n
  <2>2. q.obj = wrap[w].obj /\ q.etag = wrap[w].etag
    BY <1>0
  <2> HIDE DEF q
  <2> QED
    BY <1>0, <2>1, <2>2 DEF Later
<1> QED
  BY <1>1, <1>2

\* The invariant, and the steps of one object and of one wrapper.
WrappersOK == DocumentsOK /\ GetOK

\* Edits of a wrapper.
LEMMA EditWrapperKeeps == ASSUME WrappersOK, NEW w \in Ids, EditWrapper(w) PROVE WrappersOK'
<1>0. DocumentsOK /\ GetOK
  BY DEF WrappersOK
<1>1. ASSUME NEW vs, vs \in {<<>>} \cup {<<v>> : v \in Vals} PROVE vs \in Seq(Vals) /\ vs \in Seq(Items)
  <2>1. Vals \subseteq Items
    BY DEF Items
  <2>2. vs \in Seq(Vals)
    <3>1. CASE vs = <<>>
      BY <3>1
    <3>2. CASE \E v \in Vals : vs = <<v>>
      BY <3>2
    <3> QED
      BY <1>1, <3>1, <3>2
  <2> QED
    BY <2>1, <2>2, SeqMonotonic
<1>2. DocumentsOK' /\ Later(wrap, wrap') /\ Edits
  <2>1. ASSUME NEW t \in TextTags, NEW v \in Vals, SetText(w, t, v) PROVE DocumentsOK' /\ Later(wrap, wrap') /\ Edits
    BY <1>0, <2>1, SetTextKeeps, EditsLater DEF SetText
  <2>2. ASSUME NEW h \in Holders, ReadList(w, h) PROVE DocumentsOK' /\ Later(wrap, wrap') /\ Edits
    BY <1>0, <2>2, ReadListKeeps, ListsLater DEF ReadList
  <2>3. ASSUME NEW vs \in {<<>>} \cup {<<v>> : v \in Vals}, ReplaceList(w, vs) PROVE DocumentsOK' /\ Later(wrap, wrap') /\ Edits
    <3>1. vs \in Seq(Items)
      BY <1>1
    <3> QED
      BY <1>0, <2>3, <3>1, ReplaceListKeeps, ListsLater DEF ReplaceList
  <2>4. ASSUME NEW vs \in {<<>>} \cup {<<v>> : v \in Vals}, SetRepeated(w, vs) PROVE DocumentsOK' /\ Later(wrap, wrap') /\ Edits
    <3>1. vs \in Seq(Vals)
      BY <1>1
    <3> QED
      BY <1>0, <2>4, <3>1, RepeatedKeeps, EditsLater DEF SetRepeated
  <2>5. ASSUME NEW v \in Vals, AppendRepeated(w, v) \/ RemoveRepeated(w, v) PROVE DocumentsOK' /\ Later(wrap, wrap') /\ Edits
    BY <1>0, <2>5, RepeatedKeeps, EditsLater DEF AppendRepeated, RemoveRepeated
  <2> QED
    BY <2>1, <2>2, <2>3, <2>4, <2>5 DEF EditWrapper
<1>3. Newer(srv, srv') /\ UNCHANGED Getters
  BY <1>0, <1>2, SameNewer DEF Edits
<1> QED
  BY <1>0, <1>2, <1>3, GettersLater DEF WrappersOK

\* Edits through a view.
LEMMA EditListKeeps == ASSUME WrappersOK, EditList PROVE WrappersOK'
<1>0. DocumentsOK /\ GetOK
  BY DEF WrappersOK
<1>1. DocumentsOK' /\ Later(wrap, wrap') /\ Edits
  <2>1. ASSUME NEW h \in Holders, NEW v \in Vals, AppendToList(h, v) PROVE DocumentsOK' /\ Later(wrap, wrap') /\ Edits
    BY <1>0, <2>1, AppendToListKeeps DEF AppendToList
  <2>2. ASSUME NEW h \in Holders, NEW v \in Vals, RemoveFromList(h, v) PROVE DocumentsOK' /\ Later(wrap, wrap') /\ Edits
    <3>1. DocumentsOK' /\ Edits /\ held[h] # NoList
      BY <1>0, <2>2, RemoveFromListKeeps DEF RemoveFromList
    <3>2. held[h].of \in Ids
      BY <1>0, <3>1, ViewedAt
    <3>3. \E d, vs : Puts(held[h].of, d, ListTag, vs)
      BY <2>2 DEF RemoveFromList
    <3> QED
      BY <1>0, <3>1, <3>2, <3>3, PutsLater
  <2>3. ASSUME NEW g \in Holders, NEW h \in Holders, MoveToList(g, h) PROVE DocumentsOK' /\ Later(wrap, wrap') /\ Edits
    BY <1>0, <2>3, MoveToListKeeps DEF MoveToList
  <2> QED
    BY <2>1, <2>2, <2>3 DEF EditList
<1>2. Newer(srv, srv') /\ UNCHANGED Getters
  BY <1>0, <1>1, SameNewer DEF Edits
<1> QED
  BY <1>0, <1>1, <1>2, GettersLater DEF WrappersOK

\* A wrapper that is got or built, and an object that others change.
LEMMA ObjectKeeps ==
  ASSUME WrappersOK, NEW o \in WObjects, GetWrapper(o) \/ BuildWrapper(o) \/ ForeignChange(o)
  PROVE  WrappersOK'
<1>0. DocumentsOK /\ GetOK
  BY DEF WrappersOK
<1>1. CASE GetWrapper(o)
  <2>1. DocumentsOK' /\ Adds(<<Wrapped(o)>>) /\ Wrapped(o) \in Wraps
    BY <1>0, <1>1, GetWrapperKeeps, WrappedWraps
  <2>2. Later(wrap, wrap')
    <3>1. <<Wrapped(o)>> \in Seq(Wraps)
      BY <2>1
    <3> QED
      BY <1>0, <2>1, <3>1, AddsLater
  <2>3. srv' = srv /\ UNCHANGED Getters
    BY <1>1 DEF GetWrapper
  <2> QED
    BY <1>0, <2>1, <2>2, <2>3, SameNewer, GettersLater DEF WrappersOK
<1>2. CASE BuildWrapper(o)
  <2>1. DocumentsOK'
    BY <1>0, <1>2, BuildWrapperKeeps
  <2>2. PICK w \in Wraps : Adds(<<w>>)
    BY <1>0, <1>2, BuildWrapperKeeps
  <2>3. Later(wrap, wrap')
    <3>1. <<w>> \in Seq(Wraps)
      OBVIOUS
    <3> QED
      BY <1>0, <2>2, <3>1, AddsLater
  <2>4. srv' = srv /\ UNCHANGED Getters
    BY <1>2 DEF BuildWrapper
  <2> QED
    BY <1>0, <2>1, <2>3, <2>4, SameNewer, GettersLater DEF WrappersOK
<1>3. CASE ForeignChange(o)
  <2>1. DocumentsOK' /\ wrap' = wrap /\ UNCHANGED Getters
    BY <1>0, <1>3, ForeignKeeps DEF ForeignChange
  <2>2. Newer(srv, srv')
    BY <1>0, <1>3, StoresNewer DEF ForeignChange
  <2> QED
    BY <1>0, <2>1, <2>2, SameLater, GettersLater DEF WrappersOK
<1> QED
  BY <1>1, <1>2, <1>3

\* A wrapper that is created, updated or deleted.
LEMMA WrapperKeeps ==
  ASSUME WrappersOK, NEW w \in Ids, CreateFromWrapper(w) \/ UpdateWrapper(w) \/ DeleteWrapper(w)
  PROVE  WrappersOK'
<1>0. DocumentsOK /\ GetOK /\ wrap[w].obj \in WObjects
  BY WrapAt DEF WrappersOK
<1>1. CASE CreateFromWrapper(w)
  <2>1. DocumentsOK'
    BY <1>0, <1>1, CreateKeeps
  <2>2. PICK v \in Wraps : Adds(<<v>>)
    BY <1>0, <1>1, CreateKeeps
  <2>3. Later(wrap, wrap')
    <3>1. <<v>> \in Seq(Wraps)
      OBVIOUS
    <3> QED
      BY <1>0, <2>2, <3>1, AddsLater
  <2>4. Newer(srv, srv') /\ UNCHANGED Getters
    BY <1>0, <1>1, StoresNewer DEF CreateFromWrapper
  <2> QED
    BY <1>0, <2>1, <2>3, <2>4, GettersLater DEF WrappersOK
<1>2. CASE UpdateWrapper(w)
  <2>1. DocumentsOK'
    BY <1>0, <1>2, UpdateKeeps
  <2>2. PICK more \in Seq(Wraps) : Adds(more)
    BY <1>0, <1>2, UpdateKeeps
  <2>3. Later(wrap, wrap')
    BY <1>0, <2>2, AddsLater
  <2>4. Newer(srv, srv') /\ UNCHANGED Getters
    BY <1>0, <1>2, StoresNewer, SameNewer DEF UpdateWrapper
  <2> QED
    BY <1>0, <2>1, <2>3, <2>4, GettersLater DEF WrappersOK
<1>3. CASE DeleteWrapper(w)
  <2>1. DocumentsOK' /\ wrap' = wrap /\ UNCHANGED Getters
    BY <1>0, <1>3, DeleteKeeps DEF DeleteWrapper
  <2>2. Newer(srv, srv')
    BY <1>0, <1>3, StoresNewer DEF DeleteWrapper
  <2> QED
    BY <1>0, <2>1, <2>2, SameLater, GettersLater DEF WrappersOK
<1> QED
  BY <1>1, <1>2, <1>3

-----------------------------------------------------------------------------
(* The steps of a get().                                                   *)

\* The versions at the start of a call.
LEMMA VersionsTyped ==
  ASSUME DocumentsOK
  PROVE  Versions \in [WObjects -> Nat] /\ \A o \in WObjects : Versions[o] = srv[o].ver
<1>1. Versions = [o \in WObjects |-> srv[o].ver]
  BY DEF Versions, WObjects
<1>2. \A o \in WObjects : srv[o].ver \in Nat
  BY StoredTyped
<1> QED
  BY <1>1, <1>2

\* A call that has just begun has found nothing.
LEMMA CallBegun ==
  ASSUME DocumentsOK, NEW kind \in {"feed", "fetch", "uuid"}, NEW refresh \in BOOLEAN, NEW refetch \in BOOLEAN,
         NEW todo, NEW feed, NEW uuid,
         kind = "feed" => refresh /\ todo \in Seq(Ids),
         kind = "uuid" => todo \in Seq(WObjects),
         kind = "fetch" => todo = <<>> /\ (refetch => feed = NoCache),
         kind = "fetch" => refresh = FALSE,
         kind = "uuid" /\ refetch => \A o \in WObjects : uuid[o] = NoCache,
         Started(kind, refresh, refetch, todo)
  PROVE  CallOK(getCall', wrap, srv, feed, uuid)
<1> DEFINE asked == refresh \/ refetch
           call == [kind |-> kind, refresh |-> refresh, asked |-> asked, since |-> Versions, todo |-> todo, new |-> <<>>]
<1>1. getCall' = call
  BY DEF Started
<1>2. asked \in BOOLEAN /\ (asked <=> (refresh = TRUE \/ refetch = TRUE))
  OBVIOUS
<1>3. Versions \in [WObjects -> Nat] /\ \A o \in WObjects : Versions[o] = srv[o].ver /\ srv[o].ver \in Nat
  BY VersionsTyped, StoredTyped
<1>4. todo \in Seq(Ids) \cup Seq(WObjects)
  <2>1. kind = "fetch" => todo \in Seq(Ids)
    OBVIOUS
  <2> QED
    BY <2>1
<1> HIDE DEF asked
<1>5. call \in GetCalls(DOMAIN wrap)
  BY <1>2, <1>3, <1>4 DEF GetCalls, Ids
<1>6. /\ call.kind = kind /\ call.refresh = refresh /\ call.asked = asked /\ call.since = Versions
      /\ call.todo = todo /\ call.new = <<>>
  OBVIOUS
<1> HIDE DEF call
<1>7. AllFresh(call.new, call.since, wrap)
  BY <1>6 DEF AllFresh
<1>8. \A o \in WObjects : call.since[o] <= srv[o].ver
  BY <1>3, <1>6
<1>9. /\ call.kind = "feed" => call.refresh /\ call.todo \in Seq(DOMAIN wrap)
      /\ call.kind = "uuid" => call.todo \in Seq(WObjects)
  BY <1>6 DEF Ids
<1>10. call.kind = "fetch" /\ call.asked => feed = NoCache
  BY <1>2, <1>6
<1>11. call.kind = "uuid" /\ call.asked /\ ~call.refresh => \A o \in WObjects : uuid[o] # NoCache => Fresh(uuid[o], call.since, wrap)
  BY <1>2, <1>6
<1> QED
  BY <1>1, <1>5, <1>7, <1>8, <1>9, <1>10, <1>11 DEF CallOK

\* FeedGetter.get begins: with the cached wrappers, or with an empty cache if it must fetch.
LEMMA GetFeedKeeps ==
  ASSUME WrappersOK, NEW refresh \in BOOLEAN, NEW refetch \in BOOLEAN, GetFeed(refresh, refetch)
  PROVE  WrappersOK'
<1>1. DocumentsOK /\ GetOK /\ wrap' = wrap /\ srv' = srv /\ held' = held /\ uuidCache' = uuidCache /\ got' = got
  BY DEF WrappersOK, GetFeed
<1>2. DocumentsOK'
  BY <1>1, NothingAdded DEF DocumentsOK
<1>3. CASE refresh /\ feedCache # NoCache
  <2>1. Started("feed", TRUE, refetch, feedCache) /\ feedCache' = feedCache
    BY <1>3 DEF GetFeed
  <2>2. feedCache \in Seq(Ids)
    BY <1>1, <1>3 DEF GetOK, FeedOK, Ids
  <2> DEFINE kind == "feed"
  <2>3. kind \in {"feed", "fetch", "uuid"} /\ kind # "uuid" /\ kind # "fetch"
    OBVIOUS
  <2>4. Started(kind, TRUE, refetch, feedCache)
    BY <2>1
  <2> HIDE DEF kind
  <2>5. CallOK(getCall', wrap, srv, feedCache, uuidCache)
    BY <1>1, <2>2, <2>3, <2>4, CallBegun
  <2> QED
    BY <1>1, <1>2, <2>1, <2>5 DEF WrappersOK, GetOK
<1>4. CASE ~(refresh /\ feedCache # NoCache)
  <2> DEFINE asks == refetch \/ feedCache = NoCache
             kind == "fetch"
             none == <<>>
  <2>1. Started(kind, FALSE, asks, none) /\ feedCache' = IF refetch THEN NoCache ELSE feedCache
    BY <1>4 DEF GetFeed
  <2>2. kind \in {"feed", "fetch", "uuid"} /\ kind # "feed" /\ kind # "uuid" /\ none = <<>> /\ asks \in BOOLEAN
    OBVIOUS
  <2>3. asks => feedCache' = NoCache
    BY <2>1
  <2> HIDE DEF kind, none, asks
  <2>4. CallOK(getCall', wrap, srv, feedCache', uuidCache)
    BY <1>1, <2>1, <2>2, <2>3, CallBegun
  <2>5. FeedOK(feedCache', wrap)
    BY <1>1, <2>1 DEF GetOK, FeedOK
  <2> QED
    BY <1>1, <1>2, <2>4, <2>5 DEF WrappersOK, GetOK
<1> QED
  BY <1>3, <1>4

\* UUIDFeedGetter.get begins: a refetch forgets what was cached.
LEMMA GetUuidFeedKeeps ==
  ASSUME WrappersOK, NEW refresh \in BOOLEAN, NEW refetch \in BOOLEAN, GetUuidFeed(refresh, refetch)
  PROVE  WrappersOK'
<1>1. DocumentsOK /\ GetOK /\ wrap' = wrap /\ srv' = srv /\ held' = held /\ feedCache' = feedCache /\ got' = got
  BY DEF WrappersOK, GetUuidFeed
<1>2. DocumentsOK'
  BY <1>1, NothingAdded DEF DocumentsOK
<1>3. /\ uuidCache \in [WObjects -> DOMAIN wrap \cup {NoCache}]
      /\ uuidCache' = IF refetch THEN [o \in DOMAIN uuidCache |-> NoCache] ELSE uuidCache
  BY <1>1 DEF GetOK, UuidOK, GetUuidFeed
<1>4. UuidOK(uuidCache', wrap) /\ (refetch => \A o \in WObjects : uuidCache'[o] = NoCache)
  BY <1>3 DEF UuidOK
<1> DEFINE kind == "uuid"
<1>5. kind \in {"feed", "fetch", "uuid"} /\ kind # "feed" /\ kind # "fetch"
  OBVIOUS
<1>6. Started(kind, refresh, refetch, WrapObjects)
  BY DEF GetUuidFeed
<1>7. WrapObjects \in Seq(WObjects)
  BY WrapperConstantsOK DEF WObjects
<1> HIDE DEF kind
<1>8. CallOK(getCall', wrap, srv, feedCache, uuidCache')
  BY <1>1, <1>4, <1>5, <1>6, <1>7, CallBegun
<1> QED
  BY <1>1, <1>2, <1>4, <1>8 DEF WrappersOK, GetOK

\* The feed: the objects that exist.
IsFeed(f) ==
  f = [n \in 0 .. Len(WrapObjects) |->
         IF n = 0 THEN <<>> ELSE IF Exists(WrapObjects[n]) THEN Append(f[n - 1], WrapObjects[n]) ELSE f[n - 1]]

\* The feed is a sequence of objects.
LEMMA FeedTyped == Feed \in Seq(WObjects)
<1> DEFINE N == Len(WrapObjects)
           S == Seq(WObjects)
           G == [p \in (1 .. N) \X S |-> IF Exists(WrapObjects[p[1]]) THEN Append(p[2], WrapObjects[p[1]]) ELSE p[2]]
           zero == <<>>
           h == CHOOSE f : IsFeed(f)
<1>1. N \in Nat /\ \A n \in 1 .. N : WrapObjects[n] \in WObjects
  <2>1. WrapObjects \in Seq(WObjects)
    BY WrapperConstantsOK DEF WObjects
  <2> QED
    BY <2>1
<1>2. zero \in S /\ \A s \in S, o \in WObjects : Append(s, o) \in S
  OBVIOUS
<1>3. Feed = h[N]
  BY DEF Feed, IsFeed
<1> HIDE DEF S, h
<1>4. G \in [(1 .. N) \X S -> S]
  BY <1>1, <1>2
<1>5. ASSUME NEW n \in 1 .. N, NEW s \in S PROVE G[<<n, s>>] = IF Exists(WrapObjects[n]) THEN Append(s, WrapObjects[n]) ELSE s
  OBVIOUS
<1> HIDE DEF G, zero
<1>6. PICK f : Stepped(N, S, zero, G, f)
  BY <1>1, <1>2, <1>4, StepsExist
<1>7. f \in [0 .. N -> S] /\ \A n \in 0 .. N : f[n] = IF n = 0 THEN zero ELSE G[<<n, f[n - 1]>>]
  BY <1>6 DEF Stepped
<1>8. ASSUME NEW n \in 0 .. N
      PROVE  f[n] = IF n = 0 THEN zero ELSE IF Exists(WrapObjects[n]) THEN Append(f[n - 1], WrapObjects[n]) ELSE f[n - 1]
  <2>1. CASE n = 0
    BY <1>7, <2>1
  <2>2. CASE n # 0
    <3>1. n \in 1 .. N /\ n - 1 \in 0 .. N
      BY <1>1, <2>2
    <3>2. f[n - 1] \in S
      BY <1>7, <3>1
    <3> QED
      BY <1>5, <1>7, <2>2, <3>1, <3>2
  <2> QED
    BY <2>1, <2>2
<1>9. IsFeed(f)
  <2>1. f = [n \in 0 .. N |-> f[n]]
    BY <1>7
  <2> QED
    BY <1>8, <2>1 DEF IsFeed, zero
<1>10. IsFeed(h)
  BY <1>9 DEF h
<1>11. \A n \in 0 .. N : h[n] = IF n = 0 THEN zero ELSE IF Exists(WrapObjects[n]) THEN Append(h[n - 1], WrapObjects[n]) ELSE h[n - 1]
  BY <1>10 DEF IsFeed, zero
<1> DEFINE T == {n \in 0 .. N : h[n] \in S}
<1>12. 0 \in T
  BY <1>1, <1>2, <1>11
<1>13. ASSUME NEW n \in 1 .. N, n - 1 \in T PROVE n \in T
  <2>1. n \in 0 .. N /\ n # 0 /\ h[n - 1] \in S /\ WrapObjects[n] \in WObjects
    BY <1>1, <1>13
  <2> QED
    BY <1>2, <1>11, <2>1
<1>14. N \in T
  <2> HIDE DEF T
  <2>1. \A n \in 0 .. N : n \in T
    BY <1>1, <1>12, <1>13, UpToN
  <2> QED
    BY <1>1, <2>1
<1> QED
  BY <1>3, <1>14 DEF S

\* What has been got from the server since is fresh.
LEMMA WrappedFresh ==
  ASSUME DocumentsOK, NEW o \in WObjects, NEW since \in [WObjects -> Nat], since[o] <= srv[o].ver,
         NEW wr, NEW i \in DOMAIN wr, wr[i] = Wrapped(o)
  PROVE  Fresh(i, since, wr)
<1>1. wr[i].obj = o /\ wr[i].etag = srv[o].ver
  BY DEF Wrapped
<1>2. srv[o].ver \in Nat /\ since[o] \in Nat
  BY StoredTyped
<1> QED
  BY <1>1, <1>2 DEF Fresh

\* What the server answers 304 for is fresh.
LEMMA CurrentFresh ==
  ASSUME DocumentsOK, NEW w \in Ids, IsCurrent(w), NEW since \in [WObjects -> Nat],
         \A o \in WObjects : since[o] <= srv[o].ver
  PROVE  Fresh(w, since, wrap)
<1>1. wrap[w].obj \in WObjects
  BY WrapAt
<1>2. srv[wrap[w].obj].ver \in Nat /\ since[wrap[w].obj] \in Nat /\ wrap[w].etag = srv[wrap[w].obj].ver
  BY <1>1, StoredTyped DEF IsCurrent
<1> QED
  BY <1>1, <1>2 DEF Fresh, Ids

\* The feed is fetched, or the cache is the answer.
LEMMA FetchFeedKeeps == ASSUME WrappersOK, FetchFeed PROVE WrappersOK'
<1> DEFINE os == Feed
           L == Len(wrap)
           N == Len(os)
           more == [i \in DOMAIN os |-> Wrapped(os[i])]
           ids == [i \in DOMAIN os |-> L + i]
           since == getCall.since
<1>1. DocumentsOK /\ GetOK /\ wrap \in Seq(Wraps) /\ L \in Nat /\ DOMAIN wrap = 1 .. L
  BY DEF WrappersOK, DocumentsOK
<1>2. /\ getCall # NoCall /\ getCall.kind = "fetch" /\ srv' = srv /\ held' = held /\ uuidCache' = uuidCache
      /\ getCall' = NoCall
  BY DEF FetchFeed
<1>3. CallOK(getCall, wrap, srv, feedCache, uuidCache)
  BY <1>1, <1>2 DEF GetOK
<1>4. /\ since \in [WObjects -> Nat] /\ \A o \in WObjects : since[o] <= srv[o].ver
      /\ getCall.asked => feedCache = NoCache
  BY <1>2, <1>3 DEF CallOK, GetCalls
<1>5. os \in Seq(WObjects) /\ N \in Nat /\ DOMAIN os = 1 .. N
  BY FeedTyped
<1> HIDE DEF os
<1>6. CASE feedCache # NoCache
  <2>1. wrap' = wrap /\ feedCache' = feedCache
    BY <1>6 DEF FetchFeed
  <2>2. got' = [asked |-> getCall.asked, since |-> since, ids |-> feedCache]
    BY <1>6 DEF FetchFeed
  <2>3. got'.asked = getCall.asked
    BY <2>2
  <2>4. GotOK(got', wrap)
    BY <1>4, <1>6, <2>3 DEF GotOK
  <2> QED
    BY <1>1, <1>2, <2>1, <2>4, NothingAdded DEF WrappersOK, GetOK, DocumentsOK
<1>7. CASE feedCache = NoCache
  <2>1. wrap' = wrap \o more /\ feedCache' = ids
    BY <1>7 DEF FetchFeed, os
  <2>2. got' = [asked |-> getCall.asked, since |-> since, ids |-> ids]
    BY <1>7 DEF FetchFeed, os
  <2>3. /\ more \in Seq(Wraps) /\ Len(more) = N /\ \A i \in 1 .. N : more[i] = Wrapped(os[i]) /\ os[i] \in WObjects
    <3>1. \A i \in 1 .. N : os[i] \in WObjects /\ Wrapped(os[i]) \in Wraps
      BY <1>1, <1>5, WrappedWraps
    <3>2. more \in [1 .. N -> Wraps]
      BY <1>5, <3>1
    <3> QED
      BY <1>5, <3>1, <3>2, SeqDef
  <2>4. DOMAIN ids = 1 .. N /\ \A i \in 1 .. N : ids[i] = L + i
    BY <1>5
  <2> DEFINE wr2 == wrap \o more
  <2>5. /\ wr2 \in Seq(Wraps) /\ DOMAIN wr2 = 1 .. L + N
        /\ \A i \in 1 .. L + N : wr2[i] = IF i <= L THEN wrap[i] ELSE more[i - L]
    <3> HIDE DEF more
    <3>1. more \in Seq(Wraps) /\ Len(more) = N /\ wrap \in Seq(Wraps)
      BY <1>1, <2>3
    <3>2. /\ wr2 \in Seq(Wraps) /\ DOMAIN wr2 = 1 .. Len(wrap) + Len(more)
          /\ \A i \in 1 .. Len(wrap) + Len(more) : wr2[i] = IF i <= Len(wrap) THEN wrap[i] ELSE more[i - Len(wrap)]
      BY <3>1, Joined, ZenonT(60)
    <3> QED
      BY <3>1, <3>2
  <2>6. wrap' = wr2
    BY <2>1
  <2>7. Adds(more)
    BY <1>2, <2>1 DEF Adds
  <2> HIDE DEF more, wr2, ids, since
  <2>8. DocumentsOK' /\ Later(wrap, wr2)
    <3>1. srv' \in [WObjects -> Stored]
      BY <1>1, <1>2 DEF DocumentsOK
    <3> QED
      BY <1>1, <2>3, <2>6, <2>7, <3>1, AddedOK, AddsLater
  <2>9. ASSUME NEW i \in 1 .. N PROVE ids[i] \in DOMAIN wr2 /\ Fresh(ids[i], since, wr2)
    <3>1. L + i \in 1 .. L + N /\ ~(L + i <= L) /\ L + i - L = i
      BY <1>1, <1>5
    <3>2. ids[i] \in DOMAIN wr2 /\ wr2[ids[i]] = Wrapped(os[i]) /\ os[i] \in WObjects
      BY <2>3, <2>4, <2>5, <3>1
    <3> QED
      BY <1>1, <1>4, <3>2, WrappedFresh
  <2>10. AllFresh(ids, since, wr2)
    BY <2>4, <2>9 DEF AllFresh
  <2>11. ids \in Seq(DOMAIN wr2)
    <3>1. ids \in [1 .. N -> DOMAIN wr2]
      <4>1. ids = [i \in 1 .. N |-> L + i]
        BY <1>5 DEF ids
      <4> QED
        BY <2>4, <2>9, <4>1
    <3> QED
      BY <1>5, <3>1, SeqDef
  <2>12. GotOK(got', wr2) /\ FeedOK(feedCache', wr2) /\ UuidOK(uuidCache', wr2)
    <3>1. got'.since = since /\ got'.ids = ids
      BY <2>2
    <3>2. UuidOK(uuidCache, wr2)
      BY <1>1, <2>8, CachesLater DEF GetOK
    <3> QED
      BY <1>2, <1>4, <2>1, <2>10, <2>11, <3>1, <3>2 DEF GotOK, FeedOK
  <2> QED
    BY <1>2, <2>6, <2>8, <2>12 DEF WrappersOK, GetOK
<1> QED
  BY <1>6, <1>7

\* refresh() of one wrapper.
LEMMA RefreshWrapperKeeps == ASSUME WrappersOK, NEW w \in Ids, RefreshWrapper(w) PROVE WrappersOK'
<1> DEFINE L == Len(wrap)
           o == wrap[w].obj
           more == Refreshed(w)
           x == IF NotModified(w) THEN w ELSE L + 1
<1>1. DocumentsOK /\ GetOK /\ wrap \in Seq(Wraps) /\ L \in Nat /\ DOMAIN wrap = 1 .. L
  BY DEF WrappersOK, DocumentsOK
<1>2. /\ srv' = srv /\ held' = held /\ wrap' = wrap \o more
      /\ feedCache' = feedCache /\ uuidCache' = uuidCache /\ getCall' = getCall
      /\ got' = [asked |-> TRUE, since |-> Versions, ids |-> <<x>>]
  BY DEF RefreshWrapper
<1>3. o \in WObjects /\ Wrapped(o) \in Wraps
  BY <1>1, WrapAt, WrappedWraps
<1>4. Versions \in [WObjects -> Nat] /\ \A p \in WObjects : Versions[p] = srv[p].ver /\ Versions[p] <= srv[p].ver
  <2>1. Versions \in [WObjects -> Nat] /\ \A p \in WObjects : Versions[p] = srv[p].ver
    BY <1>1, VersionsTyped
  <2> QED
    BY <2>1
<1>5. more \in Seq(Wraps)
  BY <1>3 DEF Refreshed
<1> DEFINE wr2 == wrap \o more
<1>6. Adds(more) /\ wrap' = wr2
  BY <1>2 DEF Adds
<1>7. Fresh(x, Versions, wr2)
  <2>1. CASE NotModified(w)
    <3>1. Fresh(w, Versions, wrap)
      BY <1>1, <1>4, <2>1, CurrentFresh DEF NotModified
    <3>2. Later(wrap, wr2)
      BY <1>1, <1>5, <1>6, AddsLater
    <3> HIDE DEF wr2
    <3> QED
      BY <2>1, <3>1, <3>2, FreshLater
  <2>2. CASE ~NotModified(w)
    <3> DEFINE c == Wrapped(o)
    <3>1. more = <<c>>
      BY <2>2 DEF Refreshed
    <3> HIDE DEF c, o, more
    <3>2. L + 1 \in DOMAIN wr2 /\ wr2[L + 1] = c
      BY <1>1, <1>3, <3>1 DEF c
    <3> HIDE DEF wr2
    <3>3. Fresh(L + 1, Versions, wr2)
      BY <1>1, <1>3, <1>4, <3>2, WrappedFresh DEF c
    <3> QED
      BY <2>2, <3>3
  <2> QED
    BY <2>1, <2>2
<1>8. DocumentsOK' /\ Later(wrap, wr2)
  <2>1. srv' \in [WObjects -> Stored]
    BY <1>1, <1>2 DEF DocumentsOK
  <2> QED
    BY <1>1, <1>5, <1>6, <2>1, AddedOK, AddsLater
<1> HIDE DEF wr2, x, more
<1>9. GotOK(got', wr2)
  <2>1. got'.since = Versions /\ got'.ids = <<x>>
    BY <1>2
  <2>2. AllFresh(<<x>>, Versions, wr2)
    BY <1>7 DEF AllFresh
  <2> QED
    BY <1>4, <2>1, <2>2 DEF GotOK
<1>10. FeedOK(feedCache, wr2) /\ UuidOK(uuidCache, wr2)
  BY <1>1, <1>8, CachesLater DEF GetOK
<1>11. getCall # NoCall => CallOK(getCall, wr2, srv, feedCache, uuidCache)
  <2>1. Newer(srv, srv)
    BY <1>1, StoredTyped DEF Newer
  <2> QED
    BY <1>1, <1>8, <2>1, CallLater DEF GetOK
<1> QED
  BY <1>2, <1>6, <1>8, <1>9, <1>10, <1>11 DEF WrappersOK, GetOK

\* A get() returns, or ends because the object is gone.
LEMMA GetEnds == ASSUME WrappersOK, GetGone \/ GetReturns PROVE WrappersOK'
<1>1. /\ DocumentsOK /\ GetOK /\ wrap' = wrap /\ srv' = srv /\ held' = held /\ uuidCache' = uuidCache
      /\ getCall' = NoCall /\ getCall # NoCall
  BY DEF WrappersOK, GetGone, GetReturns
<1>2. DocumentsOK'
  BY <1>1, NothingAdded DEF DocumentsOK
<1>3. CallOK(getCall, wrap, srv, feedCache, uuidCache)
  BY <1>1 DEF GetOK
<1>4. FeedOK(feedCache', wrap) /\ GotOK(got', wrap)
  <2>1. CASE GetGone
    BY <1>1, <2>1 DEF GetGone, GetOK
  <2>2. CASE GetReturns
    <3>1. getCall.new \in Seq(DOMAIN wrap) /\ getCall.since \in [WObjects -> Nat]
      BY <1>3 DEF CallOK, GetCalls
    <3>2. FeedOK(feedCache', wrap)
      BY <1>1, <2>2, <3>1 DEF GetReturns, GetOK, FeedOK
    <3>3. got' = [asked |-> getCall.asked, since |-> getCall.since, ids |-> getCall.new]
      BY <2>2 DEF GetReturns
    <3>4. got'.asked = getCall.asked /\ got'.since = getCall.since /\ got'.ids = getCall.new
      BY <3>3
    <3>5. GotOK(got', wrap)
      BY <1>3, <3>1, <3>4 DEF GotOK, CallOK
    <3> QED
      BY <3>2, <3>5
  <2> QED
    BY <2>1, <2>2
<1> QED
  BY <1>1, <1>2, <1>4 DEF WrappersOK, GetOK

\* What the next request of a get() finds.
LEMMA NextFound ==
  ASSUME DocumentsOK, GetOK, getCall # NoCall, getCall.kind # "fetch", getCall.todo # <<>>
  PROVE  /\ TodoObject \in WObjects
         /\ Fetches = <<>> => Cached # NoCache
         /\ Cached # NoCache => Cached \in Ids
         /\ Fetches # <<>> => \E o \in WObjects : Fetches = <<Wrapped(o)>>
         /\ Fetches = <<>> /\ getCall.asked => Fresh(Cached, getCall.since, wrap)
<1> DEFINE since == getCall.since
<1>1. CallOK(getCall, wrap, srv, feedCache, uuidCache)
  BY DEF GetOK
<1>2. /\ getCall.kind \in {"feed", "uuid"}
      /\ since \in [WObjects -> Nat] /\ \A o \in WObjects : since[o] <= srv[o].ver
      /\ getCall.kind = "feed" => getCall.refresh /\ getCall.todo \in Seq(Ids)
      /\ getCall.kind = "uuid" => getCall.todo \in Seq(WObjects)
      /\ getCall.kind = "uuid" /\ getCall.asked /\ ~getCall.refresh =>
           \A o \in WObjects : uuidCache[o] # NoCache => Fresh(uuidCache[o], since, wrap)
  BY <1>1 DEF CallOK, GetCalls, Ids
<1>3. /\ getCall.kind = "feed" => Head(getCall.todo) \in Ids
      /\ getCall.kind = "uuid" => Head(getCall.todo) \in WObjects
  BY <1>2, HeadTailProperties
<1>4. TodoObject \in WObjects
  <2>1. CASE getCall.kind = "feed"
    BY <1>3, <2>1, WrapAt DEF TodoObject
  <2>2. CASE getCall.kind = "uuid"
    BY <1>3, <2>2 DEF TodoObject
  <2> QED
    BY <1>2, <2>1, <2>2
<1>5. /\ getCall.kind = "feed" => Cached \in Ids
      /\ getCall.kind = "uuid" => Cached = uuidCache[TodoObject] /\ Cached \in Ids \cup {NoCache}
  <2>1. uuidCache[TodoObject] \in Ids \cup {NoCache}
    BY <1>4 DEF GetOK, UuidOK, Ids
  <2> QED
    BY <1>3, <2>1 DEF Cached
<1>6. CASE Cached = NoCache
  <2>1. Fetches = <<Wrapped(TodoObject)>>
    BY <1>6 DEF Fetches
  <2> QED
    BY <1>4, <1>6, <2>1
<1>7. CASE Cached # NoCache /\ getCall.refresh
  <2>1. Cached \in Ids
    BY <1>2, <1>5, <1>7
  <2>2. Fetches = IF IsCurrent(Cached) THEN <<>> ELSE <<Wrapped(wrap[Cached].obj)>>
    BY <1>7 DEF Fetches, Refreshed, NotModified
  <2>3. wrap[Cached].obj \in WObjects
    BY <2>1, WrapAt
  <2>4. IsCurrent(Cached) => Fresh(Cached, since, wrap)
    BY <1>2, <2>1, CurrentFresh
  <2> QED
    BY <1>4, <1>7, <2>1, <2>2, <2>3, <2>4
<1>8. CASE Cached # NoCache /\ ~getCall.refresh
  <2>1. Fetches = <<>> /\ getCall.kind = "uuid"
    BY <1>2, <1>8 DEF Fetches
  <2>2. Cached \in Ids /\ Cached = uuidCache[TodoObject]
    BY <1>5, <1>8, <2>1
  <2>3. getCall.asked => Fresh(Cached, since, wrap)
    BY <1>2, <1>4, <1>8, <2>1, <2>2
  <2> QED
    BY <1>4, <1>8, <2>1, <2>2, <2>3
<1> QED
  BY <1>6, <1>7, <1>8

\* The next request of a get().
LEMMA GetNextKeeps == ASSUME WrappersOK, GetNext PROVE WrappersOK'
<1> DEFINE L == Len(wrap)
           w == IF Fetches = <<>> THEN Cached ELSE L + 1
           wr2 == wrap \o Fetches
           since == getCall.since
           call2 == [getCall EXCEPT !.todo = Tail(getCall.todo), !.new = Append(getCall.new, w)]
           uuid2 == IF getCall.kind = "uuid" THEN [uuidCache EXCEPT ![TodoObject] = w] ELSE uuidCache
<1>1. DocumentsOK /\ GetOK /\ wrap \in Seq(Wraps) /\ L \in Nat /\ DOMAIN wrap = 1 .. L
  BY DEF WrappersOK, DocumentsOK
<1>2. /\ getCall # NoCall /\ getCall.kind # "fetch" /\ getCall.todo # <<>>
      /\ wrap' = wr2 /\ getCall' = call2 /\ uuidCache' = uuid2
      /\ srv' = srv /\ held' = held /\ feedCache' = feedCache /\ got' = got
  BY DEF GetNext
<1>3. CallOK(getCall, wrap, srv, feedCache, uuidCache)
  BY <1>1, <1>2 DEF GetOK
<1>4. /\ TodoObject \in WObjects
      /\ Fetches = <<>> => Cached # NoCache
      /\ Cached # NoCache => Cached \in Ids
      /\ Fetches # <<>> => \E o \in WObjects : Fetches = <<Wrapped(o)>>
      /\ Fetches = <<>> /\ getCall.asked => Fresh(Cached, since, wrap)
  BY <1>1, <1>2, NextFound
<1>5. since \in [WObjects -> Nat] /\ \A o \in WObjects : since[o] <= srv[o].ver
  BY <1>3 DEF CallOK, GetCalls
<1> HIDE DEF w
<1>6. Fetches \in Seq(Wraps)
  <2>1. \A o \in WObjects : <<Wrapped(o)>> \in Seq(Wraps)
    BY <1>1, WrappedWraps
  <2>2. CASE Fetches = <<>>
    BY <2>2
  <2>3. CASE Fetches # <<>>
    BY <1>4, <2>1, <2>3
  <2> QED
    BY <2>2, <2>3
<1>7. DocumentsOK' /\ Later(wrap, wr2)
  <2>1. Adds(Fetches) /\ srv' \in [WObjects -> Stored]
    BY <1>1, <1>2 DEF Adds, DocumentsOK
  <2> HIDE DEF wr2
  <2> QED
    BY <1>1, <1>2, <1>6, <2>1, AddedOK, AddsLater
<1>8. w \in DOMAIN wr2 /\ (getCall.asked => Fresh(w, since, wr2))
  <2>1. CASE Fetches = <<>>
    <3>1. w = Cached /\ w \in DOMAIN wrap
      BY <1>4, <2>1 DEF w, Ids
    <3> HIDE DEF wr2, since
    <3> QED
      BY <1>4, <1>7, <2>1, <3>1, FreshLater DEF Later
  <2>2. CASE Fetches # <<>>
    <3>1. PICK o \in WObjects : Fetches = <<Wrapped(o)>>
      BY <1>4, <2>2
    <3> DEFINE c == Wrapped(o)
    <3>2. w = L + 1
      BY <2>2 DEF w
    <3> HIDE DEF c
    <3>3. w \in DOMAIN wr2 /\ wr2[w] = c
      BY <1>1, <3>1, <3>2 DEF c
    <3> HIDE DEF wr2
    <3>4. Fresh(w, since, wr2)
      BY <1>1, <1>5, <3>3, WrappedFresh DEF c
    <3> QED
      BY <3>3, <3>4
  <2> QED
    BY <2>1, <2>2
<1> HIDE DEF wr2
<1>9. CallOK(getCall, wr2, srv, feedCache, uuidCache)
  <2>1. Newer(srv, srv)
    BY <1>1, StoredTyped DEF Newer
  <2> QED
    BY <1>3, <1>7, <2>1, CallLater
<1>10. UuidOK(uuid2, wr2)
  <2>1. UuidOK(uuidCache, wr2)
    BY <1>1, <1>7, CachesLater DEF GetOK
  <2> QED
    BY <1>4, <1>8, <2>1 DEF UuidOK
<1>11. CallOK(call2, wr2, srv, feedCache, uuid2)
  <2>1. getCall \in GetCalls(DOMAIN wr2)
    BY <1>9 DEF CallOK
  <2>2. /\ getCall.kind = "feed" => Tail(getCall.todo) \in Seq(DOMAIN wr2)
        /\ getCall.kind = "uuid" => Tail(getCall.todo) \in Seq(WObjects)
    BY <1>2, <1>9, HeadTailProperties DEF CallOK
  <2>3. getCall.kind = "feed" \/ getCall.kind = "uuid"
    BY <1>2, <2>1 DEF GetCalls
  <2>4. Append(getCall.new, w) \in Seq(DOMAIN wr2) /\ getCall.new \in Seq(DOMAIN wr2)
    BY <1>8, <2>1 DEF GetCalls
  <2>5. Tail(getCall.todo) \in Seq(DOMAIN wr2) \cup Seq(WObjects)
    BY <2>2, <2>3
  <2> DEFINE td == Tail(getCall.todo)
             nw == Append(getCall.new, w)
  <2> HIDE DEF td, nw
  <2>6. /\ call2 \in GetCalls(DOMAIN wr2)
        /\ call2.kind = getCall.kind /\ call2.refresh = getCall.refresh /\ call2.asked = getCall.asked
        /\ call2.since = since /\ call2.todo = td /\ call2.new = nw
    BY <2>1, <2>4, <2>5 DEF GetCalls, td, nw
  <2> HIDE DEF call2, uuid2
  <2>7. call2.asked => AllFresh(call2.new, call2.since, wr2)
    <3> SUFFICES ASSUME getCall.asked PROVE AllFresh(nw, since, wr2)
      BY <2>6
    <3>1. AllFresh(getCall.new, since, wr2)
      BY <1>9 DEF CallOK
    <3>2. ASSUME NEW i \in DOMAIN nw PROVE Fresh(nw[i], since, wr2)
      <4>1. nw[i] = w \/ (i \in DOMAIN getCall.new /\ nw[i] = getCall.new[i])
        BY <2>4 DEF nw
      <4> QED
        BY <1>8, <3>1, <4>1 DEF AllFresh
    <3> QED
      BY <3>2 DEF AllFresh
  <2>8. call2.kind = "uuid" /\ call2.asked /\ ~call2.refresh =>
          \A o \in WObjects : uuid2[o] # NoCache => Fresh(uuid2[o], since, wr2)
    <3> SUFFICES ASSUME getCall.kind = "uuid", getCall.asked, ~getCall.refresh, NEW o \in WObjects, uuid2[o] # NoCache
                 PROVE  Fresh(uuid2[o], since, wr2)
      BY <2>6
    <3>1. uuidCache[o] # NoCache => Fresh(uuidCache[o], since, wr2)
      BY <1>9 DEF CallOK
    <3>2. uuid2[o] = IF o = TodoObject THEN w ELSE uuidCache[o]
      BY <1>1 DEF uuid2, GetOK, UuidOK
    <3> QED
      BY <1>8, <3>1, <3>2
  <2>9. /\ \A o \in WObjects : call2.since[o] <= srv[o].ver
        /\ call2.kind = "feed" => call2.refresh /\ call2.todo \in Seq(DOMAIN wr2)
        /\ call2.kind = "uuid" => call2.todo \in Seq(WObjects)
    BY <1>5, <1>9, <2>2, <2>6 DEF CallOK, td
  <2>10. call2.kind # "fetch"
    BY <1>2, <2>6
  <2> QED
    BY <2>6, <2>7, <2>8, <2>9, <2>10 DEF CallOK
<1> HIDE DEF call2, uuid2
<1>12. FeedOK(feedCache, wr2) /\ GotOK(got, wr2)
  BY <1>1, <1>7, CachesLater DEF GetOK
<1> QED
  BY <1>2, <1>7, <1>10, <1>11, <1>12 DEF WrappersOK, GetOK

-----------------------------------------------------------------------------
\* The invariant holds at first,
LEMMA WrappersInit == ASSUME WrapperInit PROVE WrappersOK
<1>1. DocumentsOK
  BY DocumentsInit
<1>2. /\ feedCache = NoCache /\ uuidCache = [o \in WObjects |-> NoCache] /\ getCall = NoCall /\ got = NoCache
  BY DEF WrapperInit, NoWrappersYet, WObjects
<1>3. FeedOK(feedCache, wrap) /\ UuidOK(uuidCache, wrap) /\ GotOK(got, wrap)
  BY <1>2 DEF FeedOK, UuidOK, GotOK
<1> QED
  BY <1>1, <1>2, <1>3 DEF WrappersOK, GetOK

\* every step keeps it,
LEMMA WrappersNext == ASSUME WrappersOK, WrapperNext PROVE WrappersOK'
<1>1. ASSUME NEW o \in ToSet(WrapObjects), GetWrapper(o) \/ BuildWrapper(o) \/ ForeignChange(o) PROVE WrappersOK'
  BY <1>1, ObjectKeeps DEF WObjects
<1>2. ASSUME NEW w \in Ids, CreateFromWrapper(w) \/ UpdateWrapper(w) \/ DeleteWrapper(w) PROVE WrappersOK'
  BY <1>2, WrapperKeeps
<1>3. ASSUME NEW w \in Ids, RefreshWrapper(w) PROVE WrappersOK'
  BY <1>3, RefreshWrapperKeeps
<1>4. ASSUME NEW w \in Ids, EditWrapper(w) PROVE WrappersOK'
  BY <1>4, EditWrapperKeeps
<1>5. CASE EditList
  BY <1>5, EditListKeeps
<1>6. ASSUME NEW refresh \in BOOLEAN, NEW refetch \in BOOLEAN, GetFeed(refresh, refetch) PROVE WrappersOK'
  BY <1>6, GetFeedKeeps
<1>7. ASSUME NEW refresh \in BOOLEAN, NEW refetch \in BOOLEAN, GetUuidFeed(refresh, refetch) PROVE WrappersOK'
  BY <1>7, GetUuidFeedKeeps
<1>8. CASE FetchFeed
  BY <1>8, FetchFeedKeeps
<1>9. CASE GetNext
  BY <1>9, GetNextKeeps
<1>10. CASE GetGone \/ GetReturns
  BY <1>10, GetEnds
<1> QED
  BY <1>1, <1>2, <1>3, <1>4, <1>5, <1>6, <1>7, <1>8, <1>9, <1>10 DEF WrapperNext

\* and so does a step that changes nothing.
LEMMA WrappersStutter == ASSUME WrappersOK, UNCHANGED wrapperVars PROVE WrappersOK'
  BY DEF WrappersOK, DocumentsOK, GetOK, wrapperVars

\* The documents of the wrappers and of the server are typed and in the order of
\* the schema, a wrapper's document says what the caller put into it and has not
\* appended to another list since, and a view counts exactly as long as its list is
\* in the document (WrappersOK, inductive).
THEOREM WrappersInvariant == WrapperSpec => []WrappersOK
<1>1. WrapperInit => WrappersOK
  BY WrappersInit
<1>2. WrappersOK /\ [WrapperNext]_wrapperVars => WrappersOK'
  BY WrappersNext, WrappersStutter
<1> QED
  BY <1>1, <1>2, PTL DEF WrapperSpec

\* A document says exactly what the caller put into it, less the elements that it has
\* appended to a list since, and is in the order of the schema, on the server too, and
\* a get() or refresh() asked for fresh data returns nothing older.
THEOREM WrappersStaySound == WrapperSpec => []WrappersAreSound
<1>1. WrappersOK => WrappersAreSound
  <2> SUFFICES ASSUME WrappersOK PROVE WrappersAreSound
    OBVIOUS
  <2>0. DocumentsOK /\ GetOK
    BY DEF WrappersOK
  <2>1. ASSUME NEW w \in Ids PROVE Content(Doc(w)) = wrap[w].content /\ InSchemaOrder(Doc(w))
    BY <2>0, WrapAt DEF Docs
  <2>2. ASSUME NEW o \in DOMAIN srv PROVE InSchemaOrder(srv[o].doc)
    <3>1. o \in WObjects
      BY <2>0 DEF DocumentsOK
    <3> QED
      BY <2>0, <3>1, StoredTyped DEF Docs
  <2>3. ASSUME got # NoCache, got.asked, NEW i \in DOMAIN got.ids
        PROVE  wrap[got.ids[i]].etag >= got.since[wrap[got.ids[i]].obj]
    BY <2>0, <2>3 DEF GetOK, GotOK, AllFresh, Fresh
  <2> QED
    BY <2>1, <2>2, <2>3 DEF WrappersAreSound
<1> QED
  BY <1>1, WrappersInvariant, PTL
=============================================================================
