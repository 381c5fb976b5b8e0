------------------------------- MODULE Session -------------------------------
(***************************************************************************)
(* pypowervm.adapter.Session: threads that share one session token, the    *)
(* re-login processing of request() when the server answers 401, and       *)
(* _logoff.  The RLock is held for reading the token, and from the         *)
(* decision to re-login until the retried request has ended.               *)
(***************************************************************************)
EXTENDS Naturals

CONSTANTS
  Threads,      \* threads that send requests
  NoThread,
  ConnTries,    \* conn_tries of the constructor
  MaxRequests,  \* bound on the requests of a thread
  MaxExpire     \* bound on the tokens that the server expires

ASSUME SessionConstantsOK ==
  /\ NoThread \notin Threads
  /\ "closer" \notin Threads \cup {NoThread}
  /\ ConnTries \in Nat \ {0}
  /\ MaxRequests \in Nat
  /\ MaxExpire \in Nat

VARIABLES
  ctor,       \* the constructor: "trying", "ready" or "failed"
  connTry,    \* the try of its _logon
  token,      \* _sessToken (tokens are numbered as they are issued)
  loggedIn,   \* _logged_in
  unsafe,     \* _relogin_unsafe
  lock,       \* owner of _lock
  pc,         \* thread -> where in request()
  tried,      \* thread -> sess_token_try
  retrying,   \* thread -> this is the retried request (relogin=False)
  payload,    \* thread -> what the caller asked to be sent or received
  carried,    \* thread -> what the request on the wire carries
  count,      \* thread -> requests begun
  served,     \* thread -> times the server has carried out the request
  result,     \* thread -> how its last request ended
  closer,     \* the caller of _logoff
  valid,      \* tokens the server accepts
  issued,     \* tokens the server has issued
  orphans,    \* tokens whose logon failed on the client side
  expired,    \* tokens expired so far
  refusing,   \* the server refuses the credentials (password changed, ...)
  rejected    \* logons answered 401

client == <<ctor, connTry, token, loggedIn, unsafe, lock>>
thread == <<pc, tried, retrying, payload, carried, count, served, result>>
server == <<valid, issued, orphans, expired, refusing, rejected>>
vars == <<client, thread, closer, server>>

\* What a request sends or receives: text, or a file through its filehandle.
Payloads == {"body", "file"}
Results == {"none", "ok", "http_error", "unauth", "suspicious", "error"}

TypeOK ==
  /\ ctor \in {"trying", "ready", "failed"}
  /\ connTry \in 1 .. ConnTries
  /\ token \in Nat
  /\ loggedIn \in BOOLEAN
  /\ unsafe \in BOOLEAN
  /\ lock \in Threads \cup {NoThread, "closer"}
  /\ pc \in [Threads -> {"idle", "send", "sent", "unauth", "logon"}]
  /\ tried \in [Threads -> Nat]
  /\ retrying \in [Threads -> BOOLEAN]
  /\ payload \in [Threads -> Payloads \cup {"none"}]
  /\ carried \in [Threads -> {"none", "body", "file"}]
  /\ count \in [Threads -> 0 .. MaxRequests]
  /\ served \in [Threads -> Nat]
  /\ result \in [Threads -> Results]
  /\ closer \in {"idle", "logoff", "delete", "done"}
  /\ valid \subseteq 1 .. issued
  /\ issued \in Nat
  /\ orphans \subseteq 1 .. issued
  /\ expired \in 0 .. MaxExpire
  /\ refusing \in BOOLEAN
  /\ rejected \in Nat

Init ==
  /\ ctor = "trying"
  /\ connTry = 1
  /\ token = 0
  /\ loggedIn = FALSE
  /\ unsafe = FALSE
  /\ lock = NoThread
  /\ pc = [t \in Threads |-> "idle"]
  /\ tried = [t \in Threads |-> 0]
  /\ retrying = [t \in Threads |-> FALSE]
  /\ payload = [t \in Threads |-> "none"]
  /\ carried = [t \in Threads |-> "none"]
  /\ count = [t \in Threads |-> 0]
  /\ served = [t \in Threads |-> 0]
  /\ result = [t \in Threads |-> "none"]
  /\ closer = "idle"
  /\ valid = {}
  /\ issued = 0
  /\ orphans = {}
  /\ expired = 0
  /\ refusing = FALSE
  /\ rejected = 0

-----------------------------------------------------------------------------
(* The server.                                                             *)

\* A token is issued.
Issue ==
  /\ ~refusing
  /\ issued' = issued + 1
  /\ valid' = valid \cup {issued + 1}

\* A token times out, or the server restarts.
Expire(k) ==
  /\ expired < MaxExpire
  /\ k \in valid
  /\ valid' = valid \ {k}
  /\ expired' = expired + 1
  /\ UNCHANGED <<client, thread, closer, issued, orphans, refusing, rejected>>

\* The password is changed or the account is locked.
Refuse ==
  /\ ~refusing
  /\ refusing' = TRUE
  /\ UNCHANGED <<client, thread, closer, valid, issued, orphans, expired, rejected>>

-----------------------------------------------------------------------------
(* __init__: _logon with conn_tries.                                       *)

CtorLogon ==
  /\ ctor = "trying"
  /\ Issue
  /\ token' = issued + 1
  /\ loggedIn' = TRUE
  /\ ctor' = "ready"
  /\ UNCHANGED <<connTry, unsafe, lock, thread, closer, orphans, expired, refusing, rejected>>

\* A ConnectionError or a 404 is retried until the tries run out.
TriesLeft == connTry < ConnTries

CtorNoConnection ==
  /\ ctor = "trying"
  /\ IF TriesLeft
     THEN connTry' = connTry + 1 /\ UNCHANGED ctor
     ELSE ctor' = "failed" /\ UNCHANGED connTry
  /\ UNCHANGED <<token, loggedIn, unsafe, lock, thread, closer, server>>

\* Anything else is not retried: a 401, another HTTP error, a token file that
\* cannot be read.
CtorFails ==
  /\ ctor = "trying"
  /\ \/ refusing /\ rejected' = rejected + 1
        /\ UNCHANGED <<valid, issued, orphans, expired, refusing>>
     \/ Issue /\ orphans' = orphans \cup {issued + 1}
        /\ UNCHANGED <<expired, refusing, rejected>>
     \/ UNCHANGED server
  /\ ctor' = "failed"
  /\ UNCHANGED <<connTry, token, loggedIn, unsafe, lock, thread, closer>>

-----------------------------------------------------------------------------
(* request().                                                              *)

LockAvailable(t) == lock \in {NoThread, t}

LeaksLock(t) == lock                        \* mutant: acquire without release
Unlocked(t) == IF lock = t THEN NoThread ELSE lock

\* The request of t ends, and with it every "with self._lock" it is inside.
End(t, how) ==
  /\ pc' = [pc EXCEPT ![t] = "idle"]
  /\ result' = [result EXCEPT ![t] = how]
  /\ lock' = Unlocked(t)

\* The retry is a plain self.request(method, path, headers, body, ...): the
\* filehandle is not passed on.
Resend(t) ==
  /\ pc' = [pc EXCEPT ![t] = "send"]
  /\ retrying' = [retrying EXCEPT ![t] = TRUE]
  /\ carried' = [carried EXCEPT ![t] = IF payload[t] = "file" THEN "none" ELSE payload[t]]
  /\ lock' = t

Request(t, p) ==
  /\ ctor = "ready"
  /\ pc[t] = "idle" /\ count[t] < MaxRequests
  /\ pc' = [pc EXCEPT ![t] = "send"]
  /\ count' = [count EXCEPT ![t] = @ + 1]
  /\ retrying' = [retrying EXCEPT ![t] = FALSE]
  /\ payload' = [payload EXCEPT ![t] = p]
  /\ carried' = [carried EXCEPT ![t] = p]
  /\ served' = [served EXCEPT ![t] = 0]
  /\ result' = [result EXCEPT ![t] = "none"]
  /\ UNCHANGED <<client, tried, closer, server>>

\* with self._lock: the token is read; the request goes out without the lock,
\* unless it is the retried one.
Send(t) ==
  /\ pc[t] = "send"
  /\ LockAvailable(t)
  /\ tried' = [tried EXCEPT ![t] = token]
  /\ pc' = [pc EXCEPT ![t] = "sent"]
  /\ UNCHANGED <<client, retrying, payload, carried, count, served, result, closer, server>>

\* The server carries out the request: 2xx, 304, or an HTTP error.
Accepted(t, how) ==
  /\ pc[t] = "sent"
  /\ tried[t] \in valid
  /\ served' = [served EXCEPT ![t] = IF how = "ok" THEN @ + 1 ELSE @]
  /\ End(t, how)
  /\ UNCHANGED <<ctor, connTry, token, loggedIn, unsafe, tried, retrying, payload, carried,
                 count, closer, server>>

\* SSLError, ConnectionError, Timeout or anything else from the transport;
\* the server may have carried out the request all the same.
RetriesTimeout(t) ==                        \* mutant: the request is sent again
  pc' = [pc EXCEPT ![t] = "send"] /\ UNCHANGED <<result, lock, retrying, carried>>
TransportError(t) == End(t, "error") /\ UNCHANGED <<retrying, carried>>

NoResponse(t) ==
  /\ pc[t] = "sent"
  /\ \E n \in IF tried[t] \in valid THEN {0, 1} ELSE {0} :
       served' = [served EXCEPT ![t] = @ + n]
  /\ TransportError(t)
  /\ UNCHANGED <<ctor, connTry, token, loggedIn, unsafe, tried, payload, count, closer, server>>

\* 401, and waiting for the lock.
Unauthorized(t) ==
  /\ pc[t] = "sent"
  /\ tried[t] \notin valid
  /\ pc' = [pc EXCEPT ![t] = "unauth"]
  /\ UNCHANGED <<client, tried, retrying, payload, carried, count, served, result,
                 closer, server>>

\* relogin=False (the retried request, whose HttpUnauth becomes "token is brand
\* new"), or re-login deemed unsafe: no re-login.
MayNotRelogin(t) == retrying[t] \/ unsafe

GiveUp(t) ==
  /\ pc[t] = "unauth" /\ LockAvailable(t)
  /\ MayNotRelogin(t)
  /\ End(t, IF retrying[t] THEN "suspicious" ELSE "unauth")
  /\ UNCHANGED <<ctor, connTry, token, loggedIn, unsafe, tried, retrying, payload, carried,
                 count, served, closer, server>>

\* Somebody else has logged on since the token was read.
NeverElsewhere(t) == FALSE                  \* mutant: every 401 re-logs on
DoneElsewhere(t) == token # tried[t]

ReloginElsewhere(t) ==
  /\ pc[t] = "unauth" /\ LockAvailable(t)
  /\ ~MayNotRelogin(t) /\ DoneElsewhere(t)
  /\ Resend(t)
  /\ UNCHANGED <<ctor, connTry, token, loggedIn, unsafe, tried, payload, count, served, result,
                 closer, server>>

BeginRelogin(t) ==
  /\ pc[t] = "unauth" /\ LockAvailable(t)
  /\ ~MayNotRelogin(t) /\ ~DoneElsewhere(t)
  /\ lock' = t
  /\ loggedIn' = FALSE
  /\ pc' = [pc EXCEPT ![t] = "logon"]
  /\ UNCHANGED <<ctor, connTry, token, unsafe, tried, retrying, payload, carried, count, served,
                 result, closer, server>>

\* self._logon() succeeds.
Relogin(t) ==
  /\ pc[t] = "logon"
  /\ Issue
  /\ token' = issued + 1
  /\ loggedIn' = TRUE
  /\ Resend(t)
  /\ UNCHANGED <<ctor, connTry, unsafe, tried, payload, count, served, result, closer,
                 orphans, expired, refusing, rejected>>

\* self._logon() is answered 401.
StillSafe == unsafe                         \* mutant: the 401 is treated like the rest
UnsafeNow == TRUE

ReloginRejected(t) ==
  /\ pc[t] = "logon"
  /\ refusing
  /\ rejected' = rejected + 1
  /\ unsafe' = UnsafeNow
  /\ End(t, "unauth")
  /\ UNCHANGED <<ctor, connTry, token, loggedIn, tried, retrying, payload, carried, count,
                 served, closer, valid, issued, orphans, expired, refusing>>

\* self._logon() fails in another way; the server may have issued a token
\* that the client does not get to know.
ReloginFails(t) ==
  /\ pc[t] = "logon"
  /\ \/ Issue /\ orphans' = orphans \cup {issued + 1}
     \/ UNCHANGED <<valid, issued, orphans>>
  /\ End(t, "error")
  /\ UNCHANGED <<ctor, connTry, token, loggedIn, unsafe, tried, retrying, payload, carried,
                 count, served, closer, expired, refusing, rejected>>

-----------------------------------------------------------------------------
(* _logoff.                                                                *)

Logoff ==
  /\ ctor = "ready"
  /\ closer = "idle"
  /\ lock = NoThread
  /\ IF loggedIn
     THEN lock' = "closer" /\ closer' = "delete"
     ELSE closer' = "done" /\ UNCHANGED lock
  /\ UNCHANGED <<ctor, connTry, token, loggedIn, unsafe, thread, server>>

\* DELETE with relogin=False, whose failure is ignored.
UnsafeAfterLogoff == TRUE

LogoffDelete ==
  /\ closer = "delete"
  /\ \/ valid' = valid \ {token}
     \/ UNCHANGED valid
  /\ loggedIn' = FALSE
  /\ unsafe' = UnsafeAfterLogoff
  /\ lock' = NoThread
  /\ closer' = "done"
  /\ UNCHANGED <<ctor, connTry, token, thread, issued, orphans, expired, refusing, rejected>>

-----------------------------------------------------------------------------
RequestStep(t) ==
  \/ Send(t) \/ NoResponse(t) \/ Unauthorized(t) \/ GiveUp(t)
  \/ \E how \in {"ok", "http_error"} : Accepted(t, how)
  \/ ReloginElsewhere(t) \/ BeginRelogin(t)
  \/ Relogin(t) \/ ReloginRejected(t) \/ ReloginFails(t)

Ctor == CtorLogon \/ CtorNoConnection \/ CtorFails
Close == Logoff \/ LogoffDelete
Server == Refuse \/ \E k \in 1 .. issued : Expire(k)

Next ==
  \/ Ctor \/ Close \/ Server
  \/ \E t \in Threads : RequestStep(t) \/ \E p \in Payloads : Request(t, p)

Spec == Init /\ [][Next]_vars

\* Every request has a timeout, and threads that wait for the lock get it.
FairSpec ==
  /\ Spec
  /\ WF_vars(Ctor) /\ WF_vars(LogoffDelete)
  /\ \A t \in Threads : WF_vars(RequestStep(t))

-----------------------------------------------------------------------------
\* "can't continue re-login attempts lest we lock the account": however many
\* threads get a 401 at once, the server refuses at most one logon of this
\* Session.
AtMostOneRejectedLogon == rejected <= 1

\* Once re-login has been deemed unsafe - by a rejected logon or by _logoff -
\* the Session never gets another token.
NoReloginOnceUnsafe == [][unsafe => token' = token /\ unsafe']_vars

\* A token is replaced only when the server no longer accepts it: threads whose
\* requests failed together do not log on again one after the other, and no
\* token in use is left behind on the server.
ReloginOnlyIfExpired == [][token' # token => token \notin valid]_vars

\* Re-login processing never makes the server carry out a request twice, and a
\* request that returns normally has been carried out.
CarriedOutOnce ==
  \A t \in Threads : served[t] <= 1 /\ (result[t] = "ok" => served[t] = 1)

\* Whoever is inside the re-login processing holds the lock, alone.
ReloginIsExclusive ==
  \A t \in Threads : pc[t] = "logon" \/ (retrying[t] /\ pc[t] # "idle") => lock = t

\* Every request ends, also when the session can no longer log on.
RequestEnds == \A t \in Threads : (pc[t] = "send") ~> (pc[t] = "idle")

-----------------------------------------------------------------------------
(* What comments and docstrings say and the code does not keep: TLC refutes *)
(* each of these (README, "Disagreements").                                 *)

\* The comment in request(): "Retry the original request" - what was sent, if
\* the caller sees a success, is what the caller asked for.
RetryIsTheOriginal ==
  \A t \in Threads : result[t] = "ok" => carried[t] = payload[t]

\* The comment in _logoff: "set _relogin_unsafe so that those requests won't
\* enter relogin processing when they get an HTTP 401".
NoReloginAfterLogoff == [][closer = "done" => token' = token]_vars
=============================================================================
