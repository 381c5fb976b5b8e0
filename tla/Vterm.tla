-------------------------------- MODULE Vterm --------------------------------
(***************************************************************************)
(* pypowervm.tasks.vterm: the remotable VNC console of one LPAR.  The      *)
(* socket listener accepts clients one at a time and hands them to the     *)
(* repeater of the local port; the repeater starts a killer when its last  *)
(* client leaves; the killer closes the vterm unless it is aborted in      *)
(* time.  All of these are threads, and only the stopping of a repeater    *)
(* takes the lock.                                                         *)
(***************************************************************************)
EXTENDS Naturals, FiniteSets

CONSTANTS
  Clients,       \* connections that clients make
  NoClient,
  MaxRepeaters,  \* bound on the repeaters started
  MaxKillers,    \* bound on the killers started
  MaxOpens,      \* bound on the calls of open_remotable_vnc_vterm
  UserCloses     \* close_vterm is called

ASSUME VtermConstantsOK ==
  /\ NoClient \notin Clients
  /\ MaxRepeaters \in Nat /\ MaxKillers \in Nat /\ MaxOpens \in Nat
  /\ UserCloses \in BOOLEAN

VARIABLES
  open,       \* the vterm is open with a VNC server
  opens,      \* calls of open_remotable_vnc_vterm
  lpc,        \* the listener: "down", "idle", or what it is doing for cur
  cur,        \* the client that the listener is handling
  chosen,     \* the repeater it has found for cur
  repeater,   \* _VNC_LOCAL_PORT_TO_REPEATER[port], 0 if absent
  nRep,       \* repeaters started: 1 .. nRep
  alive,      \* repeaters whose alive is True
  rpc,        \* repeater -> where in run()
  peers,      \* repeater -> clients in its peer dictionary
  killer,     \* repeater -> vnc_killer, 0 for None
  nKill,      \* killers started: 1 .. nKill
  kpc,        \* killer -> where in run()
  aborted,    \* killers whose _abort is True
  cpc,        \* client -> its connection
  closer        \* the caller of close_vterm

lsnr == <<lpc, cur, chosen>>
reps == <<repeater, nRep, alive, rpc, peers, killer>>
kill == <<nKill, kpc, aborted>>
vtermVars == <<open, opens, lsnr, reps, kill, cpc, closer>>

Repeaters == 1 .. MaxRepeaters
Killers == 1 .. MaxKillers

VtermTypeOK ==
  /\ open \in BOOLEAN
  /\ opens \in 0 .. MaxOpens
  /\ lpc \in {"down", "idle", "connect", "setup", "start", "get", "add", "abort"}
  /\ cur \in Clients \cup {NoClient}
  /\ chosen \in 0 .. nRep
  /\ repeater \in 0 .. nRep
  /\ nRep \in 0 .. MaxRepeaters
  /\ alive \subseteq 1 .. nRep
  /\ rpc \in [Repeaters -> {"new", "run", "emptied", "end"}]
  /\ peers \in [Repeaters -> SUBSET Clients]
  /\ killer \in [Repeaters -> 0 .. nKill]
  /\ nKill \in 0 .. MaxKillers
  /\ kpc \in [Killers -> {"wait", "rmvterm", "stop", "end"}]
  /\ aborted \subseteq 1 .. nKill
  /\ cpc \in [Clients -> {"new", "pending", "in", "closed"}]
  /\ closer \in {"idle", "stop", "end"}

VtermInit ==
  /\ open = FALSE /\ opens = 0
  /\ lpc = "down" /\ cur = NoClient /\ chosen = 0
  /\ repeater = 0 /\ nRep = 0 /\ alive = {}
  /\ rpc = [r \in Repeaters |-> "new"]
  /\ peers = [r \in Repeaters |-> {}]
  /\ killer = [r \in Repeaters |-> 0]
  /\ nKill = 0
  /\ kpc = [k \in Killers |-> "wait"]
  /\ aborted = {}
  /\ cpc = [c \in Clients |-> "new"]
  /\ closer = "idle"

-----------------------------------------------------------------------------
(* open_remotable_vnc_vterm: mkvterm returns the port also if the vterm is *)
(* open already; a listener is started if none answers on the port.        *)

Open ==
  /\ opens < MaxOpens
  /\ opens' = opens + 1
  /\ open' = TRUE
  /\ lpc' = IF lpc = "down" THEN "idle" ELSE lpc
  /\ UNCHANGED <<cur, chosen, reps, kill, cpc, closer>>

-----------------------------------------------------------------------------
(* _VNCSocketListener: _new_client and _setup_forwarding_socket.           *)

Accept(c) ==
  /\ lpc = "idle" /\ cpc[c] = "new"
  /\ lpc' = "connect" /\ cur' = c
  /\ cpc' = [cpc EXCEPT ![c] = "pending"]
  /\ UNCHANGED <<open, opens, chosen, reps, kill, closer>>

Finished == lpc' = "idle" /\ cur' = NoClient

Drop == Finished /\ cpc' = [cpc EXCEPT ![cur] = "closed"]

\* The client is turned away (address, path, handshake), or the VNC server is
\* not listening.
Refuse ==
  /\ lpc = "connect"
  /\ Drop
  /\ UNCHANGED <<open, opens, chosen, reps, kill, closer>>

Connect ==
  /\ lpc = "connect" /\ open
  /\ lpc' = "setup"
  /\ UNCHANGED <<open, opens, cur, chosen, reps, kill, cpc, closer>>

\* A KeyError in _new_client ends the listener thread.
Dies == lpc' = "down" /\ cur' = NoClient

\* if local_port not in _VNC_LOCAL_PORT_TO_REPEATER: a repeater with this pair is
\* put into the map, and then looked up there to be started.
NewRepeater ==
  /\ lpc = "setup" /\ repeater = 0
  /\ nRep < MaxRepeaters
  /\ nRep' = nRep + 1
  /\ repeater' = nRep'
  /\ alive' = alive \cup {nRep'}
  /\ peers' = [peers EXCEPT ![nRep'] = {cur}]
  /\ cpc' = [cpc EXCEPT ![cur] = "in"]
  /\ lpc' = "start"
  /\ UNCHANGED <<open, opens, cur, chosen, rpc, killer, kill, closer>>

StartRepeater ==
  /\ lpc = "start"
  /\ IF repeater # 0
     THEN rpc' = [rpc EXCEPT ![repeater] = "run"] /\ Finished /\ UNCHANGED cpc
     ELSE Dies /\ cpc' = [cpc EXCEPT ![cur] = "closed"] /\ UNCHANGED rpc
  /\ UNCHANGED <<open, opens, chosen, repeater, nRep, alive, peers, killer, kill, closer>>

FindRepeater ==
  /\ lpc = "setup" /\ repeater # 0
  /\ lpc' = "get"
  /\ UNCHANGED <<open, opens, cur, chosen, reps, kill, cpc, closer>>

\* The second look into the map; the repeater may have been stopped meanwhile.
GetRepeater ==
  /\ lpc = "get"
  /\ IF repeater # 0
     THEN chosen' = repeater /\ lpc' = "add" /\ UNCHANGED <<cur, cpc>>
     ELSE /\ Dies
          /\ cpc' = [cpc EXCEPT ![cur] = "closed"]
          /\ UNCHANGED chosen
  /\ UNCHANGED <<open, opens, reps, kill, closer>>

\* add_socket_connection_pair: the pair is added, then the killer is aborted.
AddPair ==
  /\ lpc = "add"
  /\ peers' = [peers EXCEPT ![chosen] = @ \cup {cur}]
  /\ cpc' = [cpc EXCEPT ![cur] = "in"]
  /\ lpc' = "abort"
  /\ UNCHANGED <<open, opens, cur, chosen, repeater, nRep, alive, rpc, killer, kill, closer>>

HasKiller(r) == killer[r] # 0

AbortKiller ==
  /\ lpc = "abort"
  /\ IF HasKiller(chosen)
     THEN aborted' = aborted \cup {killer[chosen]} /\ killer' = [killer EXCEPT ![chosen] = 0]
     ELSE UNCHANGED <<aborted, killer>>
  /\ Finished
  /\ UNCHANGED <<open, opens, chosen, repeater, nRep, alive, rpc, peers, nKill, kpc, cpc, closer>>

-----------------------------------------------------------------------------
(* _VNCRepeaterServer.run and _close_client.                               *)

\* One of the two sides has closed its connection.
CloseClient(r, c) ==
  /\ r \in alive /\ rpc[r] = "run"
  /\ c \in peers[r]
  /\ peers' = [peers EXCEPT ![r] = @ \ {c}]
  /\ cpc' = [cpc EXCEPT ![c] = "closed"]
  /\ rpc' = [rpc EXCEPT ![r] = IF peers[r] = {c} THEN "emptied" ELSE @]
  /\ UNCHANGED <<open, opens, lsnr, repeater, nRep, alive, killer, kill, closer>>

\* "If this was the last port": the killer is made after the look at peers.
StartKiller(r) ==
  /\ rpc[r] = "emptied"
  /\ nKill < MaxKillers
  /\ nKill' = nKill + 1
  /\ killer' = [killer EXCEPT ![r] = nKill']
  /\ rpc' = [rpc EXCEPT ![r] = "run"]
  /\ UNCHANGED <<open, opens, lsnr, repeater, nRep, alive, peers, kpc, aborted, cpc, closer>>

\* "At this point, force a close on all remaining inputs."
RunEnds(r) ==
  /\ r <= nRep /\ r \notin alive /\ rpc[r] = "run"
  /\ rpc' = [rpc EXCEPT ![r] = "end"]
  /\ cpc' = [c \in Clients |-> IF c \in peers[r] THEN "closed" ELSE cpc[c]]
  /\ UNCHANGED <<open, opens, lsnr, repeater, nRep, alive, peers, killer, kill, closer>>

-----------------------------------------------------------------------------
(* _VNCKiller.run and _close_vterm_local.                                  *)

\* The time is over, or _abort was seen.
Wait(k) ==
  /\ k <= nKill /\ kpc[k] = "wait"
  /\ kpc' = [kpc EXCEPT ![k] = IF k \in aborted THEN "end" ELSE "rmvterm"]
  /\ UNCHANGED <<open, opens, lsnr, reps, nKill, aborted, cpc, closer>>

Rmvterm(k) ==
  /\ kpc[k] = "rmvterm"
  /\ open' = FALSE
  /\ kpc' = [kpc EXCEPT ![k] = "stop"]
  /\ UNCHANGED <<opens, lsnr, reps, nKill, aborted, cpc, closer>>

\* _VNCRepeaterServer.stop of the repeater that the port has now.
Unmapped == 0
NotStopped == alive                         \* mutant: alive stays True
StillAlive == alive \ {repeater}
StopRepeater ==
  /\ alive' = StillAlive
  /\ repeater' = Unmapped
  /\ UNCHANGED <<nRep, rpc, peers, killer>>

KillerStops(k) ==
  /\ kpc[k] = "stop"
  /\ StopRepeater
  /\ kpc' = [kpc EXCEPT ![k] = "end"]
  /\ UNCHANGED <<open, opens, lsnr, nKill, aborted, cpc, closer>>

\* close_vterm.
UserRmvterm ==
  /\ UserCloses /\ closer = "idle"
  /\ open' = FALSE
  /\ closer' = "stop"
  /\ UNCHANGED <<opens, lsnr, reps, kill, cpc>>

UserStops ==
  /\ closer = "stop"
  /\ StopRepeater
  /\ closer' = "end"
  /\ UNCHANGED <<open, opens, lsnr, kill, cpc>>

-----------------------------------------------------------------------------
Listener ==
  Refuse \/ Connect \/ NewRepeater \/ StartRepeater
  \/ FindRepeater \/ GetRepeater \/ AddPair \/ AbortKiller
Killer(k) == Wait(k) \/ Rmvterm(k) \/ KillerStops(k)

VtermNext ==
  \/ Open \/ Listener \/ UserRmvterm \/ UserStops
  \/ \E c \in Clients : Accept(c) \/ \E r \in Repeaters : CloseClient(r, c)
  \/ \E r \in Repeaters : StartKiller(r) \/ RunEnds(r)
  \/ \E k \in Killers : Killer(k)

VtermSpec == VtermInit /\ [][VtermNext]_vtermVars

\* The threads run; clients need not leave.
FairVterm ==
  /\ VtermSpec
  /\ WF_vtermVars(Listener) /\ WF_vtermVars(UserStops)
  /\ \A r \in Repeaters : WF_vtermVars(StartKiller(r)) /\ WF_vtermVars(RunEnds(r))
  /\ \A k \in Killers : WF_vtermVars(Killer(k))

-----------------------------------------------------------------------------
\* Only the repeater that is in the map forwards data: a client never ends up in
\* a second one while an earlier one is still at work on the same port.
OnlyMappedIsAlive == alive \subseteq {repeater}

\* _VNCKiller: a repeater that has a killer is stopped and leaves the map, unless
\* a connection takes the killer away from it.
KillerFires ==
  \A r \in Repeaters :
    (repeater = r /\ killer[r] # 0) ~> (repeater # r \/ killer[r] = 0)

-----------------------------------------------------------------------------
(* What comments and docstrings say and the code does not keep: TLC refutes *)
(* each of these (README, "Disagreements").                                 *)

\* _VNCRepeaterServer: "if no connections are open for a given local port VNC
\* session, after a 5 minute window it will run rmvterm" - a repeater without
\* clients gets a client or is stopped.
IdleIsReclaimed ==
  \A r \in Repeaters :
    (r \in alive /\ rpc[r] = "run" /\ peers[r] = {})
      ~> (r \notin alive \/ peers[r] # {} \/ nKill = MaxKillers)

\* add_socket_connection_pair: "If for some reason the VNC was being killed, abort
\* it" - a killer never closes a vterm that a client is connected to.
KillsOnlyIdle ==
  [][open /\ ~open' /\ closer' = closer => \A c \in Clients : cpc[c] # "in"]_vtermVars

\* _VNCRepeaterServer.run: "At this point, force a close on all remaining inputs" -
\* no client is left in a repeater that has ended.
NobodyStranded ==
  \A r \in Repeaters : rpc[r] = "end" => \A c \in peers[r] : cpc[c] = "closed"
=============================================================================
