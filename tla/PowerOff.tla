------------------------------ MODULE PowerOff ------------------------------
(***************************************************************************)
(* pypowervm.tasks.power: PowerOp.stop, power_off and                      *)
(* power_off_progressive with their escalation from an OS shutdown to      *)
(* "pulling the plug".  Every attempt runs a Job (module Job).  The Job of *)
(* an attempt that timed out is cancelled in the background and may still  *)
(* take effect while the next attempt is under way.                        *)
(***************************************************************************)
EXTENDS Naturals, Sequences

VARIABLES
  part,       \* the partition: [ibmi, rmc], fixed
  args,       \* the caller's arguments, fixed
  opts,       \* the PowerOffOpts in hand: [op, immediate, restart]
  timeout,    \* the timeout in hand: the caller's or the default
  ppc,         \* the next attempt, or the attempt whose Job is running, or the end
  running,    \* the Job of the current attempt is running
  tried,      \* the attempts made: [op, immediate, restart, timeout, outcome]
  late,       \* number of timed-out Jobs that the server still works on
  up,         \* the partition is running
  boots,      \* restarts of the partition since the call
  outcome     \* how the call ended

powerVars == <<part, args, opts, timeout, ppc, running, tried, late, up, boots, outcome>>
fixed == <<part, args>>

Ops == {"OS", "VSP", "DUMPRESTART", "none"}
Opts == [op : Ops, immediate : BOOLEAN, restart : BOOLEAN]
NoOpts == [op |-> "none", immediate |-> FALSE, restart |-> FALSE]

\* The attempts, in order of aggression; "single" is PowerOp.stop on its own.
Attempts == {"os_normal", "os_immediate", "vsp_normal", "vsp_hard", "single"}

\* What a caller may ask for: power_off with legacy parameters (a dict, or
\* none) or with a PowerOffOpts, and power_off_progressive.
Calls ==
  [fn : {"power_off"}, legacy : BOOLEAN, opts : Opts, restart : BOOLEAN,
   force : {"TRUE", "ON_FAILURE", "NO_RETRY"}]
  \cup [fn : {"power_off_progressive"}, legacy : {FALSE}, restart : BOOLEAN, force : {"ON_FAILURE"},
        opts : {[NoOpts EXCEPT !.immediate = b] : b \in BOOLEAN}]

PowerTypeOK ==
  /\ part \in [ibmi : BOOLEAN, rmc : BOOLEAN]
  /\ args \in Calls
  /\ opts \in Opts
  /\ timeout \in {"given", "default"}
  /\ ppc \in Attempts \cup {"call", "end"}
  /\ running \in BOOLEAN
  /\ Len(tried) <= 4
  /\ late \in 0 .. 4
  /\ up \in BOOLEAN
  /\ boots \in 0 .. 4
  /\ outcome \in {"none", "ok", "already_off", "timeout", "failure", "no_rmc", "error"}

PowerInit ==
  /\ part \in [ibmi : BOOLEAN, rmc : BOOLEAN]
  /\ args \in Calls
  /\ opts = NoOpts
  /\ timeout = "given"
  /\ ppc = "call"
  /\ running = FALSE
  /\ tried = <<>>
  /\ late = 0
  /\ up \in BOOLEAN
  /\ boots = 0
  /\ outcome = "none"

-----------------------------------------------------------------------------
(* PowerOffOpts.                                                           *)

os_normal(o) == [o EXCEPT !.op = "OS", !.immediate = FALSE]
os_immediate(o) == [o EXCEPT !.op = "OS", !.immediate = TRUE]
vsp_normal(o) == [o EXCEPT !.op = "VSP", !.immediate = FALSE]
vsp_hard(o) == [o EXCEPT !.op = "VSP", !.immediate = TRUE]

can_os_shutdown == part.ibmi \/ part.rmc

\* soft_detect(part, immed_if_os=immed or None)
soft_detect(o, immed) ==
  IF can_os_shutdown
  THEN [o EXCEPT !.op = "OS", !.immediate = immed \/ ~part.ibmi]
  ELSE vsp_normal(o)

\* The options of an attempt.
OptsFor(a) ==
  CASE a = "os_normal" -> os_normal(opts)
    [] a = "os_immediate" -> os_immediate(opts)
    [] a = "vsp_normal" -> vsp_normal(opts)
    [] a = "vsp_hard" -> vsp_hard(opts)
    [] a = "single" -> opts

-----------------------------------------------------------------------------
(* power_off and power_off_progressive up to their first attempt.          *)

\* _legacy_power_opts, and the restart argument for legacy parameters.
GivenOpts ==
  IF args.legacy
  THEN [soft_detect(args.opts, args.opts.immediate) EXCEPT !.restart = args.restart]
  ELSE args.opts

Forced == IF ~args.legacy /\ args.opts.op # "none" THEN "NO_RETRY" ELSE args.force

FirstAttempt ==
  IF ~part.ibmi \/ GivenOpts.immediate THEN "os_immediate" ELSE "os_normal"

\* _power_off_progressive takes restart from power_off's argument.
PowerOffCall ==
  /\ ppc = "call"
  /\ IF Forced = "ON_FAILURE"
     THEN ppc' = FirstAttempt /\ opts' = [NoOpts EXCEPT !.restart = args.restart]
     ELSE ppc' = "single" /\ opts' = IF Forced = "TRUE" THEN vsp_hard(GivenOpts) ELSE GivenOpts
  /\ UNCHANGED <<fixed, timeout, running, tried, late, up, boots, outcome>>

-----------------------------------------------------------------------------
(* PowerOp.stop.                                                           *)

\* The vsp_hard of the progression builds its own options and passes no timeout.
Stop ==
  /\ ppc \in Attempts /\ ~running
  /\ ~(OptsFor(ppc).op = "OS" /\ ~can_os_shutdown)
  /\ opts' = OptsFor(ppc)
  /\ timeout' = IF ppc = "vsp_hard" THEN "default" ELSE timeout
  /\ running' = TRUE
  /\ UNCHANGED <<fixed, ppc, tried, late, up, boots, outcome>>

Tried(how) ==
  tried' = Append(tried, [op |-> opts.op, immediate |-> opts.immediate,
                          restart |-> opts.restart, timeout |-> timeout, outcome |-> how])

End(how) == ppc' = "end" /\ outcome' = how /\ UNCHANGED timeout

\* An attempt to fall back from, and the one to go on with.
FailsTo ==
  [os_normal |-> "os_immediate", os_immediate |-> "vsp_normal", vsp_normal |-> "vsp_hard"]

\* The default timeout replaces the caller's after OS normal (IBMi) and after OS
\* immediate (other partitions).
TimeoutAfter(a) ==
  IF a = "os_normal" \/ (a = "os_immediate" /\ ~part.ibmi) THEN "default" ELSE timeout

GoOn(a) == ppc' = a /\ timeout' = TimeoutAfter(ppc) /\ UNCHANGED outcome

\* A Job that does its work.
Restarts == opts.restart \/ opts.op = "DUMPRESTART"
TakesEffect == up' = Restarts /\ boots' = boots + (IF Restarts THEN 1 ELSE 0)

Succeeds ==
  /\ running
  /\ running' = FALSE
  /\ up
  /\ TakesEffect
  /\ Tried("ok")
  /\ End("ok")
  /\ UNCHANGED <<fixed, opts, late>>

\* After a timeout of the OS shutdown, non-IBMi partitions get the hard one.
SkipsToHard(a) == IF a = "os_normal" THEN "vsp_hard" ELSE FailsTo[a]  \* mutant: too soon
AfterTimeout(a) == IF a = "os_immediate" /\ ~part.ibmi THEN "vsp_hard" ELSE FailsTo[a]

AttemptTimesOut ==
  /\ running
  /\ running' = FALSE
  /\ late' = late + 1
  /\ Tried("timeout")
  /\ IF ppc \in DOMAIN FailsTo THEN GoOn(AfterTimeout(ppc)) ELSE End("timeout")
  /\ UNCHANGED <<fixed, opts, up, boots>>

\* JobRequestFailed: because the partition is off already, or for any reason.
AlreadyOffIsFine == ~up /\ ~opts.restart

Fails ==
  /\ running
  /\ running' = FALSE
  /\ \/ /\ AlreadyOffIsFine
        /\ Tried("already_off")
        /\ End(IF ppc = "single" THEN "already_off" ELSE "ok")
     \/ /\ Tried("failure")
        /\ IF ppc \in DOMAIN FailsTo THEN GoOn(FailsTo[ppc]) ELSE End("failure")
  /\ UNCHANGED <<fixed, opts, late, up, boots>>

\* Anything else, such as an HttpError while polling, ends the call.
Breaks ==
  /\ running
  /\ running' = FALSE
  /\ Tried("error")
  /\ End("error")
  /\ late' \in {late, late + 1}
  /\ UNCHANGED <<fixed, opts, up, boots>>

\* OSShutdownNoRMC: caught by the standard flow only.
WithoutRMC == "vsp_normal"

NoRMC ==
  /\ ppc \in Attempts /\ ~running
  /\ OptsFor(ppc).op = "OS" /\ ~can_os_shutdown
  /\ IF ppc = "single" THEN End("no_rmc")
     ELSE ppc' = WithoutRMC /\ UNCHANGED <<timeout, outcome>>
  /\ UNCHANGED <<fixed, opts, running, tried, late, up, boots>>

\* A timed-out Job takes effect after all, or is gone.
LateJob ==
  /\ late > 0
  /\ late' = late - 1
  /\ \/ up /\ TakesEffect
     \/ UNCHANGED <<up, boots>>
  /\ UNCHANGED <<fixed, opts, timeout, ppc, running, tried, outcome>>

PowerDone == ppc = "end" /\ late = 0 /\ UNCHANGED powerVars

Flow == PowerOffCall \/ Stop \/ Succeeds \/ AttemptTimesOut \/ Fails \/ Breaks \/ NoRMC
PowerNext == Flow \/ LateJob \/ PowerDone

PowerSpec == PowerInit /\ [][PowerNext]_powerVars
FairPower == PowerSpec /\ WF_powerVars(Flow)

-----------------------------------------------------------------------------
IsHard(t) == t.op = "VSP" /\ t.immediate
IsSoft(t) == ~IsHard(t)

\* In the progressive flows the plug is pulled only after a soft shutdown was
\* tried, the last soft one did not work, and - unless an OS shutdown of a
\* non-IBMi partition timed out - a normal VSP shutdown was tried too.
HardIsTheLastResort ==
  \A k \in 1 .. Len(tried) : IsHard(tried[k]) /\ Forced = "ON_FAILURE" =>
    /\ k > 1
    /\ \A j \in 1 .. k - 1 : IsSoft(tried[j]) /\ tried[j].outcome \in {"timeout", "failure"}
    /\ \/ tried[k - 1].op = "VSP"
       \/ ~part.ibmi /\ tried[k - 1].outcome = "timeout"

\* A power-off that returns normally leaves the partition off; a restart that
\* returns normally has restarted it.
SuccessMeansDone ==
  /\ outcome = "ok" => IF Restarts THEN boots > 0 /\ up ELSE ~up
  /\ outcome = "already_off" => ~up /\ ~opts.restart

\* What power_off and power_off_progressive promise of an attempt and of their result.
ProgressionIsSound == HardIsTheLastResort /\ SuccessMeansDone

\* The call ends: the progressions do not go round in circles.
PowerCallEnds == <>(ppc = "end")

-----------------------------------------------------------------------------
(* What comments and docstrings say and the code does not keep: TLC refutes *)
(* each of these (README, "Disagreements").                                 *)

\* power_off_progressive: timeout "is only applied to the first attempt in the
\* progression".
TimeoutForFirstOnly ==
  args.fn = "power_off_progressive" =>
    \A k \in 2 .. Len(tried) : tried[k].timeout = "default"

\* power_off: "If add_parms is a PowerOffOpts instance, this parameter [restart]
\* is ignored" - what counts is whether the instance asks for a restart.
RestartFromOpts ==
  args.fn = "power_off" /\ ~args.legacy =>
    \A k \in 1 .. Len(tried) : tried[k].restart = args.opts.restart

\* _power_off_single: "opts is already set up for soft_detect" - there is always
\* an operation to perform.
OperationIsSet == \A k \in 1 .. Len(tried) : tried[k].op # "none"
=============================================================================
