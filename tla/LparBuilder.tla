----------------------------- MODULE LparBuilder -----------------------------
(***************************************************************************)
(* pypowervm.utils.lpar_builder and pypowervm.utils.validation: threads    *)
(* turn dictionaries of attributes into partitions.  Each call reads the   *)
(* host and, for a resize, the partition; LPARBuilder standardizes the     *)
(* attributes; LPARWrapperValidator checks the result against what was     *)
(* read; the result is POSTed.  Meanwhile partitions are powered on and    *)
(* off and other calls use up the host.                                    *)
(*                                                                         *)
(* Processing units are in hundredths, and so are the AME factor and the   *)
(* dedicated processors where the two are compared.                        *)
(***************************************************************************)
EXTENDS Integers, Sequences, FiniteSets, Functions

CONSTANTS
  Callers,      \* threads
  Names,        \* partitions
  Host,         \* the managed system: totals, limits and capabilities
  Dicts,        \* dictionary -> attributes as the user wrote them
  None,         \* attribute not given
  MaxBuilds,    \* bound on the calls
  MaxPowers     \* bound on the changes of state from outside

ASSUME BuilderConstantsOK ==
  /\ None \notin Int /\ MaxBuilds \in Nat /\ MaxPowers \in Nat
  /\ Host.mem \in Nat /\ Host.units \in Nat /\ Host.lmb \in Nat \ {0}
  /\ IsFiniteSet(Names)
  /\ \A d \in DOMAIN Dicts : \A f \in {"mem", "vcpu", "units"} :
       f \in DOMAIN Dicts[d] /\ {Dicts[d][f].min, Dicts[d][f].des, Dicts[d][f].max} \subseteq Int \cup {None}

VARIABLES
  lpars,    \* name -> partition on the server, or NoLpar
  lver,     \* name -> its etag
  used,     \* the managed system as GET returns it: [mem, units] taken, and ver
  dict,     \* dictionary -> attributes now: the standardizer writes to them
  bpc,      \* thread -> where it is
  bcall,    \* thread -> [name, dict, dlpar, cur, ver, host, new]
  builds, powers,
  refusals  \* observer: resource refusals of the server: was the host what the validator saw?

builderVars == <<lpars, lver, used, dict, bpc, bcall, builds, powers, refusals>>

-----------------------------------------------------------------------------
(* Fields.                                                                 *)

MemLowBound == 128
VcpuLowBound == 1
ProcUnitsLowBound == 5
DefProcUnitFact == 50

\* MinDesiredMaxField: x = [min, des, max].  Without a desired value nothing
\* compares the minimum with the maximum.
AtMost(a, b) == None \in {a, b} \/ a <= b
MinDesiredMax(x, low, partial) ==
  /\ partial \/ None \notin {x.min, x.des, x.max}
  /\ AtMost(low, x.min) /\ AtMost(x.min, x.des) /\ AtMost(x.des, x.max)

\* Memory: every value a multiple of the LMB size; _validate_ame.
AmeOK(h, ame) == ame = None \/ ame = 0 \/ (h.ame /\ 100 <= ame /\ ame <= 1000)
MemoryOK(h, x, ame, partial) ==
  /\ x.des # None /\ MinDesiredMax(x, MemLowBound, partial)
  /\ \A m \in {x.min, x.des, x.max} \ {None} : m % h.lmb = 0
  /\ AmeOK(h, ame)

\* PhysicalPageTableRatio: only a ratio as the user writes it is a choice ('1:2^n' is
\* n here, raw); convert_value makes a number of it, counted from 1:64.
RestRatio(p) == [raw |-> FALSE, n |-> p.n - 6]
PptOK(h, p) == p = None \/ (p.raw /\ p.n \in 6..12 /\ h.ppt)

\* BoundField, ChoiceField and LPARType.convert_value (the case does not matter).
Within(v, low, high, partial) == IF v = None THEN partial ELSE low <= v /\ v <= high
EnvType(e) == IF e = "os400" THEN "OS400" ELSE e
Choice(v, choices, partial) == IF v = None THEN partial ELSE v \in choices
DedModes == {"keep idle procs", "sre idle proces"}
SharedModes == {"capped", "uncapped"}

-----------------------------------------------------------------------------
(* DefaultStandardize.                                                     *)

\* _can_secure_boot_for_lpar compares the spelling it is given.
CanSecureBoot(h, env) == env # "OS400" /\ h.secure

\* SecureBoot.
BootOK(policy, cap) == policy \in 0..9 /\ (policy > 0 => cap)

\* IOSlots and AvailPriority.
SlotsOK(slots, prio, partial) == Within(slots, 2, 65534, partial) /\ Within(prio, 0, 255, partial)

\* _validate_general, of the user's attributes and of the standardized ones.
GeneralOK(h, g, partial) ==
  /\ g.name \in 1..31
  /\ Choice(EnvType(g.env), {"AIX/Linux", "OS400", "VIOS"}, partial)
  /\ SlotsOK(g.slots, g.prio, partial)
  /\ Choice(g.compat, h.modes, partial)
  /\ BootOK(IF g.secure = None THEN 0 ELSE g.secure, CanSecureBoot(h, g.env))
  /\ g.affinity => h.affinity

\* _set_val.
Or(v, default) == IF v = None THEN default ELSE v

\* general.
GeneralAttrs(h, a) ==
  LET env == EnvType(Or(a.env, "AIX/Linux"))
  IN [name |-> a.name, env |-> env, slots |-> Or(a.slots, 64), prio |-> Or(a.prio, 127),
      compat |-> Or(a.compat, "default"),
      srr |-> IF h.srr THEN Or(a.srr, FALSE) ELSE None,
      secure |-> IF CanSecureBoot(h, env) THEN Or(a.secure, 0) ELSE None,
      affinity |-> FALSE,
      src |-> IF env = "OS400" THEN Or(a.src, 0) ELSE None]
GeneralStd(h, a) == GeneralOK(h, a, TRUE) /\ GeneralOK(h, GeneralAttrs(h, a), FALSE)

\* memory, shr_proc and ded_proc fill in what is missing from the desired value.
Filled(x, des) == [min |-> Or(x.min, des), des |-> des, max |-> Or(x.max, des)]
MemoryStd(h, a) ==
  /\ MemoryOK(h, a.mem, a.ame, TRUE) /\ PptOK(h, a.ppt)
  /\ MemoryOK(h, Filled(a.mem, a.mem.des), None, FALSE)

\* shr_proc: default units, at least the given minimum, then at most the maximum.
MaxOf(a, b) == IF a # None /\ a > b THEN a ELSE b
MinOf(a, b) == IF a # None /\ a < b THEN a ELSE b
Units(a) == Or(a.units.des, MinOf(a.units.max, MaxOf(a.units.min, DefProcUnitFact * a.vcpu.des)))
UnitsOK(a) ==
  MinDesiredMax(a.units, ProcUnitsLowBound, TRUE) /\ MinDesiredMax(Filled(a.units, Units(a)), ProcUnitsLowBound, FALSE)
VcpuOK(a) ==
  MinDesiredMax(a.vcpu, VcpuLowBound, TRUE) /\ MinDesiredMax(Filled(a.vcpu, a.vcpu.des), VcpuLowBound, FALSE)
ProcStd(a, shared) == VcpuOK(a) /\ (IF shared THEN UnitsOK(a) ELSE Choice(a.mode, DedModes, TRUE))

-----------------------------------------------------------------------------
(* LPARBuilder.                                                            *)

\* _shared_procs_specified.
SharedProcKeys(a) == {a.units.min, a.units.des, a.units.max, a.weight} # {None} \/ a.mode \in SharedModes
SharedProcs(a) == IF a.ded # None THEN ~a.ded ELSE SharedProcKeys(a) \/ a.mode \notin DedModes

\* __init__: MINIMUM_ATTRS.
HasMinimum(a) == a.name # None /\ a.mem.des # None /\ a.vcpu.des # None

\* rebuild of a partition l; it keeps the load source of an IBMi partition, whose
\* attributes must say that it is one.
Rebuilt(h, a, l) ==
  LET g == GeneralAttrs(h, a) IN LET shared == SharedProcs(a) IN
  [l EXCEPT !.prio = g.prio, !.slots = g.slots, !.pend = g.compat,
            !.secure = Or(g.secure, @), !.srr = Or(g.srr, @),
            !.src = IF l.env = "OS400" THEN Or(@, g.src) ELSE @,
            !.mem = Filled(a.mem, a.mem.des), !.ame = Or(a.ame, 0),
            !.ppt = IF a.ppt = None THEN None ELSE RestRatio(a.ppt),
            !.ded = ~shared, !.vcpu = Filled(a.vcpu, a.vcpu.des),
            !.units = IF shared THEN Filled(a.units, Units(a)) ELSE [min |-> 0, des |-> 0, max |-> 0]]
CanRebuild(h, a, l) ==
  /\ MemoryStd(h, a) /\ ProcStd(a, SharedProcs(a)) /\ GeneralStd(h, a)
  /\ l.env = "OS400" => GeneralAttrs(h, a).env = "OS400"

\* No partition: none on the server, or none given.
NoLpar == [state |-> "none"]

\* build: a minimal partition, and rebuild.
Minimal(h, a) ==
  LET zero == [min |-> 0, des |-> 0, max |-> 0]
  IN [env |-> GeneralAttrs(h, a).env, state |-> "not activated", rmc |-> "inactive", dlpar |-> {"proc", "mem"},
      prio |-> 0, slots |-> 0, compat |-> None, pend |-> None, secure |-> 0, srr |-> FALSE, src |-> None,
      mem |-> zero, ame |-> 0, ppt |-> None, ded |-> TRUE, vcpu |-> zero, units |-> zero]
Base(h, a, cur) == IF cur = NoLpar THEN Minimal(h, a) ELSE cur
CanBuild(h, a, cur) ==
  /\ HasMinimum(a)
  /\ cur = NoLpar => GeneralStd(h, a)
  /\ CanRebuild(h, a, Base(h, a, cur))

\* _validate_memory writes the converted ratio into the dictionary of the user.
ConvertsPpt(h, a, cur) ==
  /\ HasMinimum(a) /\ a.ppt # None
  /\ cur = NoLpar => GeneralStd(h, a)
  /\ MemoryOK(h, a.mem, a.ame, TRUE) /\ PptOK(h, a.ppt)
Converted(h, a, cur) == IF ConvertsPpt(h, a, cur) THEN [a EXCEPT !.ppt = RestRatio(a.ppt)] ELSE a

-----------------------------------------------------------------------------
(* LPARWrapperValidator.                                                   *)

\* Processors a partition takes from the host, in hundredths.
ProcsOf(l) == IF l.ded THEN 100 * l.vcpu.des ELSE l.units.des

\* _can_modify of the partition as it was read.  (Nothing that the builder makes is a
\* management partition, which needs no RMC.)
CanModify(cur, cap) == cur.env = "OS400" \/ cur.state = "not activated" \/ (cur.rmc = "active" /\ cap \in cur.dlpar)

\* _calculate_resize_deltas and _validate_host_has_available_res.
ProcDelta(new, cur) == ProcsOf(new) - ProcsOf(cur)
MemDelta(new, cur) == new.mem.des - cur.mem.des
Fits(amount, free) == amount <= free

\* _validate_active_resize of the processors.  lpar_w.proc_compat_mode is the current
\* mode of the new wrapper, which the builder does not set: that is the one compared.
SameLimits(x, y) == x.min = y.min /\ x.max = y.max
ActiveProcOK(new, cur) ==
  /\ SameLimits(new.vcpu, cur.vcpu)
  /\ ~new.ded /\ ~cur.ded => SameLimits(new.units, cur.units)
  /\ new.compat # None => new.compat \in {cur.compat, cur.pend}
  /\ new.ded = cur.ded

\* ... of the memory and of the capabilities.
ActiveMemOK(new, cur) ==
  SameLimits(new.mem, cur.mem) /\ new.ame = cur.ame /\ (new.ppt # None => new.ppt = cur.ppt)
ActiveSrrOK(h, new, cur) == new.srr # cur.srr => h.dynSrr

\* _validate_common.
CommonOK(h, new) ==
  LET lim == IF new.ded THEN h.procLimits ELSE h.vcpuLimits
  IN new.vcpu.des <= lim.perLpar /\ new.vcpu.max <= lim.system

FreeMem(host) == Host.mem - host.mem
ConfigurableUnits(host) == Host.units  \* mutant: not those that are still available
FreeUnits(host) == Host.units - host.units
PassesValidation(c) ==
  LET new == c.new IN LET cur == c.cur IN
  /\ IF cur = NoLpar
     THEN Fits(ProcsOf(new), FreeUnits(c.host)) /\ Fits(new.mem.des, FreeMem(c.host))
     ELSE /\ c.dlpar => CanModify(cur, "proc") /\ CanModify(cur, "mem")
          /\ Fits(ProcDelta(new, cur), FreeUnits(c.host)) /\ Fits(MemDelta(new, cur), FreeMem(c.host))
          /\ cur.state # "not activated" => 
               ActiveProcOK(new, cur) /\ ActiveMemOK(new, cur) /\ ActiveSrrOK(Host, new, cur)
  /\ CommonOK(Host, new)

-----------------------------------------------------------------------------
(* Calls.                                                                  *)

Idle == [name |-> None]

BuilderInit ==
  /\ lpars = [n \in Names |-> NoLpar] /\ lver = [n \in Names |-> 0]
  /\ used = [mem |-> 0, units |-> 0, ver |-> 0]
  /\ dict = Dicts
  /\ bpc = [t \in Callers |-> "idle"] /\ bcall = [t \in Callers |-> Idle]
  /\ builds = 0 /\ powers = 0 /\ refusals = {}

BGoto(t, where) == bpc' = [bpc EXCEPT ![t] = where]
BEnds(t) == BGoto(t, "idle") /\ bcall' = [bcall EXCEPT ![t] = Idle]

\* The caller GETs the host and, to resize it, the partition.
Reads(t, n, d, dlpar) ==
  /\ bpc[t] = "idle" /\ builds < MaxBuilds /\ builds' = builds + 1
  /\ bcall' = [bcall EXCEPT ![t] = [name |-> n, dict |-> d, dlpar |-> dlpar, cur |-> lpars[n], ver |-> lver[n],
                                    host |-> used, new |-> None]]
  /\ BGoto(t, "build")
  /\ UNCHANGED <<lpars, lver, used, dict, powers, refusals>>

\* LPARBuilder(...).build() or .rebuild(lpar_w): the result, or an exception.
BuildLpar(t) ==
  LET c == bcall[t] IN LET a == dict[c.dict] IN
  /\ bpc[t] = "build"
  /\ dict' = [dict EXCEPT ![c.dict] = Converted(Host, a, c.cur)]
  /\ IF CanBuild(Host, a, c.cur)
     THEN /\ bcall' = [bcall EXCEPT ![t].new = Rebuilt(Host, a, Base(Host, a, c.cur))]
          /\ BGoto(t, "validate")
     ELSE BEnds(t)
  /\ UNCHANGED <<lpars, lver, used, builds, powers, refusals>>

\* LPARWrapperValidator(lpar_w, host_w, cur_lpar_w).validate_all(check_dlpar).
ValidateAll(t) ==
  /\ bpc[t] = "validate"
  /\ IF PassesValidation(bcall[t]) THEN BGoto(t, "post") /\ UNCHANGED bcall ELSE BEnds(t)
  /\ UNCHANGED <<lpars, lver, used, dict, builds, powers, refusals>>

\* The POST.  The server refuses an old etag, and more than the host has.
EtagIgnored(c) == (lpars[c.name] = NoLpar) = (c.cur = NoLpar)  \* mutant: If-Match is not sent
EtagOK(c) == lver[c.name] = c.ver
MemTaken(l) == IF l = NoLpar THEN 0 ELSE l.mem.des
UnitsTaken(l) == IF l = NoLpar THEN 0 ELSE ProcsOf(l)
Taken(ls) ==
  [mem |-> SumFunction([n \in Names |-> MemTaken(ls[n])]),
   units |-> SumFunction([n \in Names |-> UnitsTaken(ls[n])]), ver |-> used.ver + 1]
Committed(l) == IF l.state = "not activated" THEN [l EXCEPT !.compat = l.pend] ELSE l
PostLpar(t) ==
  LET c == bcall[t]
      now == [lpars EXCEPT ![c.name] = Committed([c.new EXCEPT !.ppt = IF @ = None /\ c.cur # NoLpar THEN c.cur.ppt ELSE @])]
  IN
  /\ bpc[t] = "post" /\ BEnds(t)
  /\ IF ~EtagOK(c)
     THEN UNCHANGED <<lpars, lver, used, refusals>>
     ELSE IF Taken(now).mem > Host.mem \/ Taken(now).units > Host.units
     THEN /\ refusals' = refusals \cup {c.host.ver = used.ver}
          /\ UNCHANGED <<lpars, lver, used>>
     ELSE /\ lpars' = now /\ lver' = [lver EXCEPT ![c.name] = @ + 1]
          /\ used' = Taken(now) /\ UNCHANGED refusals
  /\ UNCHANGED <<dict, builds, powers>>

\* Power operations and RMC, outside this module.
PowerChanges(n) ==
  /\ lpars[n] # NoLpar /\ powers < MaxPowers /\ powers' = powers + 1
  /\ \/ lpars[n].state = "not activated" /\ lpars' = [lpars EXCEPT ![n].state = "running", ![n].compat = lpars[n].pend]
     \/ lpars[n].state = "running" /\ lpars' = [lpars EXCEPT ![n].state = "not activated", ![n].rmc = "inactive"]
     \/ lpars[n].state = "running" /\ lpars[n].rmc = "inactive" /\ lpars' = [lpars EXCEPT ![n].rmc = "active"]
  /\ lver' = [lver EXCEPT ![n] = @ + 1]
  /\ UNCHANGED <<used, dict, bpc, bcall, builds, refusals>>

BuilderNext ==
  \/ \E t \in Callers :
       \/ \E n \in Names, d \in DOMAIN Dicts : \E dlpar \in (IF lpars[n] = NoLpar THEN {TRUE} ELSE BOOLEAN) : Reads(t, n, d, dlpar)
       \/ BuildLpar(t) \/ ValidateAll(t) \/ PostLpar(t)
  \/ \E n \in Names : PowerChanges(n)

BuilderSpec == BuilderInit /\ [][BuilderNext]_builderVars

-----------------------------------------------------------------------------
(* Properties.                                                             *)

\* Whatever attributes are left out and however defaults are derived and clamped,
\* every partition on the server has min <= desired <= max for memory, processors and
\* units, above the low bounds and within the limits of the host.
Sound(x, low) == low <= x.min /\ x.min <= x.des /\ x.des <= x.max
LparsAreSound ==
  \A n \in Names : lpars[n] # NoLpar =>
    LET l == lpars[n] IN
      /\ Sound(l.mem, MemLowBound) /\ Sound(l.vcpu, VcpuLowBound)
      /\ ~l.ded => Sound(l.units, ProcUnitsLowBound)
      /\ CommonOK(Host, l)

\* The validator is "meant to catch any violations that would cause errors at the
\* PowerVM management interface": the server never refuses a validated partition for
\* want of memory or processors unless the host changed after it was read, however
\* partitions moved between dedicated and shared processors before.
ValidatedFits == TRUE \notin refusals

\* What passes the builder and the validator is a partition that makes sense and that
\* the server takes.
ValidationSuffices == LparsAreSound /\ ValidatedFits

\* No update of a running partition changes its processing mode or the limits of its
\* memory and processors, even if the partition was validated while it was off.
RunningKeepsLimits ==
  [][\A n \in Names :
       lpars[n] # NoLpar /\ lpars[n].state = "running" =>
         LET l == lpars[n] IN LET k == lpars'[n] IN
           /\ k.ded = l.ded /\ SameLimits(k.vcpu, l.vcpu) /\ SameLimits(k.mem, l.mem)
           /\ SameLimits(k.units, l.units) /\ k.ame = l.ame /\ k.ppt = l.ppt]_builderVars

\* Refuted.  "Processor compatibility mode cannot be changed when lpar is not powered
\* off": the validator reads the current mode of the new wrapper, the builder writes
\* the pending one.
RunningKeepsCompat ==
  [][\A n \in Names :
       lpars[n] # NoLpar /\ lpars[n].state = "running" => lpars'[n].pend = lpars[n].pend]_builderVars

\* Refuted.  A dictionary that was built once can be built again.
BuilderIsReusable == \A d \in DOMAIN Dicts : HasMinimum(Dicts[d]) /\ PptOK(Host, Dicts[d].ppt) => PptOK(Host, dict[d].ppt)

\* Refuted.  A secure boot policy that was asked for is applied.
SecureBootIsHonoured ==
  \A t \in Callers : bpc[t] \in {"validate", "post"} =>
    LET a == Dicts[bcall[t].dict] IN a.secure # None => bcall[t].new.secure = a.secure
=============================================================================
