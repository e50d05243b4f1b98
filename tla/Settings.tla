------------------------------ MODULE Settings ------------------------------
(***************************************************************************)
(* config.py: the chart's settings, read from the mounted ConfigMap or, as *)
(* a fallback, from environment variables, and checked before a sync does  *)
(* anything.                                                               *)
(*                                                                         *)
(* A setting is a function from keys to values: BOOLEAN for a flag, an     *)
(* integer for a count, hundredths for a ratio (percent, hours), a set of  *)
(* at most one ratio for a margin, and for a window the literal itself,    *)
(* which the code keeps as a string until a query is built.                *)
(*                                                                         *)
(* A literal is what can be written: `word' is how the boolean parsers see *)
(* it, `number' the hundredths float() reads from it, if any, `hours' and  *)
(* `unit' the duration it spells.                                          *)
(***************************************************************************)
EXTENDS Integers

Literal ==
  [type : {"absent", "null", "bool", "number", "text"},
   word : {"true", "false", "empty", "other"}, padded : BOOLEAN,
   number : SUBSET Int, hours : Nat, unit : {"none", "plain", "week", "milli"}]

Absent ==
  [type |-> "absent", word |-> "other", padded |-> FALSE,
   number |-> {}, hours |-> 0, unit |-> "none"]

\* The dataclass defaults of ResourceConfig, MrConfig and Config.
FlagDefault ==
  [dryRun |-> FALSE, createMr |-> TRUE, growOnly |-> FALSE, shrinkOnly |-> FALSE,
   roundValues |-> FALSE, emitCpuLimits |-> TRUE, healthGateEnabled |-> TRUE,
   oomDetectionEnabled |-> TRUE, oomFloorEnabled |-> TRUE]
RatioDefault ==
  [cpuPercentile |-> 90, memPercentile |-> 90, marginFraction |-> 10,
   cpuLimitMultiplier |-> 400, memoryLimitMultiplier |-> 300, oomBumpFactor |-> 150,
   minSampleCoverage |-> 25, maxChangePercent |-> 0, cooldownHours |-> 0]
CountDefault ==
  [minCpuRequestM |-> 0, minMemoryRequestMi |-> 0, minCpuLimitM |-> 0,
   minMemoryLimitMi |-> 0, maxCpuRequestM |-> 0, maxMemoryRequestMi |-> 0,
   maxCpuLimitM |-> 0, maxMemoryLimitMi |-> 0, coldStartCpuFloorM |-> 10,
   maxRestartsInWindow |-> 3]
WindowDefault ==
  [cpuRequestWindow |-> 72, memRequestWindow |-> 192, cpuLimitWindow |-> 168,
   memLimitWindow |-> 168]
MarginKeys == {"cpuRequestMargin", "memRequestMargin", "cpuLimitMargin", "memLimitMargin"}

FlagKeys   == DOMAIN FlagDefault
RatioKeys  == DOMAIN RatioDefault
CountKeys  == DOMAIN CountDefault
WindowKeys == DOMAIN WindowDefault
Keys == FlagKeys \cup RatioKeys \cup CountKeys \cup WindowKeys \cup MarginKeys

The(S) == CHOOSE x \in S : TRUE
Days(h) == [Absent EXCEPT !.type = "text", !.hours = h, !.unit = "plain"]

-----------------------------------------------------------------------------
(* Reading one key.  The result is the set of values the key gets: none    *)
(* when the parser raises, which ends the process before it has begun.     *)

\* _bool: text is true or it is false, a typo included; a value that is neither
\* text nor a bool takes the parser's own default, not the key's.
Flag(key, v) ==
  CASE v.type = "absent" -> FlagDefault[key]
    [] v.type \in {"bool", "text"} -> v.word = "true" /\ ~v.padded
    [] OTHER -> key \in {"emitCpuLimits", "healthGateEnabled"}

\* int() truncates a number and reads text only if it is a whole one.
Whole(v) ==
  IF v.type = "text" THEN {n \div 100 : n \in {m \in v.number : m % 100 = 0}}
  ELSE {IF n >= 0 THEN n \div 100 ELSE -((-n) \div 100) : n \in v.number}

\* _int_bound: an unquoted true is not taken for a bound of 1.
IntBound(key, v) == IF v.type \in {"absent", "bool"} THEN {CountDefault[key]} ELSE Whole(v)

\* float(), with `or 0' for the two settings that may be left empty.
Ratio(key, v) ==
  CASE v.type = "absent" -> {RatioDefault[key]}
    [] key \in {"maxChangePercent", "cooldownHours"} /\ (v.type = "null" \/ v.word = "empty") -> {0}
    [] OTHER -> v.number

\* _opt_float: what cannot be read is unset; the environment's float() raises.
OptFloat(kind, v) ==
  IF kind = "env" /\ v.type = "text" /\ v.word # "empty" /\ v.number = {} THEN {} ELSE {v.number}

Window(key, v) == IF v.type = "absent" THEN Days(WindowDefault[key]) ELSE v

\* The out-of-memory settings come from the environment in both cases, the
\* bump factor at least 1.
Key(source, key) ==
  LET v == IF key \in DOMAIN source.keys THEN source.keys[key] ELSE Absent IN
  CASE key \in FlagKeys   -> {Flag(key, v)}
    [] key \in CountKeys  -> IntBound(key, v)
    [] key \in MarginKeys -> OptFloat(source.kind, v)
    [] key \in WindowKeys -> {Window(key, v)}
    [] key = "oomBumpFactor" -> {IF n < 100 THEN 100 ELSE n : n \in Ratio(key, v)}
    [] OTHER -> Ratio(key, v)

\* Config.load (from_file, from_env): the settings, none if a parser raises.
Load(source) ==
  IF \A key \in Keys : Key(source, key) # {} THEN {[key \in Keys |-> The(Key(source, key))]} ELSE {}

\* The margin in force for one of the four queries.
EffectiveMargin(s, key) == IF s[key] = {} THEN s["marginFraction"] ELSE The(s[key])

-----------------------------------------------------------------------------
(* What a sync needs besides: the write-back mode, the repository and the  *)
(* credentials, in source.git.                                             *)

\* A branch name: `safe' by the strict grammar, `own' under resource-updater/.
Ref == [name : STRING, safe : BOOLEAN, own : BOOLEAN]
Git ==
  [mode : {"", "gitops", "direct", "other"},
   present : SUBSET {"repoUrl", "path", "prometheusUrl"},
   tokens : SUBSET {"GIT_TOKEN", "GITLAB_TOKEN"},
   app : SUBSET {"appId", "installationId", "appKey"},
   provider : {"", "auto", "gitlab", "github", "other"},
   branch : Ref, workBranch : Ref,
   username : {"empty", "ok", "bad"}, author : {"ok", "blank", "newline"},
   email : {"ok", "blank", "malformed"}]

Main     == [name |-> "main", safe |-> TRUE, own |-> FALSE]
SyncWork == [name |-> "resource-updater/sync", safe |-> TRUE, own |-> TRUE]
Mode(git)       == IF git.mode = "" THEN "gitops" ELSE git.mode
IsDirect(git)   == Mode(git) = "direct"
Branch(git)     == IF git.branch.name = "" THEN Main ELSE git.branch
WorkBranch(git) == IF git.workBranch.name = "" THEN SyncWork ELSE git.workBranch
AppKeys == {"appId", "installationId", "appKey"}
HasCredentials(git) == git.tokens # {} \/ git.app = AppKeys

-----------------------------------------------------------------------------
(* Config.validate, category by category.                                  *)

RequiredPresent(git) ==
  /\ Mode(git) \in {"gitops", "direct"}
  /\ ~IsDirect(git) => {"repoUrl", "path"} \subseteq git.present
  /\ "prometheusUrl" \in git.present

BoundPairs ==
  {<<"minCpuRequestM", "maxCpuRequestM">>, <<"minMemoryRequestMi", "maxMemoryRequestMi">>,
   <<"minCpuLimitM", "maxCpuLimitM">>, <<"minMemoryLimitMi", "maxMemoryLimitMi">>}
BoundsOrdered(s) ==
  \A p \in BoundPairs : s[p[1]] # 0 /\ s[p[2]] # 0 => s[p[1]] <= s[p[2]]

RatioRange ==
  [cpuPercentile |-> 0..100, memPercentile |-> 0..100, marginFraction |-> 0..500,
   cpuLimitMultiplier |-> 100..10000, memoryLimitMultiplier |-> 100..10000,
   oomBumpFactor |-> 100..1000, minSampleCoverage |-> 0..100]
RatiosInRange(s) ==
  /\ \A key \in DOMAIN RatioRange : s[key] \in RatioRange[key]
  /\ \A key \in MarginKeys : s[key] \subseteq 0..500
  /\ s["maxChangePercent"] >= 0
  /\ s["cooldownHours"] >= 0

\* Weeks and years are durations here; an empty window is not looked at.
WindowsReal(s) ==
  \A key \in WindowKeys :
    \/ s[key].word = "empty"
    \/ s[key].unit \in {"plain", "week"} /\ s[key].hours > 0

CredentialsForMr(s, git) == ~IsDirect(git) /\ s["createMr"] => HasCredentials(git)

\* A github provider on another host is only warned about.
ProviderKnown(git) == git.provider # "other"

\* One way to authenticate, whole, and for GitHub only.
AppAuthWhole(git) ==
  git.app # {} =>
    /\ {"appId", "installationId"} \subseteq git.app
    /\ git.app = AppKeys
    /\ git.tokens = {}
    /\ git.provider # "gitlab"

\* The work branch is force-pushed, so it must be the tool's own.
RefsSafe(git) ==
  /\ Branch(git).safe
  /\ ~IsDirect(git) =>
       /\ WorkBranch(git).safe
       /\ WorkBranch(git).own
       /\ WorkBranch(git).name # Branch(git).name

IdentityWhole(git) ==
  /\ git.username # "bad"
  /\ ~IsDirect(git) => git.author = "ok" /\ git.email = "ok"

Validate(s, git) ==
  /\ RequiredPresent(git)
  /\ BoundsOrdered(s)
  /\ RatiosInRange(s)
  /\ WindowsReal(s)
  /\ CredentialsForMr(s, git)
  /\ ProviderKnown(git)
  /\ AppAuthWhole(git)
  /\ RefsSafe(git)
  /\ IdentityWhole(git)
=============================================================================
