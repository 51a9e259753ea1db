----------------------------- MODULE ConfigFile -----------------------------
(***************************************************************************)
(* Configuration: config.Load (defaults, the TOML file, the environment)   *)
(* and the `config` commands, of which `config set` writes the whole file  *)
(* back.  Several of them may run at once, fail or die on the way.         *)
(*                                                                         *)
(* A setting has a kind, which decides how its value is checked, and an    *)
(* integer value: 0 is the blank string, the empty list or false, a ratio  *)
(* is in percent, and any other text or list is a positive number.  A text *)
(* that should be a number and is not stands as a negative one.            *)
(***************************************************************************)
EXTENDS Integers, Sequences, Functions

CONSTANTS
  Settings,    \* the names that configKeys lists
  Kind,        \* setting -> kind
  Default,     \* setting -> its value in defaults()
  Written,     \* setting -> values found in files and in the environment
  Order,       \* the settings in the order in which they are encoded
  Setters,     \* processes that run one `config set` each
  DockerMode   \* MXLRC_DOCKER is set

CircuitDefault == 1800
CircuitMin == 300
WorkerFloor == 15

Kinds ==
  {"text",      \* output.dir, db.path, server.addr, providers.primary
   "path",      \* verification.ffmpeg_path: a text that set wants not blank
   "free",      \* api.token, verification.whisper_url
   "list",      \* server.webhook_api_keys, providers.disabled
   "bool",      \* verification.enabled
   "count",     \* api.cooldown, scan and work interval
   "positive",  \* verification.sample_duration_seconds
   "circuit",   \* api.circuit_open_duration
   "ratio"}     \* verification.min_confidence, min_similarity

\* "NaN" parses as a number.
NaN == 1000

\* A number between 0 and 1.
Ratio(v) == v > 0 /\ v <= 100

\* The code turns down v <= 0 and v > 1, of which neither is true of NaN.
RatioTaken(v) == Ratio(v) \/ v = NaN

\* Defaults are values that Load itself would accept.
ASSUME ConfigAssumption ==
  /\ Kind \in [Settings -> Kinds]
  /\ Default \in [Settings -> Int]
  /\ \A k \in Settings :
       /\ Kind[k] \in {"text", "path", "positive"} => Default[k] > 0
       /\ Kind[k] = "count" => Default[k] >= 0
       /\ Kind[k] = "ratio" => Ratio(Default[k])
       /\ Kind[k] = "circuit" => Default[k] = CircuitDefault
  /\ Written \in [Settings -> SUBSET Int]
  /\ \A k \in Settings : Kind[k] \in {"text", "path"} => Written[k] \subseteq Nat
  /\ {"server.work_interval_seconds", "api.cooldown"} \subseteq Settings
  /\ Order \in Seq(Settings)
  /\ DockerMode \in BOOLEAN

VARIABLES
  files,     \* the config files, by path
  env,       \* the environment variables: a function on some settings
  setter     \* per process, its `config set`

vars == <<files, env, setter>>

-----------------------------------------------------------------------------
(* Load.                                                                   *)

NoValues == [k \in {} |-> 0]

\* A file that does not exist or is empty sets nothing; a garbled one cannot
\* be decoded.
Empty == [ok |-> TRUE, vals |-> NoValues]
Garbled == [ok |-> FALSE, vals |-> NoValues]

\* Fields that the file left blank or out of range are given their default.
Blank(kind, v) ==
  \/ kind \in {"text", "path", "circuit"} /\ v = 0
  \/ kind = "positive" /\ v <= 0
  \/ kind = "ratio" /\ ~RatioTaken(v)

FromFile(k, vals) ==
  IF k \in DOMAIN vals /\ ~Blank(Kind[k], vals[k]) THEN vals[k] ELSE Default[k]

\* applyEnvOverrides: a blank variable is not set, an invalid one is ignored.
\* The variable of a list may be nothing but commas.
EnvValid(kind, v) ==
  CASE kind \in {"text", "path", "free", "positive", "circuit"} -> v > 0
    [] kind \in {"count", "list"} -> v >= 0
    [] kind = "bool" -> v \in {0, 1}
    [] kind = "ratio" -> RatioTaken(v)

Overlaid(k, v) ==
  IF k \in DOMAIN env /\ EnvValid(Kind[k], env[k]) THEN env[k] ELSE v

\* Mutant of Clamp: the floor is not enforced on values of the environment.
ClampFile(k, v) ==
  IF Kind[k] # "circuit" \/ k \in DOMAIN env THEN v
  ELSE IF v <= 0 THEN CircuitDefault
  ELSE IF v < CircuitMin THEN CircuitMin ELSE v

\* clampCircuitOpenDuration.
Clamp(k, v) ==
  IF Kind[k] # "circuit" THEN v
  ELSE IF v <= 0 THEN CircuitDefault
  ELSE IF v < CircuitMin THEN CircuitMin ELSE v

Load(vals) == [k \in Settings |-> Clamp(k, Overlaid(k, FromFile(k, vals)))]

\* xdgConfigPath, where Load reads, and defaultConfigPath, where set writes
\* when --config is not given.
xdgConfigPath == IF DockerMode THEN "docker" ELSE "home"
defaultConfigPath == "home"

File == files[xdgConfigPath]

\* What the next command of the program works with.
Effective == Load(File.vals)

\* serveWorkerInterval and normalizeWorkerInterval; a flag that is not given
\* is negative.
WorkInterval(flag) ==
  LET cfg == Effective
      interval == IF flag >= 0 THEN flag
                  ELSE IF cfg["server.work_interval_seconds"] > 0
                  THEN cfg["server.work_interval_seconds"] ELSE cfg["api.cooldown"]
  IN  IF interval < WorkerFloor THEN WorkerFloor ELSE interval

-----------------------------------------------------------------------------
(* config set.                                                             *)

Idle == [pc |-> "idle", cfg |-> Default, key |-> "none", value |-> 0,
         alone |-> TRUE, before |-> Default]

\* The values that setConfigValue takes.
SetValid(kind, v) ==
  CASE kind \in {"text", "free", "list", "count"} -> v >= 0
    [] kind \in {"path", "positive", "circuit"} -> v > 0
    [] kind = "bool" -> v \in {0, 1}
    [] kind = "ratio" -> RatioTaken(v)

\* A hand-written file and an environment, each with one setting at most.
ConfigInit ==
  /\ \E k \in Settings, inFile, inEnv \in BOOLEAN :
       \E fileValue, envValue \in Written[k] :
         /\ files = [p \in {"docker", "home"} |->
                      IF inFile /\ p = xdgConfigPath
                      THEN [ok |-> TRUE, vals |-> [j \in {k} |-> fileValue]] ELSE Empty]
         /\ env = IF inEnv THEN [j \in {k} |-> envValue] ELSE NoValues
  /\ setter = [s \in Setters |-> Idle]

At(s, pc) == setter[s].pc = pc

Busy(s) == setter[s].pc \notin {"idle", "done"}

\* The process ends.
Exit(s) == setter' = [setter EXCEPT ![s] = [Idle EXCEPT !.pc = "done"]]

\* Load and setConfigValue; any error ends the command.  `alone` and `before`
\* record whether others were at work and what was in force.
Begin(s) ==
  /\ At(s, "idle") /\ File.ok
  /\ \E k \in Settings : \E v \in {w \in Written[k] : SetValid(Kind[k], w)} :
       setter' = [t \in Setters |->
         IF t = s
         THEN [pc |-> "open", cfg |-> [Effective EXCEPT ![k] = v], key |-> k, value |-> v,
               alone |-> \A u \in Setters \ {s} : ~Busy(u), before |-> Effective]
         ELSE [setter[t] EXCEPT !.alone = ~Busy(t) /\ @]]
  /\ UNCHANGED <<files, env>>

\* MkdirAll and OpenFile with O_TRUNC.
Truncate(s) ==
  /\ At(s, "open")
  /\ files' = [files EXCEPT ![defaultConfigPath] = Empty]
  /\ setter' = [setter EXCEPT ![s].pc = "encode"]
  /\ UNCHANGED env

\* Mutant of Contents: only the setting that was given is written.
ContentsOne(s) == [ok |-> TRUE, vals |-> Restrict(setter[s].cfg, {setter[s].key})]

\* Mutant of Contents: the settings that were loaded are written back.
ContentsBefore(s) == [ok |-> TRUE, vals |-> setter[s].before]

Contents(s) == [ok |-> TRUE, vals |-> setter[s].cfg]

\* Encode writes from the start of the file.  What another process has
\* written there since may stick out behind a shorter text.
Encode(s) ==
  /\ At(s, "encode")
  /\ \E c \in {Contents(s)} \cup IF files[defaultConfigPath] = Empty THEN {} ELSE {Garbled} :
       files' = [files EXCEPT ![defaultConfigPath] = c]
  /\ setter' = [setter EXCEPT ![s].pc = "close"]
  /\ UNCHANGED env

\* The disk is full: the first settings only, or half a line.
EncodeFails(s) ==
  /\ At(s, "encode")
  /\ \E n \in 0..Len(Order) :
       \E c \in {[ok |-> TRUE, vals |-> Restrict(setter[s].cfg, {Order[i] : i \in 1..n})],
                 Garbled} :
         files' = [files EXCEPT ![defaultConfigPath] = c]
  /\ Exit(s)
  /\ UNCHANGED env

Close(s) ==
  /\ At(s, "close")
  /\ Exit(s)
  /\ UNCHANGED <<files, env>>

\* The file cannot be opened, or the process dies.
Dies(s) ==
  /\ At(s, "open") \/ At(s, "encode")
  /\ Exit(s)
  /\ UNCHANGED <<files, env>>

ConfigNext ==
  \E s \in Setters :
    Begin(s) \/ Truncate(s) \/ Encode(s) \/ EncodeFails(s) \/ Close(s) \/ Dies(s)

ConfigSpec == ConfigInit /\ [][ConfigNext]_vars

-----------------------------------------------------------------------------
(* Properties.                                                             *)

\* The values that the error messages of setConfigValue ask for.
Demanded(kind, v) ==
  /\ kind = "count" => v >= 0
  /\ kind \in {"path", "positive", "circuit"} => v > 0
  /\ kind = "ratio" => Ratio(v)

\* The program works with no setting that `config set` calls invalid.
SettingsAsDemanded == \A k \in Settings : Demanded(Kind[k], Effective[k])

Overrides(k) == k \in DOMAIN env /\ EnvValid(Kind[k], env[k])

\* The file or the environment says so.
Given(k, v) ==
  \/ k \in DOMAIN File.vals /\ File.vals[k] = v
  \/ k \in DOMAIN env /\ env[k] = v

\* What Load does guarantee of a hand-written, half-written or emptied file and
\* any environment.  An invalid setting is in force in two cases only: a count
\* that the file makes negative and no variable overrides, and a ratio given as
\* NaN.  Beyond that, no text that must not be blank is blank, the circuit stays
\* open for its minimum and the worker keeps its 15 seconds between requests.
LoadGuards ==
  /\ \A k \in Settings :
       LET v == Effective[k]
       IN  /\ \/ Demanded(Kind[k], v)
              \/ /\ Kind[k] = "count" /\ ~Overrides(k)
                 /\ k \in DOMAIN File.vals /\ File.vals[k] = v
              \/ Kind[k] = "ratio" /\ v = NaN /\ Given(k, v)
           /\ Kind[k] = "circuit" => v >= CircuitMin
           /\ Kind[k] = "text" => v > 0
  /\ WorkInterval(-1) >= WorkerFloor

\* A command that ran alone from its Load to its return.
Undisturbed(s) == At(s, "close") /\ setter[s].alone /\ setter'[s].pc = "done"

\* `config set`, when it returns, has set the value: it is in force unless a
\* variable overrides it or it is blank, and the floor of the circuit applies.
SetTakesEffect ==
  [][\A s \in Setters :
       LET k == setter[s].key
           v == setter[s].value
       IN  Undisturbed(s) /\ ~Overrides(k) /\ ~Blank(Kind[k], v)
           => Effective'[k] = Clamp(k, v)]_vars

\* ... and it leaves every other setting in force as it was, though it writes
\* defaults, clamped values and variables of the environment into the file.
SetKeepsOthers ==
  [][\A s \in Setters : Undisturbed(s) =>
       \A k \in Settings \ {setter[s].key} : Effective'[k] = setter[s].before[k]]_vars

-----------------------------------------------------------------------------
(* What makes these properties inductive.                                  *)

\* Values of some of the settings; no text is a number gone wrong.
Partial(vals) ==
  /\ DOMAIN vals \subseteq Settings /\ vals \in [DOMAIN vals -> Int]
  /\ \A k \in DOMAIN vals : Kind[k] \in {"text", "path"} => vals[k] >= 0

ConfigTypeOK ==
  /\ files = [p \in {"docker", "home"} |-> files[p]]
  /\ \A p \in {"docker", "home"} : files[p].ok \in BOOLEAN /\ Partial(files[p].vals)
  /\ Partial(env)
  /\ setter \in
       [Setters -> [pc: {"idle", "open", "encode", "close", "done"}, cfg: [Settings -> Int],
                    key: Settings \cup {"none"}, value: Int, alone: BOOLEAN,
                    before: [Settings -> Int]]]
  /\ \A s \in Setters : Partial(setter[s].cfg)

\* A command has changed one setting, and would load the others as they are.
SetsOne(s) ==
  Busy(s) => /\ setter[s].key \in Settings
             /\ setter[s].cfg = [setter[s].before EXCEPT ![setter[s].key] = setter[s].value]
             /\ Load(setter[s].before) = setter[s].before

\* While a command is alone, nobody else is on the way, and the file holds
\* what the command has put there.
AloneIs(s) ==
  Busy(s) /\ setter[s].alone =>
    /\ \A u \in Setters \ {s} : ~Busy(u)
    /\ At(s, "encode") => files[defaultConfigPath] = Empty
    /\ At(s, "close") => files[defaultConfigPath] = Contents(s)

\* The conjunction TLAPS proves inductive.
ConfigInv == ConfigTypeOK /\ \A s \in Setters : SetsOne(s) /\ AloneIs(s)

=============================================================================
