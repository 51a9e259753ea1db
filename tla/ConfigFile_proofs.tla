-------------------------- MODULE ConfigFile_proofs --------------------------
(***************************************************************************)
(* Theorems about module ConfigFile: any settings and values in the file   *)
(* and in the environment, any number of `config set` commands at once.    *)
(***************************************************************************)
EXTENDS ConfigFile, TLAPS

-----------------------------------------------------------------------------
(* Load.                                                                   *)

\* A value that Load takes from the file, or its default, is not blank, and it
\* is as `config set` demands it, or it is the file's.
LEMMA FromFileFacts ==
  ASSUME NEW vals, Partial(vals), NEW k \in Settings
  PROVE  /\ FromFile(k, vals) \in Int /\ ~Blank(Kind[k], FromFile(k, vals))
         /\ Kind[k] \in {"text", "path"} => FromFile(k, vals) > 0
         /\ \/ Kind[k] = "count" => FromFile(k, vals) >= 0
            \/ k \in DOMAIN vals /\ FromFile(k, vals) = vals[k]
         /\ \/ Kind[k] = "ratio" => Ratio(FromFile(k, vals))
            \/ k \in DOMAIN vals /\ FromFile(k, vals) = vals[k]
<1>1. /\ Kind[k] \in Kinds /\ Default[k] \in Int
      /\ Kind[k] \in {"text", "path", "positive"} => Default[k] > 0
      /\ Kind[k] = "count" => Default[k] >= 0
      /\ Kind[k] = "ratio" => Ratio(Default[k])
      /\ Kind[k] = "circuit" => Default[k] = CircuitDefault
  BY ConfigAssumption
<1>2. CASE k \in DOMAIN vals /\ ~Blank(Kind[k], vals[k])
  <2>1. vals[k] \in Int /\ (Kind[k] \in {"text", "path"} => vals[k] >= 0)
    BY <1>2 DEF Partial
  <2>2. FromFile(k, vals) = vals[k]
    BY <1>2 DEF FromFile
  <2>3. Kind[k] \in {"text", "path"} => vals[k] # 0
    BY <1>2 DEF Blank
  <2> QED
    BY <1>2, <2>1, <2>2, <2>3
<1>3. CASE ~(k \in DOMAIN vals /\ ~Blank(Kind[k], vals[k]))
  <2>1. FromFile(k, vals) = Default[k]
    BY <1>3 DEF FromFile
  <2> QED
    BY <1>1, <2>1 DEF Blank, CircuitDefault, RatioTaken
<1> QED
  BY <1>2, <1>3

\* What Load returns, whatever it was given: nothing blank, and what `config
\* set` would refuse is a negative count of the file or a NaN that was given.
LEMMA LoadRange ==
  ASSUME Partial(env), NEW vals, Partial(vals), NEW k \in Settings
  PROVE  /\ Load(vals)[k] = Clamp(k, Overlaid(k, FromFile(k, vals)))
         /\ Load(vals)[k] \in Int /\ ~Blank(Kind[k], Load(vals)[k])
         /\ Kind[k] = "circuit" => Load(vals)[k] >= CircuitMin
         /\ Kind[k] \in {"text", "path", "positive"} => Load(vals)[k] > 0
         /\ Kind[k] = "count" => \/ Load(vals)[k] >= 0
                                 \/ /\ ~Overrides(k)
                                    /\ k \in DOMAIN vals /\ Load(vals)[k] = vals[k]
         /\ Kind[k] = "ratio" => \/ Ratio(Load(vals)[k])
                                 \/ /\ Load(vals)[k] = NaN
                                    /\ \/ k \in DOMAIN vals /\ vals[k] = NaN
                                       \/ k \in DOMAIN env /\ env[k] = NaN
<1> DEFINE f == FromFile(k, vals)
           o == Overlaid(k, f)
<1>1. /\ f \in Int /\ ~Blank(Kind[k], f)
      /\ Kind[k] \in {"text", "path"} => f > 0
      /\ (Kind[k] = "count" => f >= 0) \/ (k \in DOMAIN vals /\ f = vals[k])
      /\ (Kind[k] = "ratio" => Ratio(f)) \/ (k \in DOMAIN vals /\ f = vals[k])
  BY FromFileFacts
<1>2. Load(vals)[k] = Clamp(k, o)
  BY DEF Load
<1> HIDE DEF f
<1>4. /\ o \in Int /\ ~Blank(Kind[k], o)
      /\ Kind[k] \in {"text", "path"} => o > 0
      /\ Kind[k] = "count" => \/ o >= 0
                              \/ ~Overrides(k) /\ k \in DOMAIN vals /\ o = vals[k]
      /\ Kind[k] = "ratio" => \/ Ratio(o)
                              \/ k \in DOMAIN vals /\ o = vals[k]
                              \/ k \in DOMAIN env /\ o = env[k]
  <2>1. CASE k \in DOMAIN env /\ EnvValid(Kind[k], env[k])
    <3>1. env[k] \in Int /\ o = env[k]
      BY <2>1 DEF Partial, Overlaid
    <3>2. Kind[k] \in {"text", "path", "positive", "circuit"} => env[k] > 0
      BY <2>1 DEF EnvValid
    <3>3. Kind[k] = "ratio" => RatioTaken(env[k])
      BY <2>1 DEF EnvValid
    <3>4. Kind[k] = "count" => env[k] >= 0
      BY <2>1 DEF EnvValid
    <3> QED
      BY <2>1, <3>1, <3>2, <3>3, <3>4 DEF Blank
  <2>2. CASE ~(k \in DOMAIN env /\ EnvValid(Kind[k], env[k]))
    <3>1. o = f /\ ~Overrides(k)
      BY <2>2 DEF Overlaid, Overrides
    <3> QED
      BY <1>1, <3>1
  <2> QED
    BY <2>1, <2>2
<1> HIDE DEF o
<1>5. /\ Clamp(k, o) \in Int /\ ~Blank(Kind[k], Clamp(k, o))
      /\ Kind[k] = "circuit" => Clamp(k, o) >= CircuitMin
      /\ Kind[k] # "circuit" => Clamp(k, o) = o
  BY <1>4 DEF Clamp, CircuitDefault, CircuitMin, Blank
<1>6. /\ Kind[k] = "ratio" => Ratio(o) \/ o = NaN
      /\ Kind[k] \in {"text", "path", "positive"} => o > 0
  BY <1>4 DEF Blank, RatioTaken
<1> QED
  BY <1>2, <1>4, <1>5, <1>6 DEF f, o

\* Loading what was loaded changes nothing: defaults, clamped values and
\* variables written back into the file mean the same there.
LEMMA LoadStable ==
  ASSUME Partial(env), NEW vals, Partial(vals)
  PROVE  /\ Load(vals) \in [Settings -> Int] /\ Partial(Load(vals))
         /\ Load(Load(vals)) = Load(vals)
<1> DEFINE cfg == Load(vals)
<1>1. cfg \in [Settings -> Int]
  <2>1. \A k \in Settings : cfg[k] \in Int
    BY LoadRange
  <2>2. cfg = [k \in Settings |-> Clamp(k, Overlaid(k, FromFile(k, vals)))]
    BY DEF Load
  <2> HIDE DEF cfg
  <2>3. \A k \in Settings : cfg[k] = Clamp(k, Overlaid(k, FromFile(k, vals)))
    BY <2>2
  <2> QED
    BY <2>1, <2>2, <2>3
<1>2. Partial(cfg)
  <2>1. \A k \in Settings : Kind[k] \in {"text", "path"} => cfg[k] >= 0
    BY <1>1, LoadRange
  <2> HIDE DEF cfg
  <2> QED
    BY <1>1, <2>1 DEF Partial
<1>3. ASSUME NEW k \in Settings PROVE Load(cfg)[k] = cfg[k]
  <2>1. /\ cfg[k] = Clamp(k, Overlaid(k, FromFile(k, vals)))
        /\ cfg[k] \in Int /\ ~Blank(Kind[k], cfg[k])
        /\ Kind[k] = "circuit" => cfg[k] >= CircuitMin
    BY LoadRange
  <2>2. Load(cfg)[k] = Clamp(k, Overlaid(k, FromFile(k, cfg)))
    BY <1>2, LoadRange
  <2> HIDE DEF cfg
  <2>3. FromFile(k, cfg) = cfg[k]
    BY <1>1, <2>1 DEF FromFile
  <2>4. CASE k \in DOMAIN env /\ EnvValid(Kind[k], env[k])
    BY <2>1, <2>2, <2>4 DEF Overlaid
  <2>5. CASE ~(k \in DOMAIN env /\ EnvValid(Kind[k], env[k]))
    <3>1. Overlaid(k, cfg[k]) = cfg[k]
      BY <2>5 DEF Overlaid
    <3>2. Clamp(k, cfg[k]) = cfg[k]
      BY <2>1 DEF Clamp, CircuitMin
    <3> QED
      BY <2>2, <2>3, <3>1, <3>2
  <2> QED
    BY <2>4, <2>5
<1>4. Load(cfg) \in [Settings -> Int]
  <2> HIDE DEF cfg
  <2>1. \A k \in Settings : Load(cfg)[k] \in Int
    BY <1>2, LoadRange
  <2>2. Load(cfg) = [k \in Settings |-> Load(cfg)[k]]
    BY DEF Load
  <2> QED
    BY <2>1, <2>2
<1> HIDE DEF cfg
<1>5. Load(cfg) = cfg
  BY <1>1, <1>3, <1>4
<1> QED
  BY <1>1, <1>2, <1>5 DEF cfg

-----------------------------------------------------------------------------
(* The commands.                                                           *)

SetterState ==
  [pc: {"idle", "open", "encode", "close", "done"}, cfg: [Settings -> Int],
   key: Settings \cup {"none"}, value: Int, alone: BOOLEAN, before: [Settings -> Int]]

\* What is known of one command.
LEMMA SetterFacts ==
  ASSUME ConfigInv, NEW s \in Setters
  PROVE  /\ setter \in [Setters -> SetterState] /\ setter[s] \in SetterState
         /\ Partial(setter[s].cfg) /\ SetsOne(s) /\ AloneIs(s)
         /\ Partial(env) /\ Partial(File.vals)
         /\ \A p \in {"docker", "home"} : files[p].ok \in BOOLEAN /\ Partial(files[p].vals)
<1>1. /\ setter \in [Setters -> SetterState]
      /\ Partial(setter[s].cfg) /\ SetsOne(s) /\ AloneIs(s) /\ Partial(env)
      /\ \A p \in {"docker", "home"} : files[p].ok \in BOOLEAN /\ Partial(files[p].vals)
  BY DEF ConfigInv, ConfigTypeOK, SetterState
<1>2. xdgConfigPath \in {"docker", "home"}
  BY DEF xdgConfigPath
<1> QED
  BY <1>1, <1>2 DEF File

\* What a file may hold.
Held(f) == f.ok \in BOOLEAN /\ Partial(f.vals)

\* A command that goes on, with the file in a state it accounts for, or ends.
LEMMA OneSetter ==
  ASSUME ConfigInv, NEW s \in Setters, Busy(s), env' = env,
         setter'[s] \in SetterState, setter' = [setter EXCEPT ![s] = setter'[s]],
         files' = [files EXCEPT !["home"] = files'["home"]], Held(files'["home"]),
         \/ setter'[s].pc = "done" /\ Partial(setter'[s].cfg)
         \/ setter'[s] = [setter[s] EXCEPT !.pc = "encode"] /\ files'["home"] = Empty
         \/ /\ setter'[s] = [setter[s] EXCEPT !.pc = "close"]
            /\ setter[s].alone => files'["home"] = Contents(s)
  PROVE  ConfigInv'
<1> DEFINE new == setter'[s]
<1>1. /\ setter \in [Setters -> SetterState] /\ setter[s] \in SetterState
      /\ Partial(setter[s].cfg) /\ SetsOne(s) /\ AloneIs(s) /\ Partial(env)
      /\ \A p \in {"docker", "home"} : files[p].ok \in BOOLEAN /\ Partial(files[p].vals)
  BY SetterFacts
<1>2. /\ setter' \in [Setters -> SetterState] /\ setter'[s] = new
      /\ \A t \in Setters \ {s} : setter'[t] = setter[t]
  BY <1>1
<1>3. /\ files' = [p \in {"docker", "home"} |-> files'[p]]
      /\ files'["docker"] = files["docker"]
  <2>1. files = [p \in {"docker", "home"} |-> files[p]]
    BY DEF ConfigInv, ConfigTypeOK
  <2> QED
    BY <2>1
<1>4. Partial(new.cfg)
  BY <1>1 DEF SetterState
<1>5. ConfigTypeOK'
  <2>1. \A p \in {"docker", "home"} : files'[p].ok \in BOOLEAN /\ Partial(files'[p].vals)
    BY <1>1, <1>3 DEF Held
  <2>2. \A t \in Setters : Partial(setter'[t].cfg)
    BY <1>2, <1>4 DEF ConfigInv, ConfigTypeOK
  <2> QED
    BY <1>1, <1>2, <1>3, <2>1, <2>2 DEF ConfigTypeOK, Partial, SetterState
<1>6. ASSUME NEW t \in Setters \ {s} PROVE SetsOne(t)' /\ AloneIs(t)'
  <2>1. SetsOne(t) /\ AloneIs(t) /\ setter'[t] = setter[t]
    BY <1>2, SetterFacts
  <2>2. ~(Busy(t) /\ setter[t].alone)
    BY <2>1 DEF AloneIs
  <2>3. AloneIs(t)'
    BY <2>1, <2>2 DEF AloneIs, Busy
  <2>4. SetsOne(t)'
    BY <2>1 DEF SetsOne, Busy, Load, Overlaid
  <2> QED
    BY <2>3, <2>4
<1>7. CASE new.pc = "done"
  <2>1. SetsOne(s)' /\ AloneIs(s)'
    BY <1>2, <1>7 DEF SetsOne, AloneIs, Busy
  <2> QED
    BY <1>5, <1>6, <2>1 DEF ConfigInv
<1>8. CASE new.pc # "done"
  <2>1. /\ new.cfg = setter[s].cfg /\ new.key = setter[s].key /\ new.value = setter[s].value
        /\ new.alone = setter[s].alone /\ new.before = setter[s].before
        /\ new.pc = "encode" => files'["home"] = Empty
        /\ new.pc = "close" => (setter[s].alone => files'["home"] = Contents(s))
    BY <1>1, <1>8 DEF SetterState
  <2>2. SetsOne(s)'
    BY <1>1, <1>2, <2>1 DEF SetsOne, Busy, Load, Overlaid
  <2>3. \A u \in Setters \ {s} : Busy(u)' <=> Busy(u)
    BY <1>2 DEF Busy
  <2>4. Contents(s)' = Contents(s)
    BY <1>2, <2>1 DEF Contents
  <2>5. AloneIs(s)'
    BY <1>1, <1>2, <2>1, <2>3, <2>4 DEF AloneIs, At, defaultConfigPath
  <2> QED
    BY <1>5, <1>6, <2>2, <2>5 DEF ConfigInv
<1> QED
  BY <1>7, <1>8

\* A command begins: whoever is on the way is not alone any more.
LEMMA BeginKeeps ==
  ASSUME ConfigInv, NEW s \in Setters, Begin(s)
  PROVE  ConfigInv'
<1> DEFINE before == Effective
<1>1. PICK k \in Settings, v \in UNION {Written[j] : j \in Settings} :
        /\ v \in Written[k] /\ SetValid(Kind[k], v)
        /\ setter' = [t \in Setters |->
             IF t = s
             THEN [pc |-> "open", cfg |-> [before EXCEPT ![k] = v], key |-> k, value |-> v,
                   alone |-> \A u \in Setters \ {s} : ~Busy(u), before |-> before]
             ELSE [setter[t] EXCEPT !.alone = ~Busy(t) /\ @]]
        /\ UNCHANGED <<files, env>>
  BY DEF Begin
<1>2. /\ setter \in [Setters -> SetterState] /\ Partial(env) /\ Partial(File.vals)
  BY SetterFacts
<1>3. /\ before \in [Settings -> Int] /\ Partial(before) /\ Load(before) = before
  BY <1>2, LoadStable DEF Effective
<1>4. v \in Int /\ (Kind[k] \in {"text", "path"} => v >= 0)
  BY <1>1, ConfigAssumption
<1> HIDE DEF before
<1> DEFINE cfg == [before EXCEPT ![k] = v]
           alone == \A u \in Setters \ {s} : ~Busy(u)
<1>5. cfg \in [Settings -> Int] /\ Partial(cfg)
  BY <1>3, <1>4 DEF Partial
<1>6. alone \in BOOLEAN /\ (alone => \A u \in Setters \ {s} : ~Busy(u))
  OBVIOUS
<1>7. setter'[s] = [pc |-> "open", cfg |-> cfg, key |-> k, value |-> v, alone |-> alone,
                    before |-> before]
  BY <1>1
<1> HIDE DEF cfg, alone
<1>8. setter'[s] \in SetterState
  BY <1>3, <1>4, <1>5, <1>6, <1>7 DEF SetterState
<1>9. ASSUME NEW t \in Setters \ {s}
      PROVE  /\ setter'[t] \in SetterState
             /\ setter'[t].pc = setter[t].pc /\ setter'[t].cfg = setter[t].cfg
             /\ setter'[t].key = setter[t].key /\ setter'[t].value = setter[t].value
             /\ setter'[t].before = setter[t].before
             /\ setter'[t].alone => ~Busy(t)
  <2> DEFINE a == ~Busy(t) /\ setter[t].alone
  <2>1. setter'[t] = [setter[t] EXCEPT !.alone = a]
    BY <1>1
  <2>2. setter[t] \in SetterState /\ a \in BOOLEAN /\ (a => ~Busy(t))
    BY <1>2
  <2> HIDE DEF a
  <2> QED
    BY <2>1, <2>2 DEF SetterState
<1>10. setter' \in [Setters -> SetterState]
  BY <1>1, <1>8, <1>9
<1>11. ConfigTypeOK'
  <2>1. \A t \in Setters : Partial(setter'[t].cfg)
    BY <1>5, <1>7, <1>9 DEF ConfigInv, ConfigTypeOK
  <2>2. /\ files' = [p \in {"docker", "home"} |-> files'[p]]
        /\ \A p \in {"docker", "home"} : files'[p].ok \in BOOLEAN /\ Partial(files'[p].vals)
        /\ Partial(env')
    BY <1>1 DEF ConfigInv, ConfigTypeOK
  <2> QED
    BY <1>10, <2>1, <2>2 DEF ConfigTypeOK, Partial, SetterState
<1>12. SetsOne(s)'
  BY <1>1, <1>3, <1>7 DEF SetsOne, cfg, Load, Overlaid
<1>13. AloneIs(s)'
  <2>1. \A u \in Setters \ {s} : Busy(u)' <=> Busy(u)
    BY <1>9 DEF Busy
  <2> QED
    BY <1>6, <1>7, <2>1 DEF AloneIs, At
<1>14. ASSUME NEW t \in Setters \ {s} PROVE SetsOne(t)' /\ AloneIs(t)'
  <2>1. SetsOne(t)
    BY SetterFacts
  <2>2. /\ setter'[t].pc = setter[t].pc /\ setter'[t].cfg = setter[t].cfg
        /\ setter'[t].key = setter[t].key /\ setter'[t].value = setter[t].value
        /\ setter'[t].before = setter[t].before
        /\ setter'[t].alone => ~Busy(t)
    BY <1>9
  <2>3. env' = env
    BY <1>1
  <2>4. SetsOne(t)'
    BY <2>1, <2>2, <2>3 DEF SetsOne, Busy, Load, Overlaid
  <2>5. setter'[t].alone => ~Busy(t)'
    BY <2>2 DEF Busy
  <2>6. AloneIs(t)'
    BY <2>5 DEF AloneIs
  <2> QED
    BY <2>4, <2>6
<1> QED
  BY <1>11, <1>12, <1>13, <1>14 DEF ConfigInv

\* A command that ends.
LEMMA EndedState ==
  ASSUME NEW s \in Setters, Exit(s)
  PROVE  \E new \in SetterState :
           new.pc = "done" /\ Partial(new.cfg) /\ setter' = [setter EXCEPT ![s] = new]
<1> DEFINE new == [Idle EXCEPT !.pc = "done"]
<1>1. Default \in [Settings -> Int] /\ Partial(Default)
  <2>1. Default \in [Settings -> Int]
    BY ConfigAssumption
  <2>2. \A k \in Settings : Kind[k] \in {"text", "path"} => Default[k] >= 0
    BY ConfigAssumption
  <2> QED
    BY <2>1, <2>2 DEF Partial
<1>2. ASSUME NEW b \in BOOLEAN
      PROVE  LET ended == [[pc |-> "idle", cfg |-> Default, key |-> "none", value |-> 0,
                            alone |-> b, before |-> Default] EXCEPT !.pc = "done"]
             IN  ended \in SetterState /\ ended.pc = "done" /\ ended.cfg = Default
  BY <1>1 DEF SetterState
<1>3. new \in SetterState /\ new.pc = "done" /\ new.cfg = Default
  BY <1>2, Zenon DEF Idle
<1>4. setter' = [setter EXCEPT ![s] = new]
  BY DEF Exit
<1> HIDE DEF new
<1> QED
  BY <1>1, <1>3, <1>4

\* The contents of a file that are not a command's.
LEMMA NoContents == Held(Empty) /\ Held(Garbled)
<1>1. DOMAIN NoValues = {}
  BY DEF NoValues
<1>2. NoValues \in [DOMAIN NoValues -> Int]
  BY DEF NoValues
<1>3. Partial(NoValues)
  BY <1>1, <1>2 DEF Partial
<1>4. Empty.vals = NoValues /\ Garbled.vals = NoValues
  BY DEF Empty, Garbled
<1>5. Empty.ok \in BOOLEAN /\ Garbled.ok \in BOOLEAN
  BY DEF Empty, Garbled
<1> QED
  BY <1>3, <1>4, <1>5 DEF Held

\* What was written before the disk was full is some of the settings.
LEMMA RestrictPartial ==
  ASSUME NEW cfg, Partial(cfg), NEW S, S \subseteq DOMAIN cfg
  PROVE  Partial(Restrict(cfg, S))
BY DEF Partial, Restrict

\* One step.
LEMMA ConfigStep ==
  ASSUME ConfigInv, [ConfigNext]_vars
  PROVE  ConfigInv'
<1>1. CASE UNCHANGED vars
  <2>1. files' = files /\ env' = env /\ setter' = setter
    BY <1>1 DEF vars
  <2>2. ConfigTypeOK'
    BY <2>1 DEF ConfigInv, ConfigTypeOK, Partial
  <2>3. ASSUME NEW s \in Setters PROVE SetsOne(s)' /\ AloneIs(s)'
    <3>1. SetsOne(s) /\ AloneIs(s)
      BY SetterFacts
    <3>2. SetsOne(s)'
      BY <2>1, <3>1 DEF SetsOne, Busy, Load, Overlaid
    <3>3. AloneIs(s)'
      BY <2>1, <3>1 DEF AloneIs, Busy, At, Contents
    <3> QED
      BY <3>2, <3>3
  <2> QED
    BY <2>2, <2>3 DEF ConfigInv
<1>2. ASSUME NEW s \in Setters, Begin(s) PROVE ConfigInv'
  BY <1>2, BeginKeeps
<1>7. ASSUME NEW s \in Setters, At(s, "open") \/ At(s, "encode") \/ At(s, "close")
      PROVE  /\ setter \in [Setters -> SetterState] /\ setter[s] \in SetterState
             /\ Partial(setter[s].cfg) /\ AloneIs(s) /\ Busy(s)
             /\ files = [p \in {"docker", "home"} |-> files[p]]
             /\ Held(files["home"])
  <2>1. Busy(s)
    BY <1>7 DEF At, Busy
  <2>2. files = [p \in {"docker", "home"} |-> files[p]]
    BY DEF ConfigInv, ConfigTypeOK
  <2> QED
    BY <2>1, <2>2, SetterFacts DEF Held
<1>3. ASSUME NEW s \in Setters, Truncate(s) PROVE ConfigInv'
  <2>1. /\ At(s, "open") /\ env' = env
        /\ files' = [files EXCEPT !["home"] = Empty]
        /\ setter' = [setter EXCEPT ![s] = [setter[s] EXCEPT !.pc = "encode"]]
    BY <1>3 DEF Truncate, defaultConfigPath
  <2>2. /\ setter \in [Setters -> SetterState] /\ setter[s] \in SetterState /\ Busy(s)
        /\ files = [p \in {"docker", "home"} |-> files[p]]
    BY <1>7, <2>1
  <2>3. /\ files'["home"] = Empty /\ files' = [files EXCEPT !["home"] = files'["home"]]
        /\ Held(files'["home"])
    BY <2>1, <2>2, NoContents
  <2>4. /\ setter'[s] = [setter[s] EXCEPT !.pc = "encode"]
        /\ setter' = [setter EXCEPT ![s] = setter'[s]]
    BY <2>1, <2>2
  <2>5. setter'[s] \in SetterState
    BY <2>2, <2>4 DEF SetterState
  <2> QED
    BY <2>1, <2>2, <2>3, <2>4, <2>5, OneSetter
<1>4. ASSUME NEW s \in Setters, Encode(s) PROVE ConfigInv'
  <2>1. /\ At(s, "encode") /\ env' = env
        /\ setter' = [setter EXCEPT ![s] = [setter[s] EXCEPT !.pc = "close"]]
    BY <1>4 DEF Encode
  <2>2. /\ setter \in [Setters -> SetterState] /\ setter[s] \in SetterState /\ Busy(s)
        /\ Partial(setter[s].cfg) /\ AloneIs(s)
        /\ files = [p \in {"docker", "home"} |-> files[p]]
    BY <1>7, <2>1
  <2>3. \/ files' = [files EXCEPT !["home"] = Contents(s)]
        \/ files' = [files EXCEPT !["home"] = Garbled] /\ files["home"] # Empty
    BY <1>4 DEF Encode, defaultConfigPath
  <2>4. Held(Contents(s))
    <3>1. Contents(s).ok \in BOOLEAN
      BY DEF Contents
    <3>2. Contents(s).vals = setter[s].cfg
      BY DEF Contents
    <3> QED
      BY <2>2, <3>1, <3>2 DEF Held
  <2>5. /\ files' = [files EXCEPT !["home"] = files'["home"]]
        /\ files'["home"] = Contents(s) \/ (files'["home"] = Garbled /\ files["home"] # Empty)
    BY <2>2, <2>3
  <2>6. Held(files'["home"])
    BY <2>4, <2>5, NoContents
  <2>7. setter[s].alone => files'["home"] = Contents(s)
    BY <2>1, <2>2, <2>5 DEF AloneIs, defaultConfigPath
  <2>8. /\ setter'[s] = [setter[s] EXCEPT !.pc = "close"]
        /\ setter' = [setter EXCEPT ![s] = setter'[s]]
    BY <2>1, <2>2
  <2>9. setter'[s] \in SetterState
    BY <2>2, <2>8 DEF SetterState
  <2> QED
    BY <2>1, <2>2, <2>5, <2>6, <2>7, <2>8, <2>9, OneSetter
<1>8. ASSUME NEW s \in Setters, At(s, "open") \/ At(s, "encode") \/ At(s, "close"),
             Exit(s), env' = env,
             files' = [files EXCEPT !["home"] = files'["home"]], Held(files'["home"])
      PROVE  ConfigInv'
  <2>1. setter \in [Setters -> SetterState] /\ setter[s] \in SetterState /\ Busy(s)
    BY <1>7, <1>8
  <2>2. PICK new \in SetterState :
          new.pc = "done" /\ Partial(new.cfg) /\ setter' = [setter EXCEPT ![s] = new]
    BY <1>8, EndedState
  <2>3. setter'[s] = new /\ setter' = [setter EXCEPT ![s] = setter'[s]]
    BY <2>1, <2>2
  <2> QED
    BY <1>8, <2>1, <2>2, <2>3, OneSetter
<1>5. ASSUME NEW s \in Setters, EncodeFails(s) PROVE ConfigInv'
  <2>1. PICK n \in 0..Len(Order) :
          \/ files' = [files EXCEPT !["home"] = Garbled]
          \/ files' = [files EXCEPT !["home"] =
               [ok |-> TRUE, vals |-> Restrict(setter[s].cfg, {Order[i] : i \in 1..n})]]
    BY <1>5 DEF EncodeFails, defaultConfigPath
  <2> DEFINE some == Restrict(setter[s].cfg, {Order[i] : i \in 1..n})
             part == [ok |-> TRUE, vals |-> some]
  <2>2. At(s, "encode") /\ env' = env /\ Exit(s)
    BY <1>5 DEF EncodeFails
  <2>3. Partial(some)
    <3>1. /\ Partial(setter[s].cfg) /\ setter[s] \in SetterState
      BY SetterFacts
    <3>2. \A i \in 1..n : Order[i] \in Settings
      BY ConfigAssumption
    <3>3. {Order[i] : i \in 1..n} \subseteq DOMAIN setter[s].cfg
      BY <3>1, <3>2 DEF SetterState
    <3> QED
      BY <3>1, <3>3, RestrictPartial
  <2> HIDE DEF some
  <2>4. Held(part)
    <3>1. part.ok \in BOOLEAN
      OBVIOUS
    <3>2. part.vals = some
      OBVIOUS
    <3> QED
      BY <2>3, <3>1, <3>2 DEF Held
  <2>5. files' = [files EXCEPT !["home"] = Garbled] \/ files' = [files EXCEPT !["home"] = part]
    BY <2>1 DEF some
  <2> HIDE DEF part
  <2>6. files = [p \in {"docker", "home"} |-> files[p]]
    BY <1>7, <2>2
  <2>7. /\ files' = [files EXCEPT !["home"] = files'["home"]]
        /\ files'["home"] \in {Garbled, part}
    BY <2>5, <2>6
  <2>8. Held(files'["home"])
    BY <2>4, <2>7, NoContents
  <2> QED
    BY <1>8, <2>2, <2>7, <2>8
<1>6. ASSUME NEW s \in Setters, Close(s) \/ Dies(s) PROVE ConfigInv'
  <2>1. /\ At(s, "open") \/ At(s, "encode") \/ At(s, "close")
        /\ env' = env /\ files' = files /\ Exit(s)
    BY <1>6 DEF Close, Dies
  <2>2. files = [p \in {"docker", "home"} |-> files[p]] /\ Held(files["home"])
    BY <1>7, <2>1
  <2>3. files' = [files EXCEPT !["home"] = files'["home"]] /\ Held(files'["home"])
    BY <2>1, <2>2
  <2> QED
    BY <1>8, <2>1, <2>3
<1> QED
  BY <1>1, <1>2, <1>3, <1>4, <1>5, <1>6 DEF ConfigNext

-----------------------------------------------------------------------------
(* The theorems.                                                           *)

\* Whatever was written by hand, no command is on its way at first.
LEMMA ConfigStart ==
  ASSUME ConfigInit
  PROVE  ConfigInv
<1>1. PICK k \in Settings, inFile \in BOOLEAN, inEnv \in BOOLEAN :
        \E fileValue, envValue \in Written[k] :
          /\ files = [p \in {"docker", "home"} |->
                       IF inFile /\ p = xdgConfigPath
                       THEN [ok |-> TRUE, vals |-> [j \in {k} |-> fileValue]] ELSE Empty]
          /\ env = IF inEnv THEN [j \in {k} |-> envValue] ELSE NoValues
  BY DEF ConfigInit
<1>2. PICK fileValue \in Written[k], envValue \in Written[k] :
        /\ files = [p \in {"docker", "home"} |->
                     IF inFile /\ p = xdgConfigPath
                     THEN [ok |-> TRUE, vals |-> [j \in {k} |-> fileValue]] ELSE Empty]
        /\ env = IF inEnv THEN [j \in {k} |-> envValue] ELSE NoValues
  BY <1>1
<1>3. ASSUME NEW v \in Written[k] PROVE Partial([j \in {k} |-> v])
  BY ConfigAssumption DEF Partial
<1> DEFINE one == [j \in {k} |-> fileValue]
           byHand == [ok |-> TRUE, vals |-> one]
<1>4. Held(byHand)
  <2>1. Partial(one)
    BY <1>3
  <2> HIDE DEF one
  <2>2. byHand.ok \in BOOLEAN
    OBVIOUS
  <2>3. byHand.vals = one
    OBVIOUS
  <2> QED
    BY <2>1, <2>2, <2>3 DEF Held
<1>5. /\ files = [p \in {"docker", "home"} |-> files[p]]
      /\ \A p \in {"docker", "home"} : files[p] \in {byHand, Empty}
  <2>1. files = [p \in {"docker", "home"} |->
                  IF inFile /\ p = xdgConfigPath THEN byHand ELSE Empty]
    BY <1>2
  <2> HIDE DEF byHand
  <2> QED
    BY <2>1
<1>6. \A p \in {"docker", "home"} : Held(files[p])
  <2> HIDE DEF byHand
  <2> QED
    BY <1>4, <1>5, NoContents
<1>7. Partial(env)
  <2>1. Partial(NoValues)
    BY NoContents DEF Held, Empty
  <2> QED
    BY <1>2, <1>3, <2>1
<1>8. /\ Default \in [Settings -> Int] /\ Partial(Default)
  <2>1. Default \in [Settings -> Int]
    BY ConfigAssumption
  <2>2. \A j \in Settings : Kind[j] \in {"text", "path"} => Default[j] >= 0
    BY ConfigAssumption
  <2> QED
    BY <2>1, <2>2 DEF Partial
<1>9. ASSUME NEW b \in BOOLEAN
      PROVE  LET idle == [pc |-> "idle", cfg |-> Default, key |-> "none", value |-> 0,
                          alone |-> b, before |-> Default]
             IN  idle \in SetterState /\ idle.pc = "idle" /\ idle.cfg = Default
  BY <1>8 DEF SetterState
<1>10. Idle \in SetterState /\ Idle.pc = "idle" /\ Idle.cfg = Default
  BY <1>9, Zenon DEF Idle
<1>11. /\ setter \in [Setters -> SetterState]
       /\ \A s \in Setters : setter[s].pc = "idle" /\ Partial(setter[s].cfg)
  BY <1>8, <1>10 DEF ConfigInit
<1>12. ConfigTypeOK
  BY <1>5, <1>6, <1>7, <1>11 DEF ConfigTypeOK, Held, SetterState
<1>13. \A s \in Setters : SetsOne(s) /\ AloneIs(s)
  BY <1>11 DEF SetsOne, AloneIs, Busy
<1> QED
  BY <1>12, <1>13 DEF ConfigInv

\* The inductive invariant: a command that is alone finds in the file what it
\* has put there, and would load the settings it did not change as they are.
THEOREM ConfigInvariant == ConfigSpec => []ConfigInv
<1>1. ConfigInit => ConfigInv
  BY ConfigStart
<1>2. ConfigInv /\ [ConfigNext]_vars => ConfigInv'
  BY ConfigStep
<1> QED
  BY <1>1, <1>2, PTL DEF ConfigSpec

\* Whatever the file and the environment hold, half-written files included,
\* the settings that Load returns are those `config set` would accept, but for
\* a NaN that was given and a negative count of the file, and its defaults and
\* floors hold (Load: blanks, overrides, clamp; the floor of the worker).
THEOREM LoadAlwaysGuards == ConfigSpec => []LoadGuards
<1>1. ASSUME ConfigInv PROVE LoadGuards
  <2>1. Partial(env) /\ Partial(File.vals)
    <3>1. xdgConfigPath \in {"docker", "home"}
      BY DEF xdgConfigPath
    <3> QED
      BY <1>1, <3>1 DEF ConfigInv, ConfigTypeOK, File
  <2>2. ASSUME NEW k \in Settings
        PROVE  LET v == Effective[k]
               IN  /\ \/ Demanded(Kind[k], v)
                      \/ /\ Kind[k] = "count" /\ ~Overrides(k)
                         /\ k \in DOMAIN File.vals /\ File.vals[k] = v
                      \/ Kind[k] = "ratio" /\ v = NaN /\ Given(k, v)
                   /\ Kind[k] = "circuit" => v >= CircuitMin
                   /\ Kind[k] = "text" => v > 0
    <3> DEFINE v == Effective[k]
    <3>1. /\ Kind[k] = "circuit" => v >= CircuitMin
          /\ Kind[k] \in {"text", "path", "positive"} => v > 0
          /\ Kind[k] = "count" => \/ v >= 0
                                  \/ ~Overrides(k) /\ k \in DOMAIN File.vals /\ v = File.vals[k]
          /\ Kind[k] = "ratio" => Ratio(v) \/ (v = NaN /\ Given(k, v))
          /\ v \in Int
      BY <2>1, LoadRange DEF Effective, Given
    <3> HIDE DEF v
    <3>2. \/ Demanded(Kind[k], v)
          \/ Kind[k] = "count" /\ ~Overrides(k) /\ k \in DOMAIN File.vals /\ v = File.vals[k]
          \/ Kind[k] = "ratio" /\ v = NaN /\ Given(k, v)
      BY <3>1 DEF Demanded, CircuitMin
    <3> QED
      BY <3>1, <3>2 DEF v
  <2>3. /\ Effective["server.work_interval_seconds"] \in Int
        /\ Effective["api.cooldown"] \in Int
    BY <2>1, LoadRange, ConfigAssumption DEF Effective
  <2>4. WorkInterval(-1) >= WorkerFloor
    BY <2>3 DEF WorkInterval, WorkerFloor
  <2> QED
    BY <2>2, <2>4 DEF LoadGuards
<1> QED
  BY <1>1, ConfigInvariant, PTL

\* When a command that was alone returns, the file holds its settings and
\* nothing has changed since.
LEMMA Returned ==
  ASSUME ConfigInv, [ConfigNext]_vars, ~DockerMode, NEW s \in Setters, Undisturbed(s)
  PROVE  /\ Partial(setter[s].cfg) /\ SetsOne(s) /\ Busy(s)
         /\ setter[s] \in SetterState /\ Partial(env) /\ env' = env
         /\ Effective' = Load(setter[s].cfg)
<1>1. /\ setter \in [Setters -> SetterState] /\ setter[s] \in SetterState
      /\ Partial(setter[s].cfg) /\ SetsOne(s) /\ AloneIs(s) /\ Partial(env)
  BY SetterFacts
<1>2. At(s, "close") /\ setter[s].alone /\ setter'[s].pc = "done" /\ setter[s].pc = "close"
  BY DEF Undisturbed, At
<1>3. Busy(s)
  BY <1>2 DEF Busy
<1>4. files["home"] = Contents(s)
  BY <1>1, <1>2, <1>3 DEF AloneIs, defaultConfigPath
<1>5. setter' # setter
  BY <1>2
<1>6. PICK t \in Setters :
        Begin(t) \/ Truncate(t) \/ Encode(t) \/ EncodeFails(t) \/ Close(t) \/ Dies(t)
  BY <1>5 DEF ConfigNext, vars
<1>7. setter[t].pc = "close" /\ Close(t)
  <2>1. CASE t # s
    <3>1. CASE Begin(t)
      <4>1. PICK k \in Settings : \E v \in {w \in Written[k] : SetValid(Kind[k], w)} :
              setter' = [u \in Setters |->
                IF u = t
                THEN [pc |-> "open", cfg |-> [Effective EXCEPT ![k] = v], key |-> k, value |-> v,
                      alone |-> \A w \in Setters \ {t} : ~Busy(w), before |-> Effective]
                ELSE [setter[u] EXCEPT !.alone = ~Busy(u) /\ @]]
        BY <3>1 DEF Begin
      <4>2. setter'[s] = [setter[s] EXCEPT !.alone = ~Busy(s) /\ @]
        BY <2>1, <4>1
      <4>3. setter'[s].pc = setter[s].pc
        BY <1>1, <4>2 DEF SetterState
      <4> QED
        BY <1>2, <4>3
    <3>2. CASE ~Begin(t)
      <4>1. setter'[s] = setter[s]
        BY <1>1, <1>6, <2>1, <3>2 DEF Truncate, Encode, EncodeFails, Close, Dies, Exit
      <4> QED
        BY <1>2, <4>1
    <3> QED
      BY <3>1, <3>2
  <2>2. CASE t = s
    BY <1>2, <1>6, <2>2 DEF Begin, Truncate, Encode, EncodeFails, Close, Dies, At
  <2> QED
    BY <2>1, <2>2
<1>8. files' = files /\ env' = env
  BY <1>7 DEF Close
<1>9. File.vals = setter[s].cfg
  BY <1>4 DEF File, xdgConfigPath, Contents
<1>10. Effective' = Load(File.vals)
  BY <1>8 DEF Effective, Load, Overlaid, File
<1> QED
  BY <1>1, <1>3, <1>8, <1>9, <1>10

\* `config set` does what it says: when it returns undisturbed, the value is in
\* force (unless blank, overridden or below the floor).  With MXLRC_DOCKER it
\* writes a file that Load does not read, so the theorem leaves that mode out.
THEOREM SetIsInForce == ~DockerMode => (ConfigSpec => SetTakesEffect)
<1> SUFFICES ASSUME ~DockerMode PROVE ConfigSpec => SetTakesEffect
  OBVIOUS
<1> DEFINE Sets(s) ==
      LET k == setter[s].key
          v == setter[s].value
      IN  Undisturbed(s) /\ ~Overrides(k) /\ ~Blank(Kind[k], v) => Effective'[k] = Clamp(k, v)
<1>1. ASSUME ConfigInv, [ConfigNext]_vars, NEW s \in Setters PROVE Sets(s)
  <2> DEFINE k == setter[s].key
             v == setter[s].value
  <2> SUFFICES ASSUME Undisturbed(s), ~Overrides(k), ~Blank(Kind[k], v)
               PROVE  Effective'[k] = Clamp(k, v)
    OBVIOUS
  <2>1. /\ Partial(setter[s].cfg) /\ SetsOne(s) /\ Busy(s)
        /\ setter[s] \in SetterState /\ Partial(env)
        /\ Effective' = Load(setter[s].cfg)
    BY <1>1, Returned
  <2>2. /\ k \in Settings /\ setter[s].cfg = [setter[s].before EXCEPT ![k] = v]
        /\ setter[s].before \in [Settings -> Int]
    BY <2>1 DEF SetsOne, SetterState
  <2> HIDE DEF k, v
  <2>3. k \in DOMAIN setter[s].cfg /\ setter[s].cfg[k] = v
    BY <2>2
  <2>4. Overlaid(k, FromFile(k, setter[s].cfg)) = v
    BY <2>3 DEF FromFile, Overlaid, Overrides
  <2> QED
    BY <2>1, <2>2, <2>4, LoadRange
<1>2. ConfigInv /\ [ConfigNext]_vars => [\A s \in Setters : Sets(s)]_vars
  BY <1>1
<1> QED
  BY <1>2, ConfigInvariant, PTL DEF ConfigSpec, SetTakesEffect

\* ... and it leaves every other setting in force as it was: what Load returned
\* means the same when it is written out whole and loaded again.
THEOREM SetLeavesOthers == ~DockerMode => (ConfigSpec => SetKeepsOthers)
<1> SUFFICES ASSUME ~DockerMode PROVE ConfigSpec => SetKeepsOthers
  OBVIOUS
<1> DEFINE Keeps(s) ==
      Undisturbed(s) => \A k \in Settings \ {setter[s].key} : Effective'[k] = setter[s].before[k]
<1>1. ASSUME ConfigInv, [ConfigNext]_vars, NEW s \in Setters PROVE Keeps(s)
  <2> DEFINE before == setter[s].before
  <2> SUFFICES ASSUME Undisturbed(s), NEW k \in Settings \ {setter[s].key}
               PROVE  Effective'[k] = before[k]
    OBVIOUS
  <2>1. /\ Partial(setter[s].cfg) /\ SetsOne(s) /\ Busy(s)
        /\ setter[s] \in SetterState /\ Partial(env)
        /\ Effective' = Load(setter[s].cfg)
    BY <1>1, Returned
  <2>2. /\ setter[s].key \in Settings /\ before \in [Settings -> Int]
        /\ setter[s].cfg = [before EXCEPT ![setter[s].key] = setter[s].value]
        /\ Load(before) = before
    BY <2>1 DEF SetsOne, SetterState
  <2> HIDE DEF before
  <2>3. /\ k \in DOMAIN setter[s].cfg /\ k \in DOMAIN before
        /\ setter[s].cfg[k] = before[k]
    BY <2>2
  <2>4. FromFile(k, setter[s].cfg) = FromFile(k, before)
    BY <2>3 DEF FromFile
  <2>5. Load(setter[s].cfg)[k] = Load(before)[k]
    BY <2>4 DEF Load
  <2> QED
    BY <2>1, <2>2, <2>5
<1>2. ConfigInv /\ [ConfigNext]_vars => [\A s \in Setters : Keeps(s)]_vars
  BY <1>1
<1> QED
  BY <1>2, ConfigInvariant, PTL DEF ConfigSpec, SetKeepsOthers

=============================================================================
