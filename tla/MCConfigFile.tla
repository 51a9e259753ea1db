---------------------------- MODULE MCConfigFile ----------------------------
(* ConfigFile for TLC, with settings of the kinds that Load checks.        *)
EXTENDS ConfigFile

MCOrder ==
  <<"api.cooldown", "api.circuit_open_duration", "output.dir",
    "server.webhook_api_keys", "server.scan_interval_seconds",
    "server.work_interval_seconds", "verification.min_confidence">>

MCKinds == <<"count", "circuit", "text", "list", "count", "count", "ratio">>

MCDefaults == <<15, 1800, 1, 0, 900, 0, 85>>

\* Blank, zero and negative ones, limits and good ones.
MCValues(kind) ==
  CASE kind \in {"text", "list"} -> {0, 2}
    [] kind = "count" -> {-1, 0, 20}
    [] kind = "circuit" -> {-1, 0, 299, 600}
    [] kind = "ratio" -> {0, 100, 101, NaN}

MCSettings == {MCOrder[i] : i \in 1..Len(MCOrder)}
Position(k) == CHOOSE i \in 1..Len(MCOrder) : MCOrder[i] = k
MCKind == [k \in MCSettings |-> MCKinds[Position(k)]]
MCDefault == [k \in MCSettings |-> MCDefaults[Position(k)]]
MCWritten == [k \in MCSettings |-> MCValues(MCKind[k])]

=============================================================================
