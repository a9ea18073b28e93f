------------------------------- MODULE Config -------------------------------
(***************************************************************************)
(* How the configuration comes about: config.Load, config.ApplyDefaults    *)
(* and the overrides of main.  A setting's value is the name of the source *)
(* it comes from, "" if it is empty, zero or false, and "invalid" if       *)
(* Validate would refuse it.                                               *)
(* One setting stands for all that the same sources can set: redis_url for *)
(* the environment's without a default, max_rps for the numbers, and each  *)
(* collector's name for its "enabled".                                     *)
(***************************************************************************)
EXTENDS Naturals

Collectors ==
    {"pipelines", "jobs", "merge_requests", "environments", "test_reports",
     "dora", "value_stream", "code_review", "repository", "contributors"}

Settings == {"url", "token", "listen_address", "max_rps", "redis_url"} \cup Collectors

HasFlag == {"url", "token", "listen_address"}

\* The settings with an env tag, and the variable that only the flag
\* --server-listen-address looks at.
HasEnv == {"url", "token", "listen_address", "max_rps", "redis_url"}
Variables == HasEnv \cup {"server_listen_address"}

HasDefault == {"url", "listen_address", "max_rps"} \cup Collectors

Required == {"url", "token", "listen_address"}

\* What a source can say of a setting.
Words == {"none", "empty", "good", "invalid"}

\* --config was not given, names a file that can be read and parsed, or another.
Paths == {"none", "ok", "broken"}

Values == {"", "default", "file", "env", "flag", "invalid"}
Configs == [Settings -> Values]

Blank == [s \in Settings |-> ""]

-----------------------------------------------------------------------------
(* Load                                                                    *)

ApplyDefaults(cfg) == [s \in Settings |-> IF s \in HasDefault THEN "default" ELSE cfg[s]]

\* The value that a source's word gives a setting; its own name if it is good.
Given(word, source) ==
    IF word \in {"none", "empty"} THEN ""
    ELSE IF word = "invalid" THEN "invalid" ELSE source

\* yaml.Unmarshal leaves what the file does not mention.
Unmarshal(cfg, file) ==
    [s \in Settings |-> IF file[s] = "none" THEN cfg[s] ELSE Given(file[s], "file")]

\* applyEnvOverrides: the empty string is a value, but not a number.
EnvOverrides(cfg, env) ==
    LET Set(s) == s \in HasEnv /\ env[s] # "none" /\ (s = "max_rps" => env[s] # "empty")
    IN  [s \in Settings |-> IF Set(s) THEN Given(env[s], "env") ELSE cfg[s]]

Valid(cfg) ==
    /\ \A s \in Settings : cfg[s] # "invalid"
    /\ \A s \in Required : cfg[s] # ""

Loaded(src) == EnvOverrides(Unmarshal(ApplyDefaults(Blank), src.file), src.env)

LoadFails(src) ==
    \/ src.path = "broken"
    \/ src.path = "ok" /\ ~Valid(Loaded(src))

-----------------------------------------------------------------------------
(* The rest of main's action                                               *)

\* cmd.String reads the flag's own environment variable if the flag was not given.
FlagVariable(s) == IF s = "listen_address" THEN "server_listen_address" ELSE s

CmdString(src, s) ==
    IF src.flag[s] = "none" THEN Given(src.env[FlagVariable(s)], "env")
                            ELSE Given(src.flag[s], "flag")

FlagOverrides(cfg, src) ==
    [s \in Settings |->
        IF s \in HasFlag /\ CmdString(src, s) # "" THEN CmdString(src, s) ELSE cfg[s]]

BeforeDefaults(src) == IF src.path = "none" THEN Blank ELSE Loaded(src)

\* Mutant: the flags are applied before the defaults.
ConfiguredFlagsFirst(src) == ApplyDefaults(FlagOverrides(BeforeDefaults(src), src))

\* ApplyDefaults once more, to what Load returned, and then the flags.
Configured(src) == FlagOverrides(ApplyDefaults(BeforeDefaults(src)), src)

ConfigFails(src) ==
    \/ LoadFails(src)
    \/ Configured(src)["url"] = ""
    \/ Configured(src)["token"] = ""

-----------------------------------------------------------------------------

\* The documented order, "CLI flags > Environment variables > Config file >
\* Defaults", for sources that say something good of a setting or nothing.
Preferred(src, s) ==
    IF s \in HasFlag /\ src.flag[s] = "good" THEN "flag"
    ELSE IF \/ s \in HasFlag /\ src.env[FlagVariable(s)] = "good"
            \/ s \in HasEnv /\ src.env[s] = "good" THEN "env"
    ELSE IF src.path = "ok" /\ src.file[s] = "good" THEN "file"
    ELSE IF s \in HasDefault THEN "default" ELSE ""
=============================================================================
