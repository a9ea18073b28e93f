---------------------------- MODULE ConfigProofs ----------------------------
(***************************************************************************)
(* What main makes of the sources, whatever they say: a value of the right *)
(* kind; what the command line says, if it says anything; for every        *)
(* setting with a default and no flag, the default; and for every setting  *)
(* without a default, what the documented order says.                      *)
(***************************************************************************)
EXTENDS Config, TLAPS

\* What the sources say, as far as the configuration goes.
ConfigSources ==
    [path : Paths, file : [Settings -> Words], env : [Variables -> Words],
     flag : [HasFlag -> Words]]

\* A word gives a value.
LEMMA GivenType == \A w \in Words : \A n \in {"file", "env", "flag"} : Given(w, n) \in Values
BY DEF Words, Given, Values

LEMMA BlankType == Blank \in Configs
BY DEF Blank, Configs, Values

\* ApplyDefaults keeps a configuration one.
LEMMA ApplyDefaultsType == \A c \in Configs : ApplyDefaults(c) \in Configs
BY DEF ApplyDefaults, Configs, Values

\* So does each of the three sources.
LEMMA UnmarshalType ==
  \A c \in Configs, f \in [Settings -> Words] : Unmarshal(c, f) \in Configs
BY GivenType DEF Unmarshal, Configs

LEMMA EnvOverridesType ==
  \A c \in Configs, e \in [Variables -> Words] : EnvOverrides(c, e) \in Configs
<1>. TAKE c \in Configs, e \in [Variables -> Words]
<1>1. ASSUME NEW s \in HasEnv  PROVE Given(e[s], "env") \in Values
  BY GivenType DEF Variables
<1>. QED  BY <1>1 DEF EnvOverrides, Configs

LEMMA FlagVariableType == \A s \in HasFlag : FlagVariable(s) \in Variables
BY DEF HasFlag, FlagVariable, Variables, HasEnv

\* The flags, and the variables they look at.
LEMMA FlagOverridesType ==
  ASSUME NEW c \in Configs, NEW src,
         src.env \in [Variables -> Words], src.flag \in [HasFlag -> Words]
  PROVE  FlagOverrides(c, src) \in Configs
<1>1. ASSUME NEW s \in HasFlag  PROVE CmdString(src, s) \in Values
  <2>1. src.flag[s] \in Words /\ src.env[FlagVariable(s)] \in Words
    BY FlagVariableType
  <2>. QED  BY <2>1, GivenType DEF CmdString
<1>. QED  BY <1>1 DEF FlagOverrides, Configs

\* What main goes on with is a configuration.
THEOREM ConfiguredType ==
  ASSUME NEW src, src.file \in [Settings -> Words],
         src.env \in [Variables -> Words], src.flag \in [HasFlag -> Words]
  PROVE  Configured(src) \in Configs
<1>1. Loaded(src) \in Configs
  BY BlankType, ApplyDefaultsType, UnmarshalType, EnvOverridesType DEF Loaded
<1>2. BeforeDefaults(src) \in Configs
  BY <1>1, BlankType DEF BeforeDefaults
<1>. QED  BY <1>2, ApplyDefaultsType, FlagOverridesType DEF Configured

\* A flag that says something good decides; so does the flag's variable when
\* the flag was not given.
THEOREM FlagDecides ==
  ASSUME NEW src, NEW s \in HasFlag
  PROVE  /\ src.flag[s] = "good" => Configured(src)[s] = "flag"
         /\ src.flag[s] = "none" /\ src.env[FlagVariable(s)] = "good" =>
                Configured(src)[s] = "env"
<1>1. s \in Settings
  BY DEF HasFlag, Settings
<1>. QED  BY <1>1 DEF Configured, FlagOverrides, CmdString, Given

\* A setting with a default and no flag has its default, whatever the file and
\* the environment say: neither can switch a collector on or off.
THEOREM DefaultsAreFinal ==
  ASSUME NEW src, NEW s \in HasDefault \ HasFlag
  PROVE  Configured(src)[s] = "default"
<1>1. s \in Settings
  BY DEF HasDefault, Settings
<1>2. ApplyDefaults(BeforeDefaults(src))[s] = "default"
  BY <1>1 DEF ApplyDefaults
<1>. QED  BY <1>1, <1>2 DEF Configured, FlagOverrides

\* A setting without a default follows the documented order, given a file and
\* sources that say something good or nothing: the order fails for those with
\* a default alone (DefaultsAreFinal).
THEOREM PrecedenceWithoutDefault ==
  ASSUME NEW src, src.path = "ok", src.file \in [Settings -> {"none", "good"}],
         src.env \in [Variables -> {"none", "good"}], src.flag \in [HasFlag -> {"none", "good"}],
         NEW s \in Settings \ HasDefault
  PROVE  Configured(src)[s] = Preferred(src, s)
<1>1. s \in {"token", "redis_url"}
  BY DEF Settings, HasDefault, Collectors
<1>2. /\ s \in Settings /\ s \in HasEnv /\ s \in Variables /\ s # "max_rps"
      /\ FlagVariable(s) = s
  BY <1>1 DEF Settings, HasEnv, Variables, FlagVariable
<1>3. src.file[s] \in {"none", "good"} /\ src.env[s] \in {"none", "good"}
      /\ (s \in HasFlag => src.flag[s] \in {"none", "good"})
  BY <1>2
<1>4. ApplyDefaults(BeforeDefaults(src))[s] =
         IF src.env[s] = "good" THEN "env" ELSE IF src.file[s] = "good" THEN "file" ELSE ""
  <2>1. Unmarshal(ApplyDefaults(Blank), src.file)[s] = IF src.file[s] = "good" THEN "file" ELSE ""
    BY <1>2, <1>3 DEF Unmarshal, ApplyDefaults, Blank, Given
  <2>2. Loaded(src)[s] =
           IF src.env[s] = "good" THEN "env" ELSE IF src.file[s] = "good" THEN "file" ELSE ""
    BY <1>2, <1>3, <2>1 DEF Loaded, EnvOverrides, Given
  <2>. QED  BY <1>2, <2>2 DEF ApplyDefaults, BeforeDefaults
<1>5. Configured(src)[s] =
         IF s \in HasFlag /\ src.flag[s] = "good" THEN "flag"
         ELSE IF src.env[s] = "good" THEN "env" ELSE IF src.file[s] = "good" THEN "file" ELSE ""
  <2>1. s \in HasFlag => CmdString(src, s) = IF src.flag[s] = "good" THEN "flag"
                                             ELSE IF src.env[s] = "good" THEN "env" ELSE ""
    BY <1>2, <1>3 DEF CmdString, Given
  <2>. QED  BY <1>2, <1>4, <2>1 DEF Configured, FlagOverrides
<1>6. Preferred(src, s) =
         IF s \in HasFlag /\ src.flag[s] = "good" THEN "flag"
         ELSE IF src.env[s] = "good" THEN "env" ELSE IF src.file[s] = "good" THEN "file" ELSE ""
  <2>1. src.path = "ok" /\ s \notin HasDefault
    OBVIOUS
  <2>. QED  BY <1>2, <2>1 DEF Preferred
<1>. QED  BY <1>5, <1>6
=============================================================================
