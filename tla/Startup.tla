------------------------------ MODULE Startup ------------------------------
(***************************************************************************)
(* From the start of main's action to the call of Exporter.Run: the        *)
(* configuration (module Config), then NewExporter: the client, the store, *)
(* the discovery of the projects, while GitLab goes on changing, and the   *)
(* registration of the collectors, each with a task of the scheduler.      *)
(* Module Exporter begins where this one ends.                             *)
(*                                                                         *)
(* pc is where the action is:                                              *)
(*   "main"       config.Load, ApplyDefaults, the overrides, the checks    *)
(*   "client", "store"  the first two steps of NewExporter                 *)
(*   "explicit"   discoverProjects, at an entry of cfg.Projects            *)
(*   "wildcards"  discoverProjects, asking for a page of a wildcard        *)
(*   "register"   registerCollectors                                       *)
(*   "running"    Exporter.Run was called                                  *)
(*   "failed"     main returned an error;  "killed" by a signal            *)
(***************************************************************************)
EXTENDS Config, TierDetector, Listings, Sequences

CONSTANTS
    Projects,       \* GitLab's projects, numbered in the order of creation
    Sources,        \* the configuration sources under study
    GitLab,         \* what GitLab would answer to the probes of Detect
    PageSize        \* the PerPage of ListProjects

\* A wildcard has the set of its owner's projects, subgroups included if it says
\* so, and the set of those that its search and archived settings match.
SourceType ==
    [path : Paths, file : [Settings -> Words], env : [Variables -> Words],
     flag : [HasFlag -> Words],
     projects : Seq(Projects),
     wildcards : Seq([owner : SUBSET Projects, match : SUBSET Projects])]

ASSUME StartupAssumption ==
    /\ IsFiniteSet(Projects)
    /\ Projects \subseteq Nat
    /\ Sources \subseteq SourceType
    /\ GitLab \in Answers
    /\ PageSize \in Nat \ {0}

VARIABLES
    src,            \* the sources of this start; never changes
    pc,
    cfg,            \* the configuration
    store,          \* "none", "memory" or "redis"
    visible,        \* GitLab: the projects there are to be listed; {} while nobody asks
    projects,       \* the list that discoverProjects builds
    next,           \* index of the entry or wildcard at hand
    page,           \* opts.Page of the wildcard at hand
    ctxDone,        \* the 60 s of the discovery's context are over
    registered,     \* the collectors in the registry, each with a task
    owed,           \* history: projects that the wildcard at hand must not miss
    due             \* history: projects that completed wildcards had to find

discovery == <<projects, next, page, ctxDone, owed, due>>
vars == <<src, pc, cfg, store, visible, discovery, registered>>

Ends == {"running", "failed", "killed"}

\* Unmarshal fills the two lists and no other source has them.
Explicit == IF src.path = "ok" THEN src.projects ELSE <<>>
Wildcards == IF src.path = "ok" THEN src.wildcards ELSE <<>>

Elements(q) == {q[i] : i \in DOMAIN q}

Tracked == Elements(projects)

Init ==
    /\ src \in Sources
    /\ pc = "main"
    /\ cfg = Blank
    /\ store = "none"
    /\ visible = {}
    /\ projects = <<>>
    /\ next = 1
    /\ page = 1
    /\ ctxDone = FALSE
    /\ registered = {}
    /\ owed = {}
    /\ due = {}

-----------------------------------------------------------------------------
(* main's action and the first steps of NewExporter                        *)

Configure ==
    /\ pc = "main"
    /\ ~ConfigFails(src)
    /\ cfg' = Configured(src)
    /\ pc' = "client"
    /\ UNCHANGED <<src, store, visible, discovery, registered>>

ConfigureFails ==
    /\ pc = "main"
    /\ ConfigFails(src)
    /\ pc' = "failed"
    /\ UNCHANGED <<src, cfg, store, visible, discovery, registered>>

NewClient ==
    /\ pc = "client"
    /\ pc' = "store"
    /\ UNCHANGED <<src, cfg, store, visible, discovery, registered>>

\* Some URLs that Validate would refuse cannot be parsed.
NewClientFails ==
    /\ pc = "client"
    /\ cfg["url"] = "invalid"
    /\ pc' = "failed"
    /\ UNCHANGED <<src, cfg, store, visible, discovery, registered>>

OpenStore ==
    /\ pc = "store"
    /\ store' = IF cfg["redis_url"] = "" THEN "memory" ELSE "redis"
    /\ pc' = "explicit"
    /\ UNCHANGED <<src, cfg, visible, discovery, registered>>

\* The URL cannot be parsed or the ping gets no answer in 5 s.
OpenStoreFails ==
    /\ pc = "store"
    /\ cfg["redis_url"] # ""
    /\ pc' = "failed"
    /\ UNCHANGED <<src, cfg, store, visible, discovery, registered>>

-----------------------------------------------------------------------------
(* discoverProjects                                                        *)

\* Mutant: an entry that repeats another ends the loop.
AddExplicitUntilRepeated ==
    /\ pc = "explicit"
    /\ next \in DOMAIN Explicit
    /\ IF Explicit[next] \in Tracked
       THEN projects' = projects /\ next' = Len(Explicit) + 1
       ELSE projects' = Append(projects, Explicit[next]) /\ next' = next + 1
    /\ UNCHANGED <<src, pc, cfg, store, visible, page, ctxDone, registered, owed, due>>

AddExplicit ==
    /\ pc = "explicit"
    /\ next \in DOMAIN Explicit
    /\ projects' = IF Explicit[next] \in Tracked THEN projects
                                                 ELSE Append(projects, Explicit[next])
    /\ next' = next + 1
    /\ UNCHANGED <<src, pc, cfg, store, visible, page, ctxDone, registered, owed, due>>

\* What the request asks for: search and archived.  The owner is not in it.
Matching(w, list) == IF w \in DOMAIN Wildcards THEN list \cap Wildcards[w].match ELSE {}

Matched == Matching(next, visible)

\* Mutant: pages are counted from 0.
BeginWildcardAtZero(w) ==
    /\ next' = w
    /\ page' = 0
    /\ owed' = Matching(w, visible')

BeginWildcard(w) ==
    /\ next' = w
    /\ page' = 1
    /\ owed' = Matching(w, visible')

ExplicitDone ==
    /\ pc = "explicit"
    /\ next \notin DOMAIN Explicit
    /\ pc' = "wildcards"
    /\ visible' \in IF Wildcards = <<>> THEN {{}} ELSE SUBSET Projects
    /\ BeginWildcard(1)
    /\ UNCHANGED <<src, cfg, store, projects, ctxDone, registered, due>>

AppendPage(new) == \E q \in NewestFirst(new) : projects' = projects \o q

\* Mutant: the loop leaves a wildcard after its first page.
FirstPageOnly == BeginWildcard(next + 1) /\ due' = due \cup owed

NextPage ==
    IF HasNextPage(Matched, page, PageSize)
    THEN page' = page + 1 /\ UNCHANGED <<next, owed, due>>
    ELSE BeginWildcard(next + 1) /\ due' = due \cup owed

\* Mutant: seen is not looked at.
ReadPageUnseen ==
    /\ pc = "wildcards"
    /\ next \in DOMAIN Wildcards
    /\ ~ctxDone
    /\ AppendPage(Page(Matched, page, PageSize))
    /\ UNCHANGED <<src, pc, cfg, store, visible, ctxDone, registered>>
    /\ NextPage

\* A page is answered and its projects that are new to the list appended.
ReadPage ==
    /\ pc = "wildcards"
    /\ next \in DOMAIN Wildcards
    /\ ~ctxDone
    /\ AppendPage(Page(Matched, page, PageSize) \ Tracked)
    /\ UNCHANGED <<src, pc, cfg, store, visible, ctxDone, registered>>
    /\ NextPage

\* Mutant: a failed page is asked for again.
PageFailsRetried ==
    /\ pc = "wildcards"
    /\ next \in DOMAIN Wildcards
    /\ UNCHANGED vars

\* Logged; what the earlier pages gave is kept, and the rest never asked for.
PageFails ==
    /\ pc = "wildcards"
    /\ next \in DOMAIN Wildcards
    /\ UNCHANGED <<src, pc, cfg, store, visible, projects, ctxDone, registered, due>>
    /\ BeginWildcard(next + 1)

Discovered ==
    /\ pc = "wildcards"
    /\ next \notin DOMAIN Wildcards
    /\ projects # <<>>
    /\ pc' = "register"
    /\ visible' = {}
    /\ UNCHANGED <<src, cfg, store, discovery, registered>>

\* The store stays open.
NothingDiscovered ==
    /\ pc = "wildcards"
    /\ next \notin DOMAIN Wildcards
    /\ projects = <<>>
    /\ pc' = "failed"
    /\ UNCHANGED <<src, cfg, store, visible, discovery, registered>>

-----------------------------------------------------------------------------
(* registerCollectors                                                      *)

DefaultEnabled ==
    {"pipelines", "jobs", "merge_requests", "dora", "value_stream", "code_review",
     "repository"}

SwitchedOn(d) == cfg[d] = "file" \/ (cfg[d] = "default" /\ d \in DefaultEnabled)

Available(features, d) ==
    /\ d = "dora" => features.known /\ features.dora
    /\ d \in {"value_stream", "code_review"} => features.known /\ features.others[d]

\* client.Features(): nothing has called SetFeatures.
DetectedFeatures == Undetected

Enabled(d) == SwitchedOn(d) /\ Available(DetectedFeatures, d)

\* registerCollectors, NewServer, signal.NotifyContext, and the call of Run.
RegisterCollectors ==
    /\ pc = "register"
    /\ registered' = {d \in Collectors : Enabled(d)}
    /\ pc' = "running"
    /\ UNCHANGED <<src, cfg, store, visible, discovery>>

-----------------------------------------------------------------------------
(* The environment                                                         *)

Expire ==
    /\ pc \in {"explicit", "wildcards"}
    /\ ~ctxDone
    /\ ctxDone' = TRUE
    /\ UNCHANGED <<src, pc, cfg, store, visible, projects, next, page, registered, owed, due>>

\* Before signal.NotifyContext a signal ends the process at once.
Signal ==
    /\ pc \notin Ends
    /\ pc' = "killed"
    /\ UNCHANGED <<src, cfg, store, visible, discovery, registered>>

\* A project is created, unarchived, renamed, shared.  It moves older ones to
\* later places, where they can only be met twice.
Appear(x) ==
    /\ pc = "wildcards"
    /\ next \in DOMAIN Wildcards
    /\ x \notin visible
    /\ visible' = visible \cup {x}
    /\ UNCHANGED <<src, pc, cfg, store, discovery, registered>>

\* The opposite moves older ones to earlier places, perhaps to a page that has
\* been read: from now on only newer ones are sure to be found.
Disappear(x) ==
    /\ pc = "wildcards"
    /\ next \in DOMAIN Wildcards
    /\ x \in visible
    /\ visible' = visible \ {x}
    /\ owed' = IF x \in Matched THEN {y \in owed : y > x} ELSE owed
    /\ UNCHANGED <<src, pc, cfg, store, projects, next, page, ctxDone, registered, due>>

\* The process is gone, or goes on in module Exporter.
Ended ==
    /\ pc \in Ends
    /\ UNCHANGED vars

StartupStep ==
    \/ Configure
    \/ ConfigureFails
    \/ NewClient
    \/ NewClientFails
    \/ OpenStore
    \/ OpenStoreFails
    \/ AddExplicit
    \/ ExplicitDone
    \/ Discovered
    \/ NothingDiscovered
    \/ RegisterCollectors

Next ==
    \/ StartupStep
    \/ ReadPage
    \/ PageFails
    \/ Expire
    \/ Signal
    \/ \E x \in Projects : Appear(x) \/ Disappear(x)
    \/ Ended

Spec == Init /\ [][Next]_vars

\* main goes on, the clock runs, and a request whose context is done fails.
\* GitLab owes no answer before.
FairSpec ==
    Spec /\ WF_vars(StartupStep) /\ WF_vars(Expire) /\ WF_vars(ctxDone /\ PageFails)

-----------------------------------------------------------------------------
(* Properties                                                              *)

TypeOK ==
    /\ src \in Sources
    /\ pc \in Ends \cup {"main", "client", "store", "explicit", "wildcards", "register"}
    /\ cfg \in Configs
    /\ store \in {"none", "memory", "redis"}
    /\ visible \subseteq Projects
    /\ projects \in Seq(Projects)
    /\ {next, page} \subseteq Nat \ {0}
    /\ ctxDone \in BOOLEAN
    /\ registered \subseteq Collectors
    /\ owed \subseteq Projects
    /\ due \subseteq Projects

\* No project is in the list twice, however explicit entries, wildcards that
\* overlap and pages that shift while they are read repeat it: a project met
\* twice would be collected twice per cycle and its series sent twice.
ProjectsOnce ==
    \A i, j \in DOMAIN projects : i # j => projects[i] # projects[j]

\* A wildcard whose pages all arrived has found every project its request matched
\* when its expansion began and still does, unless an older place was taken by
\* the disappearance of a newer project meanwhile; projects that appear while
\* the pages are read hide none.
WildcardsAreComplete == due \subseteq Tracked

\* A running exporter tracks something, and all that was listed explicitly,
\* whatever was repeated, failed or ran out of time in the discovery.
EntriesAreTracked ==
    pc = "running" => Tracked # {} /\ Elements(Explicit) \subseteq Tracked

\* What the command line says, in a flag or in a flag's environment variable,
\* is what the exporter starts with: neither the file nor a default, each
\* applied more than once on the way, survives it.
CommandLineWins ==
    pc \notin {"main", "failed", "killed"} =>
        \A s \in HasFlag :
            /\ src.flag[s] = "good" => cfg[s] = "flag"
            /\ src.flag[s] = "none" /\ src.env[FlagVariable(s)] = "good" => cfg[s] = "env"

\* The start ends, in a running exporter or in an error: a GitLab that never
\* answers holds it no longer than the 60 seconds of the discovery.
StartupEnds == <>(pc \in Ends)

\* README and example configuration: "CLI flags > Environment variables >
\* Config file > Defaults".
DocumentedPrecedence ==
    pc = "running" => \A s \in Settings : cfg[s] = Preferred(src, s)

\* README: "Automatic tier detection"; NewExporter's comment: "Runs tier
\* detection."  A collector that is switched on and that GitLab supports runs.
TierIsDetected ==
    pc = "running" =>
        \A d \in Collectors : SwitchedOn(d) /\ Available(Detect(GitLab), d) => d \in registered

\* Example configuration: "Discover projects automatically by group/user
\* ownership."  A project that no entry names is tracked for its owner.
OwnersBoundTheTracked ==
    pc = "running" =>
        Tracked \subseteq Elements(Explicit) \cup UNION {w.owner : w \in Elements(Wildcards)}

\* Weaker than each of the three promises: one of them is kept.  A state that
\* violates it breaks them all.
APromiseIsKept == DocumentedPrecedence \/ TierIsDetected \/ OwnersBoundTheTracked

\* main's message: "gitlab token is required (--gitlab-token or config file)".
\* A file that is valid but for the token is completed by the flag.
FlagsCompleteFiles ==
    \A s \in Sources :
        /\ s.path = "ok"
        /\ s.flag["token"] = "good"
        /\ Valid([Loaded(s) EXCEPT !["token"] = "flag"])
        => ~LoadFails(s)

\* README: "Or configure via environment variables", with a URL and a token and
\* no file.
EnvironmentSuffices ==
    /\ src.path = "none"
    /\ \A s \in HasFlag : src.flag[s] = "none"
    /\ src.env["url"] = "good"
    /\ src.env["token"] = "good"
    => pc # "failed"

\* Weaker than either: one of the two ways to leave the token out of the file
\* leads to a start.
ATokenSuffices == FlagsCompleteFiles \/ EnvironmentSuffices
=============================================================================
