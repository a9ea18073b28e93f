----------------------------- MODULE MCStartup -----------------------------
(***************************************************************************)
(* Values for TLC.  Five projects and pages of two let a listing have three *)
(* pages that shift by less than a page; two wildcards that overlap let the *)
(* second meet what the first, complete or cut short, has found.           *)
(***************************************************************************)
EXTENDS Startup

FiveProjects == 1..5

\* The file is read, names one project and leaves the rest to the defaults;
\* the token comes from the environment.
Plain ==
    [path |-> "ok",
     file |-> [s \in Settings |-> "none"],
     env |-> [s \in Variables |-> IF s = "token" THEN "good" ELSE "none"],
     flag |-> [s \in HasFlag |-> "none"],
     projects |-> <<1>>,
     wildcards |-> <<>>]

\* Everything that the three sources can say of url and token, and the three
\* ways to say an address.
UrlSources ==
    {[Plain EXCEPT !.path = p, !.file["url"] = f, !.env["url"] = e, !.flag["url"] = v] :
        p \in Paths, f \in Words, e \in Words, v \in Words}

TokenSources ==
    {[Plain EXCEPT !.path = p, !.file["token"] = f, !.env["token"] = e, !.flag["token"] = v] :
        p \in Paths, f \in Words \ {"invalid"}, e \in Words \ {"invalid"},
        v \in Words \ {"invalid"}}

AddressSources ==
    {[Plain EXCEPT !.file["listen_address"] = f, !.env["listen_address"] = e,
                   !.env["server_listen_address"] = w, !.flag["listen_address"] = v] :
        f \in {"none", "empty", "good"}, e \in {"none", "good"},
        w \in {"none", "good"}, v \in {"none", "good"}}

OtherSources ==
    {[Plain EXCEPT !.file["max_rps"] = f, !.env["max_rps"] = e, !.file["jobs"] = j,
                   !.env["redis_url"] = r] :
        f \in {"none", "invalid"}, e \in Words, j \in {"none", "empty"},
        r \in {"none", "good"}}

\* A wildcard whose search and archived settings match these projects, all of
\* one owner or not.
Wildcard(match) == [owner |-> match \cap 1..2, match |-> match]

\* What there is to discover.
Lists ==
    {[Plain EXCEPT !.projects = ps, !.wildcards = ws] :
        ps \in {<<>>, <<2, 2, 4>>},
        ws \in {<<>>, <<Wildcard(1..5)>>, <<Wildcard(1..3), Wildcard(2..5)>>}}

AllSources == UrlSources \cup TokenSources \cup AddressSources \cup OtherSources \cup Lists

\* A file that says something of max_rps and has a wildcard.
PromiseSources ==
    {[Plain EXCEPT !.file["max_rps"] = "good", !.wildcards = <<Wildcard(1..3)>>]}

\* A file without a token, which is in its flag; url and token in the
\* environment, and no file.
TokenOutsideFile ==
    {[Plain EXCEPT !.env["token"] = "none", !.flag["token"] = "good"],
     [Plain EXCEPT !.path = "none", !.env["url"] = "good"]}

\* An Ultimate instance: the probes' dummy project does not exist.
UltimateAnswers == [p \in Probes |-> IF p = "version" THEN 200 ELSE 404]
=============================================================================
