------------------------------- MODULE MCGate -------------------------------
(* Small instances of Gate: two manifests, the first with up to two        *)
(* dependencies, and the flags each run is about.                          *)
EXTENDS Gate, Settings, Policy

critical  == [id |-> "A", score |-> 91,   label |-> None, withdrawn |-> FALSE]
high      == [id |-> "B", score |-> 75,   label |-> None, withdrawn |-> FALSE]
medium    == [id |-> "C", score |-> 55,   label |-> None, withdrawn |-> FALSE]
worded    == [id |-> "D", score |-> None, label |-> 3,    withdrawn |-> FALSE]
unrated   == [id |-> "E", score |-> None, label |-> None, withdrawn |-> FALSE]
withdrawn == [id |-> "F", score |-> 98,   label |-> None, withdrawn |-> TRUE]

Dependency(source, constraint, locked, age, advisories) ==
    [source |-> source, constraint |-> constraint, locked |-> locked,
     age |-> age, advisories |-> advisories]

Registry(constraint, locked, age, advisories) ==
    Dependency("registry", constraint, locked, age, advisories)

Manifest(registry, unread, deps) ==
    [registry |-> registry, unread |-> unread, deps |-> deps]

Flags(failOn, certify, vuln, maxCvss, severity, knob) ==
    [failOn |-> failOn, certify |-> certify, vuln |-> vuln,
     maxCvss |-> maxCvss, severity |-> severity, unrated |-> knob]

(* Freshness and vulnerability gates: every kind of dependency, beside     *)
(* every other kind, in one manifest or in two.                            *)
Various ==
    {Registry(c, l, "UpToDate", v) : c \in {"readable", "unreadable", "tag"},
                                     l \in BOOLEAN, v \in {{}, {high}}}
    \cup {Registry("unreadable", FALSE, "UpdateAvailable", {})}
    \cup {Registry("readable", a # "UpdateAvailable", a, {}) :
              a \in {"PatchAvailable", "UpdateAvailable", "Outdated"}}
    \cup {Dependency("git", "readable", FALSE, "UpToDate", {}),
          Dependency("unresolved", "readable", FALSE, "UpToDate", {})}

Beside == {Registry("readable", FALSE, "UpToDate", {}),
           Registry("unreadable", TRUE, "UpToDate", {high})}

GateProjects ==
    {<<>>, <<Manifest(TRUE, TRUE, <<>>)>>}
    \cup {<<Manifest(TRUE, FALSE, <<d, e>>)>> : d \in Various, e \in Beside}
    \cup {<<Manifest(TRUE, FALSE, <<d>>), Manifest(r, FALSE, <<e>>)>> :
              d \in Various, e \in Beside, r \in BOOLEAN}

GateSettings ==
    {Flags(f, c, v, None, None, "warn") : f \in Gates, c \in BOOLEAN,
                                          v \in BOOLEAN}

(* Severity rules: every combination of at most two advisories.            *)
Records == {critical, high, medium, worded, unrated, withdrawn}

Flagged ==
    {Registry("readable", l, "UpToDate", v) :
        l \in BOOLEAN, v \in {w \in SUBSET Records : Cardinality(w) \in 1 .. 2}}

PolicyProjects == {<<Manifest(TRUE, FALSE, <<d>>), Manifest(TRUE, FALSE, <<e>>)>> :
                      d \in Flagged, e \in {Registry("readable", TRUE, "UpToDate",
                                                     {medium})}}

PolicySettings ==
    {Flags(f, FALSE, v, m, s, k) : f \in {"none", "vulnerable"}, v \in BOOLEAN,
                                   m \in {None, 70}, s \in {None, 2, 3},
                                   k \in Knobs}

Under(projects, flags) ==
    [project : projects, settings : flags]

AllCases == Under(GateProjects, GateSettings)
                \cup Under(PolicyProjects, PolicySettings)

(* One rule, one knob: an advisory list that may come back truncated.      *)
StrictCases ==
    Under(PolicyProjects,
          {Flags("none", FALSE, TRUE, 70, None, k) : k \in {"warn", "fail"}})
-----------------------------------------------------------------------------
(* What a run is set up with: the flags, the variables and the file beside *)
(* each other, one group at a time.                                        *)
On == "on"
FlagWords == {Unset, Blank, OffWord, On}

Call(command, flags, env) == [command |-> command, flags |-> flags, env |-> env]

ScanCalls ==
    {Call(c, [NoFlags EXCEPT !.noVuln = f, !.failOn = g],
             [Quiet EXCEPT !.noVuln = v, !.failOn = w, !.severity = b]) :
        c \in {"check", "report", "fix"}, f \in BOOLEAN,
        g \in {Unset, "none", "any"}, v \in FlagWords,
        w \in {Unset, Blank, Malformed, "vulnerable"}, b \in {Unset, 3}}

RuleCalls ==
    {Call("check", NoFlags, [Quiet EXCEPT !.noPolicy = k, !.maxCvss = m,
                                          !.majors = j]) :
        k \in FlagWords, m \in {Unset, Blank, Malformed, 70, 101},
        j \in {Unset, 0}}

OtherCalls ==
    {Call(c, [NoFlags EXCEPT !.config = n],
             [Quiet EXCEPT !.noCache = v, !.ghsa = v, !.concurrency = t]) :
        c \in {"check", "report", "fix", "tui", "list"}, n \in BOOLEAN,
        v \in FlagWords, t \in {Unset, Blank, 0, 5}}

SomeCalls == {c \in ScanCalls \cup RuleCalls \cup OtherCalls : IsCall(c)}

Absent == [kind |-> "absent", says |-> <<>>]
Broken == [kind |-> "broken", says |-> <<>>]
File(says) == [kind |-> "table", says |-> says]

SomeFiles ==
    {Absent, Broken, File("maxCvss" :> 50), File("maxCvss" :> 101),
     File("severity" :> 2), File("allowlist" :> TRUE),
     File("other" :> TRUE @@ "vuln" :> FALSE), File("failOn" :> "vulnerable"),
     File("failOn" :> "any" @@ "concurrency" :> 0 @@ "lockfile" :> FALSE),
     File("off" :> {"npm", "swift"} @@ "ghsa" :> TRUE)}

(* Two registries, two scopes, a token of each kind, in both files.        *)
Url(host, slash) == [host |-> host, slash |-> slash]
Line(key, scope, url, token, var) ==
    [key |-> key, scope |-> scope, at |-> url, token |-> token, var |-> var]

SomeLines ==
    {Line("registry", Unset, Url("corp", FALSE), Unset, Unset),
     Line("scope", "acme", Url("acme", TRUE), Unset, Unset),
     Line("token", Unset, Url("corp", TRUE), "t1", Unset),
     Line("token", Unset, Url("acme", FALSE), "t2", Unset),
     Line("token", Unset, Url("acme", FALSE), Unset, "NPM_TOKEN")}

SomeNpmrc == UNION {[1 .. n -> SomeLines] : n \in 0 .. 2}

NpmHomes ==
    {[user |-> u, project |-> p, vars |-> v, registries |-> {}, credentials |-> {}] :
        u \in SomeNpmrc, p \in SomeNpmrc, v \in {{}, {<<"NPM_TOKEN", "t4">>}}}

CargoHomes ==
    {[user |-> <<>>, project |-> <<>>, vars |-> {}, registries |-> r,
      credentials |-> c] :
        r \in SUBSET {[name |-> "one", index |-> "corp", token |-> "t1"],
                      [name |-> "two", index |-> "acme", token |-> Unset],
                      [name |-> "three", index |-> Unset, token |-> Unset]},
        c \in SUBSET {<<"one", "t5">>, <<"two", "t6">>}}

NoHome == [user |-> <<>>, project |-> <<>>, vars |-> {}, registries |-> {},
           credentials |-> {}]

Setup(c, f, h) == [call |-> c, file |-> f, home |-> h]

SomeSetups ==
    {Setup(c, f, NoHome) : c \in SomeCalls, f \in SomeFiles}
    \cup {Setup(Call(c, NoFlags, Quiet), Absent, h) :
             c \in {"check", "fix"}, h \in NpmHomes \cup CargoHomes}

-----------------------------------------------------------------------------
(* What the rules are applied to: every license text of up to four words,  *)
(* longer ones that nest, and versions either side of a floor.             *)
Name(word, upper) == [word |-> word, upper |-> upper]

Judged(denied, floors, behind, allowed, unknown) ==
    [denied |-> denied, floors |-> floors, behind |-> behind, allowed |-> allowed,
     unknown |-> unknown]

Lib(name, checkable, locked, compatible, releases, license) ==
    [name |-> name, checkable |-> checkable, locked |-> locked,
     compatible |-> compatible, releases |-> releases, license |-> license]

Inquiry(ecosystem, policy, deps) ==
    [ecosystem |-> ecosystem, policy |-> policy, deps |-> deps]

Words == {"MIT", "GPL", "or", "and", "with", "(", ")"}

Texts ==
    UNION {[1 .. n -> Words] : n \in 1 .. 4}
    \cup {<<a, x, "(", b, y, "MIT", ")">> : a \in {"MIT", "GPL"}, b \in {"MIT", "GPL"},
                                            x \in {"or", "and", "/"}, y \in {"or", "and"}}
    \cup {<<"(", a, x, b, ")", y, "GPL">> : a \in {"MIT", "GPL"}, b \in {"MIT", "GPL"},
                                            x \in {"or", "and"}, y \in {"and", "with", ")"}}
    \cup {<<a, x, b, y, c>> : a \in {"MIT", "GPL"}, b \in {"MIT", "GPL"},
                              c \in {"MIT", "GPL", ","}, x \in {"or", "and", "with"},
                              y \in {"or", "and"}}

LicenseInquiries ==
    {Inquiry("rust", Judged({}, {}, Nil, a, u),
             <<Lib(Name("pad", FALSE), TRUE, Nil, Nil, {}, t)>>) :
        a \in {{<<"MIT">>}, {<<"GPL", "with", "MIT">>}}, u \in {"warn"}, t \in Texts}
    \cup {Inquiry(e, Judged({}, {}, Nil, {<<"MIT">>}, u),
                  <<Lib(Name("pad", FALSE), TRUE, Nil, Nil, {}, s),
                    Lib(Name("left", FALSE), c, Nil, Nil, {}, t)>>) :
             e \in {"npm", "go"}, u \in {"ignore", "warn", "fail"}, c \in BOOLEAN,
             s \in {Nil, <<"MIT">>, <<"GPL">>}, t \in {<<"MIT">>, <<"GPL">>, <<",">>}}

Published == {<<0, 1>>, <<0, 3>>, <<1, 0>>, <<3, 0>>}

VersionInquiries ==
    {Inquiry("npm",
             Judged({PackageRef(Name("left", TRUE), e)},
                    {[package |-> PackageRef(Name("pad", FALSE), f), floor |-> v]},
                    b, {}, "warn"),
             <<Lib(Name(w, FALSE), TRUE, l, c, r, Nil)>>) :
        e \in {Nil, "go"}, f \in {Nil, "npm"}, v \in {Garbage, <<0, 2>>, <<1, 0>>},
        b \in {Nil, 0, 2, 3}, w \in {"left", "pad"},
        l \in {Nil, Garbage, <<0, 1>>, <<1, 0>>}, c \in {Nil, <<0, 3>>},
        r \in SUBSET Published}

SomeInquiries == LicenseInquiries \cup VersionInquiries

-----------------------------------------------------------------------------
(* A run, its settings, its policy: checked side by side, one under way    *)
(* while the others stand still at "off".                                  *)
GateOff ==
    /\ project = <<>> /\ settings = Flags("none", FALSE, FALSE, None, None, "warn")
    /\ pc = "off" /\ at = 1 /\ reports = <<>> /\ warned = {}
    /\ verdict = "running"

SettingsOff ==
    /\ stage = "off" /\ call = Unset /\ file = Unset /\ home = Unset
    /\ edited = FALSE /\ read = Unset /\ resolved = Unset /\ rules = Unset
    /\ engine = Unset

PolicyOff == phase = "off" /\ inquiry = Nil /\ licenses = <<>> /\ findings = {}

MCInit ==
    \/ Init /\ SettingsOff /\ PolicyOff
    \/ GateOff /\ SettingsInit /\ PolicyOff
    \/ GateOff /\ SettingsOff /\ PolicyInit

MCvars == <<vars, settingsVars, policyVars>>

Ended == pc = "off" /\ (stage \in {"running", "stopped"} \/ phase = "judged")

MCNext ==
    \/ pc # "off" /\ Next /\ UNCHANGED <<settingsVars, policyVars>>
    \/ stage # "off" /\ SettingsNext /\ UNCHANGED <<vars, policyVars>>
    \/ phase # "off" /\ PolicyNext /\ UNCHANGED <<vars, settingsVars>>
    \/ Ended /\ UNCHANGED MCvars

MCSpec == MCInit /\ [][MCNext]_MCvars
=============================================================================
