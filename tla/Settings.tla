------------------------------ MODULE Settings ------------------------------
(***************************************************************************)
(* What a command runs with.                                               *)
(*                                                                         *)
(* Every subcommand turns flags, `DEPENDABLE_*` variables and              *)
(* `.dependable.toml` into settings before it does any work                *)
(* (crates/dependable/src/runner.rs and config.rs), `check` resolves its   *)
(* `[policy]` from a second read of the same file, and the engine is wired *)
(* with a registry per ecosystem and with the credentials of `.npmrc` and  *)
(* of `$CARGO_HOME`.  Someone may edit the file between the two reads.     *)
(***************************************************************************)
EXTENDS Naturals, FiniteSets, Sequences

CONSTANTS
    Unset,      \* nothing was said: an absent flag, variable or key
    Blank,      \* a variable set to the empty string
    Malformed,  \* a variable whose value is not of the kind expected
    OffWord,    \* a flag variable set to "0", "false", "no" or "off"
    Setups,     \* the command lines, environments and files considered
    Files,      \* what `.dependable.toml` may be edited into
    Scopes      \* npm package scopes

VARIABLES
    call,     \* the command, its flags and its environment
    file,     \* what the configuration file holds on disk
    edited,   \* it was edited since the first read
    home,     \* the `.npmrc` files and `$CARGO_HOME`
    stage,    \* "read", "settle", "policy", "wire", "running", "stopped"
    read,     \* the configuration as `read_config` extracted it
    resolved, \* the `Settings` of the run
    rules,    \* the `[policy]` to enforce, Unset for none
    engine    \* what `Engine::new` wired

settingsVars == <<call, file, edited, home, stage, read, resolved, rules, engine>>

Or(first, second) == IF first # Unset THEN first ELSE second

(***************************************************************************)
(* The command lines clap accepts: the flags of each command.              *)
(***************************************************************************)
CheckFlags  == {"config", "unstable", "noLock", "noVuln", "noCache", "ghsa",
                "failOn", "concurrency"}
ListFlags   == {"config", "noLock"}
FixFlags    == {"config", "noVuln", "noCache", "concurrency"}
TuiFlags    == {"config"}
ReportFlags == {"config", "noVuln"}

FlagsOf(command) ==
    CASE command = "check" -> CheckFlags [] command = "list"   -> ListFlags
      [] command = "fix"   -> FixFlags   [] command = "report" -> ReportFlags
      [] command = "tui"   -> TuiFlags

(* A flag a command does not have is not on its command line.              *)
NoFlags == [config |-> FALSE, unstable |-> Unset, noLock |-> FALSE,
            noVuln |-> FALSE, noCache |-> FALSE, ghsa |-> FALSE,
            failOn |-> Unset, concurrency |-> Unset]

IsCall(c) == \A f \in DOMAIN NoFlags :
                 c.flags[f] # NoFlags[f] => f \in FlagsOf(c.command)

(***************************************************************************)
(* The environment.                                                        *)
(***************************************************************************)
(* Mutant: read by presence, as `DEPENDABLE_NO_VULN=0` must not be.        *)
FlagIfPresent(raw) == raw # Unset

FlagIsOn(raw) == raw \notin {Unset, Blank, OffWord}

EnvOverride(raw) == IF raw = Blank THEN Unset ELSE raw

Quiet == [noVuln |-> Unset, noCache |-> Unset, ghsa |-> Unset,
          noPolicy |-> Unset, concurrency |-> Unset, failOn |-> Unset,
          maxCvss |-> Unset, severity |-> Unset, majors |-> Unset]

(* The variables a command reads: `check` all of them, `report` four, the  *)
(* others none.                                                            *)
Heard(c) ==
    LET heard == CASE c.command = "check"  -> DOMAIN Quiet
                   [] c.command = "report" -> {"noVuln", "noCache", "ghsa",
                                               "concurrency"}
                   [] OTHER                -> {}
    IN  [v \in DOMAIN Quiet |-> IF v \in heard THEN c.env[v] ELSE Unset]

(***************************************************************************)
(* The file.  `says` gives the keys it states; figment fills in the rest.  *)
(***************************************************************************)
Ecosystems == {"rust", "go", "npm", "python", "php", "dart", "csharp", "elixir",
               "jvm", "swift"}

GlobalDefaults == [concurrency |-> 20, ghsa |-> FALSE, lockfile |-> TRUE,
                   failOn |-> "none", unstable |-> "exclude"]
RegistryDefaults == [off |-> {}, npm |-> "npmjs"]
VulnDefaults == [vuln |-> TRUE]

(* Five of the rules; `other` stands for the name and version rules.       *)
NoPolicy == [maxCvss |-> Unset, severity |-> Unset, majors |-> Unset,
             allowlist |-> FALSE, other |-> FALSE]

Says(f, defaults) ==
    [k \in DOMAIN defaults |-> IF k \in DOMAIN f.says THEN f.says[k]
                                                      ELSE defaults[k]]

LoadConfig(f) ==
    [global |-> Says(f, GlobalDefaults), registries |-> Says(f, RegistryDefaults),
     vuln |-> Says(f, VulnDefaults).vuln, policy |-> Says(f, NoPolicy)]

EcosystemEnabled(cfg, eco) == eco \notin cfg.registries.off

LoadPolicy(f) == Says(f, NoPolicy)

IsActive(p) == \/ \E k \in {"maxCvss", "severity", "majors"} : p[k] # Unset
               \/ p.allowlist \/ p.other

NeedsScan(p) == p.maxCvss # Unset \/ p.severity # Unset

(***************************************************************************)
(* The settings.                                                           *)
(***************************************************************************)
AtLeastOne(n) == IF n = 0 THEN 1 ELSE n

(* A malformed variable refuses the run: it never disarms a gate.          *)
EnvironmentReads(c) ==
    Heard(c).concurrency # Malformed /\ Heard(c).failOn # Malformed

(* Mutant: a plain default, which an explicit `--fail-on none` looks like. *)
FailOnByDefault(c, cfg) ==
    IF c.flags.failOn \notin {Unset, "none"} THEN c.flags.failOn
    ELSE Or(EnvOverride(c.env.failOn), cfg.global.failOn)

FailOn(c, cfg) ==
    Or(c.flags.failOn, Or(EnvOverride(c.env.failOn), cfg.global.failOn))

(* One operator for the four functions that build a `Settings`: a command  *)
(* without a flag has its default, a variable it does not hear is unset.   *)
Settle(c, cfg) ==
    LET e == Heard(c)
    IN  [concurrency |-> AtLeastOne(Or(c.flags.concurrency,
                             Or(EnvOverride(e.concurrency), cfg.global.concurrency))),
         lockfile |-> cfg.global.lockfile /\ ~c.flags.noLock,
         vuln     |-> cfg.vuln /\ ~c.flags.noVuln /\ ~FlagIsOn(e.noVuln),
         licenses |-> c.command = "check" /\ cfg.policy.allowlist,
         cache    |-> ~c.flags.noCache /\ ~FlagIsOn(e.noCache),
         ghsa     |-> c.flags.ghsa \/ cfg.global.ghsa \/ FlagIsOn(e.ghsa),
         failOn   |-> IF c.command = "check" THEN FailOn(c, cfg) ELSE "none",
         unstable |-> Or(c.flags.unstable, cfg.global.unstable)]

(* The policy of the file under the policy of the environment.             *)
Overridden(p, e) ==
    [p EXCEPT !.maxCvss  = Or(EnvOverride(e.maxCvss), @),
              !.severity = Or(EnvOverride(e.severity), @),
              !.majors   = Or(EnvOverride(e.majors), @)]

IsCvssScore(score) == score <= 100

PolicyReads(p) ==
    /\ Malformed \notin {p.maxCvss, p.severity, p.majors}
    /\ p.maxCvss # Unset => IsCvssScore(p.maxCvss)

(***************************************************************************)
(* Credentials.  A URL is the host npm keys tokens by, and a spelling.     *)
(***************************************************************************)
NerfDart(url) == url.host

(* `${VAR}` is replaced, by nothing when the variable is not set.          *)
ExpandEnv(line, vars) ==
    IF line.var = Unset THEN line
    ELSE [line EXCEPT !.token = IF \E v \in vars : v[1] = line.var
                                THEN (CHOOSE v \in vars : v[1] = line.var)[2]
                                ELSE Unset]

(* One line after another; a key with nothing behind it is skipped.        *)
NpmrcLine(npmrc, line) ==
    CASE line.key = "registry" -> [npmrc EXCEPT !.registry = line.at]
      [] line.key = "scope" ->
             [npmrc EXCEPT !.scopes = {s \in @ : s[1] # line.scope}
                                          \cup {<<line.scope, line.at>>}]
      [] line.key = "token" /\ line.token # Unset ->
             [npmrc EXCEPT !.tokens = {t \in @ : t[1] # NerfDart(line.at)}
                                          \cup {<<NerfDart(line.at), line.token>>}]
      [] line.key = "token" /\ line.token = Unset -> npmrc

EmptyNpmrc == [registry |-> Unset, scopes |-> {}, tokens |-> {}]

Expanded(lines, vars) == [i \in DOMAIN lines |-> ExpandEnv(lines[i], vars)]

ParseNpmrc(lines) ==
    LET after[n \in 0 .. Len(lines)] ==
            IF n = 0 THEN EmptyNpmrc ELSE NpmrcLine(after[n - 1], lines[n])
    IN  after[Len(lines)]

Beneath(lower, higher) ==
    higher \cup {x \in lower : \A y \in higher : y[1] # x[1]}

(* Mutant: the user's file wins over the project's.                        *)
MergeUserFirst(user, project) ==
    [registry |-> Or(user.registry, project.registry),
     scopes   |-> Beneath(project.scopes, user.scopes),
     tokens   |-> Beneath(project.tokens, user.tokens)]

Merge(user, project) ==
    [registry |-> Or(project.registry, user.registry),
     scopes   |-> Beneath(user.scopes, project.scopes),
     tokens   |-> Beneath(user.tokens, project.tokens)]

Lookup(pairs, key) ==
    LET held == {x[2] : x \in {y \in pairs : y[1] = key}}
    IN  IF held = {} THEN Unset ELSE CHOOSE v \in held : TRUE

TokenFor(npmrc, url) == Lookup(npmrc.tokens, NerfDart(url))

NpmrcConfig(h) == Merge(ParseNpmrc(Expanded(h.user, h.vars)),
                        ParseNpmrc(Expanded(h.project, h.vars)))

(* Mutant: one token serves every registry.                                *)
NpmRoutesByDefault(cfg, h) ==
    LET npmrc == NpmrcConfig(h)
        default == Or(npmrc.registry, [host |-> cfg.registries.npm, slash |-> FALSE])
        token == TokenFor(npmrc, default)
    IN  [default |-> [url |-> default, token |-> token],
         scopes  |-> {<<s[1], [url |-> s[2], token |-> token]>> : s \in npmrc.scopes}]

NpmRoutes(cfg, h) ==
    LET npmrc == NpmrcConfig(h)
        default == Or(npmrc.registry, [host |-> cfg.registries.npm, slash |-> FALSE])
    IN  [default |-> [url |-> default, token |-> TokenFor(npmrc, default)],
         scopes  |-> {<<s[1], [url |-> s[2], token |-> TokenFor(npmrc, s[2])]>> :
                         s \in npmrc.scopes}]

(* The registry and the token a package is asked for with.                 *)
Resolve(routes, package) ==
    LET own == {x \in routes.scopes : x[1] = package.scope}
    IN  IF own = {} THEN routes.default ELSE (CHOOSE x \in own : TRUE)[2]

(* `config.toml` names the registries, `credentials.toml` has the last     *)
(* word on tokens and may name a registry nobody else does.                *)
ParseCargoConfig(h) ==
    LET Token(name) == Or(Lookup(h.credentials, name),
                          Lookup({<<r.name, r.token>> : r \in h.registries}, name))
        Index(name) == Lookup({<<r.name, r.index>> : r \in h.registries}, name)
    IN  {[name |-> n, index |-> Index(n), token |-> Token(n)] :
            n \in {r.name : r \in h.registries} \cup {c[1] : c \in h.credentials}}

(* A registry without an index cannot be asked.                            *)
AltRegistries(h) == {r \in ParseCargoConfig(h) : r.index # Unset}

WiredFetchers(cfg) ==
    {eco \in Ecosystems \ {"swift"} : eco = "rust" \/ EcosystemEnabled(cfg, eco)}

(* Swift has no registry: enabling it asserts that there is none to ask.   *)
Registryless(cfg) == {"swift"} \ cfg.registries.off

(* What runs are set up with: the variables that are not flags have no     *)
(* word that switches them off, a line of `.npmrc` has one of three keys,  *)
(* and no policy is the lack of one.                                       *)
IsNpmrc(lines) ==
    /\ lines \in Seq({lines[i] : i \in DOMAIN lines})
    /\ \A i \in DOMAIN lines : LET l == lines[i] IN
           /\ l = [key |-> l.key, scope |-> l.scope, at |-> l.at,
                   token |-> l.token, var |-> l.var]
           /\ l.key \in {"registry", "scope", "token"}

IsSetup(s) ==
    /\ s.call = [command |-> s.call.command, flags |-> s.call.flags, env |-> s.call.env]
    /\ OffWord \notin {s.call.env.concurrency, s.call.env.failOn}
    /\ IsNpmrc(s.home.user) /\ IsNpmrc(s.home.project)
    /\ \A c \in s.home.credentials : c = <<c[1], c[2]>>

OnDisk == Files \cup {s.file : s \in Setups}

ASSUME SettingsAssumption ==
    /\ \A s \in Setups : IsSetup(s)
    /\ \A e \in {s.call.env : s \in Setups}, f \in OnDisk :
           Overridden(LoadPolicy(f), e) # Unset

-----------------------------------------------------------------------------
SettingsInit ==
    /\ \E s \in Setups : call = s.call /\ file = s.file /\ home = s.home
    /\ edited = FALSE
    /\ stage = "read"
    /\ read = Unset /\ resolved = Unset /\ rules = Unset /\ engine = Unset

Stop == stage' = "stopped"

(* A file that was named must be there; no file at all is all defaults.    *)
ReadConfig ==
    /\ stage = "read"
    /\ IF file.kind = "broken" \/ (file.kind = "absent" /\ call.flags.config)
       THEN Stop /\ UNCHANGED read
       ELSE /\ read' = LoadConfig(file)
            /\ stage' = IF call.command = "list" THEN "running" ELSE "settle"
    /\ UNCHANGED <<call, file, edited, home, resolved, rules, engine>>

EditConfig ==
    /\ stage \in {"settle", "policy"}
    /\ ~edited
    /\ edited' = TRUE
    /\ file' \in Files
    /\ UNCHANGED <<call, home, stage, read, resolved, rules, engine>>

(* A gate on vulnerabilities with scanning off stops `check` at once.      *)
ResolveSettings ==
    /\ stage = "settle"
    /\ IF ~EnvironmentReads(call)
       THEN Stop /\ UNCHANGED resolved
       ELSE LET s == Settle(call, read)
            IN  /\ resolved' = s
                /\ stage' = IF s.failOn = "vulnerable" /\ ~s.vuln THEN "stopped"
                            ELSE IF call.command = "check" THEN "policy" ELSE "wire"
    /\ UNCHANGED <<call, file, edited, home, read, rules, engine>>

ResolvePolicy ==
    /\ stage = "policy"
    /\ LET p == Overridden(LoadPolicy(file), call.env) IN
       CASE FlagIsOn(call.env.noPolicy) -> stage' = "wire" /\ UNCHANGED rules
         [] ~FlagIsOn(call.env.noPolicy)
              /\ (file.kind = "broken" \/ ~PolicyReads(p)) -> Stop /\ UNCHANGED rules
         [] OTHER ->
              /\ rules' = IF IsActive(p) THEN p ELSE Unset
              /\ stage' = IF NeedsScan(p) /\ ~resolved.vuln THEN "stopped" ELSE "wire"
    /\ UNCHANGED <<call, file, edited, home, read, resolved, engine>>

Wire ==
    /\ stage = "wire"
    /\ engine' = [fetchers |-> WiredFetchers(read), npm |-> NpmRoutes(read, home),
                  alternates |-> AltRegistries(home),
                  registryless |-> Registryless(read)]
    /\ stage' = "running"
    /\ UNCHANGED <<call, file, edited, home, read, resolved, rules>>

SettingsNext == ReadConfig \/ EditConfig \/ ResolveSettings \/ ResolvePolicy \/ Wire

SettingsSpec == SettingsInit /\ [][SettingsNext]_settingsVars

-----------------------------------------------------------------------------
Checking == stage = "running" /\ call.command = "check"

(* runner.rs, `resolve_policy`: "a policy that is configured is enforced   *)
(* or it is an error"; `env_override`: a typo must not disarm a gate.  A   *)
(* `check` that gets to run enforces every rule that the file or the       *)
(* environment states, under the last one to speak; and it has the scan    *)
(* and the license collection those rules are measured with.  Only the     *)
(* kill switch, or an explicit flag, lets a configured gate go.            *)
GateNeverDisarmed ==
    Checking =>
        /\ \E spoke \in {call.flags.failOn, call.env.failOn, read.global.failOn} :
               resolved.failOn = spoke
        /\ call.flags.failOn # Unset => resolved.failOn = call.flags.failOn
        /\ Malformed \notin {call.env.failOn, call.env.concurrency}
        /\ resolved.failOn = "vulnerable" => resolved.vuln
        /\ ~FlagIsOn(call.env.noPolicy) =>
               LET stated == Says(file, NoPolicy) IN
               /\ \A k \in {"maxCvss", "severity", "majors"} :
                      (stated[k] # Unset \/ call.env[k] \notin {Unset, Blank}) =>
                          rules # Unset /\ rules[k] \in {stated[k], call.env[k]} \ {Unset}
               /\ (stated.allowlist \/ stated.other) => rules # Unset
        /\ rules # Unset => /\ NeedsScan(rules) => resolved.vuln
                            /\ ~edited /\ rules.allowlist => resolved.licenses

(* A variable that an unset workflow expression leaves blank, or that says *)
(* "0", is no variable: the settings are those of an empty environment.    *)
BlankIsUnset ==
    (resolved # Unset /\ \A v \in DOMAIN Quiet : call.env[v] \in {Unset, Blank, OffWord}) =>
        resolved = Settle([call EXCEPT !.env = Quiet], read)

(* The last line of a file to give the token of a host.                    *)
Declares(lines, token, host) ==
    \E i \in DOMAIN lines :
        /\ lines[i].key = "token" /\ token # Unset
        /\ lines[i].at.host = host /\ lines[i].token = token
        /\ \A j \in i + 1 .. Len(lines) :
               lines[j].key = "token" => \/ lines[j].at.host # host
                                         \/ lines[j].token = Unset

Tokens(lines) == {lines[i].token : i \in DOMAIN lines}

(* A token is only ever sent to the registry it was declared for, the      *)
(* project's own declaration before the user's; a scope with a registry of *)
(* its own is asked there; and an alternate Cargo registry is never asked  *)
(* with the token of another.                                              *)
CredentialsStayHome ==
    engine # Unset =>
        LET user    == Expanded(home.user, home.vars)
            project == Expanded(home.project, home.vars)
        IN
        /\ \A scope \in Scopes :
               LET asked == Resolve(engine.npm, [scope |-> scope])
                   host  == asked.url.host
               IN  /\ asked.token # Unset =>
                          \/ Declares(project, asked.token, host)
                          \/ /\ Declares(user, asked.token, host)
                             /\ ~\E t \in Tokens(project) : Declares(project, t, host)
                   /\ (\E lines \in {user, project} : \E i \in DOMAIN lines :
                           lines[i].key = "scope" /\ lines[i].scope = scope) =>
                          \E x \in engine.npm.scopes : x[1] = scope /\ x[2] = asked
        /\ \A r \in engine.alternates : r.token # Unset =>
               \/ <<r.name, r.token>> \in home.credentials
               \/ \E x \in home.registries : x.name = r.name /\ x.token = r.token

(* config.rs, `ecosystem_enabled`: the flags mean what the checker takes   *)
(* them to mean.  An ecosystem that is switched off has no fetcher, one    *)
(* that is on has one or is known to have no registry.  Rust is left out:  *)
(* the checker is always built with a crates.io fetcher.                   *)
SwitchesAgree ==
    engine # Unset =>
        \A eco \in Ecosystems \ {"rust"} :
            EcosystemEnabled(read, eco) =
                (eco \in engine.fetchers \cup engine.registryless)

SettingsAreHonoured ==
    GateNeverDisarmed /\ BlankIsUnset /\ CredentialsStayHome /\ SwitchesAgree
=============================================================================
