-------------------------------- MODULE Fold --------------------------------
(***************************************************************************)
(* The fold of the canonical config into a client file, and the launch of  *)
(* what was folded: which servers a profile takes (core/src/resolve.ts),   *)
(* what the org policy allows (core/src/policy.ts), how a server is        *)
(* written (cli/src/sync/strategy.ts, adapters/src/shared.ts, vscode.ts)   *)
(* and how it starts (cli/src/commands/run.ts).                            *)
(*                                                                         *)
(* A server may keep secrets in two places: two variables of its           *)
(* environment (stdio), or its bearer token and a header (remote).  A      *)
(* token is a reference as a whole; a header, or a variable, is one or has *)
(* one embedded in other text.  A sync and a launch are one step each:     *)
(* SyncWatch has the interleavings of one, TrustStore those of the other.  *)
(***************************************************************************)
EXTENDS Naturals, FiniteSets

CONSTANTS
  Adapters,  \* [strategy, dialect, nativeHttp, nativeOauth, ignored]
  Shapes,    \* of a server: transport, refs, whole, tools, tagged, override
  Policies,  \* [strict, deny, allow]
  Plain,     \* the shape of the other server of the config
  Overrides  \* of the profile

SecretPlaces == {1, 2}
Schemes      == {"env", "op"}
Servers      == {"server", "other"}

ASSUME FoldAssumption ==
  /\ Shapes \cup {Plain} \subseteq
       [transport : {"stdio", "remote"}, refs : [SecretPlaces -> Schemes \cup {"none"}],
        whole : BOOLEAN, tools : BOOLEAN, tagged : BOOLEAN,
        override : {"none", "shim", "native-env"}]
  /\ Adapters \subseteq
       [strategy : {"shim", "native-input", "inline"}, dialect : BOOLEAN,
        nativeHttp : BOOLEAN, nativeOauth : BOOLEAN, ignored : BOOLEAN]
  /\ Policies \subseteq [strict : BOOLEAN, deny : SUBSET Servers, allow : SUBSET Servers]
  /\ Overrides \subseteq {"none", "shim", "native-env"}

VARIABLES
  config,   \* the servers of mcp.config.jsonc
  profile,  \* the strategy the profile asks for
  adapter,  \* the adapter of the profile's client
  policy,   \* the org policy in force
  file,     \* the client file: an entry for each server folded
  ran,      \* the last launch
  seen      \* history: config and policy at the last write

foldVars == <<config, profile, adapter, policy, file, ran, seen>>

-----------------------------------------------------------------------------
(* What is folded *)

Refs(s)      == {i \in SecretPlaces : s.refs[i] # "none"}

(* isSecretRef, of what stands in a place that has a reference             *)
Whole(s, i)  == i = 1 \/ s.whole
Resolved(c)  == {n \in Servers : c[n].tagged}

(* Mutant of Allowed: an allow rule is asked before the deny rules.        *)
AllowedFirst(p, n) == n \in p.allow \/ (n \notin p.deny /\ ~p.strict)

(* evaluatePolicy: deny wins; a strict policy is an allow-list.            *)
Allowed(p, n) == n \notin p.deny /\ (p.strict => n \in p.allow)

-----------------------------------------------------------------------------
(* How a server is written: the launch, and what stands where it keeps a   *)
(* secret - the reference as it is, an indirection of the client's own, or *)
(* the value.                                                              *)

Entry(launch, stands) == [launch |-> launch, stands |-> stands]

Everywhere(what) == [i \in SecretPlaces |-> what]

ToShim == Entry("run", Everywhere("none"))

(* A remote server the client cannot reach, or not with credentials, is    *)
(* launched through mcp-remote.                                            *)
RemoteNeedsShim(a, s) ==
  s.transport = "remote" /\ (~a.nativeHttp \/ (Refs(s) # {} /\ ~a.nativeOauth))

Direct(a, s, stands) ==
  Entry(IF RemoteNeedsShim(a, s) THEN "bridge" ELSE "direct",
        [i \in SecretPlaces |-> IF i \in Refs(s) THEN stands[i] ELSE "none"])

(* The client resolves a variable of the environment; what has another     *)
(* scheme is written as it is.                                             *)
ToNativeEnv(a, s) ==
  Direct(a, s, [i \in SecretPlaces |-> IF s.refs[i] = "env" THEN "client" ELSE "ref"])

(* Mutant of Prompted: only the bearer token is asked for.                 *)
PromptedToken(s, i) == s.transport = "remote" /\ i = 1

(* VS Code asks for the bearer token and for a header that is a reference; *)
(* a header that embeds one, and an environment, pass through.             *)
Prompted(s, i) == s.transport = "remote" /\ Whole(s, i)

NativeInput(a, s) ==
  Direct(a, s, [i \in SecretPlaces |-> IF Prompted(s, i) THEN "client" ELSE "ref"])

Inlined(a, s) == Direct(a, s, Everywhere("value"))

(* Mutant of EnvOnly: one reference to the environment is enough.          *)
EnvSome(s) == \E i \in Refs(s) : s.refs[i] = "env"

EnvOnly(s) == \A i \in Refs(s) : s.refs[i] = "env"

Wanted(s, default) ==
  IF s.override # "none" THEN s.override ELSE IF profile # "none" THEN profile ELSE default

TransformSecret(a, s) ==
  IF Refs(s) = {}
  THEN IF Wanted(s, "none") = "shim" THEN ToShim ELSE Direct(a, s, Everywhere("none"))
  ELSE IF Wanted(s, a.strategy) = "native-env" /\ a.dialect /\ EnvOnly(s)
       THEN ToNativeEnv(a, s)
       ELSE ToShim

(* Mutant of Render: a curated server is shimmed where secrets are.        *)
RenderCuratedLast(a, s) ==
  CASE a.strategy = "native-input" -> NativeInput(a, s)
    [] a.strategy = "inline"       -> Inlined(a, s)
    [] OTHER -> IF s.tools THEN ToShim ELSE TransformSecret(a, s)

(* Curation happens in the proxy of `mcpfold run` only.                    *)
Render(a, s) ==
  CASE s.tools -> ToShim
    [] ~s.tools /\ a.strategy = "native-input" -> NativeInput(a, s)
    [] ~s.tools /\ a.strategy = "inline"       -> Inlined(a, s)
    [] OTHER -> TransformSecret(a, s)

-----------------------------------------------------------------------------
(* Actions *)

NoRun == [of |-> "other", by |-> "none", proxied |-> FALSE, gets |-> Everywhere("none")]

Violating == {n \in Resolved(config) : ~Allowed(policy, n)}

(* A strict policy is all or nothing, and so is a file that is not ignored *)
(* by git, or a provider that fails, when values are written.              *)
Sync ==
  /\ policy.strict => Violating = {}
  /\ adapter.strategy = "inline" => adapter.ignored
  /\ file' = [n \in Resolved(config) \ Violating |-> Render(adapter, config[n])]
  /\ seen' = [config |-> config, policy |-> policy]
  /\ ran' = NoRun
  /\ UNCHANGED <<config, profile, adapter, policy>>

(* `mcpfold run`: the policy in force, the secrets, and the proxy when the *)
(* server is curated.                                                      *)
Run(n) ==
  IF ~Allowed(policy, n)
  THEN [NoRun EXCEPT !.of = n, !.by = "refused"]
  ELSE [of |-> n, by |-> "run", proxied |-> config[n].tools,
        gets |-> [i \in SecretPlaces |-> IF i \in Refs(config[n]) THEN "value" ELSE "none"]]

(* The client itself resolves its own indirections.                        *)
ByClient(n) ==
  [of |-> n, by |-> "client", proxied |-> FALSE,
   gets |-> [i \in SecretPlaces |->
               IF file[n].stands[i] = "client" THEN "value" ELSE file[n].stands[i]]]

Launch(n) ==
  /\ n \in DOMAIN file
  /\ ran' = IF file[n].launch = "run" THEN Run(n) ELSE ByClient(n)
  /\ UNCHANGED <<config, profile, adapter, policy, file, seen>>

(* The user starts or ceases to curate the server, the organisation        *)
(* publishes another policy: the file stays as it was.                     *)
Curate ==
  /\ config' = [config EXCEPT !["server"].tools = ~@]
  /\ ran' = NoRun
  /\ UNCHANGED <<profile, adapter, policy, file, seen>>

Publish(p) ==
  /\ policy' = p
  /\ ran' = NoRun
  /\ UNCHANGED <<config, profile, adapter, file, seen>>

NoRule  == [strict |-> FALSE, deny |-> {}, allow |-> {}]
DenyAll == [strict |-> TRUE, deny |-> Servers, allow |-> {}]

FoldInit ==
  /\ \E s \in Shapes : config = [n \in Servers |-> IF n = "server" THEN s ELSE Plain]
  /\ profile \in Overrides
  /\ adapter \in Adapters
  /\ policy = NoRule
  /\ file = [n \in {} |-> ToShim]
  /\ ran = NoRun
  /\ seen = [config |-> config, policy |-> DenyAll]   \* nothing was written yet

FoldNext ==
  \/ Sync
  \/ \E n \in Servers : Launch(n)
  \/ Curate
  \/ \E p \in Policies : Publish(p)

FoldSpec == FoldInit /\ [][FoldNext]_foldVars

-----------------------------------------------------------------------------
(* Properties *)

(* The client file holds the value of a secret only where it was asked for *)
(* and git ignores it; and a server that starts gets every secret it       *)
(* refers to, resolved by `mcpfold run` or by the client.  VS Code's file  *)
(* apart: the references of an environment, and one embedded in a header,  *)
(* go there as they are, and the server gets them so.                      *)
SecretsKept ==
  /\ \A n \in DOMAIN file, i \in SecretPlaces :
       file[n].stands[i] = "value" => adapter.strategy = "inline" /\ adapter.ignored
  /\ ran.by \in {"run", "client"} =>
       LET s == config[ran.of]
       IN  \A i \in Refs(s) :
             \/ ran.gets[i] = "value"
             \/ /\ ran.by = "client" /\ adapter.strategy = "native-input"
                /\ s.transport = "stdio" \/ ~Whole(s, i)

(* The file holds the servers of the profile that the policy of its sync   *)
(* allows, all of them; and a curated one starts through `mcpfold run`,    *)
(* whatever the client's way with secrets, where the policy in force       *)
(* decides again (run.ts: "deny always wins").                             *)
Governed ==
  /\ DOMAIN file = {n \in Resolved(seen.config) :
                      /\ n \notin seen.policy.deny
                      /\ seen.policy.strict => n \in seen.policy.allow}
  /\ \A n \in DOMAIN file : seen.config[n].tools => file[n].launch = "run"
  /\ ran.by = "run" => ran.of \notin policy.deny /\ (config[ran.of].tools => ran.proxied)

=============================================================================
