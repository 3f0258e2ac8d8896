------------------------------- MODULE MCFold -------------------------------
(***************************************************************************)
(* Fold over the adapters of the registry, told apart by what the fold     *)
(* asks of them, and every shape of a server.                              *)
(***************************************************************************)
EXTENDS Fold

Client(strategy, dialect, http, oauth, ignored) ==
  [strategy |-> strategy, dialect |-> dialect, nativeHttp |-> http, nativeOauth |-> oauth,
   ignored |-> ignored]

MCAdapters ==
  {Client("shim", FALSE, FALSE, FALSE, FALSE),         \* claude-desktop
   Client("shim", FALSE, TRUE, TRUE, FALSE),           \* cline
   Client("shim", TRUE, TRUE, TRUE, FALSE),            \* cursor
   Client("shim", TRUE, TRUE, FALSE, FALSE),           \* windsurf
   Client("native-input", FALSE, TRUE, TRUE, FALSE)}   \* vscode
  \cup {Client("inline", FALSE, TRUE, TRUE, i) : i \in BOOLEAN}

MCOverrides == {"none", "native-env"}

MCShapes ==
  {s \in [transport : {"stdio", "remote"}, refs : [SecretPlaces -> Schemes \cup {"none"}],
          whole : BOOLEAN, tools : BOOLEAN, tagged : BOOLEAN,
          override : {"none", "shim", "native-env"}] :
     s.whole \/ s.refs[2] # "none"}

MCPlain ==
  [transport |-> "stdio", refs |-> [i \in SecretPlaces |-> "none"],
   whole |-> TRUE, tools |-> FALSE,
   tagged |-> TRUE, override |-> "none"]

MCPolicies ==
  [strict : {FALSE}, deny : SUBSET Servers, allow : {{}}]
    \cup [strict : {TRUE}, deny : {{}, {"server"}}, allow : SUBSET Servers]

=============================================================================
