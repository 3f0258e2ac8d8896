------------------------------- MODULE MCProxy -------------------------------
(* Instances of Proxy for TLC: two tools, one of them with two spellings.  *)
EXTENDS Proxy, TLC

CONSTANTS a, A, b, d1, d2

MCSpelling   == {a, A, b}
MCNormal     == a :> a @@ A :> a @@ b :> b
MCDirectives == {[mode |-> "off", list |-> {}],
                 [mode |-> "allow", list |-> {a}],
                 [mode |-> "deny", list |-> {A}]}

Tool(n, d)   == [name |-> n, def |-> d]
Trusted      == <<Tool(a, d1), Tool(b, d1)>>
Upgraded     == <<Tool(A, d1), Tool(b, d2)>>     \* one tool renamed, one redefined
Redefined    == <<Tool(a, d1), Tool(b, d2)>>     \* the same names
Doubled      == <<Tool(b, d2), Tool(a, d1), Tool(b, d1)>>   \* one tool listed twice
MCOffers     == {Trusted, Upgraded, Redefined, Doubled}
MCPins       == [mode : {"off", "warn", "block"}, surface : {Trusted}]

WholePages   == {{a, A, b}}            \* the server does not paginate

=============================================================================
