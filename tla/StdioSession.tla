---------------------------- MODULE StdioSession ----------------------------
(***************************************************************************)
(* The life of a proxied session: defaultProxySpawner (cli/src/commands/   *)
(* run.ts), the two stream transports it wires (proxy/src/transport/       *)
(* stdio.ts) and connectProxy's disposal (proxy/src/proxy.ts).             *)
(*                                                                         *)
(* The MCP client and the server are processes; `mcpfold run` stands       *)
(* between them.  It reads each of them in chunks of any size, cuts the    *)
(* chunks into lines and passes every message on to the other side (what   *)
(* it does to a message is the subject of Proxy).  Its event loop takes    *)
(* data, end of stream, write errors, signals and the exit of the child in *)
(* any order in which they may become ready.                               *)
(*                                                                         *)
(* Streams are sequences of units: the newline, and pieces of lines.       *)
(***************************************************************************)
EXTENDS Naturals, Sequences, Functions

CONSTANTS
  Scripts,      \* Scripts[side]: the streams this side may go on to write
  Messages,     \* the lines, as sequences of units, that parse as a message
  NL,           \* the newline
  MaxLine,      \* cap on the buffer of one unterminated line
  Signals,      \* the signals `mcpfold run` may get, each at most once
  Obeys         \* those that end the server

Sides == {"client", "server"}
Other(s) == IF s = "client" THEN "server" ELSE "client"

AllScripts == Scripts["client"] \cup Scripts["server"]
Units      == UNION {Range(t) : t \in AllScripts}

ASSUME SessionAssumption ==
  /\ MaxLine \in Nat
  /\ Obeys \subseteq Signals
  /\ AllScripts \subseteq Seq(Units)

VARIABLES
  stream,    \* per side: what it writes in all
  wrote,     \* per side: how many units of it are written
  ended,     \* per side: it closed its stream
  listening, \* the client reads what it is sent
  took,      \* per side: how many units its transport was handed
  buffer,    \* per transport: the unterminated line
  closed,    \* per transport: it is torn down
  passed,    \* per side: the messages it was sent
  broken,    \* per side: the error of a write to it, after it had gone, is to come
  child,     \* the server process: "running", "exited" or "failed" (to spawn)
  killed,    \* child.killed: a signal was sent to it
  sent,      \* the signals sent to `mcpfold run`
  waiting,   \* those its handlers have not taken yet
  reached,   \* those that reached the server
  cause,     \* what tore the session down
  resolved,  \* the promise of the spawner
  wrapper    \* the `mcpfold run` process: "running", "exited", "killed" or "crashed"

transports == <<took, buffer, closed, passed, broken, cause>>
peers      == <<stream, wrote, ended, listening>>
server     == <<child, reached>>
life       == <<killed, waiting, resolved, wrapper>>
vars       == <<transports, peers, server, sent, life>>

-----------------------------------------------------------------------------
(* stdio.ts *)

(* Mutant: a line that does not parse is passed on as it is.                *)
ParsedAnyway(line) == <<line>>

Parsed(line) == IF line \in Messages THEN <<line>> ELSE <<>>

(* drain: the messages of the complete lines of b, and what is left of it.  *)
Drained(d, u) ==
  IF u = NL THEN [out |-> d.out \o Parsed(d.rest), rest |-> <<>>]
  ELSE [out |-> d.out, rest |-> Append(d.rest, u)]

Drain(b) ==
  LET upTo[n \in 0 .. Len(b)] ==
        IF n = 0 THEN [out |-> <<>>, rest |-> <<>>] ELSE Drained(upTo[n - 1], b[n])
  IN  upTo[Len(b)]

(* A side that no longer reads what it is sent.                             *)
Gone(s) == IF s = "server" THEN child # "running" ELSE ~listening

(* Messages of one side are sent to the other.                              *)
Pass(s, messages) ==
  /\ passed' = [passed EXCEPT ![Other(s)] = @ \o messages]
  /\ broken' = [broken EXCEPT ![Other(s)] = @ \/ (messages # <<>> /\ Gone(Other(s)))]

(* Mutant: the transports do not tell the proxy that they closed.           *)
FinishAlone(s, why) ==
  /\ closed' = [closed EXCEPT ![s] = TRUE]
  /\ buffer' = [buffer EXCEPT ![s] = <<>>]
  /\ cause' = IF cause = "none" THEN why ELSE cause

(* finish on one transport runs dispose, which finishes the other one.      *)
Finish(s, why) ==
  /\ closed' = [x \in Sides |-> TRUE]
  /\ buffer' = [x \in Sides |-> <<>>]
  /\ cause' = IF cause = "none" THEN why ELSE cause

Running == wrapper = "running"

(* Mutant: the data of a chunk is drained by itself.                        *)
OnDataForgetful(s, k) ==
  /\ Running /\ ~closed[s]
  /\ k \in 1 .. (wrote[s] - took[s])
  /\ took' = [took EXCEPT ![s] = @ + k]
  /\ LET d == Drain(SubSeq(stream[s], took[s] + 1, took[s] + k)) IN
     /\ Pass(s, d.out)
     /\ IF Len(d.rest) > MaxLine THEN Finish(s, "flood")
        ELSE buffer' = [buffer EXCEPT ![s] = d.rest] /\ UNCHANGED <<closed, cause>>
  /\ UNCHANGED <<peers, server, sent, life>>

(* Mutant: the cap is compared before the chunk is drained into the buffer. *)
OnDataLateCap(s, k) ==
  /\ Running /\ ~closed[s]
  /\ k \in 1 .. (wrote[s] - took[s])
  /\ took' = [took EXCEPT ![s] = @ + k]
  /\ LET d == Drain(buffer[s] \o SubSeq(stream[s], took[s] + 1, took[s] + k)) IN
     /\ Pass(s, d.out)
     /\ IF Len(buffer[s]) > MaxLine THEN Finish(s, "flood")
        ELSE buffer' = [buffer EXCEPT ![s] = d.rest] /\ UNCHANGED <<closed, cause>>
  /\ UNCHANGED <<peers, server, sent, life>>

(* A chunk of k units: every complete line is passed on, and a line that    *)
(* outgrows the cap without a newline closes the connection.                *)
OnData(s, k) ==
  /\ Running /\ ~closed[s]
  /\ k \in 1 .. (wrote[s] - took[s])
  /\ took' = [took EXCEPT ![s] = @ + k]
  /\ LET d == Drain(buffer[s] \o SubSeq(stream[s], took[s] + 1, took[s] + k)) IN
     /\ Pass(s, d.out)
     /\ IF Len(d.rest) > MaxLine THEN Finish(s, "flood")
        ELSE buffer' = [buffer EXCEPT ![s] = d.rest] /\ UNCHANGED <<closed, cause>>
  /\ UNCHANGED <<peers, server, sent, life>>

(* Mutant: what is buffered when the stream ends is dropped.                *)
OnEndDrops(s) ==
  /\ Running /\ ~closed[s]
  /\ ended[s] /\ took[s] = wrote[s]
  /\ Finish(s, s)
  /\ UNCHANGED <<took, passed, broken, peers, server, sent, life>>

(* The end of a stream: a last line without a newline still counts.         *)
OnEnd(s) ==
  /\ Running /\ ~closed[s]
  /\ ended[s] /\ took[s] = wrote[s]
  /\ Pass(s, Parsed(buffer[s]))
  /\ Finish(s, s)
  /\ UNCHANGED <<took, peers, server, sent, life>>

(* A write to a side that had gone fails (EPIPE).                           *)
OnOutputError(s) ==
  /\ Running /\ ~closed[s] /\ broken[s]
  /\ Finish(s, "error")
  /\ broken' = [broken EXCEPT ![s] = FALSE]
  /\ UNCHANGED <<took, passed, peers, server, sent, life>>

(* finish has taken the listener off, so an error that comes later is       *)
(* nobody's, and ends the process.  (Once the exit of the child, or its     *)
(* failure to start, has come its input is destroyed, and a write pending   *)
(* there fails without an event; the failure comes before any data.)        *)
LateOutputError(s) ==
  /\ Running /\ closed[s] /\ broken[s]
  /\ s = "server" => child = "exited" /\ ~resolved
  /\ broken' = [broken EXCEPT ![s] = FALSE]
  /\ wrapper' = "crashed"
  /\ UNCHANGED <<took, buffer, closed, passed, cause, peers, server, sent, killed, waiting, resolved>>

-----------------------------------------------------------------------------
(* run.ts *)

(* Mutant: the exit is ignored once the session is disposed.                *)
OnExitUnlessDisposed ==
  /\ Running /\ child # "running" /\ ~resolved
  /\ cause = "none"
  /\ Finish("server", "exit")
  /\ resolved' = TRUE
  /\ UNCHANGED <<took, passed, broken, peers, server, sent, killed, waiting, wrapper>>

(* The child's exit or error event: dispose, and the spawner resolves.      *)
OnExit ==
  /\ Running /\ child # "running" /\ ~resolved
  /\ Finish("server", "exit")
  /\ resolved' = TRUE
  /\ UNCHANGED <<took, passed, broken, peers, server, sent, killed, waiting, wrapper>>

(* Mutant: the handlers are taken off when the session is disposed.         *)
ForwardUnlessDisposed(sig) ==
  /\ Running /\ sig \in waiting
  /\ waiting' = waiting \ {sig}
  /\ IF child = "running" /\ ~killed /\ cause = "none"
     THEN killed' = TRUE /\ reached' = reached \cup {sig}
     ELSE UNCHANGED <<killed, reached>>
  /\ UNCHANGED <<transports, peers, child, sent, resolved, wrapper>>

(* Mutant: the signal ends `mcpfold run` as well.                           *)
ForwardAndExit(sig) ==
  /\ Running /\ sig \in waiting
  /\ waiting' = waiting \ {sig}
  /\ IF child = "running" /\ ~killed
     THEN killed' = TRUE /\ reached' = reached \cup {sig}
     ELSE UNCHANGED <<killed, reached>>
  /\ wrapper' = "exited"
  /\ UNCHANGED <<transports, peers, child, sent, resolved>>

(* forward: a signal is passed on unless one was already.  On the exit of   *)
(* the child the handlers are taken off, and a signal ends the process.     *)
Forward(sig) ==
  /\ Running /\ sig \in waiting
  /\ waiting' = waiting \ {sig}
  /\ IF child = "running" /\ ~killed
     THEN killed' = TRUE /\ reached' = reached \cup {sig}
     ELSE UNCHANGED <<killed, reached>>
  /\ wrapper' = IF resolved /\ child = "exited" THEN "exited" ELSE wrapper
  /\ UNCHANGED <<transports, peers, child, sent, resolved>>

(* Nothing is left for the event loop once the spawner has resolved.        *)
Leave ==
  /\ Running /\ resolved
  /\ wrapper' = "exited"
  /\ UNCHANGED <<transports, peers, server, sent, killed, waiting, resolved>>

-----------------------------------------------------------------------------
(* The client, the server and the user *)

Writes(s) ==
  /\ ~ended[s]
  /\ wrote[s] < Len(stream[s])
  /\ wrote' = [wrote EXCEPT ![s] = @ + 1]
  /\ UNCHANGED <<transports, stream, ended, listening, server, sent, life>>

(* The client closes the server's input, as it does to end the session.     *)
ClientCloses ==
  /\ ~ended["client"]
  /\ ended' = [ended EXCEPT !["client"] = TRUE]
  /\ UNCHANGED <<transports, stream, wrote, listening, server, sent, life>>

ClientDies ==
  /\ listening
  /\ listening' = FALSE
  /\ ended' = [ended EXCEPT !["client"] = TRUE]
  /\ UNCHANGED <<transports, stream, wrote, server, sent, life>>

Exits ==
  /\ child' = "exited"
  /\ ended' = [ended EXCEPT !["server"] = TRUE]
  /\ UNCHANGED <<transports, stream, wrote, listening, reached, sent, life>>

(* The server ends by itself, or crashes.                                   *)
ServerQuits ==
  /\ child = "running"
  /\ Exits

(* It reads the end of its input: nobody writes to it any more.             *)
ServerSeesEnd ==
  /\ child = "running"
  /\ wrapper # "running"
  /\ Exits

ServerObeys ==
  /\ child = "running"
  /\ reached \cap Obeys # {}
  /\ Exits

SendSignal(sig) ==
  /\ Running /\ sig \notin sent
  /\ sent' = sent \cup {sig}
  /\ waiting' = waiting \cup {sig}
  /\ UNCHANGED <<transports, peers, server, killed, resolved, wrapper>>

(* SIGKILL, or the machine is short of memory.                              *)
KillWrapper ==
  /\ Running
  /\ wrapper' = "killed"
  /\ UNCHANGED <<transports, peers, server, sent, killed, waiting, resolved>>

-----------------------------------------------------------------------------
Init ==
  /\ stream \in {f \in [Sides -> AllScripts] :
                   \A s \in Sides : f[s] \in Scripts[s]}
  /\ wrote = [s \in Sides |-> 0]
  /\ took = [s \in Sides |-> 0]
  /\ buffer = [s \in Sides |-> <<>>]
  /\ closed = [s \in Sides |-> FALSE]
  /\ passed = [s \in Sides |-> <<>>]
  /\ broken = [s \in Sides |-> FALSE]
  /\ child \in {"running", "failed"}
  /\ ended = [s \in Sides |-> s = "server" /\ child = "failed"]
  /\ listening = TRUE
  /\ killed = FALSE
  /\ sent = {} /\ waiting = {} /\ reached = {}
  /\ cause = "none"
  /\ resolved = FALSE
  /\ wrapper = "running"

WrapperStep ==
  \/ \E s \in Sides : \/ OnEnd(s) \/ OnOutputError(s) \/ LateOutputError(s)
                      \/ \E k \in 1 .. Len(stream[s]) : OnData(s, k)
  \/ OnExit
  \/ \E sig \in Signals : Forward(sig)
  \/ Leave

ServerReacts == ServerSeesEnd \/ ServerObeys

Next ==
  \/ WrapperStep
  \/ ServerReacts
  \/ ServerQuits
  \/ \E s \in Sides : Writes(s)
  \/ ClientCloses \/ ClientDies
  \/ \E sig \in Signals : SendSignal(sig)
  \/ KillWrapper

(* The event loop takes what is ready, and a server that got a signal it    *)
(* obeys, or the end of its input, ends.  Nobody has to write, close,       *)
(* crash, signal or kill.                                                   *)
Spec == Init /\ [][Next]_vars /\ WF_vars(WrapperStep) /\ WF_vars(ServerReacts)

-----------------------------------------------------------------------------
(* Correctness *)

TypeOK ==
  /\ \A s \in Sides : /\ stream[s] \in Scripts[s]
                      /\ wrote[s] \in 0 .. Len(stream[s])
                      /\ took[s] \in 0 .. wrote[s]
                      /\ Len(buffer[s]) <= MaxLine
  /\ ended \in [Sides -> BOOLEAN] /\ listening \in BOOLEAN
  /\ closed \in [Sides -> BOOLEAN]
  /\ broken \in [Sides -> BOOLEAN]
  /\ \A s \in Sides : \A i \in DOMAIN passed[s] : passed[s][i] \in Messages
  /\ child \in {"running", "exited", "failed"}
  /\ killed \in BOOLEAN
  /\ reached \subseteq sent /\ waiting \subseteq sent /\ sent \subseteq Signals
  /\ cause \in {"none", "client", "server", "flood", "error", "exit"}
  /\ resolved \in BOOLEAN
  /\ wrapper \in {"running", "exited", "killed", "crashed"}

(* What a stream says, whatever chunks it comes in: its lines are the       *)
(* stretches between newlines, and those that parse are its messages.       *)
IsLine(t, i, j) ==
  /\ i <= j + 1
  /\ \A k \in i .. j : t[k] # NL
  /\ i = 1 \/ t[i - 1] = NL
  /\ j = Len(t) \/ t[j + 1] = NL

Piece(t, l) == SubSeq(t, l[1], l[2])

MessageLines(t) ==
  {l \in (1 .. Len(t) + 1) \X (0 .. Len(t)) : IsLine(t, l[1], l[2]) /\ Piece(t, l) \in Messages}

(* f places the messages of q in t: in the order of t, none twice, and      *)
(* without skipping one.                                                    *)
Places(f, q, t) ==
  /\ \A n \in DOMAIN q : q[n] = Piece(t, f[n])
  /\ \A m, n \in DOMAIN q : m < n => f[m][1] < f[n][1]
  /\ \A n \in DOMAIN q : \A l \in MessageLines(t) :
       l[1] < f[n][1] => \E m \in DOMAIN q : f[m] = l

FirstMessages(q, t) == \E f \in [DOMAIN q -> MessageLines(t)] : Places(f, q, t)
AllMessages(q, t) ==
  \E f \in [DOMAIN q -> MessageLines(t)] : Places(f, q, t) /\ MessageLines(t) \subseteq Range(f)

Written(s) == SubSeq(stream[s], 1, wrote[s])

(* Whatever the chunks and the interleaving, each side is sent the first    *)
(* messages the other side wrote: none torn, doubled, reordered, skipped or *)
(* made up.  (A line still being written may come to be another message.)   *)
WholeInOrder == \A s \in Sides : FirstMessages(passed[Other(s)], Written(s))

(* When the end of a side's stream is what ends the session, everything it  *)
(* said has been passed on, a last line without a newline too (stdio.ts:    *)
(* "Deliver a final newline-less message the peer sent right before EOF").  *)
EndDelivers ==
  \A s \in Sides : cause = s => AllMessages(passed[Other(s)], Written(s))

(* The session is torn down as one, whichever side ends, fails or floods    *)
(* first (proxy.ts: "tear the whole session down exactly once"), and        *)
(* `mcpfold run` does not leave a server behind: unless it is killed, or a  *)
(* late write error ends it, it goes only after the server has, and takes   *)
(* no data then.                                                            *)
NoOrphan ==
  /\ closed["client"] <=> closed["server"]
  /\ closed["client"] <=> cause # "none"
  /\ wrapper = "exited" => child # "running" /\ closed["server"]

(* The end of the server ends `mcpfold run`, whatever was torn down before. *)
ExitPropagates == child # "running" ~> wrapper # "running"

(* The first signal reaches the server whatever streams have ended before,  *)
(* and one it obeys ends the session: a client closes the stream first and  *)
(* sends SIGTERM when that was not enough.                                  *)
FirstSignalEnds ==
  \A sig \in Obeys : sent = {sig} /\ Running ~> sent # {sig} \/ (child # "running" /\ ~Running)

-----------------------------------------------------------------------------
(* What does not hold *)

(* The end of the client's stream ends the session, so that no half-open    *)
(* pipe is leaked (transport/types.ts: "tear the whole session down cleanly *)
(* instead of leaking a half-open pipe").                                   *)
EndOfClientEnds == ended["client"] ~> child # "running"
=============================================================================
