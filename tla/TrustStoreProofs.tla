--------------------------- MODULE TrustStoreProofs ---------------------------
(***************************************************************************)
(* Theorems about TrustStore: for any processes, servers and configs, the  *)
(* store, its copies and what `run` launches hold nothing a user did not   *)
(* ask to trust; and changes that do not overlap are all kept.             *)
(***************************************************************************)
EXTENDS TrustStore, TLAPS

LEMMA ApproveType ==
  ASSUME NEW f \in Stores, NEW s \in Servers, NEW e \in Entries \cup {None}
  PROVE  /\ Approve(f, s, e) \in Stores
         /\ Approve(f, s, e).entries = [f.entries EXCEPT ![s] = e]
BY DEF Stores, Approve

LEMMA ApproveToolsType ==
  ASSUME NEW f \in Stores, NEW s \in Servers, NEW t \in Surfaces \cup {None}
  PROVE  /\ ApproveTools(f, s, t) \in Stores
         /\ ApproveTools(f, s, t).entries = f.entries
         /\ ApproveTools(f, s, t).tools[s] = t
BY DEF Stores, ApproveTools

(* What a process knows of the servers it approves or is to launch.        *)
Asked(p) ==
  /\ pc[p] = "idle" => todo[p] = {}
  /\ \A s \in todo[p] : text[p][s] \in Local /\ <<s, text[p][s]>> \in consented
  /\ pc[p] \in {"gate", "secrets"} =>
       /\ text[p][name[p]] # None
       /\ <<name[p], text[p][name[p]]>> \notin Denied
  /\ pc[p] = "secrets" /\ text[p][name[p]] \in Local =>
       <<name[p], text[p][name[p]]>> \in consented

IInv == TypeOK /\ OnlyConsented /\ \A p \in Procs : Asked(p)

LEMMA InitIInv == Init => IInv
<1> SUFFICES ASSUME Init PROVE IInv
  OBVIOUS
<1>1. (CHOOSE t \in Surfaces : TRUE) \in Surfaces /\ (CHOOSE s \in Servers : TRUE) \in Servers
  BY StoreAssumption
<1>2. config \in Configs
  BY StoreAssumption DEF Init
<1>3. file \in Stores /\ \A s \in Servers : file.entries[s] # None => file.entries[s] \in Local
  BY <1>1, <1>2, StoreAssumption DEF Init, Stores, Empty, Configs
<1>4. Empty \in Stores /\ \A s \in Servers : Empty.entries[s] = None
  BY DEF Empty, Stores
<1>5. TypeOK
  <2>1. consented \subseteq Servers \X Local
    BY <1>3 DEF Init
  <2>2. launched \subseteq [server : Servers, entry : Entries,
                            tools : Surfaces \cup {None}, due : Surfaces \cup {None}]
    BY DEF Init
  <2>3. edits \in 0..MaxEdits
    BY StoreAssumption DEF Init
  <2> QED
    BY <1>1, <1>2, <1>3, <1>4, <2>1, <2>2, <2>3 DEF Init, TypeOK, Steps, Changing, Writing
<1>6. OnlyConsented
  BY <1>3, <1>4 DEF Init, OnlyConsented, Consented
<1> QED
  BY <1>5, <1>6 DEF Init, IInv, Asked

LEMMA NextIInv == IInv /\ [Next]_vars => IInv'
<1> SUFFICES ASSUME IInv, [Next]_vars PROVE IInv'
  OBVIOUS
<1> USE StoreAssumption
<1> DEFINE Known == TypeOK /\ OnlyConsented /\ \A p \in Procs : Asked(p)
<1>0. Known
  BY DEF IInv
<1>1. ASSUME NEW p \in Procs, NEW s \in Servers, Trust(p, s) PROVE IInv'
  <2>1. TypeOK'
    <3>1. consented' \subseteq Servers \X Local
      BY <1>0, <1>1 DEF TypeOK, Trust
    <3>2. /\ pc' \in [Procs -> Steps]
          /\ todo' \in [Procs -> SUBSET Servers]
          /\ tools' \in [Procs -> BOOLEAN]
      BY <1>0, <1>1 DEF TypeOK, Trust, Goto, Steps, Changing, Writing
    <3> QED
      BY <1>0, <1>1, <3>1, <3>2 DEF TypeOK, Trust, store
  <2>2. OnlyConsented'
    BY <1>0, <1>1 DEF OnlyConsented, Consented, Trust, store
  <2>3. \A q \in Procs : Asked(q)'
    <3>1. \A q \in Procs \ {p} : UNCHANGED <<pc[q], todo[q], text[q], name[q]>>
      BY <1>0, <1>1 DEF TypeOK, Trust, Goto
    <3>2. consented \subseteq consented'
      BY <1>1 DEF Trust
    <3>3. text'[p] = config /\ pc'[p] \in {"approve", "probe"}
      BY <1>0, <1>1 DEF TypeOK, Trust, Goto
    <3>4. CASE config[s] \in Local
      <4>1. todo'[p] = {s} /\ <<s, config[s]>> \in consented'
        BY <1>0, <1>1, <3>4 DEF TypeOK, Trust
      <4> QED
        BY <1>0, <3>1, <3>2, <3>3, <3>4, <4>1 DEF Asked
    <3>5. CASE config[s] \notin Local
      <4>1. todo'[p] = {}
        BY <1>0, <1>1, <3>5 DEF TypeOK, Trust, Asked
      <4> QED
        BY <1>0, <3>1, <3>2, <3>3, <4>1 DEF Asked
    <3> QED
      BY <3>4, <3>5
  <2> QED
    BY <2>1, <2>2, <2>3 DEF IInv
<1>2. ASSUME NEW p \in Procs, NEW s \in Servers, Load(p, s) PROVE IInv'
  <2>1. TypeOK'
    BY <1>0, <1>2 DEF TypeOK, Load, Goto, Steps, Changing, Writing, store, Configs
  <2>2. OnlyConsented'
    BY <1>0, <1>2 DEF OnlyConsented, Consented, Load, store
  <2>3. \A q \in Procs : Asked(q)'
    BY <1>0, <1>2 DEF TypeOK, Asked, Load, Goto
  <2> QED
    BY <2>1, <2>2, <2>3 DEF IInv
<1>3. ASSUME NEW p \in Procs, NEW remote \in Remotes, Pull(p, remote) PROVE IInv'
  <2> PICK key, yes, allowUnsigned \in BOOLEAN, sig \in {"none", "valid", "invalid"} :
        /\ pc[p] = "idle"
        /\ consented' = consented \cup
             {<<s, remote[s]>> : s \in IF Consents(key, sig, yes, allowUnsigned)
                                       THEN Executable(remote) ELSE {}}
        /\ IF Refused(remote, key, sig, yes, allowUnsigned)
           THEN Goto(p, "done") /\ UNCHANGED <<text, todo>>
           ELSE /\ text' = [text EXCEPT ![p] = remote]
                /\ todo' = [todo EXCEPT ![p] = Untrusted(remote)]
                /\ Goto(p, "apply")
        /\ UNCHANGED <<config, edits, store, name, tools, launched>>
    BY <1>3 DEF Pull
  <2>1. Untrusted(remote) \subseteq Executable(remote) /\ Executable(remote) \subseteq Servers
    BY DEF Untrusted, Executable
  <2>2. \A s \in Executable(remote) : remote[s] \in Local
    BY DEF Executable
  <2>3. ~Refused(remote, key, sig, yes, allowUnsigned) => Consents(key, sig, yes, allowUnsigned)
    BY DEF Refused, Consents, Verified, Tampered
  <2>4. consented \subseteq consented' /\ consented' \subseteq Servers \X Local
    BY <1>0, <2>1, <2>2 DEF TypeOK
  <2>5. TypeOK'
    BY <1>0, <2>1, <2>4 DEF TypeOK, Goto, Steps, Changing, Writing, store
  <2>6. OnlyConsented'
    BY <1>0, <2>4 DEF OnlyConsented, Consented, store
  <2>7. \A q \in Procs : Asked(q)'
    <3> SUFFICES ASSUME NEW q \in Procs PROVE Asked(q)'
      OBVIOUS
    <3>1. CASE Refused(remote, key, sig, yes, allowUnsigned)
      BY <1>0, <2>4, <3>1 DEF TypeOK, Asked, Goto
    <3>2. CASE ~Refused(remote, key, sig, yes, allowUnsigned)
      <4>1. \A s \in Untrusted(remote) : remote[s] \in Local /\ <<s, remote[s]>> \in consented'
        BY <2>1, <2>2, <2>3, <3>2
      <4> QED
        BY <1>0, <2>4, <3>2, <4>1 DEF TypeOK, Asked, Goto
    <3> QED
      BY <3>1, <3>2
  <2> QED
    BY <2>5, <2>6, <2>7 DEF IInv
<1>4. ASSUME NEW p \in Procs, TrustAll(p) PROVE IInv'
  <2>1. Untrusted(config) \subseteq Executable(config) /\ Executable(config) \subseteq Servers
    BY DEF Untrusted, Executable
  <2>2. \A s \in Executable(config) : config[s] \in Local
    BY DEF Executable
  <2>3. consented \subseteq consented' /\ consented' \subseteq Servers \X Local
    BY <1>0, <1>4, <2>1, <2>2 DEF TypeOK, TrustAll
  <2>4. TypeOK'
    BY <1>0, <1>4, <2>1, <2>3 DEF TypeOK, TrustAll, Goto, Steps, Changing, Writing, store
  <2>5. OnlyConsented'
    BY <1>0, <1>4, <2>3 DEF OnlyConsented, Consented, TrustAll, store
  <2>6. \A s \in Untrusted(config) : <<s, config[s]>> \in consented'
    BY <1>4, <2>1 DEF TrustAll
  <2>7. \A q \in Procs : Asked(q)'
    BY <1>0, <1>4, <2>1, <2>2, <2>3, <2>6 DEF TypeOK, Asked, TrustAll, Goto
  <2> QED
    BY <2>4, <2>5, <2>7 DEF IInv
<1>5. ASSUME NEW p \in Procs, ReadToApprove(p) PROVE IInv'
  <2> PICK s \in todo[p] : /\ ReadStore(p, Approve(file, s, text[p][s]), "open")
                           /\ name' = [name EXCEPT ![p] = s]
    BY <1>5 DEF ReadToApprove
  <2>1. s \in Servers /\ text[p][s] \in Local /\ <<s, text[p][s]>> \in consented
    BY <1>0 DEF TypeOK, Asked
  <2>2. Approve(file, s, text[p][s]) \in Stores /\ Consented(Approve(file, s, text[p][s]))
    <3>1. file \in Stores /\ text[p][s] \in Entries \cup {None}
      BY <1>0, <2>1 DEF TypeOK, Configs
    <3>2. /\ Approve(file, s, text[p][s]) \in Stores
          /\ Approve(file, s, text[p][s]).entries = [file.entries EXCEPT ![s] = text[p][s]]
      BY <2>1, <3>1, ApproveType
    <3> QED
      BY <1>0, <2>1, <3>1, <3>2 DEF OnlyConsented, Consented, Stores
  <2>3. TypeOK'
    BY <1>0, <1>5, <2>1, <2>2 DEF TypeOK, ReadToApprove, ReadStore, Goto, Steps, Changing, Writing
  <2>4. OnlyConsented'
    BY <1>0, <1>5, <2>2 DEF TypeOK, OnlyConsented, Consented, ReadStore
  <2>5. \A q \in Procs : Asked(q)'
    BY <1>0, <1>5 DEF TypeOK, Asked, ReadToApprove, ReadStore, Goto
  <2> QED
    BY <2>3, <2>4, <2>5 DEF IInv
<1>6. ASSUME NEW p \in Procs, ReadToPin(p) PROVE IInv'
  <2> PICK t \in Surfaces : ReadStore(p, ApproveTools(file, name[p], t), "openPin")
    BY <1>6 DEF ReadToPin
  <2>1. /\ ApproveTools(file, name[p], t) \in Stores
        /\ Consented(ApproveTools(file, name[p], t))
    <3>1. file \in Stores /\ name[p] \in Servers
      BY <1>0 DEF TypeOK
    <3>2. /\ ApproveTools(file, name[p], t) \in Stores
          /\ ApproveTools(file, name[p], t).entries = file.entries
      BY <3>1, ApproveToolsType
    <3> QED
      BY <1>0, <3>2 DEF OnlyConsented, Consented
  <2>2. TypeOK'
    BY <1>0, <1>6, <2>1 DEF TypeOK, ReadToPin, ReadStore, Goto, Steps, Changing, Writing
  <2>3. OnlyConsented'
    BY <1>0, <1>6, <2>1 DEF TypeOK, OnlyConsented, Consented, ReadStore
  <2>4. \A q \in Procs : Asked(q)'
    BY <1>0, <1>6 DEF TypeOK, Asked, ReadToPin, ReadStore, Goto
  <2> QED
    BY <2>2, <2>3, <2>4 DEF IInv
<1>7. ASSUME NEW p \in Procs, OpenToWrite(p) PROVE IInv'
  <2>1. Empty \in Stores /\ \A s \in Servers : Empty.entries[s] = None
    BY DEF Empty, Stores
  <2>2. TypeOK'
    BY <1>0, <1>7, <2>1 DEF TypeOK, OpenToWrite, Goto, Steps, Changing, Writing
  <2>3. OnlyConsented'
    BY <1>0, <1>7, <2>1 DEF OnlyConsented, Consented, OpenToWrite
  <2>4. \A q \in Procs : Asked(q)'
    BY <1>0, <1>7 DEF TypeOK, Asked, OpenToWrite, Goto
  <2> QED
    BY <2>2, <2>3, <2>4 DEF IInv
<1>8. ASSUME NEW p \in Procs, FillApproval(p) PROVE IInv'
  <2>1. Approve(kept, name[p], text[p][name[p]]) \in Stores
    <3>1. kept \in Stores /\ name[p] \in Servers /\ text[p][name[p]] \in Entries \cup {None}
      BY <1>0 DEF TypeOK, Configs
    <3> QED
      BY <3>1, ApproveType
  <2>2. TypeOK'
    BY <1>0, <1>8, <2>1 DEF TypeOK, FillApproval, Approve, Goto, Steps, Changing, Writing
  <2>3. OnlyConsented'
    BY <1>0, <1>8 DEF OnlyConsented, Consented, FillApproval
  <2>4. \A q \in Procs : Asked(q)'
    BY <1>0, <1>8 DEF TypeOK, Asked, FillApproval, Goto
  <2> QED
    BY <2>2, <2>3, <2>4 DEF IInv
<1>9. ASSUME NEW p \in Procs, FillPin(p) PROVE IInv'
  <2>1. copy[p].tools[name[p]] \in Surfaces \cup {None}
    BY <1>0 DEF TypeOK, Stores
  <2>2. ApproveTools(kept, name[p], copy[p].tools[name[p]]) \in Stores
    BY <1>0, <2>1, ApproveToolsType DEF TypeOK
  <2>3. TypeOK'
    BY <1>0, <1>9, <2>2 DEF TypeOK, FillPin, ApproveTools, Goto, Steps, Changing, Writing
  <2>4. OnlyConsented'
    BY <1>0, <1>9 DEF OnlyConsented, Consented, FillPin
  <2>5. \A q \in Procs : Asked(q)'
    BY <1>0, <1>9 DEF TypeOK, Asked, FillPin, Goto
  <2> QED
    BY <2>3, <2>4, <2>5 DEF IInv
<1>10. ASSUME NEW p \in Procs, Gate(p) PROVE IInv'
  <2>1. TypeOK'
    BY <1>0, <1>10 DEF TypeOK, Gate, Goto, Steps, Changing, Writing, store
  <2>2. OnlyConsented'
    BY <1>0, <1>10 DEF OnlyConsented, Consented, Gate, store
  <2>3. file.entries[name[p]] = text[p][name[p]] /\ text[p][name[p]] # None =>
          <<name[p], text[p][name[p]]>> \in consented
    BY <1>0 DEF TypeOK, OnlyConsented, Consented
  <2>4. \A q \in Procs : Asked(q)'
    BY <1>0, <1>10, <2>3 DEF TypeOK, Asked, Gate, Goto
  <2> QED
    BY <2>1, <2>2, <2>4 DEF IInv
<1>11. ASSUME NEW p \in Procs, Launch(p) PROVE IInv'
  <2> DEFINE l == [server |-> name[p], entry |-> text[p][name[p]],
                   tools |-> file.tools[name[p]], due |-> kept.tools[name[p]]]
  <2>1. l \in [server : Servers, entry : Entries,
               tools : Surfaces \cup {None}, due : Surfaces \cup {None}]
    <3>a. pc[p] = "secrets"
      BY <1>11 DEF Launch
    <3>b. name[p] \in Servers /\ text[p] \in Configs /\ text[p][name[p]] # None
      BY <1>0, <3>a DEF TypeOK, Asked
    <3>1. name[p] \in Servers /\ text[p][name[p]] \in Entries
      BY <3>b DEF Configs
    <3>2. file.tools[name[p]] \in Surfaces \cup {None} /\ kept.tools[name[p]] \in Surfaces \cup {None}
      BY <1>0, <3>1 DEF TypeOK, Stores
    <3> QED
      BY <3>1, <3>2
  <2>2. launched' = launched \cup {l}
    BY <1>11 DEF Launch
  <2>3. TypeOK'
    BY <1>0, <1>11, <2>1, <2>2 DEF TypeOK, Launch, Goto, Steps, Changing, Writing
  <2>4. OnlyConsented'
    BY <1>0, <1>11, <2>2 DEF Asked, OnlyConsented, Consented, Launch
  <2>5. \A q \in Procs : Asked(q)'
    BY <1>0, <1>11 DEF TypeOK, Asked, Launch, Goto
  <2> QED
    BY <2>3, <2>4, <2>5 DEF IInv
<1>12. ASSUME NEW p \in Procs, Apply(p) PROVE IInv'
  <2>1. TypeOK'
    BY <1>0, <1>12 DEF TypeOK, Apply, Goto, Steps, Changing, Writing, store
  <2>2. OnlyConsented'
    BY <1>0, <1>12 DEF OnlyConsented, Consented, Apply, store
  <2>3. \A q \in Procs : Asked(q)'
    BY <1>0, <1>12 DEF TypeOK, Asked, Apply, Goto
  <2> QED
    BY <2>1, <2>2, <2>3 DEF IInv
<1>13. ASSUME NEW p \in Procs, Probe(p) \/ SecretMissing(p) \/ Crash(p) PROVE IInv'
  <2>1. TypeOK'
    BY <1>0, <1>13 DEF TypeOK, Probe, SecretMissing, Crash, Goto, Steps, Changing, Writing, store
  <2>2. OnlyConsented'
    BY <1>0, <1>13 DEF OnlyConsented, Consented, Probe, SecretMissing, Crash, store
  <2>3. \A q \in Procs : Asked(q)'
    BY <1>0, <1>13 DEF TypeOK, Asked, Probe, SecretMissing, Crash, Goto
  <2> QED
    BY <2>1, <2>2, <2>3 DEF IInv
<1>14. ASSUME NEW s \in Servers, NEW e \in Entries, Edit(s, e) PROVE IInv'
  <2>1. TypeOK'
    BY <1>0, <1>14 DEF TypeOK, Edit, store, command, Configs
  <2>2. OnlyConsented' /\ \A q \in Procs : Asked(q)'
    BY <1>0, <1>14 DEF OnlyConsented, Consented, Asked, Edit, store, command
  <2> QED
    BY <2>1, <2>2 DEF IInv
<1>15. CASE UNCHANGED vars
  BY <1>0, <1>15 DEF IInv, TypeOK, OnlyConsented, Consented, Asked, vars, store, command
<1> QED
  BY <1>1, <1>2, <1>3, <1>4, <1>5, <1>6, <1>7, <1>8, <1>9, <1>10, <1>11, <1>12, <1>13, <1>14, <1>15
  DEF Next

-----------------------------------------------------------------------------
(* Changes that do not overlap: one process at a time holds a copy, and it *)
(* is what the store should become.                                        *)
Alone ==
  /\ \A p, q \in Procs : pc[p] \in Changing /\ pc[q] \in Changing => p = q
  /\ \A p \in Procs :
       /\ pc[p] \in {"open", "fill"} =>
            copy[p] = Approve(kept, name[p], text[p][name[p]])
       /\ pc[p] \in {"openPin", "fillPin"} =>
            copy[p] = ApproveTools(kept, name[p], copy[p].tools[name[p]])

Serial == ChangesKept /\ (~raced => Alone)

LEMMA InitSerial == Init => Serial
BY DEF Init, Serial, ChangesKept, Alone, Changing, Writing

LEMMA NextSerial == TypeOK /\ Serial /\ [Next]_vars => Serial'
<1> SUFFICES ASSUME TypeOK, Serial, [Next]_vars, ~raced' PROVE Alone' /\ ChangesKept'
  BY DEF Serial, ChangesKept
<1>0. ~raced /\ Alone /\ ChangesKept
  <2>1. \A p \in Procs :
          /\ \A s \in Servers : Trust(p, s) \/ Load(p, s) => UNCHANGED raced
          /\ \A remote \in Remotes : Pull(p, remote) => UNCHANGED raced
          /\ TrustAll(p) \/ Probe(p) \/ Gate(p) \/ SecretMissing(p) \/ Apply(p) => UNCHANGED raced
    BY DEF Trust, Load, Pull, TrustAll, Probe, Gate, SecretMissing, Apply, store
  <2>2. \A p \in Procs : OpenToWrite(p) \/ FillApproval(p) \/ FillPin(p) => UNCHANGED raced
    BY DEF OpenToWrite, FillApproval, FillPin
  <2>3. \A p \in Procs : ReadToApprove(p) \/ ReadToPin(p) \/ Launch(p) \/ Crash(p) => (raced => raced')
    BY DEF ReadToApprove, ReadToPin, ReadStore, Launch, Crash
  <2>4. \A s \in Servers, e \in Entries : Edit(s, e) => UNCHANGED raced
    BY DEF Edit, store
  <2>5. UNCHANGED vars => UNCHANGED raced
    BY DEF vars, store
  <2>6. raced => raced'
    BY <2>1, <2>2, <2>3, <2>4, <2>5 DEF Next
  <2> QED
    BY <2>6 DEF Serial
<1>1. ASSUME NEW p \in Procs, NEW s \in Servers, Trust(p, s) \/ Load(p, s)
      PROVE  Alone' /\ ChangesKept'
  BY <1>0, <1>1 DEF TypeOK, Trust, Load, Goto, store, Alone, ChangesKept, Changing, Writing
<1>2. ASSUME NEW p \in Procs, NEW remote \in Remotes, Pull(p, remote)
      PROVE  Alone' /\ ChangesKept'
  BY <1>0, <1>2 DEF TypeOK, Pull, Goto, store, Alone, ChangesKept, Changing, Writing
<1>3. ASSUME NEW p \in Procs, TrustAll(p) \/ Probe(p) \/ Gate(p) \/ SecretMissing(p) \/ Apply(p)
      PROVE  Alone' /\ ChangesKept'
  BY <1>0, <1>3 DEF TypeOK, TrustAll, Probe, Gate, SecretMissing, Apply, Goto, store, Alone,
                    ChangesKept, Changing, Writing
<1>4. ASSUME NEW p \in Procs, ReadToApprove(p) \/ ReadToPin(p) PROVE Alone' /\ ChangesKept'
  <2>1. (\A q \in Procs : pc[q] \notin Changing) /\ file = kept /\ UNCHANGED <<file, kept, launched, text>>
    BY <1>0, <1>4 DEF ReadToApprove, ReadToPin, ReadStore, ChangesKept, Changing
  <2>2. CASE ReadToApprove(p)
    BY <1>0, <2>1, <2>2 DEF TypeOK, ReadToApprove, ReadStore, Goto, Alone, ChangesKept, Changing, Writing
  <2>3. CASE ReadToPin(p)
    <3> PICK t \in Surfaces : ReadStore(p, ApproveTools(file, name[p], t), "openPin")
      BY <2>3 DEF ReadToPin
    <3>1. copy'[p] = ApproveTools(kept, name[p], t) /\ copy'[p].tools[name[p]] = t
      BY <2>1, ApproveToolsType DEF TypeOK, ReadStore
    <3>2. pc'[p] = "openPin" /\ name' = name /\ \A q \in Procs \ {p} : pc'[q] = pc[q]
      BY <2>3 DEF TypeOK, ReadToPin, ReadStore, Goto
    <3>3. \A q \in Procs \ {p} : pc'[q] \notin Changing
      BY <2>1, <3>2
    <3>4. Alone'
      BY <2>1, <3>1, <3>2, <3>3 DEF Alone, Changing, Writing
    <3> QED
      BY <1>0, <2>1, <3>4 DEF ChangesKept
  <2> QED
    BY <1>4, <2>2, <2>3
<1>5. ASSUME NEW p \in Procs, OpenToWrite(p) PROVE Alone' /\ ChangesKept'
  BY <1>0, <1>5 DEF TypeOK, OpenToWrite, Goto, Alone, ChangesKept, Changing, Writing
<1>6. ASSUME NEW p \in Procs, FillApproval(p) \/ FillPin(p) PROVE Alone' /\ ChangesKept'
  <2>1. file' = kept' /\ UNCHANGED <<copy, name, text, launched>>
    BY <1>0, <1>6 DEF FillApproval, FillPin, Approve, ApproveTools, Alone
  <2>2. \A q \in Procs : pc'[q] \notin Changing
    BY <1>0, <1>6 DEF TypeOK, FillApproval, FillPin, Goto, Alone, Changing, Writing
  <2> QED
    BY <1>0, <2>1, <2>2 DEF Alone, ChangesKept, Changing, Writing
<1>7. ASSUME NEW p \in Procs, Launch(p) PROVE Alone' /\ ChangesKept'
  <2>1. file = kept /\ file' = file /\ kept' = kept /\ copy' = copy /\ name' = name /\ text' = text
    BY <1>0, <1>7 DEF Launch, ChangesKept
  <2>2. launched' = launched \cup {[server |-> name[p], entry |-> text[p][name[p]],
                                   tools |-> file.tools[name[p]], due |-> kept.tools[name[p]]]}
    BY <1>7 DEF Launch
  <2>3. Alone'
    BY <1>0, <1>7, <2>1 DEF TypeOK, Launch, Goto, Alone, Changing, Writing
  <2> QED
    BY <1>0, <2>1, <2>2, <2>3 DEF ChangesKept
<1>8. ASSUME NEW p \in Procs, Crash(p) PROVE Alone' /\ ChangesKept'
  BY <1>0, <1>8 DEF TypeOK, Crash, Goto, Alone, ChangesKept, Changing, Writing
<1>9. ASSUME NEW s \in Servers, NEW e \in Entries, Edit(s, e) PROVE Alone' /\ ChangesKept'
  BY <1>0, <1>9 DEF Edit, store, command, Alone, ChangesKept
<1>10. CASE UNCHANGED vars
  BY <1>0, <1>10 DEF vars, store, command, Alone, ChangesKept
<1> QED
  BY <1>1, <1>2, <1>3, <1>4, <1>5, <1>6, <1>7, <1>8, <1>9, <1>10 DEF Next

-----------------------------------------------------------------------------
(* Every variable keeps its type: only local commands that a user asked to *)
(* trust are ever approved.                                                *)
THEOREM StoreTypeCorrect == Spec => []TypeOK
<1>1. IInv => TypeOK
  BY DEF IInv
<1> QED
  BY InitIInv, NextIInv, <1>1, PTL DEF Spec

(* However changes of the store overlap or are cut short, the store, its   *)
(* copies and what `run` launched hold only what a user asked to trust.    *)
THEOREM NothingUnasked == Spec => []OnlyConsented
<1>1. IInv => OnlyConsented
  BY DEF IInv
<1> QED
  BY InitIInv, NextIInv, <1>1, PTL DEF Spec

(* As long as changes of the store neither overlap nor are cut short, none *)
(* is lost, and `run` enforces the pinned tools.                           *)
THEOREM SerialChangesKept == Spec => []ChangesKept
<1>1. Serial => ChangesKept
  BY DEF Serial
<1> QED
  BY InitSerial, NextSerial, StoreTypeCorrect, <1>1, PTL DEF Spec

=============================================================================
