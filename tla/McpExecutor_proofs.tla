------------------------- MODULE McpExecutor_proofs -------------------------
(***************************************************************************)
(* Proofs about McpExecutor for every configured server and any number of  *)
(* executions and faults.                                                  *)
(***************************************************************************)
EXTENDS McpExecutor, SequenceTheorems, TLAPS

Answers(l) == l.kind \notin {"note", "stray"}

(* The counters never run ahead of the executions begun. *)
Counted ==
  /\ spawned <= cur /\ fallout <= cur /\ (pc # "idle" => 0 < cur /\ fallout < cur)

(* Where execute is, and what it then holds: the operation slot only around a
   call, a process in every step of its own, a session only if one is kept. *)
PcShape ==
  /\ pc = "idle" => ~active /\ session # "New" /\ (~Persists => pid = 0)
  /\ pc # "idle" => pid # 0
  /\ pc \in {"init", "initwrite", "initwait"} => ~active /\ Profile = "2025"
  /\ pc \in {"call", "callwrite", "callwait"} => session = IF Mode = "Persistent" THEN "Ready" ELSE "None"
  /\ Mode = "Ephemeral" => session = "None" /\ ~active

SessionHasProcess == session = "Ready" => pid # 0 /\ (Profile = "2025" => handshaken)

(* An id is never used twice on one process. *)
IdsIssued ==
  /\ \A i \in 1..Len(inbox) : inbox[i].id \in 1..next_id
  /\ \A i \in 1..Len(out) : Answers(out[i]) => out[i].id \in 1..next_id

(* A call is being written or its answer awaited. *)
Calling == pc \in {"callwrite", "callwait"}

(* The executions whose call may have been written. *)
Written == {e \in Exec : e < cur \/ (e = cur /\ (Calling \/ pc = "idle"))}

(* A call that the server has not read has not been performed, and there is
   one such request for an execution at most. *)
CallsOnce ==
  /\ \A e \in Exec : ran[e] \in {0, 1} /\ (ran[e] = 1 => e \in Written)
  /\ \A i \in 1..Len(inbox) : inbox[i].method = "call" =>
        ran[inbox[i].exec] = 0 /\ inbox[i].exec \in Written
  /\ \A i, j \in 1..Len(inbox) :
        inbox[i].method = "call" /\ inbox[j].method = "call" /\ i # j
           => inbox[i].exec # inbox[j].exec

(* While a call is awaited its id stands for that call alone. *)
Awaited ==
  Calling =>
    /\ \A i \in 1..Len(inbox) :
          inbox[i].id = next_id => inbox[i].method = "call" /\ inbox[i].exec = cur
    /\ \A i \in 1..Len(out) :
          Answers(out[i]) /\ out[i].id = next_id => out[i].exec = cur /\ ran[cur] = 1

NeverBusy == \A e \in Exec : result[e] # "Busy"

Base == TypeOK /\ Counted /\ PcShape /\ SessionHasProcess /\ NeverBusy
Traffic == IdsIssued /\ CallsOnce /\ Awaited

IInv == Base /\ Traffic /\ OwnAnswer

-----------------------------------------------------------------------------
LEMMA ConfigType ==
  ASSUME TypeOK
  PROVE  /\ Profile \in {"2025", "2026"} /\ Mode \in {"Ephemeral", "Persistent"}
         /\ Persists \in BOOLEAN /\ MaxExec \in Nat /\ MaxFaults \in Nat
         /\ Mode = "Ephemeral" => ~Persists
BY McpAssumption DEF TypeOK, ServerEndpoint, Profile, Mode, Persists

LEMMA Emptied ==
  /\ <<>> \in Seq(Request) /\ <<>> \in Seq(Line) /\ Len(<<>>) = 0
BY EmptySeq

(* What the pipes still hold after one line is taken from them. *)
LEMMA Shorter ==
  ASSUME NEW S, NEW s \in Seq(S), NEW t, t \in {s, <<>>} \/ (s # <<>> /\ t = Tail(s))
  PROVE  /\ t \in Seq(S) /\ Len(t) \in Nat /\ Len(t) <= Len(s)
         /\ t # <<>> => \E d \in {0, 1} : Len(t) + d = Len(s) /\ \A i \in 1..Len(t) : t[i] = s[i + d]
<1>1. CASE t = s
  BY <1>1, LenProperties
<1>2. CASE t = <<>>
  BY <1>2, LenProperties, EmptySeq
<1>3. CASE s # <<>> /\ t = Tail(s)
  BY <1>3, HeadTailProperties, LenProperties
<1> QED BY <1>1, <1>2, <1>3

LEMMA Fields ==
  /\ \A r \in Request : r.id \in Nat /\ r.exec \in Exec
  /\ \A l \in Line : l.id \in Nat /\ l.exec \in Exec \cup {0}
BY DEF Request, Line

LEMMA LineTypes ==
  ASSUME TypeOK
  PROVE  /\ Len(inbox) \in Nat /\ Len(out) \in Nat
         /\ \A i \in 1..Len(inbox) : inbox[i].id \in Nat /\ inbox[i].exec \in Exec
         /\ \A i \in 1..Len(out) : out[i].id \in Nat
<1>1. inbox \in Seq(Request) /\ out \in Seq(Line)
  BY DEF TypeOK
<1>2. \A i \in 1..Len(inbox) : inbox[i] \in Request
  BY <1>1, ElementOfSeq
<1>3. \A i \in 1..Len(out) : out[i] \in Line
  BY <1>1, ElementOfSeq
<1>4. Len(inbox) \in Nat /\ Len(out) \in Nat
  BY <1>1, LenProperties
<1> QED BY <1>2, <1>3, <1>4, Fields

-----------------------------------------------------------------------------
LEMMA InitInv == Init => IInv
<1> SUFFICES ASSUME Init PROVE IInv
  OBVIOUS
<1>1. TypeOK
  <2>1. /\ pid \in 0..MaxExec /\ spawned \in 0..MaxExec /\ cur \in 0..MaxExec
        /\ faults \in 0..MaxFaults /\ fallout \in 0..MaxExec
    BY McpAssumption DEF Init
  <2>2. /\ result \in [Exec -> Outcome \cup {"none"}] /\ answer \in [Exec -> Exec \cup {0}]
        /\ ran \in [Exec -> Nat]
    BY DEF Init
  <2> QED BY <2>1, <2>2, Emptied DEF Init, TypeOK
<1>2. Counted /\ PcShape /\ SessionHasProcess /\ NeverBusy
  BY DEF Init, Counted, PcShape, SessionHasProcess, NeverBusy
<1>3. IdsIssued /\ CallsOnce /\ Awaited /\ OwnAnswer
  BY Emptied DEF Init, IdsIssued, CallsOnce, Awaited, Calling, OwnAnswer
<1> QED BY <1>1, <1>2, <1>3 DEF IInv, Base, Traffic

-----------------------------------------------------------------------------
(* The messages.  Whatever else a step does, it treats the pipes in one of
   four ways. *)

(* The pipes are emptied with the process. *)
LEMMA DroppedTraffic ==
  ASSUME inbox' = <<>>, out' = <<>>, ran' = ran, CallsOnce,
         Written \subseteq Written'
  PROVE  Traffic'
BY Emptied DEF Traffic, IdsIssued, CallsOnce, Awaited

(* Lines are taken off either end, and no call becomes awaited. *)
LEMMA ReadTraffic ==
  ASSUME TypeOK, Traffic, next_id' = next_id, ran' = ran,
         inbox' \in {inbox, <<>>},
         out' \in {out, <<>>} \/ (out # <<>> /\ out' = Tail(out)),
         Calling' => Calling /\ cur' = cur,
         Written \subseteq Written'
  PROVE  Traffic'
<1>1. /\ inbox \in Seq(Request) /\ out \in Seq(Line)
  BY DEF TypeOK
<1>2. \A i \in 1..Len(inbox') : i \in 1..Len(inbox) /\ inbox'[i] = inbox[i]
  BY Emptied
<1>3. \A i \in 1..Len(out') : \E j \in 1..Len(out) : out'[i] = out[j]
  <2>1. TAKE i \in 1..Len(out')
  <2>2. out' # <<>>
    BY <2>1, Emptied
  <2>3. Len(out) \in Nat
    BY <1>1, LenProperties
  <2>4. PICK d \in {0, 1} : Len(out') + d = Len(out) /\ \A k \in 1..Len(out') : out'[k] = out[k + d]
    BY <1>1, <2>2, Shorter
  <2>5. Len(out') \in Nat
    BY <1>1, Shorter
  <2>6. i + d \in 1..Len(out)
    BY <2>1, <2>3, <2>4, <2>5
  <2> QED BY <2>1, <2>4, <2>6
<1>4. IdsIssued'
  BY <1>2, <1>3 DEF Traffic, IdsIssued
<1>5. \A i \in 1..Len(inbox) : inbox[i].exec \in Exec
  BY LineTypes
<1>6. CallsOnce'
  BY <1>2, <1>5 DEF Traffic, CallsOnce
<1>7. Awaited'
  BY <1>2, <1>3 DEF Traffic, Awaited
<1> QED BY <1>4, <1>6, <1>7 DEF Traffic

(* One request is written, under an id that nothing on the pipes carries. *)
LEMMA SentTraffic ==
  ASSUME TypeOK, Traffic, NEW method \in {"initialize", "initialized", "call"}, Send(method),
         cur \in Exec, cur' = cur, ran' = ran,
         out' = out \/ (out # <<>> /\ out' = Tail(out)),
         pc \in {"init", "initwait", "call"},
         pc' \in {"initwrite", "initwait", "call", "callwrite", "callwait"},
         method = "call" <=> Calling'
  PROVE  Traffic' /\ inbox' \in Seq(Request) /\ out' \in Seq(Line)
<1> DEFINE r == [id |-> next_id + 1, method |-> method, exec |-> cur]
<1>1. /\ inbox \in Seq(Request) /\ out \in Seq(Line) /\ r \in Request /\ next_id \in Nat
      /\ cur \in 0..MaxExec
  BY DEF TypeOK, Request
<1>2. inbox' = Append(inbox, r) /\ next_id' = next_id + 1
  BY DEF Send
<1>3. /\ inbox' \in Seq(Request) /\ Len(inbox') = Len(inbox) + 1
      /\ \A i \in 1..Len(inbox) : inbox'[i] = inbox[i]
      /\ inbox'[Len(inbox) + 1] = r
  BY <1>1, <1>2, AppendProperties
<1>4. Len(inbox) \in Nat /\ Len(out) \in Nat
  BY LineTypes
<1>5. \A i \in 1..Len(inbox') : \/ i \in 1..Len(inbox) /\ inbox'[i] = inbox[i]
                                \/ i = Len(inbox) + 1 /\ inbox'[i] = r
  BY <1>3, <1>4
<1>6. out' \in Seq(Line) /\ \A i \in 1..Len(out') : \E j \in 1..Len(out) : out'[i] = out[j]
  <2>1. CASE out' = out
    BY <1>1, <2>1
  <2>2. CASE out # <<>> /\ out' = Tail(out)
    BY <1>1, <1>4, <2>2, HeadTailProperties
  <2> QED BY <2>1, <2>2
<1>7. IdsIssued'
  <2>1. \A i \in 1..Len(inbox') : inbox'[i].id \in 1..next_id'
    BY <1>1, <1>2, <1>5 DEF Traffic, IdsIssued
  <2>2. \A i \in 1..Len(out') : Answers(out'[i]) => out'[i].id \in 1..next_id'
    BY <1>1, <1>2, <1>6 DEF Traffic, IdsIssued, Answers
  <2> QED BY <2>1, <2>2 DEF IdsIssued, Answers
<1>8. Written \subseteq {e \in Exec : e < cur} \cap Written'
  BY DEF Written, Calling
<1>9. CallsOnce'
  <2>1. \A e \in Exec : ran'[e] \in {0, 1} /\ (ran'[e] = 1 => e \in Written')
    BY <1>8 DEF Traffic, CallsOnce
  <2>2. cur \notin Written /\ (method = "call" => ran[cur] = 0 /\ cur \in Written')
    <3>1. ~(cur < cur)
      BY <1>1
    <3> QED BY <1>8, <3>1 DEF Traffic, CallsOnce, Written, Calling
  <2>3. \A i \in 1..Len(inbox) : inbox[i].method = "call" =>
           ran[inbox[i].exec] = 0 /\ inbox[i].exec # cur /\ inbox[i].exec \in Written'
    BY <1>8, <2>2 DEF Traffic, CallsOnce
  <2>4. \A i \in 1..Len(inbox') : inbox'[i].method = "call" =>
           ran'[inbox'[i].exec] = 0 /\ inbox'[i].exec \in Written'
    BY <1>5, <2>2, <2>3
  <2>5. \A i, j \in 1..Len(inbox') :
           inbox'[i].method = "call" /\ inbox'[j].method = "call" /\ i # j
              => inbox'[i].exec # inbox'[j].exec
    BY <1>5, <2>3 DEF Traffic, CallsOnce
  <2> QED BY <2>1, <2>4, <2>5 DEF CallsOnce
<1>10. Awaited'
  <2>1. \A i \in 1..Len(inbox) : inbox[i].id # next_id + 1
    BY <1>1 DEF Traffic, IdsIssued
  <2>2. \A i \in 1..Len(out) : Answers(out[i]) => out[i].id # next_id + 1
    BY <1>1 DEF Traffic, IdsIssued
  <2>3. \A i \in 1..Len(inbox') :
           inbox'[i].id = next_id' /\ method = "call" => inbox'[i].method = "call" /\ inbox'[i].exec = cur
    BY <1>2, <1>5, <2>1
  <2>4. \A i \in 1..Len(out') : ~(Answers(out'[i]) /\ out'[i].id = next_id')
    BY <1>2, <1>6, <2>2 DEF Answers
  <2> QED BY <2>3, <2>4 DEF Awaited, Answers
<1> QED BY <1>3, <1>6, <1>7, <1>9, <1>10 DEF Traffic

(* The server writes one line of its own accord, or the answer to the request
   it has just read and performed. *)
LEMMA ServedTraffic ==
  ASSUME TypeOK, Traffic, UNCHANGED <<next_id, pc, cur>>, Calling => cur \in Exec,
         \/ /\ inbox' = inbox /\ ran' = ran
            /\ \E kind \in {"note", "stray"} :
                 out' = Append(out, [id |-> 0, kind |-> kind, exec |-> 0])
         \/ /\ inbox # <<>> /\ inbox' = Tail(inbox)
            /\ ran' = IF Head(inbox).method = "call"
                      THEN [ran EXCEPT ![Head(inbox).exec] = @ + 1] ELSE ran
            /\ \/ out' = out
               \/ \E kind \in {"ok", "business", "invalid", "refused"} :
                     out' = Append(out, [id |-> Head(inbox).id, kind |-> kind,
                                         exec |-> Head(inbox).exec])
  PROVE  /\ Traffic' /\ inbox' \in Seq(Request) /\ out' \in Seq(Line)
         /\ ran' \in [Exec -> Nat] /\ \A e \in Exec : ran[e] = 1 => ran'[e] = 1
<1>1. /\ inbox \in Seq(Request) /\ out \in Seq(Line) /\ next_id \in Nat /\ ran \in [Exec -> Nat]
      /\ Len(inbox) \in Nat /\ Len(out) \in Nat
  BY LineTypes DEF TypeOK
<1>2. CASE /\ inbox' = inbox /\ ran' = ran
           /\ \E kind \in {"note", "stray"} :
                 out' = Append(out, [id |-> 0, kind |-> kind, exec |-> 0])
  <2>1. PICK kind \in {"note", "stray"} :
               out' = Append(out, [id |-> 0, kind |-> kind, exec |-> 0])
    BY <1>2
  <2>2. [id |-> 0, kind |-> kind, exec |-> 0] \in Line
    BY DEF Line
  <2>3. /\ out' \in Seq(Line)
        /\ \A i \in 1..Len(out') : \/ i \in 1..Len(out) /\ out'[i] = out[i]
                                   \/ ~Answers(out'[i])
    BY <1>1, <2>1, <2>2, AppendProperties DEF Answers
  <2>4. IdsIssued'
    BY <1>2, <2>3 DEF Traffic, IdsIssued, Answers
  <2>5. CallsOnce'
    BY <1>2 DEF Traffic, CallsOnce, Written, Calling
  <2>6. Awaited'
    BY <1>2, <2>3 DEF Traffic, Awaited, Answers, Calling
  <2> QED BY <1>1, <1>2, <2>3, <2>4, <2>5, <2>6 DEF Traffic
<1> DEFINE r == Head(inbox)
           answer_(kind) == [id |-> r.id, kind |-> kind, exec |-> r.exec]
<1>3. CASE /\ inbox # <<>> /\ inbox' = Tail(inbox)
           /\ ran' = IF r.method = "call" THEN [ran EXCEPT ![r.exec] = @ + 1] ELSE ran
           /\ \/ out' = out
              \/ \E kind \in {"ok", "business", "invalid", "refused"} :
                    out' = Append(out, answer_(kind))
  <2>1. /\ inbox' \in Seq(Request) /\ Len(inbox') = Len(inbox) - 1
        /\ \A i \in 1..Len(inbox') : i + 1 \in 1..Len(inbox) /\ inbox'[i] = inbox[i + 1]
    BY <1>1, <1>3, HeadTailProperties
  <2>2. Len(inbox) >= 1 /\ r = inbox[1]
    BY <1>1, <1>3, EmptySeq
  <2>3. r \in Request /\ r.id \in Nat /\ r.exec \in Exec
    BY <1>1, <1>3, HeadTailProperties, Fields
  <2>4. /\ r.id \in 1..next_id
        /\ r.method = "call" => ran[r.exec] = 0 /\ r.exec \in Written
        /\ Calling /\ r.id = next_id => r.method = "call" /\ r.exec = cur
    BY <1>1, <2>2 DEF Traffic, IdsIssued, CallsOnce, Awaited
  <2>5. /\ ran' \in [Exec -> Nat]
        /\ r.method # "call" => ran' = ran
        /\ r.method = "call" => /\ ran'[r.exec] = 1
                                /\ \A e \in Exec : e # r.exec => ran'[e] = ran[e]
        /\ \A e \in Exec : ran[e] = 1 => ran'[e] = 1
    BY <1>1, <1>3, <2>3, <2>4
  <2>6. /\ out' \in Seq(Line)
        /\ \A i \in 1..Len(out') : \/ i \in 1..Len(out) /\ out'[i] = out[i]
                                   \/ out'[i].id = r.id /\ out'[i].exec = r.exec
    <3>1. CASE out' = out
      BY <1>1, <3>1
    <3>2. ASSUME NEW kind \in {"ok", "business", "invalid", "refused"},
                 out' = Append(out, answer_(kind))
          PROVE  <2>6
      <4>1. answer_(kind) \in Line
        BY <2>3 DEF Line
      <4> QED BY <1>1, <3>2, <4>1, AppendProperties
    <3> QED BY <1>3, <3>1, <3>2
  <2>7. IdsIssued'
    <3>1. \A i \in 1..Len(inbox') : inbox'[i].id \in 1..next_id'
      BY <2>1 DEF Traffic, IdsIssued
    <3>2. \A i \in 1..Len(out') : Answers(out'[i]) => out'[i].id \in 1..next_id'
      BY <2>4, <2>6 DEF Traffic, IdsIssued
    <3> QED BY <3>1, <3>2 DEF IdsIssued, Answers
  <2>8. CallsOnce'
    <3>1. \A e \in Exec : ran'[e] \in {0, 1} /\ (ran'[e] = 1 => e \in Written')
      BY <2>3, <2>4, <2>5 DEF Traffic, CallsOnce, Written, Calling
    <3>2. \A i \in 1..Len(inbox') : inbox'[i].method = "call" =>
             /\ inbox'[i].exec \in Exec /\ ran[inbox'[i].exec] = 0 /\ inbox'[i].exec \in Written
             /\ r.method = "call" => inbox'[i].exec # r.exec
      <4>1. TAKE i \in 1..Len(inbox')
      <4>2. i + 1 \in 1..Len(inbox) /\ inbox'[i] = inbox[i + 1] /\ 1 \in 1..Len(inbox) /\ i + 1 # 1
        BY <1>1, <2>1, <2>2
      <4> QED BY <4>2, <2>2, LineTypes DEF Traffic, CallsOnce
    <3>3. \A i \in 1..Len(inbox') : inbox'[i].method = "call" =>
             ran'[inbox'[i].exec] = 0 /\ inbox'[i].exec \in Written'
      BY <2>5, <3>2 DEF Written, Calling
    <3>4. \A i, j \in 1..Len(inbox') :
             inbox'[i].method = "call" /\ inbox'[j].method = "call" /\ i # j
                => inbox'[i].exec # inbox'[j].exec
      <4>1. TAKE i, j \in 1..Len(inbox')
      <4>2. /\ i + 1 \in 1..Len(inbox) /\ inbox'[i] = inbox[i + 1]
            /\ j + 1 \in 1..Len(inbox) /\ inbox'[j] = inbox[j + 1]
        BY <2>1
      <4>3. i # j => i + 1 # j + 1
        OBVIOUS
      <4>4. \A k, l \in 1..Len(inbox) :
               inbox[k].method = "call" /\ inbox[l].method = "call" /\ k # l
                  => inbox[k].exec # inbox[l].exec
        BY DEF Traffic, CallsOnce
      <4> QED BY <4>2, <4>3, <4>4
    <3> QED BY <3>1, <3>3, <3>4 DEF CallsOnce
  <2>9. Awaited'
    <3>1. CASE ~Calling
      BY <3>1 DEF Awaited, Calling
    <3>2. CASE Calling
      <4>1. \A i \in 1..Len(inbox') :
              inbox'[i].id = next_id => inbox'[i].method = "call" /\ inbox'[i].exec = cur
        BY <2>1, <3>2 DEF Traffic, Awaited
      <4>2. \A i \in 1..Len(out') :
              Answers(out'[i]) /\ out'[i].id = next_id => out'[i].exec = cur /\ ran'[cur] = 1
        <5>1. \A i \in 1..Len(out) :
                Answers(out[i]) /\ out[i].id = next_id => out[i].exec = cur /\ ran'[cur] = 1
          <6> QED BY <2>5, <3>2 DEF Traffic, Awaited
        <5> QED BY <2>4, <2>5, <2>6, <3>2, <5>1
      <4> QED BY <4>1, <4>2 DEF Awaited, Answers, Calling
    <3> QED BY <3>1, <3>2
  <2> QED BY <2>1, <2>5, <2>6, <2>7, <2>8, <2>9 DEF Traffic
<1> QED BY <1>2, <1>3

-----------------------------------------------------------------------------
(* The results.  Only an answer to its call gives an execution the result Ok. *)
LEMMA OtherResults ==
  ASSUME OwnAnswer, answer' = answer,
         \A e \in Exec : /\ result'[e] = "Ok" => result[e] = "Ok"
                         /\ ran'[e] <= 1 /\ (ran[e] = 1 => ran'[e] = 1)
  PROVE  OwnAnswer'
BY DEF OwnAnswer

(* execute begins, or returns before it has written anything. *)
LEMMA BeginInv == IInv /\ UNCHANGED config /\ (Begin \/ RefuseInput \/ SpawnFails) => IInv'
<1> SUFFICES ASSUME IInv, UNCHANGED config, Begin \/ RefuseInput \/ SpawnFails PROVE IInv'
  OBVIOUS
<1>0. TypeOK /\ PcShape /\ Traffic /\ OwnAnswer
  BY DEF IInv, Base
<1>1. /\ pc = "idle" /\ ~active /\ session # "New" /\ cur' = cur + 1 /\ cur \in 0..MaxExec
      /\ cur' \in 1..MaxExec /\ cur' \in Exec /\ ran' = ran /\ answer' = answer
      /\ Profile' = Profile /\ Mode' = Mode /\ Persists' = Persists
  BY <1>0, McpAssumption DEF TypeOK, PcShape, Begin, RefuseInput, SpawnFails, Profile, Mode, Persists,
     Exec
<1>2. Written \subseteq Written'
  BY <1>1 DEF Written, Calling, Exec
<1>3. ~Refusing
  BY <1>1 DEF Refusing
<1>4. /\ spawned' <= cur' /\ spawned' \in 0..MaxExec /\ pid' \in 0..MaxExec
      /\ proc' \in {"none", "up", "mute", "exited"} /\ (pid' = 0 <=> proc' = "none")
      /\ handshaken' \in BOOLEAN /\ (Begin => pid' # 0)
  <2>1. spawned \in 0..MaxExec /\ spawned <= cur
    BY <1>0 DEF TypeOK, IInv, Base, Counted
  <2>2. CASE UNCHANGED <<transport, spawned>> /\ (Begin => pid # 0)
    BY <1>0, <1>1, <2>1, <2>2 DEF TypeOK, transport
  <2>3. CASE Begin /\ pid = 0
    <3>1. spawned' = spawned + 1 /\ pid' = spawned' /\ proc' = "up" /\ handshaken' = FALSE
      BY <2>3 DEF Begin
    <3>2. spawned' <= cur' /\ spawned' \in 0..MaxExec /\ pid' \in 0..MaxExec /\ pid' # 0
      BY <1>1, <2>1, <3>1, McpAssumption
    <3> QED BY <3>1, <3>2
  <2> QED BY <2>2, <2>3 DEF Begin, RefuseInput, SpawnFails
<1>5. Traffic'
  <2>1. ~Calling'
    BY <1>1, <1>3 DEF Begin, RefuseInput, SpawnFails, Calling
  <2>2. CASE UNCHANGED transport
    BY <1>0, <1>1, <1>2, <2>1, <2>2, ReadTraffic DEF transport
  <2>3. CASE inbox' = <<>> /\ out' = <<>>
    BY <1>0, <1>1, <1>2, <2>3, DroppedTraffic DEF Traffic
  <2> QED BY <2>2, <2>3 DEF Begin, RefuseInput, SpawnFails
<1>6. \/ result' = result
      \/ \E outcome \in {"InvalidInput", "Unavailable"} : result' = [result EXCEPT ![cur'] = outcome]
  BY <1>3 DEF Begin, RefuseInput, SpawnFails
<1>7. /\ result' \in [Exec -> Outcome \cup {"none"}] /\ NeverBusy'
      /\ \A e \in Exec : result'[e] = "Ok" => result[e] = "Ok"
  BY <1>0, <1>1, <1>6 DEF TypeOK, Outcome, NeverBusy, IInv, Base
<1>8. OwnAnswer'
  BY <1>0, <1>1, <1>7, OtherResults DEF OwnAnswer
<1>9. next_id' \in Nat /\ inbox' \in Seq(Request) /\ out' \in Seq(Line)
  <2>1. \/ UNCHANGED <<next_id, inbox, out>>
        \/ next_id' = 0 /\ inbox' = <<>> /\ out' = <<>>
    BY DEF Begin, RefuseInput, SpawnFails, transport
  <2>2. next_id \in Nat /\ inbox \in Seq(Request) /\ out \in Seq(Line)
    BY <1>0 DEF TypeOK
  <2>3. CASE UNCHANGED <<next_id, inbox, out>>
    BY <2>2, <2>3
  <2>4. CASE next_id' = 0 /\ inbox' = <<>> /\ out' = <<>>
    BY <2>4, Emptied
  <2> QED BY <2>1, <2>3, <2>4
<1>10. CASE Begin
  <2>1. /\ pc' \in {"init", "call"} /\ (pc' = "init" <=> Handshake)
        /\ session' = IF Mode = "Ephemeral" THEN session ELSE establish
        /\ active' = IF Mode = "Ephemeral" THEN active ELSE ~Handshake
        /\ pid' # 0
    BY <1>3, <1>4, <1>10 DEF Begin
  <2>2. TypeOK'
    <3>1. session' \in ProtocolSessionState \cup {"None"} /\ active' \in BOOLEAN
      BY <1>0, <2>1, ConfigType DEF TypeOK, establish, ProtocolSessionState, Handshake
    <3>2. UNCHANGED <<config, answer, ran, faults, fallout>> /\ clean' = TRUE
      BY <1>10 DEF Begin
    <3> QED BY <1>0, <1>1, <1>4, <1>7, <1>9, <2>1, <3>1, <3>2 DEF TypeOK
  <2>3. PcShape'
    BY <1>0, <1>1, <2>1, ConfigType DEF PcShape, Handshake, establish
  <2>4. SessionHasProcess'
    <3>1. CASE session = "Ready"
      <4>1. pid # 0 /\ (Profile = "2025" => handshaken)
        BY <3>1 DEF IInv, Base, SessionHasProcess
      <4> QED BY <1>1, <1>10, <4>1 DEF Begin, transport, SessionHasProcess
    <3>2. CASE session # "Ready"
      <4>1. session' = "Ready" => Profile # "2025"
        BY <2>1, <3>2, <1>0 DEF establish, Handshake, Usable, PcShape
      <4> QED BY <1>1, <2>1, <4>1 DEF SessionHasProcess
    <3> QED BY <3>1, <3>2
  <2>5. Counted'
    BY <1>0, <1>1, <1>4, <1>10 DEF Begin, Counted, IInv, Base, TypeOK
  <2> QED BY <1>5, <1>7, <1>8, <2>2, <2>3, <2>4, <2>5 DEF IInv, Base
<1>11. CASE RefuseInput \/ SpawnFails
  <2>1. UNCHANGED <<pid, proc, handshaken, next_id, spawned, session, active, pc>>
    BY <1>11 DEF RefuseInput, SpawnFails, transport
  <2>2. fallout' \in 0..MaxExec /\ fallout' <= cur' /\ faults' \in 0..MaxFaults /\ clean' \in BOOLEAN
    <3>1. fallout \in 0..MaxExec /\ fallout <= cur /\ faults \in 0..MaxFaults
      BY <1>0 DEF TypeOK, IInv, Base, Counted
    <3>2. \/ UNCHANGED <<fallout, faults>> /\ clean' = TRUE
          \/ fallout' = 0 /\ clean' = FALSE /\ faults < MaxFaults /\ faults' = faults + 1
      BY <1>11 DEF RefuseInput, SpawnFails, Fault, Count
    <3>3. clean' \in BOOLEAN
      BY <3>2
    <3>4. CASE UNCHANGED <<fallout, faults>>
      BY <1>1, <3>1, <3>3, <3>4
    <3>5. CASE fallout' = 0 /\ faults < MaxFaults /\ faults' = faults + 1
      BY <1>1, <3>1, <3>3, <3>5, McpAssumption
    <3> QED BY <3>2, <3>4, <3>5
  <2>3. TypeOK'
    BY <1>0, <1>1, <1>4, <1>7, <1>9, <2>1, <2>2 DEF TypeOK
  <2>4. PcShape' /\ SessionHasProcess' /\ Counted'
    BY <1>0, <1>1, <1>4, <2>1, <2>2 DEF PcShape, SessionHasProcess, Counted, IInv, Base
  <2> QED BY <1>5, <1>7, <1>8, <2>3, <2>4 DEF IInv, Base
<1> QED BY <1>10, <1>11

(* execute returns with an outcome and leaves the session in a state, keeping
   its process or dropping it. *)
LEMMA ReturnInv ==
  ASSUME IInv, UNCHANGED <<config, cur, spawned, faults, ran>>, pc # "idle", pc' = "idle",
         active' = FALSE,
         NEW outcome \in Outcome \ {"Busy"}, result' = [result EXCEPT ![cur] = outcome],
         NEW state \in {"Failed", "Invalid", "Ready"}, session' = IF Persists THEN state ELSE "None",
         state = "Ready" => pc = "callwait",
         \/ Drop /\ (Persists => state # "Ready")
         \/ /\ Persists /\ UNCHANGED <<pid, proc, handshaken, next_id, inbox>>
            /\ out' = out \/ (out # <<>> /\ out' = Tail(out)),
         fallout' \in {fallout, fallout + 1, 0}, clean' \in BOOLEAN,
         answer' \in [Exec -> Exec \cup {0}], OwnAnswer'
  PROVE  IInv'
<1>0. TypeOK /\ PcShape /\ Traffic /\ Counted /\ NeverBusy /\ SessionHasProcess
  BY DEF IInv, Base
<1>1. Profile' = Profile /\ Mode' = Mode /\ Persists' = Persists
  BY DEF Profile, Mode, Persists
<1>2. Written \subseteq Written' /\ ~Calling'
  BY DEF Written, Calling
<1>3. fallout' \in 0..MaxExec /\ fallout' <= cur' /\ spawned' <= cur'
  <2>1. fallout \in 0..MaxExec /\ cur \in 0..MaxExec /\ fallout < cur /\ spawned <= cur
    BY <1>0 DEF TypeOK, Counted
  <2> QED BY <2>1, McpAssumption
<1>4. /\ result' \in [Exec -> Outcome \cup {"none"}] /\ NeverBusy'
  BY <1>0 DEF TypeOK, NeverBusy
<1>5. session' \in ProtocolSessionState \cup {"None"} /\ session' # "New"
      /\ (Mode = "Ephemeral" => session' = "None")
  BY <1>0, ConfigType DEF ProtocolSessionState
<1>6. CASE Drop /\ (Persists => state # "Ready")
  <2>1. Traffic'
    BY <1>0, <1>2, <1>6, DroppedTraffic DEF Drop, Traffic
  <2>2. inbox' \in Seq(Request) /\ out' \in Seq(Line) /\ next_id' \in Nat
    BY <1>6, Emptied DEF Drop
  <2>3. pid' = 0 /\ pid' \in 0..MaxExec /\ proc' = "none" /\ handshaken' = FALSE
    BY <1>6, McpAssumption DEF Drop
  <2>4. TypeOK'
    BY <1>0, <1>3, <1>4, <1>5, <2>2, <2>3 DEF TypeOK
  <2>5. PcShape' /\ SessionHasProcess' /\ Counted'
    BY <1>1, <1>3, <1>5, <1>6, <2>3 DEF PcShape, SessionHasProcess, Counted
  <2> QED BY <1>4, <2>1, <2>4, <2>5 DEF IInv, Base
<1>7. CASE /\ Persists /\ UNCHANGED <<pid, proc, handshaken, next_id, inbox>>
           /\ out' = out \/ (out # <<>> /\ out' = Tail(out))
  <2>1. Traffic'
    BY <1>0, <1>2, <1>7, ReadTraffic
  <2>2. out' \in Seq(Line)
    BY <1>0, <1>7, Shorter DEF TypeOK
  <2>3. TypeOK'
    BY <1>0, <1>3, <1>4, <1>5, <1>7, <2>2 DEF TypeOK
  <2>4. PcShape' /\ Counted'
    BY <1>1, <1>3, <1>5, <1>7 DEF PcShape, Counted
  <2>5. SessionHasProcess'
    <3>1. session' = "Ready" => session = "Ready"
      BY <1>0, <1>7 DEF PcShape, Persists
    <3> QED BY <1>0, <1>1, <1>7, <3>1 DEF SessionHasProcess
  <2> QED BY <1>4, <2>1, <2>3, <2>4, <2>5 DEF IInv, Base
<1> QED BY <1>6, <1>7

LEMMA FinishShape ==
  ASSUME NEW outcome, NEW state, Finish(outcome, state)
  PROVE  /\ UNCHANGED <<spawned, cur, faults, clean>> /\ pc' = "idle" /\ active' = FALSE
         /\ result' = [result EXCEPT ![cur] = outcome]
         /\ session' = IF Persists THEN state ELSE "None"
         /\ fallout' \in {fallout, fallout + 1, 0}
BY DEF Finish

(* execute fails, below the protocol or in time. *)
LEMMA FailureInv ==
  IInv /\ UNCHANGED config /\ (Timeout \/ \E outcome \in Outcome : InitFails(outcome) \/ CallFails(outcome))
     => IInv'
<1> SUFFICES ASSUME IInv, UNCHANGED config,
                    Timeout \/ \E outcome \in Outcome : InitFails(outcome) \/ CallFails(outcome)
             PROVE  IInv'
  OBVIOUS
<1>0. TypeOK /\ PcShape /\ Traffic /\ OwnAnswer /\ clean \in BOOLEAN
      /\ result \in [Exec -> Outcome \cup {"none"}] /\ answer \in [Exec -> Exec \cup {0}]
  BY DEF IInv, Base, TypeOK
<1>1. ASSUME NEW outcome \in Outcome \ {"Ok"}, result' = [result EXCEPT ![cur] = outcome],
             ran' = ran, answer' = answer
      PROVE  OwnAnswer'
  <2>1. \A e \in Exec : result'[e] = "Ok" => result[e] = "Ok"
    BY <1>0, <1>1
  <2> QED BY <1>0, <1>1, <2>1, OtherResults DEF OwnAnswer
<1>2. CASE Timeout
  <2>1. /\ UNCHANGED <<cur, spawned, faults, ran, answer>> /\ pc # "idle" /\ pc' = "idle"
        /\ active' = FALSE /\ result' = [result EXCEPT ![cur] = "Timeout"] /\ Drop
        /\ fallout' \in {fallout, fallout + 1, 0} /\ clean' \in BOOLEAN
        /\ \E state \in {"Failed", "Invalid"} : session' = IF Persists THEN state ELSE "None"
    BY <1>2 DEF Timeout, Waiting
  <2>2. "Timeout" \in Outcome \ {"Busy"} /\ "Timeout" \in Outcome \ {"Ok"}
    BY DEF Outcome
  <2>3. OwnAnswer'
    BY <1>1, <2>1, <2>2
  <2> QED BY <1>0, <2>1, <2>2, <2>3, ReturnInv
<1>3. ASSUME NEW outcome \in Outcome, InitFails(outcome)
      PROVE  IInv'
  <2>1. outcome \in {"Violation", "Crashed", "Unavailable"} /\ pc # "idle"
    BY <1>3 DEF InitFails, ReadError, WriteError
  <2>2. Finish(outcome, "Failed") /\ Drop /\ UNCHANGED <<answer, ran>>
    BY <1>3 DEF InitFails
  <2>3. outcome \in Outcome \ {"Busy"} /\ outcome \in Outcome \ {"Ok"}
    BY <2>1
  <2>4. OwnAnswer'
    BY <1>1, <2>2, <2>3, FinishShape
  <2> QED BY <1>0, <2>1, <2>2, <2>3, <2>4, FinishShape, ReturnInv
<1>4. ASSUME NEW outcome \in Outcome, CallFails(outcome)
      PROVE  IInv'
  <2>1. outcome \in {"Violation", "Crashed", "Unavailable"} /\ pc # "idle"
    BY <1>4 DEF CallFails, ReadError, WriteError
  <2>2. Finish(outcome, "Invalid") /\ UNCHANGED <<answer, ran>>
    BY <1>4 DEF CallFails
  <2>3. outcome \in Outcome \ {"Busy"} /\ outcome \in Outcome \ {"Ok"}
    BY <2>1
  <2>4. OwnAnswer'
    BY <1>1, <2>2, <2>3, FinishShape
  <2>5. CASE Drop
    BY <1>0, <2>1, <2>2, <2>3, <2>4, <2>5, FinishShape, ReturnInv
  <2>6. CASE /\ Persists /\ UNCHANGED <<pid, proc, handshaken, next_id, inbox>>
             /\ out' = out \/ (out # <<>> /\ out' = Tail(out))
    BY <1>0, <2>1, <2>2, <2>3, <2>4, <2>6, FinishShape, ReturnInv
  <2> QED BY <1>4, <2>5, <2>6 DEF CallFails
<1> QED BY <1>2, <1>3, <1>4

(* The answer to a call. *)
LEMMA AnsweredInv == IInv /\ UNCHANGED config /\ CallAnswered => IInv'
<1> SUFFICES ASSUME IInv, UNCHANGED config, CallAnswered PROVE IInv'
  OBVIOUS
<1> DEFINE kind == Head(out).kind
           outcome == call_tool(kind)
           state == IF kind \in {"ok", "business"} THEN "Ready" ELSE "Invalid"
<1>0. /\ TypeOK /\ Traffic /\ OwnAnswer /\ clean \in BOOLEAN /\ out \in Seq(Line)
      /\ result \in [Exec -> Outcome \cup {"none"}] /\ answer \in [Exec -> Exec \cup {0}]
  BY DEF IInv, Base, TypeOK
<1>1. /\ pc = "callwait" /\ out # <<>> /\ Answers(Head(out)) /\ Head(out).id = next_id
      /\ ran' = ran /\ Finish(outcome, state)
      /\ answer' = IF kind = "ok" THEN [answer EXCEPT ![cur] = Head(out).exec] ELSE answer
  BY DEF CallAnswered, Mine, Answers
<1>2. cur \in Exec
  BY <1>1 DEF IInv, Base, Counted, TypeOK, Exec
<1>3. Head(out).exec = cur /\ ran[cur] = 1
  <2>1. Head(out) = out[1] /\ 1 \in 1..Len(out)
    BY <1>0, <1>1, EmptySeq
  <2>2. Answers(out[1]) /\ out[1].id = next_id
    BY <1>1, <2>1
  <2>3. out[1].exec = cur /\ ran[cur] = 1
    BY <1>0, <1>1, <2>1, <2>2 DEF Traffic, Awaited, Calling
  <2> QED BY <2>1, <2>3
<1>4. outcome \in Outcome \ {"Busy"} /\ (outcome = "Ok" <=> kind = "ok")
  BY DEF call_tool, Outcome
<1>5. answer' \in [Exec -> Exec \cup {0}]
  BY <1>0, <1>1, <1>2, <1>3
<1>6. OwnAnswer'
  <2>1. result' = [result EXCEPT ![cur] = outcome]
    BY <1>1, FinishShape
  <2>2. ASSUME NEW e \in Exec
        PROVE  /\ answer'[e] \in {0, e} /\ ran'[e] <= 1
               /\ result'[e] = "Ok" => answer'[e] = e /\ ran'[e] = 1
    <3>1. answer[e] \in {0, e} /\ ran[e] <= 1 /\ (result[e] = "Ok" => answer[e] = e /\ ran[e] = 1)
      BY <1>0 DEF OwnAnswer
    <3>2. CASE e # cur
      BY <1>0, <1>1, <1>2, <2>1, <3>1, <3>2
    <3>3. CASE e = cur
      <4>1. result'[e] = outcome /\ answer'[e] = IF kind = "ok" THEN cur ELSE answer[e]
        BY <1>0, <1>1, <1>2, <1>3, <2>1, <3>3
      <4> QED BY <1>1, <1>3, <1>4, <3>1, <3>3, <4>1
    <3> QED BY <3>2, <3>3
  <2> QED BY <2>2 DEF OwnAnswer
<1>7. CASE Drop /\ ~Persists
  BY <1>0, <1>1, <1>4, <1>5, <1>6, <1>7, FinishShape, ReturnInv
<1>8. CASE /\ Persists /\ UNCHANGED <<pid, proc, handshaken, next_id, inbox>>
           /\ out' = out \/ (out # <<>> /\ out' = Tail(out))
  BY <1>0, <1>1, <1>4, <1>5, <1>6, <1>8, FinishShape, ReturnInv
<1> QED BY <1>1, <1>7, <1>8 DEF CallAnswered

(* A step of execute that returns nothing and starts nothing. *)
LEMMA OnwardInv ==
  ASSUME IInv, UNCHANGED <<config, pid, proc, spawned, cur, result, answer, ran, faults, clean, fallout>>,
         pc # "idle",
         pc' \in {"init", "initwrite", "initwait", "call", "callwrite", "callwait"},
         handshaken' \in {handshaken, TRUE},
         next_id' \in Nat, inbox' \in Seq(Request), out' \in Seq(Line), Traffic',
         session' \in {session, "Ready", "None"}, active' \in BOOLEAN, PcShape', SessionHasProcess'
  PROVE  IInv'
<1>1. TypeOK'
  BY DEF IInv, Base, TypeOK, ProtocolSessionState
<1>2. Counted' /\ NeverBusy' /\ OwnAnswer'
  BY DEF IInv, Base, Counted, NeverBusy, OwnAnswer
<1> QED BY <1>1, <1>2 DEF IInv, Base

LEMMA WriteInv == IInv /\ UNCHANGED config /\ (WriteInit \/ WriteCall \/ SkipNote \/ InitOk) => IInv'
<1> SUFFICES ASSUME IInv, UNCHANGED config, WriteInit \/ WriteCall \/ SkipNote \/ InitOk PROVE IInv'
  OBVIOUS
<1>0. /\ TypeOK /\ PcShape /\ Traffic /\ SessionHasProcess /\ next_id \in Nat
      /\ out \in Seq(Line) /\ inbox \in Seq(Request) /\ active \in BOOLEAN
  BY DEF IInv, Base, TypeOK
<1>1. pc # "idle" /\ UNCHANGED <<pid, proc, spawned, cur, result, answer, ran, faults, clean, fallout>>
      /\ cur \in Exec /\ Profile' = Profile /\ Mode' = Mode /\ Persists' = Persists
  BY DEF WriteInit, WriteCall, SkipNote, InitOk, Waiting, IInv, Base, TypeOK, Counted, Exec,
         Profile, Mode, Persists
<1>2. ASSUME NEW method, Send(method) PROVE next_id' \in Nat
  BY <1>0, <1>2 DEF Send
<1>3. CASE WriteInit
  <2>1. Traffic' /\ inbox' \in Seq(Request) /\ out' \in Seq(Line) /\ next_id' \in Nat
    BY <1>0, <1>1, <1>2, <1>3, SentTraffic DEF WriteInit, Calling
  <2>2. PcShape' /\ SessionHasProcess'
    BY <1>0, <1>1, <1>3 DEF WriteInit, PcShape, SessionHasProcess
  <2> QED BY <1>0, <1>1, <1>3, <2>1, <2>2, OnwardInv DEF WriteInit
<1>4. CASE WriteCall
  <2>1. Traffic' /\ inbox' \in Seq(Request) /\ out' \in Seq(Line) /\ next_id' \in Nat
    BY <1>0, <1>1, <1>2, <1>4, SentTraffic DEF WriteCall, Calling
  <2>2. PcShape' /\ SessionHasProcess'
    BY <1>0, <1>1, <1>4 DEF WriteCall, PcShape, SessionHasProcess
  <2> QED BY <1>0, <1>1, <1>4, <2>1, <2>2, OnwardInv DEF WriteCall
<1>5. CASE SkipNote
  <2>1. Written \subseteq Written'
    BY <1>1, <1>5 DEF SkipNote, Written, Calling
  <2>2. Traffic' /\ inbox' \in Seq(Request) /\ out' \in Seq(Line)
    BY <1>0, <1>1, <1>5, <2>1, ReadTraffic, Shorter DEF SkipNote, Calling
  <2>3. PcShape' /\ SessionHasProcess'
    BY <1>0, <1>1, <1>5 DEF SkipNote, PcShape, SessionHasProcess
  <2> QED BY <1>0, <1>1, <1>5, <2>2, <2>3, OnwardInv DEF SkipNote, Waiting
<1>6. CASE InitOk
  <2>1. Traffic' /\ inbox' \in Seq(Request) /\ out' \in Seq(Line) /\ next_id' \in Nat
    BY <1>0, <1>1, <1>2, <1>6, SentTraffic DEF InitOk, Mine, Calling
  <2>2. PcShape'
    BY <1>0, <1>1, <1>6, ConfigType DEF InitOk, PcShape
  <2>3. SessionHasProcess'
    BY <1>0, <1>1, <1>6 DEF InitOk, PcShape, SessionHasProcess
  <2>4. session' \in {session, "Ready", "None"} /\ active' \in BOOLEAN /\ pc' = "call" /\ handshaken' = TRUE
    BY <1>6 DEF InitOk
  <2> QED BY <1>0, <1>1, <2>1, <2>2, <2>3, <2>4, OnwardInv
<1> QED BY <1>3, <1>4, <1>5, <1>6

-----------------------------------------------------------------------------
(* The server touches the pipes, the process and the history only. *)
LEMMA ServerTouches ==
  ASSUME IInv, UNCHANGED <<config, pid, handshaken, next_id, spawned, session, active, pc, cur, result, answer>>,
         proc \in {"up", "mute"}, proc' \in {"up", "mute", "exited"},
         inbox' \in Seq(Request), out' \in Seq(Line), Traffic',
         ran' \in [Exec -> Nat], \A e \in Exec : ran[e] = 1 => ran'[e] = 1,
         \/ UNCHANGED <<faults, clean, fallout>>
         \/ Count /\ UNCHANGED <<clean, fallout>>
         \/ Fault
  PROVE  IInv'
<1>0. TypeOK /\ PcShape /\ SessionHasProcess /\ NeverBusy /\ Counted /\ OwnAnswer
  BY DEF IInv, Base
<1>1. /\ faults' \in 0..MaxFaults /\ clean' \in BOOLEAN /\ fallout' \in {fallout, 0}
  <2>1. faults \in 0..MaxFaults /\ clean \in BOOLEAN
    BY <1>0 DEF TypeOK
  <2>2. CASE UNCHANGED <<faults, clean, fallout>>
    BY <2>1, <2>2
  <2>3. CASE Count /\ UNCHANGED <<clean, fallout>>
    BY <2>1, <2>3, McpAssumption DEF Count
  <2>4. CASE Fault
    <3>1. clean' = FALSE /\ fallout' = 0 /\ faults < MaxFaults /\ faults' = faults + 1
      BY <2>4 DEF Fault, Count
    <3>2. faults' \in 0..MaxFaults
      BY <2>1, <3>1, McpAssumption
    <3> QED BY <3>1, <3>2
  <2> QED BY <2>2, <2>3, <2>4
<1>2. Profile' = Profile /\ Mode' = Mode /\ Persists' = Persists
  BY DEF Profile, Mode, Persists
<1>3. fallout' \in 0..MaxExec /\ Counted'
  BY <1>0, <1>1, McpAssumption DEF TypeOK, Counted
<1>4. TypeOK'
  BY <1>0, <1>1, <1>3 DEF TypeOK
<1>5. PcShape' /\ SessionHasProcess' /\ NeverBusy'
  BY <1>0, <1>2 DEF PcShape, SessionHasProcess, NeverBusy
<1>6. OwnAnswer'
  BY <1>0, OtherResults DEF Traffic, CallsOnce
<1> QED BY <1>3, <1>4, <1>5, <1>6 DEF IInv, Base

LEMMA ServerInv == IInv /\ Server => IInv'
<1> SUFFICES ASSUME IInv, Server PROVE IInv'
  OBVIOUS
<1>0. /\ TypeOK /\ Traffic /\ UNCHANGED config /\ inbox \in Seq(Request) /\ out \in Seq(Line)
      /\ ran \in [Exec -> Nat] /\ (Calling => cur \in Exec)
  BY DEF IInv, Base, TypeOK, Server, Counted, Exec, Calling
<1>1. CASE Serve
  <2>1. /\ UNCHANGED <<pid, proc, handshaken, next_id, spawned, session, active, pc, cur, result, answer>>
        /\ proc \in {"up", "mute"} /\ inbox # <<>> /\ inbox' = Tail(inbox)
        /\ ran' = IF Head(inbox).method = "call"
                  THEN [ran EXCEPT ![Head(inbox).exec] = @ + 1] ELSE ran
        /\ \/ out' = out
           \/ \E kind \in {"ok", "business", "invalid", "refused"} :
                 out' = Append(out, [id |-> Head(inbox).id, kind |-> kind,
                                     exec |-> Head(inbox).exec])
        /\ UNCHANGED <<faults, clean, fallout>> \/ Fault
    BY <1>1 DEF Serve, Reply
  <2>2. /\ Traffic' /\ inbox' \in Seq(Request) /\ out' \in Seq(Line)
        /\ ran' \in [Exec -> Nat] /\ \A e \in Exec : ran[e] = 1 => ran'[e] = 1
    BY <1>0, <2>1, ServedTraffic
  <2> QED BY <1>0, <2>1, <2>2, ServerTouches
<1>2. CASE Notify \/ Babble
  <2>1. /\ UNCHANGED <<pid, proc, handshaken, next_id, inbox, spawned, session, active, pc, cur,
                        result, answer, ran>>
        /\ proc = "up"
        /\ \E kind \in {"note", "stray"} :
              out' = Append(out, [id |-> 0, kind |-> kind, exec |-> 0])
        /\ (Count /\ UNCHANGED <<clean, fallout>>) \/ Fault
    BY <1>2 DEF Notify, Babble
  <2>2. Traffic' /\ inbox' \in Seq(Request) /\ out' \in Seq(Line)
    BY <1>0, <2>1, ServedTraffic
  <2> QED BY <1>0, <2>1, <2>2, ServerTouches
<1>3. CASE Dies("mute") \/ Dies("exited")
  <2>1. /\ UNCHANGED <<pid, handshaken, next_id, out, spawned, session, active, pc, cur,
                        result, answer, ran>>
        /\ proc \in {"up", "mute"} /\ proc' \in {"mute", "exited"} /\ inbox' \in {inbox, <<>>} /\ Fault
    BY <1>3 DEF Dies
  <2>2. Written \subseteq Written' /\ inbox' \in Seq(Request)
    BY <1>0, <2>1, Emptied DEF Written, Calling
  <2>3. Traffic'
    BY <1>0, <2>1, <2>2, ReadTraffic DEF Calling
  <2> QED BY <1>0, <2>1, <2>2, <2>3, ServerTouches
<1>4. CASE Drain
  <2>1. /\ UNCHANGED <<config, transport, spawned, session, active, cur, result, answer,
                        ran, faults, clean, fallout>>
        /\ \/ pc = "initwrite" /\ pc' = "initwait"
           \/ pc = "callwrite" /\ pc' = "callwait"
    BY <1>0, <1>4 DEF Drain, Blocked
  <2>2. Traffic'
    BY <1>0, <2>1 DEF Traffic, IdsIssued, CallsOnce, Awaited, Written, Calling, transport
  <2>3. PcShape' /\ SessionHasProcess'
    BY <2>1 DEF IInv, Base, PcShape, SessionHasProcess, Profile, Mode, Persists, transport
  <2>4. /\ next_id' \in Nat /\ inbox' \in Seq(Request) /\ out' \in Seq(Line)
        /\ active' \in BOOLEAN /\ handshaken' = handshaken
    BY <1>0, <2>1 DEF TypeOK, transport
  <2> QED BY <2>1, <2>2, <2>3, <2>4, OnwardInv DEF transport
<1> QED BY <1>1, <1>2, <1>3, <1>4 DEF Server

-----------------------------------------------------------------------------
(* Every action preserves the inductive invariant. *)
LEMMA StepInv == IInv /\ [Next]_allvars => IInv'
<1> SUFFICES ASSUME IInv, [Next]_allvars PROVE IInv'
  OBVIOUS
<1>1. CASE Execute
  BY <1>1, BeginInv, WriteInv, AnsweredInv, FailureInv DEF Execute
<1>2. CASE Server
  BY <1>2, ServerInv
<1>3. CASE UNCHANGED allvars
  BY <1>3 DEF allvars, transport, IInv, Base, Traffic, TypeOK, Counted, PcShape, SessionHasProcess,
     NeverBusy, IdsIssued, CallsOnce, Awaited, OwnAnswer, Written, Calling, Profile, Mode, Persists
<1> QED BY <1>1, <1>2, <1>3 DEF Next

THEOREM Invariance == Spec => []IInv
BY InitInv, StepInv, PTL DEF Spec

(* Every variable keeps its type; the counters stay within the executions. *)
THEOREM TypeCorrect == Spec => []TypeOK
<1>1. IInv => TypeOK
  BY DEF IInv, Base
<1> QED BY <1>1, Invariance, PTL

(* execute: a result belongs to its own call and the server performs each
   execution at most once (INV-RUNTIME-002, INV-MCP-SESSION-004). *)
THEOREM AnswerSafety == Spec => []OwnAnswer
<1>1. IInv => OwnAnswer
  BY DEF IInv
<1> QED BY <1>1, Invariance, PTL

(* acquire_operation: the slot is free whenever no execution is in progress, so
   no caller is ever turned away as Busy. *)
THEOREM SlotSafety == Spec => []SlotReleased
<1>1. IInv => SlotReleased
  BY DEF IInv, Base, PcShape, NeverBusy, SlotReleased
<1> QED BY <1>1, Invariance, PTL

(* The registry and the transport cache agree: a Ready session has a process,
   and with the 2025 profile one that has been initialized. *)
THEOREM ReadySafety == Spec => []ReadyIsHandshaken
<1>1. IInv => ReadyIsHandshaken
  BY DEF IInv, Base, SessionHasProcess, ReadyIsHandshaken
<1> QED BY <1>1, Invariance, PTL
=============================================================================
