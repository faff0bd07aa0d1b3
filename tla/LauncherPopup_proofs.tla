------------------------ MODULE LauncherPopup_proofs ------------------------
(***************************************************************************)
(* Proofs about LauncherPopup, for any texts, lists, actions and plans of    *)
(* the user: it implements SearchSession, and a confirmation is only good    *)
(* in the context it was asked for in.                                       *)
(***************************************************************************)
EXTENDS LauncherPopup, SequenceTheorems, TLAPS

Text == Queries \cup {Empty}

Thread ==
    [kind : {"timer"}, q : Text, epoch : Nat]
      \cup [kind : {"dispatch", "search"}, q : Text]
      \cup [kind : {"begun"}, q : Text, id : Nat]
      \cup [kind : {"refresh", "gather", "suggest"}, id : Nat]
      \cup [kind : {"recent", "icons", "execute"}]

Closures ==
    {"hotkey", "tray", "publish", "recent", "context", "icons", "close_and_restore"} \X Nat

(* Searches that have begun, and answers on their way to the screen. *)
Begun(ts, i) == i \in DOMAIN ts /\ ts[i].kind = "begun"
Asked(cs, i) == i \in DOMAIN cs /\ cs[i][1] = "publish"

OneThreadEach(ts)  == \A i, j \in DOMAIN ts : Begun(ts, i) /\ Begun(ts, j) /\ ts[i].id = ts[j].id => i = j
OneClosureEach(cs) == \A i, j \in DOMAIN cs : Asked(cs, i) /\ Asked(cs, j) /\ cs[i][2] = cs[j][2] => i = j

BegunIds(ts) == {ts[i].id : i \in {k \in DOMAIN ts : ts[k].kind = "begun"}}
AskedIds(cs) == {cs[i][2] : i \in {k \in DOMAIN cs : cs[k][1] = "publish"}}

(* The number of a search that the screen has not answered is held once: by
   its thread or by its closure. *)
Numbered ==
    /\ OneThreadEach(threads) /\ OneClosureEach(uiq)
    /\ BegunIds(threads) \subseteq 1 .. session /\ AskedIds(uiq) \subseteq 1 .. session
    /\ BegunIds(threads) \cap AskedIds(uiq) = {}
    /\ published \notin BegunIds(threads) \cup AskedIds(uiq)

Traffic == threads \in Seq(Thread) /\ uiq \in Seq(Closures)

PendingIsCurrent == pending # None => pending.context = contextGen

IInv == TypeOK /\ Traffic /\ Numbered /\ PendingIsCurrent /\ ConfirmedInContext

-----------------------------------------------------------------------------
(* Sequences of threads and of closures. *)

LEMMA ThreadFields ==
  ASSUME NEW t \in Thread
  PROVE  /\ t.kind \in {"timer", "dispatch", "search"} => t.q \in Text
         /\ t.kind = "begun" => t.q \in Text /\ t.id \in Nat
         /\ t.kind \in {"refresh", "gather", "suggest"} =>
               t \in [kind : {"refresh", "gather", "suggest"}, id : Nat]
BY DEF Thread

LEMMA RemoveAtShape ==
  ASSUME NEW S, NEW s \in Seq(S), NEW i \in 1 .. Len(s)
  PROVE  /\ RemoveAt(s, i) \in Seq(S) /\ Len(RemoveAt(s, i)) = Len(s) - 1
         /\ \A j \in 1 .. Len(s) - 1 : RemoveAt(s, i)[j] = IF j < i THEN s[j] ELSE s[j + 1]
<1> DEFINE a == SubSeq(s, 1, i - 1)
           b == SubSeq(s, i + 1, Len(s))
<1>1. Len(s) \in Nat /\ \A j \in 1 .. Len(s) : s[j] \in S
  BY LenProperties, ElementOfSeq
<1>2. /\ a \in Seq(S) /\ Len(a) = i - 1
      /\ \A j \in 1 .. i - 1 : a[j] = s[j]
  <2>1. 1 \in Int /\ i - 1 \in Int /\ \A j \in 1 .. i - 1 : s[j] \in S
    BY <1>1
  <2>2. /\ a \in Seq(S) /\ Len(a) = IF 1 <= i - 1 THEN (i - 1) - 1 + 1 ELSE 0
        /\ \A j \in 1 .. (i - 1) - 1 + 1 : a[j] = s[1 + j - 1]
    BY <2>1, SubSeqProperties
  <2> QED BY <1>1, <2>2
<1>3. /\ b \in Seq(S) /\ Len(b) = Len(s) - i
      /\ \A j \in 1 .. Len(s) - i : b[j] = s[i + j]
  <2>1. i + 1 \in Int /\ Len(s) \in Int /\ \A j \in i + 1 .. Len(s) : s[j] \in S
    BY <1>1
  <2>2. /\ b \in Seq(S) /\ Len(b) = IF i + 1 <= Len(s) THEN Len(s) - (i + 1) + 1 ELSE 0
        /\ \A j \in 1 .. Len(s) - (i + 1) + 1 : b[j] = s[(i + 1) + j - 1]
    BY <2>1, SubSeqProperties
  <2> QED BY <1>1, <2>2
<1>4. RemoveAt(s, i) = a \o b
  BY DEF RemoveAt
<1> HIDE DEF a, b
<1>5. /\ a \o b \in Seq(S) /\ Len(a \o b) = Len(a) + Len(b)
      /\ \A j \in 1 .. Len(a) + Len(b) : (a \o b)[j] = IF j <= Len(a) THEN a[j] ELSE b[j - Len(a)]
  BY <1>2, <1>3, ConcatProperties
<1>6. Len(a \o b) = Len(s) - 1
  BY <1>1, <1>2, <1>3, <1>5
<1>7. \A j \in 1 .. Len(s) - 1 : (a \o b)[j] = IF j < i THEN s[j] ELSE s[j + 1]
  <2>1. TAKE j \in 1 .. Len(s) - 1
  <2>2. (a \o b)[j] = IF j <= i - 1 THEN a[j] ELSE b[j - (i - 1)]
    BY <1>1, <1>2, <1>3, <1>5
  <2>3. CASE j < i
    BY <1>1, <1>2, <2>2, <2>3
  <2>4. CASE ~(j < i)
    <3>1. j - (i - 1) \in 1 .. Len(s) - i /\ i + (j - (i - 1)) = j + 1
      BY <1>1, <2>4
    <3> QED BY <1>1, <1>3, <2>2, <2>4, <3>1
  <2> QED BY <2>3, <2>4
<1> QED BY <1>4, <1>5, <1>6, <1>7

LEMMA AppendThread ==
  ASSUME NEW ts \in Seq(Thread), OneThreadEach(ts), NEW t \in Thread, t.kind # "begun"
  PROVE  /\ Append(ts, t) \in Seq(Thread) /\ OneThreadEach(Append(ts, t))
         /\ BegunIds(Append(ts, t)) = BegunIds(ts)
<1> DEFINE us == Append(ts, t)
<1>1. /\ us \in Seq(Thread) /\ Len(us) = Len(ts) + 1 /\ us[Len(ts) + 1] = t
      /\ \A i \in 1 .. Len(ts) : us[i] = ts[i]
      /\ DOMAIN us = 1 .. Len(us) /\ DOMAIN ts = 1 .. Len(ts) /\ Len(ts) \in Nat
  BY AppendProperties, LenProperties
<1> HIDE DEF us
<1>2. \A i : Begun(us, i) <=> Begun(ts, i)
  BY <1>1 DEF Begun
<1>3. \A i : Begun(us, i) => us[i] = ts[i]
  BY <1>1, <1>2 DEF Begun
<1>4. OneThreadEach(us)
  BY <1>2, <1>3 DEF OneThreadEach, Begun
<1>5. BegunIds(us) = BegunIds(ts)
  BY <1>2, <1>3 DEF BegunIds, Begun
<1> QED BY <1>1, <1>4, <1>5 DEF us

LEMMA ReplaceThread ==
  ASSUME NEW ts \in Seq(Thread), OneThreadEach(ts), NEW i \in DOMAIN ts,
         NEW t \in Thread, t.kind # "begun"
  PROVE  LET us == [ts EXCEPT ![i] = t]
         IN  /\ us \in Seq(Thread) /\ OneThreadEach(us)
             /\ BegunIds(us) \subseteq BegunIds(ts)
<1> DEFINE us == [ts EXCEPT ![i] = t]
<1>1. /\ us \in Seq(Thread) /\ us[i] = t /\ DOMAIN us = DOMAIN ts
      /\ \A j \in DOMAIN ts \ {i} : us[j] = ts[j]
  BY ExceptSeq, LenProperties
<1> HIDE DEF us
<1>2. \A j : Begun(us, j) => Begun(ts, j) /\ us[j] = ts[j]
  BY <1>1 DEF Begun
<1>3. OneThreadEach(us)
  BY <1>2 DEF OneThreadEach, Begun
<1>4. BegunIds(us) \subseteq BegunIds(ts)
  BY <1>2 DEF BegunIds, Begun
<1> QED BY <1>1, <1>3, <1>4 DEF us

LEMMA RemoveThread ==
  ASSUME NEW ts \in Seq(Thread), OneThreadEach(ts), NEW i \in DOMAIN ts
  PROVE  LET us == RemoveAt(ts, i)
         IN  /\ us \in Seq(Thread) /\ OneThreadEach(us)
             /\ BegunIds(us) \subseteq BegunIds(ts)
             /\ Begun(ts, i) => ts[i].id \notin BegunIds(us)
<1> DEFINE us == RemoveAt(ts, i)
           old(j) == IF j < i THEN j ELSE j + 1
<1>1. /\ DOMAIN ts = 1 .. Len(ts) /\ Len(ts) \in Nat /\ i \in 1 .. Len(ts)
      /\ us \in Seq(Thread) /\ Len(us) = Len(ts) - 1 /\ DOMAIN us = 1 .. Len(us)
      /\ \A j \in 1 .. Len(ts) - 1 : us[j] = IF j < i THEN ts[j] ELSE ts[j + 1]
  BY RemoveAtShape, LenProperties
<1> HIDE DEF us
<1>2. /\ \A j : Begun(us, j) => Begun(ts, old(j)) /\ us[j] = ts[old(j)] /\ old(j) # i
      /\ \A j, k \in DOMAIN us : old(j) = old(k) => j = k
  BY <1>1 DEF Begun
<1> HIDE DEF old
<1>3. OneThreadEach(us)
  BY <1>2 DEF OneThreadEach, Begun
<1>4. BegunIds(us) \subseteq BegunIds(ts)
  BY <1>2 DEF BegunIds, Begun
<1>5. Begun(ts, i) => ts[i].id \notin BegunIds(us)
  BY <1>2 DEF OneThreadEach, BegunIds, Begun
<1> QED BY <1>1, <1>3, <1>4, <1>5 DEF us

LEMMA AppendClosure ==
  ASSUME NEW cs \in Seq(Closures), OneClosureEach(cs), NEW c \in Closures,
         c[1] = "publish" => c[2] \notin AskedIds(cs)
  PROVE  LET ds == Append(cs, c)
         IN  /\ ds \in Seq(Closures) /\ OneClosureEach(ds)
             /\ AskedIds(ds) = AskedIds(cs) \cup (IF c[1] = "publish" THEN {c[2]} ELSE {})
<1> DEFINE ds == Append(cs, c)
           n == Len(cs) + 1
<1>1. /\ ds \in Seq(Closures) /\ Len(ds) = n /\ ds[n] = c /\ Len(cs) \in Nat
      /\ \A i \in 1 .. Len(cs) : ds[i] = cs[i]
      /\ DOMAIN ds = 1 .. Len(ds) /\ DOMAIN cs = 1 .. Len(cs)
  BY AppendProperties, LenProperties
<1>2. DOMAIN ds = DOMAIN cs \cup {n} /\ n \notin DOMAIN cs
  BY <1>1
<1>3. \A i \in DOMAIN cs : ds[i] = cs[i]
  BY <1>1
<1> HIDE DEF ds, n
<1>4. OneClosureEach(ds)
  <2>1. SUFFICES ASSUME NEW i, NEW j, Asked(ds, i), Asked(ds, j), ds[i][2] = ds[j][2]
                 PROVE  i = j
    BY DEF OneClosureEach
  <2>2. \A k \in DOMAIN cs : Asked(ds, k) => cs[k][2] \in AskedIds(cs)
    BY <1>3 DEF AskedIds, Asked
  <2>3. CASE i \in DOMAIN cs /\ j \in DOMAIN cs
    BY <1>3, <2>1, <2>3 DEF OneClosureEach, Asked
  <2>4. CASE i = n \/ j = n
    BY <1>1, <1>2, <1>3, <2>1, <2>2, <2>4 DEF Asked
  <2> QED BY <1>2, <2>1, <2>3, <2>4 DEF Asked
<1>5. AskedIds(ds) = AskedIds(cs) \cup (IF c[1] = "publish" THEN {c[2]} ELSE {})
  <2>1. \A i : Asked(ds, i) <=> Asked(cs, i) \/ (i = n /\ c[1] = "publish")
    BY <1>1, <1>2, <1>3 DEF Asked
  <2>2. \A i : Asked(cs, i) => ds[i][2] = cs[i][2]
    BY <1>3 DEF Asked
  <2>3. AskedIds(ds) = {ds[i][2] : i \in {k \in DOMAIN ds : Asked(ds, k)}}
    BY DEF AskedIds, Asked
  <2>4. AskedIds(cs) = {cs[i][2] : i \in {k \in DOMAIN cs : Asked(cs, k)}}
    BY DEF AskedIds, Asked
  <2>5. CASE c[1] = "publish"
    BY <1>1, <1>2, <2>1, <2>2, <2>3, <2>4, <2>5 DEF Asked
  <2>6. CASE c[1] # "publish"
    BY <1>1, <1>2, <2>1, <2>2, <2>3, <2>4, <2>6 DEF Asked
  <2> QED BY <2>5, <2>6
<1> QED BY <1>1, <1>4, <1>5 DEF ds

LEMMA FirstClosure ==
  ASSUME NEW cs \in Seq(Closures), OneClosureEach(cs), cs # <<>>
  PROVE  /\ Tail(cs) \in Seq(Closures) /\ OneClosureEach(Tail(cs))
         /\ Head(cs) \in Closures /\ AskedIds(Tail(cs)) \subseteq AskedIds(cs)
         /\ Head(cs)[1] = "publish" =>
               Head(cs)[2] \in AskedIds(cs) /\ Head(cs)[2] \notin AskedIds(Tail(cs))
<1> DEFINE ds == Tail(cs)
<1>1. /\ ds \in Seq(Closures) /\ Head(cs) \in Closures /\ Head(cs) = cs[1]
      /\ Len(ds) = Len(cs) - 1 /\ Len(cs) \in Nat \ {0}
      /\ \A i \in 1 .. Len(ds) : ds[i] = cs[i + 1]
      /\ DOMAIN ds = 1 .. Len(ds) /\ DOMAIN cs = 1 .. Len(cs)
  BY HeadTailProperties, LenProperties, EmptySeq
<1> HIDE DEF ds
<1>2. \A i : Asked(ds, i) => i \in Nat \ {0} /\ Asked(cs, i + 1) /\ ds[i] = cs[i + 1]
  BY <1>1 DEF Asked
<1>3. OneClosureEach(ds)
  <2>1. SUFFICES ASSUME NEW i, NEW j, Asked(ds, i), Asked(ds, j), ds[i][2] = ds[j][2]
                 PROVE  i = j
    BY DEF OneClosureEach
  <2>2. i + 1 = j + 1 /\ i \in Nat /\ j \in Nat
    BY <1>2, <2>1 DEF OneClosureEach, Asked
  <2> QED BY <2>2
<1>4. AskedIds(ds) \subseteq AskedIds(cs)
  <2>1. SUFFICES ASSUME NEW i, Asked(ds, i) PROVE ds[i][2] \in AskedIds(cs)
    BY DEF AskedIds, Asked
  <2>2. Asked(cs, i + 1) /\ ds[i] = cs[i + 1]
    BY <1>2, <2>1
  <2> QED BY <2>2 DEF AskedIds, Asked
<1>5. ASSUME Head(cs)[1] = "publish"
      PROVE  Head(cs)[2] \in AskedIds(cs) /\ Head(cs)[2] \notin AskedIds(ds)
  <2>1. Asked(cs, 1)
    BY <1>1, <1>5 DEF Asked
  <2>2. ASSUME NEW i, Asked(ds, i) PROVE ds[i][2] # cs[1][2]
    <3>1. i + 1 # 1 /\ Asked(cs, i + 1) /\ ds[i] = cs[i + 1]
      BY <1>2, <2>2
    <3>2. cs[i + 1][2] # cs[1][2]
      BY <2>1, <3>1 DEF OneClosureEach, Asked
    <3> QED BY <3>1, <3>2
  <2> QED BY <1>1, <2>1, <2>2 DEF AskedIds, Asked
<1> QED BY <1>1, <1>3, <1>4, <1>5 DEF ds

-----------------------------------------------------------------------------
(* The traffic of every step. *)

(* Threads come, change and end, but no search begins. *)
ThreadsOrdinary ==
    \/ UNCHANGED threads
    \/ \E t \in Thread : t.kind # "begun" /\ threads' = Append(threads, t)
    \/ \E i \in DOMAIN threads, t \in Thread : t.kind # "begun" /\ Becomes(i, t)
    \/ \E i \in DOMAIN threads : Ends(i)

(* Closures come and go, but none with an answer comes. *)
ClosuresOrdinary ==
    \/ UNCHANGED uiq
    \/ \E c \in Closures : c[1] # "publish" /\ uiq' = Append(uiq, c)
    \/ uiq # <<>> /\ uiq' = Tail(uiq)

LEMMA ThreadsOrdinaryOK ==
  ASSUME Traffic, Numbered, ThreadsOrdinary
  PROVE  /\ threads' \in Seq(Thread) /\ OneThreadEach(threads')
         /\ BegunIds(threads') \subseteq BegunIds(threads)
<1> USE DEF Traffic, Numbered
<1>1. CASE UNCHANGED threads
  BY <1>1
<1>2. CASE \E t \in Thread : t.kind # "begun" /\ threads' = Append(threads, t)
  BY <1>2, AppendThread
<1>3. CASE \E i \in DOMAIN threads, t \in Thread : t.kind # "begun" /\ Becomes(i, t)
  <2>1. PICK i \in DOMAIN threads, t \in Thread : t.kind # "begun" /\ Becomes(i, t)
    BY <1>3
  <2>2. threads' = [threads EXCEPT ![i] = t]
    BY <2>1 DEF Becomes
  <2>3. threads \in Seq(Thread) /\ OneThreadEach(threads)
    OBVIOUS
  <2> QED BY <2>1, <2>2, <2>3, ReplaceThread
<1>4. CASE \E i \in DOMAIN threads : Ends(i)
  <2>1. PICK i \in DOMAIN threads : threads' = RemoveAt(threads, i)
    BY <1>4 DEF Ends
  <2>2. threads \in Seq(Thread) /\ OneThreadEach(threads)
    OBVIOUS
  <2> QED BY <2>1, <2>2, RemoveThread
<1> QED BY <1>1, <1>2, <1>3, <1>4 DEF ThreadsOrdinary

LEMMA ClosuresOrdinaryOK ==
  ASSUME Traffic, Numbered, ClosuresOrdinary
  PROVE  /\ uiq' \in Seq(Closures) /\ OneClosureEach(uiq')
         /\ AskedIds(uiq') \subseteq AskedIds(uiq)
<1> USE DEF Traffic, Numbered
<1>1. CASE UNCHANGED uiq
  BY <1>1
<1>2. CASE \E c \in Closures : c[1] # "publish" /\ uiq' = Append(uiq, c)
  BY <1>2, AppendClosure
<1>3. CASE uiq # <<>> /\ uiq' = Tail(uiq)
  BY <1>3, FirstClosure
<1> QED BY <1>1, <1>2, <1>3 DEF ClosuresOrdinary

LEMMA OrdinaryTraffic ==
  ASSUME IInv, ThreadsOrdinary, ClosuresOrdinary, session' \in {session, session + 1},
         UNCHANGED published
  PROVE  Traffic' /\ Numbered'
<1>1. session \in Nat
  BY DEF IInv, TypeOK
<1>2. 1 .. session \subseteq 1 .. session'
  BY <1>1
<1>3. /\ threads' \in Seq(Thread) /\ OneThreadEach(threads')
      /\ BegunIds(threads') \subseteq BegunIds(threads)
  BY ThreadsOrdinaryOK DEF IInv
<1>4. /\ uiq' \in Seq(Closures) /\ OneClosureEach(uiq')
      /\ AskedIds(uiq') \subseteq AskedIds(uiq)
  BY ClosuresOrdinaryOK DEF IInv
<1> QED BY <1>2, <1>3, <1>4 DEF IInv, Traffic, Numbered

LEMMA SpawnOK ==
  ASSUME NEW t \in Thread, t.kind # "begun", Spawn(t)
  PROVE  ThreadsOrdinary
BY DEF ThreadsOrdinary, Spawn

LEMMA PostOK ==
  ASSUME NEW c \in Closures, c[1] # "publish", Post(c)
  PROVE  ClosuresOrdinary
BY DEF ClosuresOrdinary, Post

(* The threads that keys, timers and closures start. *)
LEMMA NewThreads ==
  /\ \A q \in Text : /\ Search(q) \in Thread /\ Search(q).kind = "search"
                     /\ [kind |-> "dispatch", q |-> q] \in Thread
                     /\ \A n \in Nat : /\ [kind |-> "timer", q |-> q, epoch |-> n] \in Thread
                                       /\ [kind |-> "begun", q |-> q, id |-> n] \in Thread
  /\ \A k \in {"recent", "icons", "execute"} : [kind |-> k] \in Thread
  /\ \A n \in Nat : \A k \in {"refresh", "gather", "suggest"} : [kind |-> k, id |-> n] \in Thread
BY DEF Thread, Search

LEMMA KeyTraffic ==
  ASSUME IInv, UserStep
  PROVE  Traffic' /\ Numbered'
<1>1. /\ epoch \in Nat /\ session \in Nat /\ parent \in Text
  BY DEF IInv, TypeOK, Text
<1>2. UNCHANGED published /\ session' \in {session, session + 1}
  BY DEF UserStep, Press, Key, on_query_changed, Enter, on_action_shortcut, on_nav_requested,
         on_panel_toggled, on_panel_closed, on_dismissed, on_plugin_context_requested,
         on_plugin_context_exited, Summon
<1>3. ThreadsOrdinary
  <2>1. ASSUME NEW q \in Text, on_query_changed(q) PROVE ThreadsOrdinary
    <3>1. CASE q # Empty
      <4> DEFINE t == [kind |-> "timer", q |-> q, epoch |-> epoch + 1]
      <4>1. epoch + 1 \in Nat
        BY <1>1
      <4>2. t \in Thread /\ t.kind # "begun"
        BY <4>1, NewThreads
      <4>3. Spawn(t)
        BY <2>1, <3>1 DEF on_query_changed
      <4> QED BY <4>2, <4>3, SpawnOK
    <3>2. CASE q = Empty
      <4> DEFINE t == IF uiState = "PluginContext" THEN Search(q) ELSE [kind |-> "recent"]
      <4>1. t \in Thread /\ t.kind # "begun" /\ Spawn(t)
        BY <2>1, <3>2, NewThreads DEF on_query_changed
      <4> QED BY <4>1, SpawnOK
    <3> QED BY <3>1, <3>2
  <2>3. ASSUME NEW a, Enter(a) \/ on_action_shortcut(a) PROVE ThreadsOrdinary
    BY <2>3 DEF Enter, on_action_shortcut, ThreadsOrdinary
  <2>4. CASE \/ on_nav_requested \/ on_panel_toggled \/ on_panel_closed \/ on_dismissed
             \/ \E how \in {"hotkey", "tray"} : Summon(how)
    BY <2>4 DEF ThreadsOrdinary, on_nav_requested, on_panel_toggled, on_panel_closed,
                on_dismissed, Summon
  <2>5. CASE on_plugin_context_requested
    <3>1. Spawn(Search(Empty)) /\ Empty \in Text
      BY <2>5 DEF on_plugin_context_requested, Text
    <3> QED BY <3>1, NewThreads, SpawnOK
  <2>6. CASE on_plugin_context_exited
    <3> DEFINE q == IF uiState = "PluginContext" THEN parent ELSE Empty
               t == IF q = Empty THEN [kind |-> "recent"] ELSE Search(q)
    <3>1. Spawn(t) /\ q \in Text
      BY <1>1, <2>6 DEF on_plugin_context_exited, Text
    <3>2. t \in Thread /\ t.kind # "begun"
      BY <3>1, NewThreads
    <3> QED BY <3>1, <3>2, SpawnOK
  <2> QED BY <2>1, <2>3, <2>4, <2>5, <2>6 DEF UserStep, Text
<1>4. ClosuresOrdinary
  <2>1. ASSUME NEW how \in {"hotkey", "tray"}, Summon(how) PROVE ClosuresOrdinary
    <3>1. <<how, session + 1>> \in Closures /\ Post(<<how, session + 1>>)
      BY <1>1, <2>1 DEF Closures, Summon
    <3> QED BY <3>1, PostOK
  <2>2. CASE ~ \E how \in {"hotkey", "tray"} : Summon(how)
    BY <2>2 DEF ClosuresOrdinary, UserStep, on_query_changed, Enter, on_action_shortcut,
         on_nav_requested, on_panel_toggled, on_panel_closed, on_dismissed,
         on_plugin_context_requested, on_plugin_context_exited
  <2> QED BY <2>1, <2>2
<1> QED BY <1>2, <1>3, <1>4, OrdinaryTraffic

(* A callback starts the thread of its action, and no other. *)
LEMMA CallbackTraffic ==
  ASSUME IInv, Callback
  PROVE  Traffic' /\ Numbered' /\ UNCHANGED <<session, published>>
<1>1. UNCHANGED <<session, published, uiq>>
  BY DEF Callback, LookUp, context_is_stale, Resolve, Confirm, Continue
<1>2. UNCHANGED threads \/ Spawn([kind |-> "execute"])
  BY DEF Callback, LookUp, context_is_stale, Resolve, Confirm
<1>3. ThreadsOrdinary
  BY <1>2, NewThreads, SpawnOK DEF ThreadsOrdinary
<1> QED BY <1>1, <1>3, OrdinaryTraffic DEF ClosuresOrdinary

LEMMA EndsOK ==
  ASSUME NEW i \in DOMAIN threads, Ends(i)
  PROVE  ThreadsOrdinary
BY DEF ThreadsOrdinary

LEMMA BecomesOK ==
  ASSUME NEW i \in DOMAIN threads, NEW t \in Thread, t.kind # "begun", Becomes(i, t)
  PROVE  ThreadsOrdinary
BY DEF ThreadsOrdinary

(* The one step by which a search takes a number, a new one. *)
LEMMA BeginTraffic ==
  ASSUME IInv, NEW i \in DOMAIN threads, begin(i)
  PROVE  Traffic' /\ Numbered'
<1> DEFINE n == session + 1
           t == [kind |-> "begun", q |-> threads[i].q, id |-> n]
<1>1. /\ session \in Nat /\ published \in 0 .. session /\ threads \in Seq(Thread)
      /\ uiq \in Seq(Closures) /\ threads[i].kind = "search"
      /\ session' = n /\ threads' = [threads EXCEPT ![i] = t]
      /\ UNCHANGED <<uiq, published>>
  BY DEF IInv, TypeOK, Traffic, begin, Becomes, Is, Background, app
<1>2. DOMAIN threads = 1 .. Len(threads) /\ threads[i] \in Thread
  BY <1>1, LenProperties, ElementOfSeq
<1>3. n \in Nat /\ t \in Thread /\ t.kind = "begun" /\ t.id = n
  <2>1. n \in Nat /\ threads[i].q \in Text
    BY <1>1, <1>2, ThreadFields
  <2> QED BY <2>1, NewThreads
<1> HIDE DEF t
<1>4. /\ threads' \in Seq(Thread) /\ threads'[i] = t /\ DOMAIN threads' = DOMAIN threads
      /\ \A j \in DOMAIN threads \ {i} : threads'[j] = threads[j]
  BY <1>1, <1>2, <1>3, ExceptSeq
<1>5. \A j : Begun(threads', j) =>
        (j = i /\ threads'[j].id = n) \/ (Begun(threads, j) /\ threads'[j] = threads[j])
  BY <1>3, <1>4 DEF Begun
<1>6. /\ n \notin BegunIds(threads) /\ n \notin AskedIds(uiq) /\ n # published
      /\ 1 .. session \subseteq 1 .. n /\ n \in 1 .. n
  BY <1>1 DEF IInv, Numbered
<1>7. \A j : Begun(threads, j) => threads[j].id \in BegunIds(threads)
  BY DEF Begun, BegunIds
<1>8. OneThreadEach(threads')
  BY <1>5, <1>6, <1>7 DEF IInv, Numbered, OneThreadEach, Begun
<1>9. BegunIds(threads') \subseteq BegunIds(threads) \cup {n}
  BY <1>5, <1>7 DEF BegunIds, Begun
<1>10. Numbered'
  BY <1>1, <1>6, <1>8, <1>9 DEF IInv, Numbered
<1> QED BY <1>1, <1>4, <1>10 DEF Traffic

(* A search returns: its number goes from the thread to the closure, or is
   dropped. *)
LEMMA ReturnTraffic ==
  ASSUME IInv, NEW i \in DOMAIN threads, SearchReturns(i)
  PROVE  Traffic' /\ Numbered'
<1> DEFINE id == threads[i].id
           c == <<"publish", id>>
<1>1. /\ session \in Nat /\ threads \in Seq(Thread) /\ uiq \in Seq(Closures)
      /\ Begun(threads, i) /\ threads' = RemoveAt(threads, i)
      /\ UNCHANGED <<session, published>> /\ (UNCHANGED uiq \/ uiq' = Append(uiq, c))
  BY DEF IInv, TypeOK, Traffic, SearchReturns, Ends, Post, Is, Background, Begun
<1>2. id \in BegunIds(threads) /\ id \in 1 .. session /\ id \notin AskedIds(uiq) /\ id # published
  BY <1>1 DEF IInv, Numbered, BegunIds, Begun
<1>3. /\ threads' \in Seq(Thread) /\ OneThreadEach(threads')
      /\ BegunIds(threads') \subseteq BegunIds(threads) /\ id \notin BegunIds(threads')
  BY <1>1, RemoveThread DEF IInv, Numbered
<1>4. c \in Closures /\ c[1] = "publish" /\ c[2] = id
  BY <1>1, <1>2 DEF Closures
<1> HIDE DEF c, id
<1>5. CASE UNCHANGED uiq
  BY <1>1, <1>3, <1>5 DEF IInv, Traffic, Numbered
<1>6. CASE uiq' = Append(uiq, c)
  <2>1. /\ uiq' \in Seq(Closures) /\ OneClosureEach(uiq')
        /\ AskedIds(uiq') = AskedIds(uiq) \cup {id}
    BY <1>1, <1>2, <1>4, <1>6, AppendClosure DEF IInv, Numbered
  <2> QED BY <1>1, <1>2, <1>3, <2>1 DEF IInv, Traffic, Numbered
<1> QED BY <1>1, <1>5, <1>6

LEMMA ThreadTraffic ==
  ASSUME IInv, NEW i \in DOMAIN threads, ThreadStep(i), ~begin(i), ~SearchReturns(i)
  PROVE  Traffic' /\ Numbered' /\ UNCHANGED <<session, published>>
<1> DEFINE t == threads[i]
<1>1. /\ epoch \in Nat /\ session \in Nat /\ t \in Thread
      /\ t.kind \in {"timer", "dispatch", "search"} => t.q \in Text
      /\ t.kind \in {"refresh", "gather", "suggest"} =>
            t \in [kind : {"refresh", "gather", "suggest"}, id : Nat]
  <2>1. threads \in Seq(Thread)
    BY DEF IInv, Traffic
  <2>2. t \in Thread
    BY <2>1, LenProperties, ElementOfSeq
  <2> QED BY <2>2, ThreadFields DEF IInv, TypeOK
<1>2. UNCHANGED <<session, published>>
  BY DEF ThreadStep, TimerFires, spawn_search_or_recent, SearchLocks, spawn_recent, NewContext,
         Gathered, Suggest, spawn_icon_refresh, ExecuteReturns, Background
<1>3. ThreadsOrdinary
  <2>1. CASE TimerFires(i)
    <3>1. Becomes(i, [kind |-> "dispatch", q |-> t.q]) \/ Ends(i)
      BY <2>1 DEF TimerFires
    <3>2. t.q \in Text
      BY <1>1, <2>1 DEF TimerFires, Is
    <3> QED BY <3>1, <3>2, NewThreads, EndsOK, BecomesOK
  <2>2. CASE spawn_search_or_recent(i)
    <3>1. Becomes(i, Search(t.q)) /\ t.q \in Text
      BY <1>1, <2>2 DEF spawn_search_or_recent, Is
    <3> QED BY <3>1, NewThreads, BecomesOK
  <2>3. CASE SearchLocks(i)
    BY <2>3 DEF SearchLocks, ThreadsOrdinary
  <2>4. CASE spawn_recent(i) \/ Suggest(i) \/ spawn_icon_refresh(i) \/ ExecuteReturns(i)
    BY <2>4, EndsOK DEF spawn_recent, Suggest, spawn_icon_refresh, ExecuteReturns
  <2>5. CASE NewContext(i)
    <3> DEFINE u == [t EXCEPT !.kind = "gather"]
    <3>1. Becomes(i, u) /\ t.kind = "refresh"
      BY <2>5 DEF NewContext, Is
    <3>2. u \in [kind : {"refresh", "gather", "suggest"}, id : Nat] /\ u.kind = "gather"
      BY <1>1, <3>1
    <3> HIDE DEF u
    <3> QED BY <3>1, <3>2, BecomesOK DEF Thread
  <2>6. CASE Gathered(i)
    <3> DEFINE u == [t EXCEPT !.kind = "suggest"]
    <3>1. (Becomes(i, u) \/ Ends(i)) /\ t.kind = "gather"
      BY <2>6 DEF Gathered, Is
    <3>2. u \in [kind : {"refresh", "gather", "suggest"}, id : Nat] /\ u.kind = "suggest"
      BY <1>1, <3>1
    <3> HIDE DEF u
    <3> QED BY <3>1, <3>2, EndsOK, BecomesOK DEF Thread
  <2> QED BY <2>1, <2>2, <2>3, <2>4, <2>5, <2>6 DEF ThreadStep
<1>4. ClosuresOrdinary
  <2>1. CASE spawn_recent(i)
    <3>1. Post(<<"recent", 0>>) /\ <<"recent", 0>> \in Closures
      BY <2>1 DEF spawn_recent, Closures
    <3> QED BY <3>1, PostOK
  <2>2. CASE Suggest(i)
    <3>1. Post(<<"context", t.id>>) /\ <<"context", t.id>> \in Closures
      BY <1>1, <2>2 DEF Suggest, Is, Closures
    <3> QED BY <3>1, PostOK
  <2>3. CASE spawn_icon_refresh(i)
    <3>1. /\ Post(<<"icons", 0>>) \/ UNCHANGED uiq
          /\ <<"icons", 0>> \in Closures
      BY <2>3 DEF spawn_icon_refresh, Closures
    <3> QED BY <3>1, PostOK DEF ClosuresOrdinary
  <2>4. CASE ExecuteReturns(i)
    <3>1. /\ Post(<<"close_and_restore", 0>>) \/ UNCHANGED uiq
          /\ <<"close_and_restore", 0>> \in Closures
      BY <2>4 DEF ExecuteReturns, Closures
    <3> QED BY <3>1, PostOK DEF ClosuresOrdinary
  <2>5. CASE TimerFires(i) \/ spawn_search_or_recent(i) \/ SearchLocks(i) \/ NewContext(i) \/ Gathered(i)
    BY <2>5 DEF ClosuresOrdinary, TimerFires, spawn_search_or_recent, SearchLocks, NewContext, Gathered
  <2> QED BY <2>1, <2>2, <2>3, <2>4, <2>5 DEF ThreadStep
<1> QED BY <1>2, <1>3, <1>4, OrdinaryTraffic

LEMMA LoopTraffic ==
  ASSUME IInv, EventLoop
  PROVE  /\ Traffic' /\ Numbered' /\ UNCHANGED session
         /\ UNCHANGED published \/ published' \in published + 1 .. session
<1> DEFINE c == Head(uiq)
           ds == Tail(uiq)
<1>1. uiq # <<>> /\ uiq' = ds /\ UNCHANGED session
  BY DEF EventLoop, Publish, PublishRecent, PublishContext, PublishIcons, close_and_restore,
         Hotkey, Tray, Closure, Loop
<1>2. /\ session \in Nat /\ published \in 0 .. session
      /\ threads \in Seq(Thread) /\ uiq \in Seq(Closures)
  BY DEF IInv, TypeOK, Traffic
<1>3. /\ ds \in Seq(Closures) /\ OneClosureEach(ds) /\ c \in Closures
      /\ AskedIds(ds) \subseteq AskedIds(uiq)
      /\ c[1] = "publish" => c[2] \in AskedIds(uiq) /\ c[2] \notin AskedIds(ds)
  BY <1>1, <1>2, FirstClosure DEF IInv, Numbered
<1>4. c[2] \in Nat
  BY <1>3 DEF Closures
<1> HIDE DEF ds
<1>5. ClosuresOrdinary
  BY <1>1 DEF ClosuresOrdinary, ds
<1>6. ThreadsOrdinary
  <2>1. \/ UNCHANGED threads \/ Spawn([kind |-> "icons"])
        \/ Spawn([kind |-> "refresh", id |-> c[2]])
    BY DEF EventLoop, Publish, PublishRecent, PublishContext, PublishIcons, close_and_restore,
           Hotkey, Tray, Closure
  <2> QED BY <1>4, <2>1, NewThreads, SpawnOK DEF ThreadsOrdinary
<1>7. CASE UNCHANGED published
  BY <1>1, <1>5, <1>6, <1>7, OrdinaryTraffic
<1>8. CASE published' # published
  <2>1. c[1] = "publish" /\ c[2] = session /\ published' = c[2]
    BY <1>8 DEF EventLoop, Publish, PublishRecent, PublishContext, PublishIcons,
                close_and_restore, Hotkey, Tray, Closure, is_current
  <2>2. c[2] \notin BegunIds(threads) /\ c[2] # published
    BY <1>3, <2>1 DEF IInv, Numbered
  <2>3. /\ threads' \in Seq(Thread) /\ OneThreadEach(threads')
        /\ BegunIds(threads') \subseteq BegunIds(threads)
    BY <1>6, ThreadsOrdinaryOK DEF IInv
  <2>4. published' \in published + 1 .. session
    BY <1>2, <2>1, <2>2
  <2>5. Traffic' /\ Numbered'
    BY <1>1, <1>3, <2>1, <2>2, <2>3 DEF IInv, Traffic, Numbered
  <2> QED BY <1>1, <2>4, <2>5
<1> QED BY <1>7, <1>8

-----------------------------------------------------------------------------
(* What keys, threads and closures do to the lists and to the confirmation. *)

LEMMA ViewsExist ==
  /\ <<"recent", Empty>> \in Views /\ <<"context", Empty>> \in Views
  /\ <<"none", Empty>> \in Views /\ <<"scope", Empty>> \in Views
  /\ \A q \in Text : <<"search", q>> \in Views
  /\ \A view \in Views : Len(Answers[view]) \in Nat
BY PopupAssumption, LenProperties DEF Views, Text

LEMMA PressOK ==
  ASSUME TypeOK, NEW k, Press(k)
  PROVE  /\ quota' \in [DOMAIN quota' -> Nat]
         /\ UNCHANGED <<published, rows, contextGen, resultsGen, results, lastQuery>>
<1>1. /\ quota \in [DOMAIN quota -> Nat] /\ k \in DOMAIN quota /\ quota[k] > 0
      /\ quota' = [quota EXCEPT ![k] = @ - 1]
  BY DEF TypeOK, Press
<1>2. quota[k] \in Nat /\ quota[k] - 1 \in Nat
  BY <1>1
<1>3. quota' \in [DOMAIN quota -> Nat] /\ DOMAIN quota' = DOMAIN quota
  BY <1>1, <1>2
<1> QED BY <1>3 DEF Press

LEMMA KeyType ==
  ASSUME IInv, UserStep
  PROVE  TypeOK'
<1> USE DEF IInv, TypeOK
<1>1. /\ quota' \in [DOMAIN quota' -> Nat]
      /\ UNCHANGED <<published, rows, contextGen, resultsGen, results, lastQuery>>
      /\ busy' = None \/ busy'.at \in {"lookup", "context", "resolve", "confirm"}
  <2>1. /\ quota' \in [DOMAIN quota' -> Nat]
        /\ UNCHANGED <<published, rows, contextGen, resultsGen, results, lastQuery>>
    BY PressOK DEF UserStep, Key, on_query_changed, Enter, on_action_shortcut, on_nav_requested,
         on_panel_toggled, on_panel_closed, on_dismissed, on_plugin_context_requested,
         on_plugin_context_exited, Summon
  <2>2. UNCHANGED busy \/ \E c, a : \E at \in {"lookup", "context"} : busy' = [at |-> at, of |-> <<c, a>>]
    <3>1. ASSUME NEW a, Enter(a)
          PROVE  \E c : \E at \in {"lookup", "context"} : busy' = [at |-> at, of |-> <<c, a>>]
      BY <3>1 DEF Enter
    <3>2. ASSUME NEW a, on_action_shortcut(a) PROVE busy' = [at |-> "lookup", of |-> <<None, a>>]
      BY <3>2 DEF on_action_shortcut
    <3>3. ASSUME ~ \E a : Enter(a) \/ on_action_shortcut(a) PROVE UNCHANGED busy
      BY <3>3 DEF UserStep, Key, on_query_changed, on_nav_requested, on_panel_toggled,
         on_panel_closed, on_dismissed, on_plugin_context_requested, on_plugin_context_exited, Summon
    <3> QED BY <3>1, <3>2, <3>3
  <2> QED BY <2>1, <2>2
<1>2. ASSUME NEW q \in Queries \cup {Empty}, on_query_changed(q) PROVE TypeOK'
  <2>1. /\ text' = q /\ epoch' = epoch + 1
        /\ UNCHANGED <<parent, session, selected, index, pending, uiState, roots, inScope, panel,
                       visible>>
    BY <1>2 DEF on_query_changed
  <2> QED BY <1>1, <1>2, <2>1
<1>4. ASSUME NEW a, Enter(a) PROVE TypeOK'
  BY <1>1, <1>4 DEF Enter
<1>5. ASSUME NEW a, on_action_shortcut(a) PROVE TypeOK'
  BY <1>1, <1>5 DEF on_action_shortcut
<1>6. CASE on_nav_requested
  <2>1. PICK n \in 0 .. Len(Answers[results.view]) - 1 :
            selected' = n /\ index' = IF n < Len(Answers[rows]) THEN n ELSE Len(Answers[rows]) - 1
    BY <1>6 DEF on_nav_requested
  <2>2. Len(Answers[results.view]) \in Nat /\ Len(Answers[rows]) \in Nat
    BY ViewsExist
  <2>3. selected' < Len(Answers[results.view]) /\ index' < Len(Answers[rows])
    BY <2>1, <2>2
  <2> QED BY <1>1, <1>6, <2>3 DEF on_nav_requested
<1>7. CASE on_panel_toggled
  BY <1>1, <1>7 DEF on_panel_toggled, enter_overlay
<1>8. CASE on_panel_closed
  <2>1. /\ panel' = FALSE /\ pending' = None
        /\ UNCHANGED <<parent, text, epoch, session, selected, index, inScope, visible>>
    BY <1>8 DEF on_panel_closed
  <2>2. /\ uiState' \in {"Closed", "Search", "ActionPanel", "PluginContext"}
        /\ roots' \in Nat
    BY <1>8 DEF on_panel_closed, escape
  <2> QED BY <1>1, <2>1, <2>2
<1>9. CASE on_dismissed
  BY <1>1, <1>9 DEF on_dismissed
<1>10. CASE on_plugin_context_requested
  <2>1. /\ inScope' = TRUE /\ text' = Empty /\ parent' \in Queries \cup {Empty}
        /\ UNCHANGED <<epoch, session, selected, index, pending, roots, panel, visible>>
    BY <1>10 DEF on_plugin_context_requested
  <2>2. uiState' \in {"Closed", "Search", "ActionPanel", "PluginContext"}
    BY <1>10 DEF on_plugin_context_requested, enter_overlay
  <2> QED BY <1>1, <2>1, <2>2
<1>11. CASE on_plugin_context_exited
  <2>1. /\ inScope' = FALSE /\ text' \in Queries \cup {Empty}
        /\ UNCHANGED <<parent, epoch, session, selected, index, pending, panel, visible>>
    BY <1>11 DEF on_plugin_context_exited
  <2>2. /\ uiState' \in {"Closed", "Search", "ActionPanel", "PluginContext"}
        /\ roots' \in Nat
    BY <1>11 DEF on_plugin_context_exited, escape
  <2> QED BY <1>1, <2>1, <2>2
<1>12. ASSUME NEW how \in {"hotkey", "tray"}, Summon(how) PROVE TypeOK'
  BY <1>1, <1>12 DEF Summon
<1> QED BY <1>2, <1>4, <1>5, <1>6, <1>7, <1>8, <1>9, <1>10, <1>11, <1>12 DEF UserStep

LEMMA CallbackType ==
  ASSUME IInv, Callback
  PROVE  TypeOK'
<1>0. TypeOK
  BY DEF IInv
<1>1. UNCHANGED <<text, rows, index, inScope, panel, visible, epoch, session, results, selected,
                  contextGen, resultsGen, uiState, roots, lastQuery, parent, quota, published>>
  BY DEF Callback, LookUp, context_is_stale, Resolve, Confirm, Continue, window
<1>2. pending' = None \/ pending'.context \in Nat
  BY <1>0 DEF TypeOK, Callback, LookUp, context_is_stale, Resolve, Confirm
<1>3. busy' = None \/ busy'.at \in {"lookup", "context", "resolve", "confirm"}
  BY DEF Callback, LookUp, context_is_stale, Resolve, Confirm, Continue
<1>4. TypeOK => TypeOK'
  BY <1>1, <1>2, <1>3 DEF TypeOK
<1> QED BY <1>0, <1>4

LEMMA SetResultsOK ==
  ASSUME IInv, NEW view \in Views, SetResults(view), UNCHANGED contextGen
  PROVE  /\ results' \in [view : Views, context : Nat] /\ resultsGen' = contextGen'
         /\ selected' = 0
BY DEF IInv, TypeOK, SetResults

LEMMA ThreadType ==
  ASSUME IInv, NEW i \in DOMAIN threads, ThreadStep(i)
  PROVE  TypeOK'
<1> USE DEF IInv, TypeOK
<1>1. UNCHANGED <<quota, text, rows, index, inScope, panel, visible, published, epoch, busy,
                  confirmed,                  uiState, roots, parent>>
  BY DEF ThreadStep, TimerFires, spawn_search_or_recent, begin, SearchLocks, SearchReturns,
         spawn_recent, NewContext, Gathered, Suggest, spawn_icon_refresh, ExecuteReturns, Background
<1>2. threads[i] \in Thread
  BY LenProperties, ElementOfSeq DEF Traffic
<1>3. CASE \/ TimerFires(i) \/ spawn_search_or_recent(i) \/ SearchLocks(i) \/ Gathered(i)
           \/ spawn_icon_refresh(i) \/ ExecuteReturns(i)
  <2>1. UNCHANGED <<session, results, selected, contextGen, resultsGen, pending, lastQuery>>
    BY <1>3 DEF TimerFires, spawn_search_or_recent, SearchLocks, Gathered, spawn_icon_refresh,
                ExecuteReturns, app
  <2> QED BY <1>1, <2>1
<1>4. CASE begin(i)
  <2>1. session' = session + 1
        /\ UNCHANGED <<results, selected, contextGen, resultsGen, pending, lastQuery>>
    BY <1>4 DEF begin, app
  <2> QED BY <1>1, <2>1
<1>5. CASE SearchReturns(i)
  <2>1. /\ lastQuery' \in Queries \cup {Empty}
        /\ UNCHANGED <<session, contextGen, pending>>
    BY <1>2, <1>5, ThreadFields DEF SearchReturns, Is, Text
  <2>2. \/ UNCHANGED <<results, selected, resultsGen>>
        \/ \E view \in Views : SetResults(view)
    BY <1>2, <1>5, ThreadFields, ViewsExist DEF SearchReturns, Is
  <2>3. CASE UNCHANGED <<results, selected, resultsGen>>
    BY <1>1, <2>1, <2>3
  <2>4. CASE \E view \in Views : SetResults(view)
    BY <1>1, <2>1, <2>4, SetResultsOK
  <2> QED BY <2>2, <2>3, <2>4
<1>6. CASE spawn_recent(i)
  <2>1. SetResults(<<"recent", Empty>>) /\ UNCHANGED <<lastQuery, contextGen, pending, session>>
    BY <1>6 DEF spawn_recent
  <2> QED BY <1>1, <2>1, ViewsExist, SetResultsOK
<1>7. CASE NewContext(i)
  <2>1. /\ contextGen' = contextGen + 1 /\ resultsGen' = contextGen' /\ pending' = None
        /\ UNCHANGED <<lastQuery, results, selected, session>>
    BY <1>7 DEF NewContext
  <2> QED BY <1>1, <2>1
<1>8. CASE Suggest(i)
  <2>1. UNCHANGED <<lastQuery, contextGen, resultsGen, pending, session>>
    BY <1>8 DEF Suggest
  <2>2. \/ UNCHANGED <<results, selected>>
        \/ results' = [view |-> <<"context", Empty>>, context |-> contextGen] /\ selected' = 0
    BY <1>8 DEF Suggest
  <2>3. CASE UNCHANGED <<results, selected>>
    BY <1>1, <2>1, <2>3
  <2>4. CASE results' = [view |-> <<"context", Empty>>, context |-> contextGen] /\ selected' = 0
    <3>1. results' \in [view : Views, context : Nat]
      BY <2>4, ViewsExist
    <3> QED BY <1>1, <2>1, <2>4, <3>1
  <2> QED BY <2>2, <2>3, <2>4
<1> QED BY <1>3, <1>4, <1>5, <1>6, <1>7, <1>8 DEF ThreadStep

LEMMA LoopType ==
  ASSUME IInv, EventLoop
  PROVE  TypeOK'
<1> USE DEF IInv, TypeOK
<1>1. UNCHANGED <<quota, busy, epoch, session, results, selected, contextGen, resultsGen, pending,
                  lastQuery, parent>>
  BY DEF EventLoop, Publish, PublishRecent, PublishContext, PublishIcons, close_and_restore,
         Hotkey, Tray, Closure, Loop
<1>2. published' \in 0 .. session'
  BY <1>1, LoopTraffic
<1>3. /\ text' \in Queries \cup {Empty} /\ inScope' \in BOOLEAN /\ panel' \in BOOLEAN
      /\ visible' \in BOOLEAN
  BY DEF EventLoop, Publish, PublishRecent, PublishContext, PublishIcons, close_and_restore,
         Hotkey, Tray
<1>4. /\ rows' \in Views /\ (index' = 0 \/ index' < Len(Answers[rows']))
  BY ViewsExist DEF EventLoop, Publish, PublishRecent, PublishContext, PublishIcons,
                    close_and_restore, Hotkey, Tray, Show
<1>5. /\ uiState' \in {"Closed", "Search", "ActionPanel", "PluginContext"} /\ roots' \in Nat
  BY DEF EventLoop, Publish, PublishRecent, PublishContext, PublishIcons, close_and_restore,
         Hotkey, Tray, open_root
<1> QED BY <1>1, <1>2, <1>3, <1>4, <1>5

(* A confirmation is armed in the context of the moment, and only a new
   context, which drops it, changes that. *)
LEMMA ConfirmationStep ==
  ASSUME IInv, Next
  PROVE  PendingIsCurrent' /\ ConfirmedInContext'
<1> USE DEF IInv, PendingIsCurrent, ConfirmedInContext
<1>1. ASSUME UNCHANGED <<contextGen, confirmed>>, pending' = None \/ UNCHANGED pending
      PROVE  PendingIsCurrent' /\ ConfirmedInContext'
  BY <1>1
<1>2. CASE UserStep
  <2>1. UNCHANGED <<contextGen, confirmed>> /\ (pending' = None \/ UNCHANGED pending)
    BY <1>2 DEF UserStep, Press, Key, Enter, on_action_shortcut, on_query_changed, on_nav_requested,
         on_panel_toggled, on_panel_closed, on_dismissed, on_plugin_context_requested,
         on_plugin_context_exited, Summon
  <2> QED BY <1>1, <2>1
<1>3. CASE Confirm
  BY <1>3 DEF Confirm, Continue
<1>4. CASE Callback /\ ~Confirm
  BY <1>1, <1>4 DEF Callback, LookUp, context_is_stale, Resolve, Continue
<1>5. ASSUME NEW i \in DOMAIN threads, ThreadStep(i)
      PROVE  UNCHANGED confirmed /\ (pending' = None \/ UNCHANGED <<contextGen, pending>>)
  BY <1>5 DEF ThreadStep, TimerFires, spawn_search_or_recent, begin, SearchLocks, SearchReturns,
         spawn_recent, NewContext, Gathered, Suggest, spawn_icon_refresh, ExecuteReturns,
         Background, app
<1>6. ASSUME EventLoop
      PROVE  UNCHANGED <<contextGen, confirmed, pending>>
  BY <1>6 DEF EventLoop, Publish, PublishRecent, PublishContext, PublishIcons, close_and_restore,
         Hotkey, Tray, Closure, Loop
<1> QED BY <1>2, <1>3, <1>4, <1>5, <1>6 DEF Next, Threads

-----------------------------------------------------------------------------

LEMMA InitInv == Init => IInv
<1> SUFFICES ASSUME Init PROVE IInv
  OBVIOUS
<1>1. TypeOK
  <2>1. results \in [view : Views, context : Nat] /\ rows \in Views
    BY ViewsExist DEF Init
  <2>2. quota \in [DOMAIN quota -> Nat]
    BY PopupAssumption DEF Init
  <2>3. /\ session \in Nat /\ epoch \in Nat /\ roots \in Nat /\ published \in 0 .. session
        /\ contextGen \in Nat /\ resultsGen = contextGen
    BY DEF Init
  <2>4. /\ text \in Queries \cup {Empty} /\ lastQuery \in Queries \cup {Empty}
        /\ parent \in Queries \cup {Empty}
        /\ uiState \in {"Closed", "Search", "ActionPanel", "PluginContext"}
        /\ inScope \in BOOLEAN /\ panel \in BOOLEAN /\ visible \in BOOLEAN
    BY DEF Init
  <2>5. selected = 0 /\ index = 0 /\ pending = None /\ busy = None
    BY DEF Init
  <2> QED BY <2>1, <2>2, <2>3, <2>4, <2>5 DEF TypeOK
<1>2. Traffic /\ Numbered
  <2>1. threads = <<>> /\ uiq = <<>> /\ DOMAIN threads = {} /\ DOMAIN uiq = {}
    BY DEF Init
  <2>2. Traffic
    BY <2>1, EmptySeq DEF Traffic
  <2>3. \A i : ~Begun(threads, i) /\ ~Asked(uiq, i)
    BY <2>1 DEF Begun, Asked
  <2>4. BegunIds(threads) = {} /\ AskedIds(uiq) = {}
    BY <2>1 DEF BegunIds, AskedIds
  <2> QED BY <2>2, <2>3, <2>4 DEF Numbered, OneThreadEach, OneClosureEach
<1> QED BY <1>1, <1>2 DEF IInv, Init, PendingIsCurrent, ConfirmedInContext

LEMMA StepInv == IInv /\ [Next]_vars => IInv'
<1> SUFFICES ASSUME IInv, [Next]_vars PROVE IInv'
  OBVIOUS
<1>1. CASE UNCHANGED vars
  BY <1>1 DEF vars, window, app, IInv, TypeOK, Traffic, Numbered, PendingIsCurrent, ConfirmedInContext
<1>2. CASE UserStep
  BY <1>2, KeyTraffic, KeyType, ConfirmationStep DEF IInv, Next
<1>5. CASE Callback
  BY <1>5, CallbackTraffic, CallbackType, ConfirmationStep DEF IInv, Next
<1>3. CASE Threads
  <2>1. PICK i \in DOMAIN threads : ThreadStep(i)
    BY <1>3 DEF Threads
  <2>2. Traffic' /\ Numbered'
    BY <2>1, BeginTraffic, ReturnTraffic, ThreadTraffic
  <2> QED BY <1>3, <2>1, <2>2, ThreadType, ConfirmationStep DEF IInv, Next
<1>4. CASE EventLoop
  BY <1>4, LoopTraffic, LoopType, ConfirmationStep DEF IInv, Next
<1> QED BY <1>1, <1>2, <1>3, <1>4, <1>5 DEF Next

LEMMA Invariance == Spec => []IInv
BY InitInv, StepInv, PTL DEF Spec

(* The state of the popup, its two lists and the positions in them keep their
   types. *)
THEOREM TypeCorrect == Spec => []TypeOK
BY Invariance, PTL DEF IInv

(* A confirmation counts only in the context in which it was asked for. *)
THEOREM ConfirmationSafety == Spec => []ConfirmedInContext
BY Invariance, PTL DEF IInv

(* Every step of the popup is a step of the search session it promises, or
   none: searches are numbered one by one, and an answer reaches the screen
   only with a higher number than the last. *)
LEMMA PromiseStep == IInv /\ [Next]_vars => [Promise!Next]_<<session, published>>
<1> SUFFICES ASSUME IInv, [Next]_vars PROVE [Promise!Next]_<<session, published>>
  OBVIOUS
<1> USE DEF Promise!Next, Promise!Begin, Promise!Publish
<1>1. CASE UNCHANGED vars
  BY <1>1 DEF vars
<1>2. CASE UserStep
  <2>1. UNCHANGED published /\ (UNCHANGED session \/ session' = session + 1)
    BY <1>2 DEF UserStep, Press, Key, on_query_changed, Enter, on_action_shortcut, on_nav_requested,
         on_panel_toggled, on_panel_closed, on_dismissed, on_plugin_context_requested,
         on_plugin_context_exited, Summon
  <2> QED BY <2>1
<1>3. CASE Threads
  <2>1. PICK i \in DOMAIN threads : ThreadStep(i)
    BY <1>3 DEF Threads
  <2>2. CASE begin(i) \/ SearchReturns(i)
    BY <2>2 DEF begin, SearchReturns, Background
  <2>3. CASE ~begin(i) /\ ~SearchReturns(i)
    BY <2>1, <2>3, ThreadTraffic
  <2> QED BY <2>2, <2>3
<1>4. CASE EventLoop
  BY <1>4, LoopTraffic
<1>5. CASE Callback
  BY <1>5, CallbackTraffic
<1> QED BY <1>1, <1>2, <1>3, <1>4, <1>5 DEF Next

(* The popup implements SearchSession. *)
THEOREM Implements == Spec => NewestOnly
<1>1. Init => Promise!Init
  BY DEF Init, Promise!Init
<1> QED BY <1>1, PromiseStep, Invariance, PTL DEF Spec, NewestOnly, Promise!Spec
=============================================================================
