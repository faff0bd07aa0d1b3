------------------------ MODULE PluginServices_proofs ------------------------
(***************************************************************************)
(* Proofs about the services around external plugins: the life of a plugin   *)
(* (PluginLifecycle), the decisions about it (PluginRegistry), the wire to its *)
(* process (PluginWire), the processes themselves (RuntimeManager), the surface  *)
(* it draws on (ToolSurface), the tokens of a server reached over HTTP          *)
(* (McpHttp) and the installation of packages (PackageManager). Each is proved  *)
(* by itself, for any values of its constants; the last step takes the result   *)
(* to MCPlugins, where a behaviour is of one unit.                             *)
(***************************************************************************)
EXTENDS MCPlugins, WellFoundedInduction, FiniteSetTheorems, TLAPS

-----------------------------------------------------------------------------
(* A nonempty set of numbers has a least one. *)
LEMMA LeastExists ==
  ASSUME NEW S, S \subseteq Nat, S # {}
  PROVE  \E m \in S : \A n \in S : m <= n
<1>1. \E m \in S : \A n \in S : ~ (<<n, m>> \in OpToRel(<, Nat))
  BY NatLessThanWellFounded, WFMin
<1>2. PICK m \in S : \A n \in S : ~ (<<n, m>> \in OpToRel(<, Nat))
  BY <1>1
<1>3. ASSUME NEW n \in S PROVE m <= n
  <2>1. n \in Nat /\ m \in Nat
    OBVIOUS
  <2>2. n < m => <<n, m>> \in OpToRel(<, Nat)
    BY <2>1 DEF OpToRel
  <2>3. ~ (n < m)
    BY <1>2, <1>3, <2>2
  <2> QED BY <2>1, <2>3
<1> QED BY <1>2, <1>3

-----------------------------------------------------------------------------
(* The life of a plugin: its strikes are in its row, wherever the row is.    *)

(* A row that has counted three failures is quarantined; a restored one too. *)
Lifecycle_Honest(r) == r \in Lifecycle!Row /\ (r.failures >= 3 => r.quarantined)

(* The row has counted every strike but the lost ones, the backup those before its last copy. *)
Lifecycle_IInv ==
  /\ Lifecycle_Honest(plugin_row) /\ Lifecycle_Honest(plugin_backup)
  /\ plugin_strikes \in Nat /\ plugin_lost \in Nat /\ plugin_unsaved \in Nat
  /\ plugin_strikes <= plugin_row.failures + plugin_lost
  /\ plugin_strikes <= plugin_backup.failures + plugin_lost + plugin_unsaved

Lifecycle_Counted(r, f, b) == [r EXCEPT !.failures = f, !.quarantined = b]
Lifecycle_Switched(r, b) == [r EXCEPT !.enabled = b]

LEMMA Lifecycle_Update ==
  ASSUME NEW r \in Lifecycle!Row, NEW f \in Nat, NEW b \in BOOLEAN
  PROVE  /\ Lifecycle_Counted(r, f, b) \in Lifecycle!Row
         /\ Lifecycle_Counted(r, f, b).failures = f
         /\ Lifecycle_Counted(r, f, b).quarantined = b
         /\ Lifecycle_Switched(r, b) \in Lifecycle!Row
         /\ Lifecycle_Switched(r, b).failures = r.failures
         /\ Lifecycle_Switched(r, b).quarantined = r.quarantined
<1>1. Lifecycle_Counted(r, f, b) \in Lifecycle!Row
  BY DEF Lifecycle!Row, Lifecycle_Counted
<1>2. Lifecycle_Counted(r, f, b).failures = f
  BY DEF Lifecycle!Row, Lifecycle_Counted
<1>3. Lifecycle_Counted(r, f, b).quarantined = b
  BY DEF Lifecycle!Row, Lifecycle_Counted
<1>4. Lifecycle_Switched(r, b) \in Lifecycle!Row
  BY DEF Lifecycle!Row, Lifecycle_Switched
<1>5. Lifecycle_Switched(r, b).failures = r.failures
  BY DEF Lifecycle!Row, Lifecycle_Switched
<1>6. Lifecycle_Switched(r, b).quarantined = r.quarantined
  BY DEF Lifecycle!Row, Lifecycle_Switched
<1> QED BY <1>1, <1>2, <1>3, <1>4, <1>5, <1>6

(* What a failure, a success and the switch make of a row. *)
LEMMA Lifecycle_Failure ==
  ASSUME NEW r, Lifecycle_Honest(r)
  PROVE  /\ Lifecycle_Honest(Lifecycle!record_failure(r))
         /\ Lifecycle!record_failure(r).failures = r.failures + 1
<1>1. r \in Lifecycle!Row /\ r.failures \in Nat
  BY DEF Lifecycle_Honest, Lifecycle!Row
<1>2. (r.failures + 1 >= 3) \in BOOLEAN
  OBVIOUS
<1>3. PICK b \in BOOLEAN : b = (r.failures + 1 >= 3)
  BY <1>2
<1>4. Lifecycle!record_failure(r) = Lifecycle_Counted(r, r.failures + 1, b)
  BY <1>3 DEF Lifecycle!record_failure, Lifecycle!QUARANTINE_THRESHOLD, Lifecycle_Counted
<1> DEFINE n == Lifecycle_Counted(r, r.failures + 1, b)
<1>5. r.failures + 1 \in Nat
  BY <1>1
<1>6. n \in Lifecycle!Row /\ n.failures = r.failures + 1 /\ n.quarantined = b
  BY <1>1, <1>5, Lifecycle_Update
<1> HIDE DEF n
<1>7. n.failures >= 3 => n.quarantined
  BY <1>3, <1>6
<1>8. Lifecycle_Honest(n)
  BY <1>6, <1>7 DEF Lifecycle_Honest
<1> QED BY <1>4, <1>6, <1>8 DEF n

LEMMA Lifecycle_Success ==
  ASSUME NEW r, Lifecycle_Honest(r)
  PROVE  /\ Lifecycle_Honest(Lifecycle!record_success(r))
         /\ Lifecycle!record_success(r).failures = 0
<1>1. r \in Lifecycle!Row
  BY DEF Lifecycle_Honest
<1>2. Lifecycle!record_success(r) \in Lifecycle!Row
  BY <1>1 DEF Lifecycle!record_success, Lifecycle!Row
<1>3. Lifecycle!record_success(r).failures = 0
  BY <1>1 DEF Lifecycle!record_success, Lifecycle!Row
<1> QED BY <1>2, <1>3 DEF Lifecycle_Honest

LEMMA Lifecycle_Switch ==
  ASSUME NEW r, Lifecycle_Honest(r), NEW on \in BOOLEAN
  PROVE  Lifecycle_Honest(Lifecycle_Switched(r, on)) /\ Lifecycle_Switched(r, on).failures = r.failures
BY Lifecycle_Update DEF Lifecycle_Honest

(* What the invariant says of the numbers. *)
LEMMA Lifecycle_Numbers ==
  ASSUME Lifecycle_IInv
  PROVE  /\ plugin_row.failures \in Nat /\ plugin_backup.failures \in Nat
         /\ plugin_strikes \in Nat /\ plugin_lost \in Nat /\ plugin_unsaved \in Nat
         /\ plugin_strikes <= plugin_row.failures + plugin_lost
         /\ plugin_strikes <= plugin_backup.failures + plugin_lost + plugin_unsaved
         /\ Lifecycle_Honest(plugin_row) /\ Lifecycle_Honest(plugin_backup)
BY DEF Lifecycle_IInv, Lifecycle_Honest, Lifecycle!Row

(* The steps in between: nothing that counts happens, or all is forgiven. *)
LEMMA Lifecycle_Quiet ==
  ASSUME Lifecycle_IInv, UNCHANGED <<plugin_row, plugin_backup>>,
         \/ UNCHANGED <<plugin_strikes, plugin_lost, plugin_unsaved>>
         \/ plugin_strikes' = 0 /\ plugin_lost' = 0 /\ plugin_unsaved' = 0
  PROVE  Lifecycle_IInv'
BY Lifecycle_Numbers DEF Lifecycle_IInv

(* A strike is counted in the row and not saved yet, or it is lost. *)
LEMMA Lifecycle_Fails ==
  ASSUME Lifecycle_IInv, Lifecycle!Failed, UNCHANGED plugin_backup
  PROVE  Lifecycle_IInv'
<1>1. plugin_strikes' = plugin_strikes + 1
  BY DEF Lifecycle!Failed
<1>2. /\ Lifecycle_Honest(Lifecycle!record_failure(plugin_row))
      /\ Lifecycle!record_failure(plugin_row).failures = plugin_row.failures + 1
  BY Lifecycle_Numbers, Lifecycle_Failure
<1>3. CASE Lifecycle!Counted
  <2>1. /\ plugin_row' = Lifecycle!record_failure(plugin_row)
        /\ plugin_lost' = plugin_lost /\ plugin_unsaved' = plugin_unsaved + 1
    BY <1>3 DEF Lifecycle!Counted
  <2> QED BY <1>1, <1>2, <2>1, Lifecycle_Numbers DEF Lifecycle_IInv
<1>4. CASE Lifecycle!Uncounted
  <2>1. UNCHANGED <<plugin_row, plugin_unsaved>> /\ plugin_lost' = plugin_lost + 1
    BY <1>4 DEF Lifecycle!Uncounted
  <2> QED BY <1>1, <2>1, Lifecycle_Numbers DEF Lifecycle_IInv
<1> QED BY <1>3, <1>4 DEF Lifecycle!Failed

(* The two changes that are no failure. *)
LEMMA Lifecycle_Changes ==
  ASSUME Lifecycle_IInv, UNCHANGED plugin_backup,
         \/ /\ \E on \in BOOLEAN : plugin_row' = Lifecycle_Switched(plugin_row, on)
            /\ UNCHANGED <<plugin_strikes, plugin_lost, plugin_unsaved>>
         \/ /\ plugin_row' = Lifecycle!record_success(plugin_row)
            /\ plugin_strikes' = 0 /\ plugin_lost' = 0 /\ plugin_unsaved' = 0
  PROVE  Lifecycle_IInv'
<1>1. ASSUME NEW on \in BOOLEAN, plugin_row' = Lifecycle_Switched(plugin_row, on),
             UNCHANGED <<plugin_strikes, plugin_lost, plugin_unsaved>>
      PROVE  Lifecycle_IInv'
  BY <1>1, Lifecycle_Numbers, Lifecycle_Switch DEF Lifecycle_IInv
<1>2. CASE /\ plugin_row' = Lifecycle!record_success(plugin_row)
           /\ plugin_strikes' = 0 /\ plugin_lost' = 0 /\ plugin_unsaved' = 0
  BY <1>2, Lifecycle_Numbers, Lifecycle_Success DEF Lifecycle_IInv
<1> QED BY <1>1, <1>2

(* The backup takes what the row has counted, or stays as it is. *)
LEMMA Lifecycle_Refresh ==
  ASSUME Lifecycle_IInv, Lifecycle!refresh_backup
  PROVE  Lifecycle_IInv'
<1>1. /\ UNCHANGED <<plugin_row, plugin_strikes, plugin_lost>>
      /\ \/ plugin_backup' = plugin_row /\ plugin_unsaved' = 0
         \/ UNCHANGED <<plugin_backup, plugin_unsaved>>
  BY DEF Lifecycle!refresh_backup
<1> QED BY <1>1, Lifecycle_Numbers DEF Lifecycle_IInv

(* A restart takes the row or the backup as they are; with neither, all is lost. *)
LEMMA Lifecycle_Opens ==
  ASSUME Lifecycle_IInv, NEW corrupt \in BOOLEAN, NEW copied \in BOOLEAN,
         Lifecycle!open(corrupt, copied)
  PROVE  Lifecycle_IInv'
<1>1. UNCHANGED plugin_strikes /\ plugin_backup' = IF copied THEN plugin_row' ELSE plugin_backup
  BY DEF Lifecycle!open
<1>2. Lifecycle_Honest(Lifecycle!Default) /\ Lifecycle!Default.failures = 0
  BY DEF Lifecycle!Default, Lifecycle!Row, Lifecycle_Honest
<1>3. CASE corrupt /\ plugin_row' = plugin_backup
  <2>1. plugin_lost' = plugin_lost + plugin_unsaved /\ plugin_unsaved' = 0
    BY <1>3 DEF Lifecycle!open
  <2> QED BY <1>1, <1>3, <2>1, Lifecycle_Numbers DEF Lifecycle_IInv
<1>4. CASE corrupt /\ plugin_row' # plugin_backup
  <2>1. plugin_lost' = plugin_strikes /\ plugin_unsaved' = 0 /\ plugin_row' = Lifecycle!Default
    BY <1>4 DEF Lifecycle!open, Lifecycle!Opened
  <2> QED BY <1>1, <1>2, <2>1, Lifecycle_Numbers DEF Lifecycle_IInv
<1>5. CASE ~ corrupt
  <2>1. /\ plugin_row' = plugin_row /\ plugin_lost' = plugin_lost
        /\ plugin_unsaved' = IF copied THEN 0 ELSE plugin_unsaved
    BY <1>5 DEF Lifecycle!open, Lifecycle!Opened
  <2> QED BY <1>1, <2>1, Lifecycle_Numbers DEF Lifecycle_IInv
<1> QED BY <1>3, <1>4, <1>5

LEMMA Lifecycle_Step == Lifecycle_IInv /\ [Lifecycle!Next]_(Lifecycle!vars) => Lifecycle_IInv'
<1> SUFFICES ASSUME Lifecycle_IInv, [Lifecycle!Next]_(Lifecycle!vars) PROVE Lifecycle_IInv'
  OBVIOUS
<1> DEFINE quiet == /\ UNCHANGED <<plugin_row, plugin_backup>>
                    /\ \/ UNCHANGED <<plugin_strikes, plugin_lost, plugin_unsaved>>
                       \/ plugin_strikes' = 0 /\ plugin_lost' = 0 /\ plugin_unsaved' = 0
           fails == UNCHANGED plugin_backup /\ Lifecycle!Failed
<1>1. CASE Lifecycle!refresh_backup
  BY <1>1, Lifecycle_Refresh
<1>2. CASE Lifecycle!query
  <2>1. quiet \/ fails
    BY <1>2 DEF Lifecycle!query, Lifecycle!Call, Lifecycle!Still, Lifecycle!SpawnFails, Lifecycle!ghosts,
              Lifecycle!Answered, Lifecycle!Forgiven
  <2> QED BY <2>1, Lifecycle_Quiet, Lifecycle_Fails
<1>3. CASE Lifecycle!discover
  <2>1. quiet
    BY <1>3 DEF Lifecycle!discover, Lifecycle!Call, Lifecycle!Still, Lifecycle!SpawnFails,
              Lifecycle!ghosts
  <2> QED BY <2>1, Lifecycle_Quiet
<1>4. CASE Lifecycle!execute_action
  <2>1. \/ quiet \/ fails
        \/ /\ UNCHANGED plugin_backup /\ plugin_row' = Lifecycle!record_success(plugin_row)
           /\ plugin_strikes' = 0 /\ plugin_lost' = 0 /\ plugin_unsaved' = 0
    BY <1>4 DEF Lifecycle!execute_action, Lifecycle!Call, Lifecycle!Still, Lifecycle!SpawnFails,
              Lifecycle!Answered, Lifecycle!Forgiven, Lifecycle!Mutate, Lifecycle!ghosts
  <2> QED BY <2>1, Lifecycle_Quiet, Lifecycle_Fails, Lifecycle_Changes
<1>5. CASE Lifecycle!Exit
  <2>1. quiet
    BY <1>5 DEF Lifecycle!Exit, Lifecycle!ghosts
  <2> QED BY <2>1, Lifecycle_Quiet
<1>6. ASSUME NEW b \in BOOLEAN, Lifecycle!set_enabled(b)
      PROVE  Lifecycle_IInv'
  <2>1. /\ UNCHANGED plugin_backup /\ plugin_row' = Lifecycle_Switched(plugin_row, b)
        /\ UNCHANGED <<plugin_strikes, plugin_lost, plugin_unsaved>>
    BY <1>6 DEF Lifecycle!set_enabled, Lifecycle!ghosts, Lifecycle!Call, Lifecycle!Mutate, Lifecycle_Switched
  <2> QED BY <2>1, Lifecycle_Changes
<1>7. ASSUME NEW b \in BOOLEAN, NEW copied \in BOOLEAN, Lifecycle!open(b, copied)
      PROVE  Lifecycle_IInv'
  BY <1>7, Lifecycle_Opens
<1>8. CASE UNCHANGED Lifecycle!vars
  <2>1. quiet
    BY <1>8 DEF Lifecycle!vars, Lifecycle!plugin, Lifecycle!ghosts
  <2> QED BY <2>1, Lifecycle_Quiet
<1> QED BY <1>1, <1>2, <1>3, <1>4, <1>5, <1>6, <1>7, <1>8 DEF Lifecycle!Next

LEMMA Lifecycle_Safety == Lifecycle!Spec => []Lifecycle!ThreeStrikes
<1>1. Lifecycle!Init => Lifecycle_IInv
  <2>1. Lifecycle!Default \in Lifecycle!Row /\ Lifecycle!Default.failures = 0
    BY DEF Lifecycle!Default, Lifecycle!Row
  <2> QED BY <2>1 DEF Lifecycle!Init, Lifecycle_IInv, Lifecycle_Honest
<1>2. Lifecycle_IInv => Lifecycle!ThreeStrikes
  <2> SUFFICES ASSUME Lifecycle_IInv, plugin_strikes >= 3 + plugin_lost PROVE plugin_row.quarantined
    BY DEF Lifecycle!ThreeStrikes, Lifecycle!QUARANTINE_THRESHOLD
  <2>1. /\ plugin_row.failures \in Nat /\ plugin_strikes \in Nat /\ plugin_lost \in Nat
        /\ plugin_strikes <= plugin_row.failures + plugin_lost
        /\ plugin_row.failures >= 3 => plugin_row.quarantined
    BY DEF Lifecycle_IInv, Lifecycle_Honest, Lifecycle!Row
  <2>2. plugin_row.failures >= 3
    BY <2>1
  <2> QED BY <2>1, <2>2
<1> QED BY <1>1, <1>2, Lifecycle_Step, PTL DEF Lifecycle!Spec

LEMMA Lifecycle_Unit ==
  ASSUME [Next]_vars
  PROVE  /\ (unit = "plugin") = (unit = "plugin")'
         /\ unit = "plugin" => [Lifecycle!Next]_(Lifecycle!vars)
<1>1. CASE LifecycleStep
  BY <1>1 DEF LifecycleStep
<1>2. CASE UNCHANGED vars
  BY <1>2 DEF vars, pluginVars, Lifecycle!vars, Lifecycle!plugin, Lifecycle!ghosts
<1>3. CASE RegistryStep \/ PackagesStep \/ WireStep \/ SurfaceStep \/ HttpStep \/
      ManagerStep
  BY <1>3 DEF RegistryStep, PackagesStep, WireStep, SurfaceStep, HttpStep, ManagerStep
<1> QED BY <1>1, <1>2, <1>3 DEF Next

(* plugin.rs: a plugin that has failed three times running is quarantined, whatever
   mixture of queries and actions failed, and however often the launcher was restarted in
   between, from the registry or from its backup; a failure may be missing only if the statement
   that counts it failed, or the file that counted it was lost before it was copied. *)
THEOREM QuarantineSafety == Spec => []ThreeStrikes
<1>1. Init => (unit = "plugin" => Lifecycle!Init)
  BY DEF Init
<1>2. [Next]_vars /\ unit = "plugin" => [Lifecycle!Next]_(Lifecycle!vars) /\ (unit = "plugin")'
  BY Lifecycle_Unit
<1>3. [Next]_vars /\ ~(unit = "plugin") => ~(unit = "plugin")'
  BY Lifecycle_Unit
<1>4. Lifecycle!Spec => []Lifecycle!ThreeStrikes
  BY Lifecycle_Safety
<1>5. (unit = "plugin" => Lifecycle!ThreeStrikes) => ThreeStrikes
  BY DEF ThreeStrikes
<1> QED BY <1>1, <1>2, <1>3, <1>4, <1>5, PTL DEF Spec, Lifecycle!Spec

-----------------------------------------------------------------------------
(* The processes of the runtimes: what is in the job of a session dies with it. *)

Manager_Held == [session : 1 .. runtime_spawns, busy : BOOLEAN, idle : BOOLEAN]

(* A process that was in the job of a session nobody holds is dead, with all it started. *)
Manager_Buried(p) == ~p.held /\ p.job => p.child = "exited" /\ ~p.tree

Manager_Typed ==
  /\ runtime_spawns \in Nat
  /\ runtime_sessions \in [1 .. runtime_spawns -> Manager!Process]
  /\ runtime_entries \in [runtime_Runtimes -> Manager_Held \cup {None}]

(* An entry holds its session, which is in a job, and no other entry holds the same one. *)
Manager_Kept(p) == p.held /\ p.job
Manager_Owned ==
  /\ \A k \in runtime_Runtimes : runtime_entries[k] # None =>
        Manager_Kept(runtime_sessions[runtime_entries[k].session])
  /\ \A k, l \in runtime_Runtimes :
        /\ runtime_entries[k] # None /\ runtime_entries[l] # None
        /\ runtime_entries[k].session = runtime_entries[l].session
        => k = l

Manager_Graves == \A s \in 1 .. runtime_spawns : Manager_Buried(runtime_sessions[s])

Manager_IInv == Manager_Typed /\ Manager_Owned /\ Manager_Graves

(* What becomes of one process. *)
LEMMA Manager_Dropped ==
  ASSUME NEW p \in Manager!Process
  PROVE  /\ Manager!drop(p) \in Manager!Process
         /\ ~Manager!drop(p).held
         /\ Manager_Buried(Manager!drop(p))
<1> DEFINE d == Manager!Dead(p)
           w == IF p.state = "Running" THEN Manager!kill(p) ELSE Manager!Job_closed(p)
<1>1. d \in Manager!Process /\ d.child = "exited" /\ d.tree = FALSE /\ d.job = p.job
  BY DEF Manager!Dead, Manager!Process
<1>2. Manager!kill(p) \in Manager!Process
  <2>1. ASSUME NEW q \in Manager!Process, NEW b \in BOOLEAN
        PROVE  [q EXCEPT !.tree = b] \in Manager!Process
    BY <2>1 DEF Manager!Process
  <2>2. p.tree \in BOOLEAN
    BY DEF Manager!Process
  <2> HIDE DEF d
  <2>3. [d EXCEPT !.tree = p.tree] \in Manager!Process
    BY <1>1, <2>1, <2>2
  <2> QED BY <1>1, <2>3 DEF Manager!kill, d
<1>3. Manager!kill(p).job = p.job /\ (p.job => Manager!kill(p).child = "exited" /\ ~Manager!kill(p).tree)
  <2>1. CASE p.job
    BY <1>1, <2>1 DEF Manager!kill
  <2>2. CASE ~p.job
    BY <2>2 DEF Manager!kill, Manager!Dead, Manager!Process
  <2> QED BY <2>1, <2>2
<1>4. /\ Manager!Job_closed(p) \in Manager!Process /\ Manager!Job_closed(p).job = p.job
      /\ p.job => Manager!Job_closed(p).child = "exited" /\ ~Manager!Job_closed(p).tree
  BY DEF Manager!Job_closed, Manager!Process
<1>5. w \in Manager!Process /\ (w.job => w.child = "exited" /\ ~w.tree)
  BY <1>2, <1>3, <1>4
<1>6. Manager!drop(p) = [w EXCEPT !.held = FALSE]
  BY DEF Manager!drop
<1> HIDE DEF w
<1>7. ASSUME NEW q \in Manager!Process
      PROVE  /\ [q EXCEPT !.held = FALSE] \in Manager!Process
             /\ [q EXCEPT !.held = FALSE].held = FALSE
             /\ [q EXCEPT !.held = FALSE].child = q.child
  BY <1>7 DEF Manager!Process
<1>8. ASSUME NEW q \in Manager!Process
      PROVE  /\ [q EXCEPT !.held = FALSE].job = q.job
             /\ [q EXCEPT !.held = FALSE].tree = q.tree
  BY <1>8 DEF Manager!Process
<1> QED BY <1>5, <1>6, <1>7, <1>8 DEF Manager_Buried

(* A process lives on by itself. *)
LEMMA Manager_Lives ==
  ASSUME NEW s \in DOMAIN runtime_sessions, NEW p \in Manager!Process, Manager_IInv,
         Manager!Lives(s, p), p.held = runtime_sessions[s].held, p.job = runtime_sessions[s].job,
         Manager_Buried(p)
  PROVE  Manager_IInv'
<1>1. /\ runtime_sessions' \in [1 .. runtime_spawns -> Manager!Process]
      /\ s \in 1 .. runtime_spawns
      /\ \A t \in 1 .. runtime_spawns : runtime_sessions'[t] = IF t = s THEN p ELSE runtime_sessions[t]
      /\ UNCHANGED <<runtime_entries, runtime_spawns>>
  BY DEF Manager_IInv, Manager_Typed, Manager!Lives
<1>2. Manager_Typed'
  BY <1>1 DEF Manager_IInv, Manager_Typed, Manager_Held
<1>3. \A t \in 1 .. runtime_spawns : runtime_sessions'[t].held = runtime_sessions[t].held
                                       /\ runtime_sessions'[t].job = runtime_sessions[t].job
  BY <1>1
<1>4. \A k \in runtime_Runtimes : runtime_entries[k] # None =>
        runtime_entries[k].session \in 1 .. runtime_spawns
  BY DEF Manager_IInv, Manager_Typed, Manager_Held
<1>5. Manager_Owned'
  BY <1>1, <1>3, <1>4 DEF Manager_IInv, Manager_Owned, Manager_Kept
<1>6. Manager_Graves'
  BY <1>1 DEF Manager_IInv, Manager_Graves
<1> QED BY <1>2, <1>5, <1>6 DEF Manager_IInv

(* The entries give up what they held, and what they held is dropped. *)
LEMMA Manager_GivesUp ==
  ASSUME NEW ks \in SUBSET runtime_Runtimes, Manager_IInv,
         \A k \in ks : runtime_entries[k] # None,
         runtime_entries' = [k \in runtime_Runtimes |-> IF k \in ks THEN None ELSE runtime_entries[k]],
         Manager!Drop({runtime_entries[k].session : k \in ks}), UNCHANGED runtime_spawns
  PROVE  Manager_IInv'
<1> DEFINE ss == {runtime_entries[k].session : k \in ks}
<1>1. DOMAIN runtime_sessions = 1 .. runtime_spawns
  BY DEF Manager_IInv, Manager_Typed
<1>2. runtime_sessions' = [s \in 1 .. runtime_spawns |->
                            IF s \in ss THEN Manager!drop(runtime_sessions[s]) ELSE runtime_sessions[s]]
  BY <1>1 DEF Manager!Drop
<1>3. \A s \in 1 .. runtime_spawns :
         /\ runtime_sessions[s] \in Manager!Process /\ Manager_Buried(runtime_sessions[s])
         /\ Manager!drop(runtime_sessions[s]) \in Manager!Process
         /\ Manager_Buried(Manager!drop(runtime_sessions[s]))
  BY Manager_Dropped DEF Manager_IInv, Manager_Typed, Manager_Graves
<1>4. runtime_sessions' \in [1 .. runtime_spawns -> Manager!Process]
  BY <1>2, <1>3
<1>5. Manager_Typed'
  BY <1>4 DEF Manager_IInv, Manager_Typed, Manager_Held
<1>6. Manager_Graves'
  BY <1>2, <1>3 DEF Manager_Graves
<1>7. \A k \in runtime_Runtimes : runtime_entries'[k] # None =>
        /\ k \notin ks /\ runtime_entries'[k] = runtime_entries[k]
  OBVIOUS
<1>8. \A k \in runtime_Runtimes : runtime_entries'[k] # None =>
        Manager_Kept(runtime_sessions'[runtime_entries'[k].session])
  <2> SUFFICES ASSUME NEW k \in runtime_Runtimes, runtime_entries'[k] # None
               PROVE  Manager_Kept(runtime_sessions'[runtime_entries'[k].session])
    OBVIOUS
  <2>1. k \notin ks /\ runtime_entries'[k] = runtime_entries[k] /\ runtime_entries[k] # None
    BY <1>7
  <2>2. runtime_entries[k].session \in 1 .. runtime_spawns
    BY <2>1 DEF Manager_IInv, Manager_Typed, Manager_Held
  <2>3. runtime_entries[k].session \notin ss
    BY <2>1 DEF Manager_IInv, Manager_Owned
  <2>4. runtime_sessions'[runtime_entries[k].session] = runtime_sessions[runtime_entries[k].session]
    BY <1>2, <2>2, <2>3
  <2> QED BY <2>1, <2>4 DEF Manager_IInv, Manager_Owned
<1>9. Manager_Owned'
  BY <1>7, <1>8 DEF Manager_IInv, Manager_Owned
<1> QED BY <1>5, <1>6, <1>9 DEF Manager_IInv

LEMMA Manager_Spawned ==
  ASSUME NEW step \in Manager!SpawnSteps
  PROVE  /\ Manager!Spawned(step) \in Manager!Process
         /\ Manager_Buried(Manager!Spawned(step))
         /\ step = "resumed" => Manager_Kept(Manager!Spawned(step))
<1>1. CASE step = "assign_fails"
  BY <1>1 DEF Manager!Spawned, Manager!Suspended, Manager!Process, Manager_Buried
<1>2. CASE step = "resume_fails"
  <2>1. [Manager!Suspended EXCEPT !.job = TRUE] \in Manager!Process
    BY DEF Manager!Suspended, Manager!Process
  <2>2. Manager!Spawned(step) = Manager!drop([Manager!Suspended EXCEPT !.job = TRUE])
    BY <1>2 DEF Manager!Spawned
  <2> QED BY <1>2, <2>1, <2>2, Manager_Dropped
<1>3. CASE step = "resumed"
  <2>1. Manager!Spawned(step) = [Manager!Suspended EXCEPT !.job = TRUE, !.child = "running", !.state = "Running"]
    BY <1>3 DEF Manager!Spawned
  <2> QED BY <2>1 DEF Manager!Suspended, Manager!Process, Manager_Buried, Manager_Kept
<1> QED BY <1>1, <1>2, <1>3 DEF Manager!SpawnSteps

(* use_runtime, on an empty slot: the new session is held by the new entry alone. *)
LEMMA Manager_Spawns ==
  ASSUME NEW k \in runtime_Runtimes, NEW step \in Manager!SpawnSteps, Manager_IInv,
         runtime_entries[k] = None, Manager!use_runtime(k, step)
  PROVE  Manager_IInv'
<1> DEFINE n == runtime_spawns + 1
<1>1. /\ runtime_spawns \in Nat /\ n \in Nat /\ runtime_spawns' = n
      /\ runtime_sessions' = [s \in 1 .. n |-> IF s = n THEN Manager!Spawned(step) ELSE runtime_sessions[s]]
      /\ runtime_entries' = [runtime_entries EXCEPT ![k] = IF step = "resumed" THEN Manager!Entry(n) ELSE None]
  BY DEF Manager!use_runtime, Manager_IInv, Manager_Typed
<1>2. \A s \in 1 .. n : s # n => s \in 1 .. runtime_spawns
  BY <1>1
<1>3. \A s \in 1 .. runtime_spawns : s \in 1 .. n /\ s # n
  BY <1>1
<1>4. n \in 1 .. n
  BY <1>1
<1> HIDE DEF n
<1>5. runtime_sessions' \in [1 .. n -> Manager!Process]
  BY <1>1, <1>2, Manager_Spawned DEF Manager_IInv, Manager_Typed
<1>6. Manager_Graves'
  BY <1>1, <1>2, Manager_Spawned DEF Manager_IInv, Manager_Graves
<1>7. \A l \in runtime_Runtimes : l # k =>
         /\ runtime_entries'[l] = runtime_entries[l]
         /\ runtime_entries[l] # None => runtime_entries[l].session \in 1 .. runtime_spawns
                                                 /\ Manager_Kept(runtime_sessions[runtime_entries[l].session])
  BY <1>1 DEF Manager_IInv, Manager_Typed, Manager_Owned, Manager_Held
<1>8. runtime_entries'[k] # None => step = "resumed" /\ runtime_entries'[k] = Manager!Entry(n)
  BY <1>1 DEF Manager_IInv, Manager_Typed
<1>9. Manager!Entry(n) \in [session : 1 .. n, busy : BOOLEAN, idle : BOOLEAN] /\ Manager!Entry(n).session = n
  BY <1>4 DEF Manager!Entry
<1>10. runtime_entries' \in [runtime_Runtimes -> [session : 1 .. n, busy : BOOLEAN, idle : BOOLEAN] \cup {None}]
  <2>1. \A e \in Manager_Held : e \in [session : 1 .. n, busy : BOOLEAN, idle : BOOLEAN]
    BY <1>3 DEF Manager_Held
  <2> QED BY <1>1, <1>9, <2>1 DEF Manager_IInv, Manager_Typed
<1>11. Manager_Typed'
  BY <1>1, <1>5, <1>10 DEF Manager_Typed, Manager_Held
<1>12. \A l \in runtime_Runtimes : runtime_entries'[l] # None =>
          Manager_Kept(runtime_sessions'[runtime_entries'[l].session])
  <2> SUFFICES ASSUME NEW l \in runtime_Runtimes, runtime_entries'[l] # None
               PROVE  Manager_Kept(runtime_sessions'[runtime_entries'[l].session])
    OBVIOUS
  <2>1. CASE l = k
    BY <1>1, <1>4, <1>8, <1>9, <2>1, Manager_Spawned
  <2>2. CASE l # k
    BY <1>1, <1>3, <1>7, <2>2
  <2> QED BY <2>1, <2>2
<1>13. \A l, m \in runtime_Runtimes :
          /\ runtime_entries'[l] # None /\ runtime_entries'[m] # None
          /\ runtime_entries'[l].session = runtime_entries'[m].session
          => l = m
  BY <1>3, <1>7, <1>8, <1>9 DEF Manager_IInv, Manager_Owned
<1> QED BY <1>6, <1>11, <1>12, <1>13 DEF Manager_IInv, Manager_Owned

(* Only the marks of an entry change. *)
LEMMA Manager_Marks ==
  ASSUME NEW k \in runtime_Runtimes, NEW e \in Manager_Held, Manager_IInv,
         runtime_entries[k] # None, e.session = runtime_entries[k].session,
         runtime_entries' = [runtime_entries EXCEPT ![k] = e],
         UNCHANGED <<runtime_sessions, runtime_spawns>>
  PROVE  Manager_IInv'
<1>1. runtime_entries' \in [runtime_Runtimes -> Manager_Held \cup {None}]
  BY DEF Manager_IInv, Manager_Typed
<1>2. \A l \in runtime_Runtimes : runtime_entries'[l] # None =>
         runtime_entries[l] # None /\ runtime_entries'[l].session = runtime_entries[l].session
  BY DEF Manager_IInv, Manager_Typed
<1>3. Manager_Owned'
  BY <1>2 DEF Manager_IInv, Manager_Owned
<1> QED BY <1>1, <1>3 DEF Manager_IInv, Manager_Typed, Manager_Graves, Manager_Held

LEMMA Manager_Stutter == Manager_IInv /\ UNCHANGED Manager!vars => Manager_IInv'
BY DEF Manager_IInv, Manager_Typed, Manager_Owned, Manager_Graves, Manager_Held, Manager!vars

LEMMA Manager_Step == Manager_IInv /\ [Manager!Next]_(Manager!vars) => Manager_IInv'
<1> SUFFICES ASSUME Manager_IInv, Manager!Next PROVE Manager_IInv'
  BY Manager_Stutter
<1>1. \A k \in runtime_Runtimes : runtime_entries[k] # None =>
         runtime_entries[k] \in Manager_Held
  BY DEF Manager_IInv, Manager_Typed
<1>2. ASSUME NEW ks \in SUBSET runtime_Runtimes, \A k \in ks : runtime_entries[k] # None,
             Manager!Evict(ks)
      PROVE  Manager_IInv'
  BY <1>2, Manager_GivesUp DEF Manager!Evict
<1>3. CASE Manager!sweep_idle
  BY <1>2, <1>3 DEF Manager!sweep_idle
<1>4. CASE Manager!shutdown_all
  BY <1>2, <1>4 DEF Manager!shutdown_all
<1>5. ASSUME NEW k \in runtime_Runtimes,
             Manager!Release(k) \/ Manager!Idles(k) \/ Manager!on_crash(k) \/ Manager!release(k)
             \/ \E step \in Manager!SpawnSteps : Manager!use_runtime(k, step)
      PROVE  Manager_IInv'
  <2>0. ASSUME NEW b \in BOOLEAN, NEW i \in BOOLEAN, runtime_entries[k] # None
        PROVE  /\ [runtime_entries[k] EXCEPT !.busy = b, !.idle = i] \in Manager_Held
               /\ [runtime_entries[k] EXCEPT !.busy = b, !.idle = i].session = runtime_entries[k].session
    BY <1>1, <2>0 DEF Manager_Held
  <2>1. CASE Manager!Release(k)
    <3>1. runtime_entries' = [runtime_entries EXCEPT ![k] = [runtime_entries[k] EXCEPT !.busy = FALSE, !.idle = FALSE]]
      BY <2>1 DEF Manager!Release, Manager_IInv, Manager_Typed
    <3> QED BY <2>0, <2>1, <3>1, Manager_Marks DEF Manager!Release
  <2>2. CASE Manager!Idles(k)
    <3>1. runtime_entries[k] \in Manager_Held
      BY <1>1, <2>2 DEF Manager!Idles
    <3>2. /\ [runtime_entries[k] EXCEPT !.idle = TRUE] \in Manager_Held
          /\ [runtime_entries[k] EXCEPT !.idle = TRUE].session = runtime_entries[k].session
      BY <3>1 DEF Manager_Held
    <3>3. runtime_entries' = [runtime_entries EXCEPT ![k] = [runtime_entries[k] EXCEPT !.idle = TRUE]]
      BY <2>2 DEF Manager!Idles, Manager_IInv, Manager_Typed
    <3> QED BY <2>2, <3>2, <3>3, Manager_Marks DEF Manager!Idles
  <2>3. CASE Manager!on_crash(k)
    <3>1. runtime_entries' = [l \in runtime_Runtimes |-> IF l \in {k} THEN None ELSE runtime_entries[l]]
      BY <2>3 DEF Manager!on_crash, Manager_IInv, Manager_Typed
    <3>2. {runtime_entries[k].session} = {runtime_entries[l].session : l \in {k}}
      OBVIOUS
    <3> QED BY <2>3, <3>1, <3>2, Manager_GivesUp DEF Manager!on_crash
  <2>4. CASE Manager!release(k)
    BY <1>2, <2>4 DEF Manager!release
  <2>5. ASSUME NEW step \in Manager!SpawnSteps, Manager!use_runtime(k, step) PROVE Manager_IInv'
    <3>1. CASE runtime_entries[k] = None
      BY <2>5, <3>1, Manager_Spawns
    <3>2. CASE runtime_entries[k] # None
      <4>1. runtime_entries' = [runtime_entries EXCEPT ![k] = Manager!Entry(runtime_entries[k].session)]
        BY <2>5, <3>2 DEF Manager!use_runtime, Manager_IInv, Manager_Typed
      <4>2. /\ Manager!Entry(runtime_entries[k].session) \in Manager_Held
            /\ Manager!Entry(runtime_entries[k].session).session = runtime_entries[k].session
        BY <1>1, <3>2 DEF Manager!Entry, Manager_Held
      <4>3. UNCHANGED <<runtime_sessions, runtime_spawns>>
        BY <2>5, <3>2 DEF Manager!use_runtime
      <4> QED BY <3>2, <4>1, <4>2, <4>3, Manager_Marks
    <3> QED BY <3>1, <3>2
  <2> QED BY <1>5, <2>1, <2>2, <2>3, <2>4, <2>5
<1>6. ASSUME NEW s \in DOMAIN runtime_sessions,
             Manager!Forks(s) \/ Manager!ClosesOutput(s) \/ Manager!Exits(s) \/ Manager!read_line(s)
             \/ Manager!try_termination(s)
      PROVE  Manager_IInv'
  <2>1. runtime_sessions[s] \in Manager!Process /\ Manager_Buried(runtime_sessions[s])
    BY DEF Manager_IInv, Manager_Typed, Manager_Graves
  <2>2. ASSUME NEW p \in Manager!Process, Manager!Lives(s, p), p.held = runtime_sessions[s].held,
               p.job = runtime_sessions[s].job, Manager_Buried(p)
        PROVE  Manager_IInv'
    BY <2>2, Manager_Lives
  <2> USE DEF Manager_Buried
  <2>3. CASE Manager!Forks(s)
    BY <2>1, <2>2, <2>3 DEF Manager!Forks, Manager!Process
  <2>4. CASE Manager!ClosesOutput(s)
    BY <2>1, <2>2, <2>4 DEF Manager!ClosesOutput, Manager!Process
  <2>5. CASE Manager!Exits(s)
    BY <2>1, <2>2, <2>5 DEF Manager!Exits, Manager!Process
  <2>6. CASE Manager!read_line(s)
    BY <2>1, <2>2, <2>6 DEF Manager!read_line, Manager!Process
  <2>7. CASE Manager!try_termination(s)
    BY <2>1, <2>2, <2>7 DEF Manager!try_termination, Manager!Process
  <2> QED BY <1>6, <2>3, <2>4, <2>5, <2>6, <2>7
<1> QED BY <1>3, <1>4, <1>5, <1>6 DEF Manager!Next

LEMMA Manager_Safety == Manager!Spec => []Manager!TreeDies
<1>1. Manager!Init => Manager_IInv
  BY DEF Manager!Init, Manager_IInv, Manager_Typed, Manager_Owned, Manager_Graves, Manager_Held
<1>2. Manager_IInv => Manager!TreeDies
  BY DEF Manager_IInv, Manager_Typed, Manager_Graves, Manager_Buried, Manager!TreeDies
<1> QED BY <1>1, <1>2, Manager_Step, PTL DEF Manager!Spec

LEMMA Manager_Unit ==
  ASSUME [Next]_vars
  PROVE  /\ (unit = "runtime") = (unit = "runtime")'
         /\ unit = "runtime" => [Manager!Next]_(Manager!vars)
<1>1. CASE ManagerStep
  BY <1>1 DEF ManagerStep
<1>2. CASE UNCHANGED vars
  BY <1>2 DEF vars, runtimeVars, Manager!vars
<1>3. CASE LifecycleStep \/ RegistryStep \/ PackagesStep \/ WireStep \/ SurfaceStep \/
      HttpStep
  BY <1>3 DEF LifecycleStep, RegistryStep, PackagesStep, WireStep, SurfaceStep, HttpStep
<1> QED BY <1>1, <1>2, <1>3 DEF Next

(* process.rs and windows.rs: nothing that was put in the job of a session outlives the
   session, whatever it forked and whatever the session believed of its process. *)
THEOREM TreeSafety == Spec => []TreeDies
<1>1. Init => (unit = "runtime" => Manager!Init)
  BY DEF Init
<1>2. [Next]_vars /\ unit = "runtime" => [Manager!Next]_(Manager!vars) /\ (unit = "runtime")'
  BY Manager_Unit
<1>3. [Next]_vars /\ ~(unit = "runtime") => ~(unit = "runtime")'
  BY Manager_Unit
<1>4. Manager!Spec => []Manager!TreeDies
  BY Manager_Safety
<1>5. (unit = "runtime" => Manager!TreeDies) => TreeDies
  BY DEF TreeDies
<1> QED BY <1>1, <1>2, <1>3, <1>4, <1>5, PTL DEF Spec, Manager!Spec

(* What the invariant leaves out: the policy stays, spawns and restarts stay within bounds. *)
Manager_Counted ==
  /\ runtime_policy \in runtime_Policies /\ runtime_spawns <= runtime_MaxSpawns
  /\ runtime_restart_counts \in [runtime_Runtimes -> 0 .. runtime_max_restarts]

LEMMA Manager_Counts ==
  ASSUME runtime_MaxSpawns \in Nat, runtime_max_restarts \in Nat, Manager_Counted,
         runtime_spawns \in Nat, [Manager!Next]_(Manager!vars)
  PROVE  Manager_Counted'
<1>1. ASSUME NEW k \in runtime_Runtimes, NEW step \in Manager!SpawnSteps, Manager!use_runtime(k, step)
      PROVE  Manager_Counted'
  <2>1. UNCHANGED runtime_spawns \/ (runtime_spawns' = runtime_spawns + 1 /\ runtime_spawns < runtime_MaxSpawns)
    BY <1>1 DEF Manager!use_runtime
  <2>2. runtime_spawns' <= runtime_MaxSpawns
    BY <2>1 DEF Manager_Counted
  <2> QED BY <1>1, <2>2 DEF Manager!use_runtime, Manager_Counted
<1>2. ASSUME NEW k \in runtime_Runtimes, Manager!on_crash(k) PROVE Manager_Counted'
  <2>1. UNCHANGED <<runtime_policy, runtime_spawns>>
    BY <1>2 DEF Manager!on_crash
  <2>2. \/ UNCHANGED runtime_restart_counts
        \/ /\ ~(runtime_restart_counts[k] + 1 > runtime_max_restarts)
           /\ runtime_restart_counts' = [runtime_restart_counts EXCEPT ![k] = @ + 1]
    BY <1>2 DEF Manager!on_crash
  <2>3. \A n \in 0 .. runtime_max_restarts : ~(n + 1 > runtime_max_restarts) => n + 1 \in 0 .. runtime_max_restarts
    OBVIOUS
  <2>4. runtime_restart_counts' \in [runtime_Runtimes -> 0 .. runtime_max_restarts]
    BY <2>2, <2>3 DEF Manager_Counted
  <2> QED BY <2>1, <2>4 DEF Manager_Counted
<1>3. CASE Manager!sweep_idle \/ Manager!shutdown_all \/ UNCHANGED Manager!vars
  BY <1>3 DEF Manager!sweep_idle, Manager!shutdown_all, Manager!Evict, Manager!vars, Manager_Counted
<1>4. ASSUME NEW k \in runtime_Runtimes,
             Manager!Release(k) \/ Manager!Idles(k) \/ Manager!release(k)
      PROVE  Manager_Counted'
  BY <1>4 DEF Manager!Release, Manager!Idles, Manager!release, Manager!Evict, Manager_Counted
<1>5. ASSUME NEW s \in DOMAIN runtime_sessions,
             Manager!Forks(s) \/ Manager!ClosesOutput(s) \/ Manager!Exits(s) \/ Manager!read_line(s)
             \/ Manager!try_termination(s)
      PROVE  Manager_Counted'
  BY <1>5 DEF Manager!Forks, Manager!ClosesOutput, Manager!Exits, Manager!read_line,
              Manager!try_termination, Manager!Lives, Manager_Counted
<1> QED BY <1>1, <1>2, <1>3, <1>4, <1>5 DEF Manager!Next

LEMMA Manager_Entries ==
  ASSUME runtime_MaxSpawns \in Nat, runtime_max_restarts \in Nat
  PROVE  Manager!Spec => [](Manager!EntriesOwn /\ Manager!TypeOK)
<1>1. Manager!Init => Manager_IInv /\ Manager_Counted
  BY DEF Manager!Init, Manager_IInv, Manager_Typed, Manager_Owned, Manager_Graves, Manager_Held, Manager_Counted
<1>2. Manager_IInv /\ Manager_Counted /\ [Manager!Next]_(Manager!vars) => Manager_IInv' /\ Manager_Counted'
  BY Manager_Step, Manager_Counts DEF Manager_IInv, Manager_Typed
<1>3. Manager_IInv /\ Manager_Counted => Manager!EntriesOwn /\ Manager!TypeOK
  <2> SUFFICES ASSUME Manager_IInv, Manager_Counted PROVE Manager!EntriesOwn /\ Manager!TypeOK
    OBVIOUS
  <2>1. Manager!EntriesOwn
    BY DEF Manager_IInv, Manager_Owned, Manager_Kept, Manager!EntriesOwn
  <2>2. Manager!TypeOK
    BY DEF Manager_IInv, Manager_Typed, Manager_Held, Manager_Counted, Manager!TypeOK
  <2> QED BY <2>1, <2>2
<1> QED BY <1>1, <1>2, <1>3, PTL DEF Manager!Spec

(* runtime_manager.rs: an entry of the registry always holds a session that nothing has
   dropped, in a job, and that no other entry holds: no eviction, crash, release or restart
   of one runtime takes the process of another, and what an entry gives up dies with it
   (TreeSafety). No runtime is restarted more often than max_restarts, however often its
   entry went in between. *)
THEOREM EntriesHold == Spec => [](unit = "runtime" => Manager!EntriesOwn /\ Manager!TypeOK)
<1>1. Init => (unit = "runtime" => Manager!Init)
  BY DEF Init
<1>2. [Next]_vars /\ unit = "runtime" => [Manager!Next]_(Manager!vars) /\ (unit = "runtime")'
  BY Manager_Unit
<1>3. [Next]_vars /\ ~(unit = "runtime") => ~(unit = "runtime")'
  BY Manager_Unit
<1>4. Manager!Spec => [](Manager!EntriesOwn /\ Manager!TypeOK)
  BY PluginsAssumption, Manager_Entries
<1> QED BY <1>1, <1>2, <1>3, <1>4, PTL DEF Spec, Manager!Spec

-----------------------------------------------------------------------------
(* A server over HTTP: a token goes out only to the issuer of the key.       *)

Http_Call == [purpose : Http!Purposes, stage : Http!Stages, token : Http!Credentials \cup {None}]

(* The token of a call is the configured issuer's: a call that refreshes refreshes what it
   has loaded and judged, whatever the store is made to hold in between. *)
Http_Own ==
  http_call # None =>
    /\ http_call.token # None => http_call.token.issuer = http_Configured
    /\ http_call.stage = "refresh" => http_call.token # None

Http_IInv == Http!TypeOK /\ Http_Own /\ Http!NoMixUp

(* What a step may set a call to. *)
Http_Sound(c) ==
  /\ c \in Http_Call
  /\ c.token # None => c.token.issuer = http_Configured
  /\ c.stage = "refresh" => c.token # None

LEMMA Http_Finished ==
  ASSUME Http!TypeOK, http_call # None, NEW class \in Http!Answers, Http!Finish(class),
         UNCHANGED http_offered
  PROVE  /\ http_answer' \in Http!Answers /\ http_call' = None
         /\ http_provider' \in [discovered : BOOLEAN, granted : BOOLEAN, commands : SUBSET http_Tools,
                                ready : BOOLEAN, error : BOOLEAN]
<1> DEFINE P == [discovered : BOOLEAN, granted : BOOLEAN, commands : SUBSET http_Tools,
                 ready : BOOLEAN, error : BOOLEAN]
<1>1. http_provider \in P /\ http_offered \in SUBSET http_Tools
  BY DEF Http!TypeOK
<1>2. ASSUME NEW p \in P, NEW t \in SUBSET http_Tools, NEW b \in BOOLEAN
      PROVE  /\ [p EXCEPT !.commands = t, !.ready = b, !.discovered = TRUE] \in P
             /\ [p EXCEPT !.error = TRUE] \in P
  BY <1>2
<1>3. http_provider.granted \in BOOLEAN
  BY <1>1
<1> HIDE DEF P
<1>4. /\ [http_provider EXCEPT !.commands = http_offered, !.ready = http_provider.granted,
                               !.discovered = TRUE] \in P
      /\ [http_provider EXCEPT !.error = TRUE] \in P
  BY <1>1, <1>2, <1>3
<1>5. http_provider' \in P
  BY <1>1, <1>4 DEF Http!Finish
<1> QED BY <1>5 DEF P, Http!Finish

LEMMA Http_Starts ==
  ASSUME Http_IInv, NEW purpose \in Http!Purposes, Http!Start(purpose)
  PROVE  /\ Http_Sound(http_call') /\ http_sent' = {}
         /\ UNCHANGED <<http_attached, http_store, http_issued, http_honoured, http_flow,
                        http_offered, http_answer>>
<1>1. Http!Start(purpose) => http_call' \in Http_Call /\ http_call'.token = None
                             /\ http_call'.stage # "refresh"
  BY DEF Http!Start, Http_Call, Http!Stages
<1> QED BY <1>1 DEF Http_Sound, Http!Start

LEMMA Http_Stutter == Http_IInv /\ UNCHANGED Http!vars => Http_IInv'
BY DEF Http_IInv, Http!TypeOK, Http_Own, Http!NoMixUp, Http!vars

LEMMA Http_Step ==
  ASSUME http_Configured \in http_Issuers, http_MaxCalls \in Nat
  PROVE  Http_IInv /\ [Http!Next]_(Http!vars) => Http_IInv'
<1> SUFFICES ASSUME Http_IInv, Http!Next PROVE Http_IInv'
  BY Http_Stutter
<1> USE DEF Http_IInv
<1>0. Http!TypeOK /\ Http_Own /\ Http!NoMixUp
  OBVIOUS
<1>1. ASSUME NEW i \in http_Issuers, Http!begin_authorization(i) PROVE Http_IInv'
  BY <1>1 DEF Http!begin_authorization, Http!TypeOK, Http_Own, Http!NoMixUp
<1>2. ASSUME NEW i \in http_Issuers, Http!Revokes(i) PROVE Http_IInv'
  BY <1>2 DEF Http!Revokes, Http!TypeOK, Http_Own, Http!NoMixUp
<1>3. ASSUME NEW state \in BOOLEAN, NEW iss \in http_Issuers \cup {None}, Http!Callback(state, iss)
      PROVE  Http_IInv'
  <2>1. /\ http_call = None /\ http_flow # None /\ http_flow' = None
        /\ UNCHANGED <<http_offered, http_call, http_answer, http_sent, http_provider>>
    BY <1>3 DEF Http!Callback
  <2>2. http_flow.issuer \in http_Issuers
    BY <2>1 DEF Http!TypeOK
  <2>3. /\ http_issued' \in [http_Issuers -> Http!Pairs] /\ http_honoured' \in [http_Issuers -> BOOLEAN]
        /\ http_store' \in Http!Credentials \cup {None}
    <3>1. CASE UNCHANGED <<http_issued, http_honoured, http_store>>
      BY <3>1 DEF Http!TypeOK
    <3>2. CASE ~UNCHANGED <<http_issued, http_honoured, http_store>>
      <4>1. /\ http_issued[http_flow.issuer] < http_MaxCalls
            /\ http_issued' = [http_issued EXCEPT ![http_flow.issuer] = @ + 1]
            /\ http_honoured' = [http_honoured EXCEPT ![http_flow.issuer] = TRUE]
            /\ \E renewable \in BOOLEAN :
                  http_store' = [issuer |-> http_Configured, pair |-> http_issued[http_flow.issuer] + 1,
                                 renewable |-> renewable, fresh |-> TRUE]
        BY <1>3, <3>2 DEF Http!Callback
      <4>2. http_issued[http_flow.issuer] + 1 \in Http!Pairs
        BY <2>2, <4>1 DEF Http!TypeOK, Http!Pairs
      <4>3. http_issued' \in [http_Issuers -> Http!Pairs]
        BY <2>2, <4>1, <4>2 DEF Http!TypeOK
      <4>4. http_honoured' \in [http_Issuers -> BOOLEAN]
        BY <2>2, <4>1 DEF Http!TypeOK
      <4>5. http_store' \in Http!Credentials
        BY <4>1, <4>2 DEF Http!Credentials
      <4> QED BY <4>3, <4>4, <4>5
    <3> QED BY <3>1, <3>2
  <2> QED BY <2>1, <2>3 DEF Http!TypeOK, Http_Own, Http!NoMixUp
<1>4. CASE Http!CurrentHeader
  <2>1. /\ http_call # None /\ http_call \in Http_Call
        /\ UNCHANGED <<http_store, http_issued, http_honoured, http_flow, http_offered, http_sent>>
    BY <1>4 DEF Http!CurrentHeader, Http!TypeOK, Http_Call
  <2>2. CASE Http!Finish("auth")
    <3>1. "auth" \in Http!Answers
      BY DEF Http!Answers
    <3> QED BY <2>1, <2>2, <3>1, Http_Finished DEF Http!TypeOK, Http_Own, Http!NoMixUp
  <2>3. CASE ~Http!Finish("auth")
    <3>1. UNCHANGED <<http_answer, http_provider>>
      BY <1>4, <2>3 DEF Http!CurrentHeader
    <3>2. CASE http_store = None
      <4>1. http_call' = [http_call EXCEPT !.stage = "send"]
        BY <1>4, <2>3, <3>2 DEF Http!CurrentHeader, Http!Usable
      <4>2. /\ http_call' \in Http_Call /\ http_call'.token = http_call.token
            /\ http_call'.stage = "send"
        BY <2>1, <4>1 DEF Http_Call, Http!Stages
      <4> QED BY <2>1, <3>1, <4>2 DEF Http!TypeOK, Http_Own, Http!NoMixUp, Http_Call
    <3>3. CASE http_store # None
      <4>1. Http!Usable(http_store)
        BY <1>4, <2>3, <3>3 DEF Http!CurrentHeader, Http!Usable
      <4>2. http_call' = [http_call EXCEPT !.stage = IF http_store.fresh THEN "send" ELSE "refresh",
                                           !.token = http_store]
        BY <1>4, <4>1, <2>3, <3>3 DEF Http!CurrentHeader
      <4>3. http_store \in Http!Credentials /\ http_store.issuer = http_Configured
        BY <4>1 DEF Http!Usable, Http!TypeOK
      <4>4. Http_Sound(http_call')
        BY <2>1, <3>3, <4>2, <4>3 DEF Http_Sound, Http_Call, Http!Stages
      <4> QED BY <2>1, <3>1, <4>4 DEF Http!TypeOK, Http_Own, Http!NoMixUp, Http_Call, Http_Sound
    <3> QED BY <3>2, <3>3
  <2> QED BY <2>2, <2>3
<1>5. CASE Http!Refresh
  <2> DEFINE token == http_call.token
  <2>1. /\ http_call # None /\ http_call \in Http_Call /\ http_call.stage = "refresh"
        /\ token \in Http!Credentials /\ token.issuer = http_Configured
        /\ UNCHANGED <<http_honoured, http_flow, http_offered>>
    BY <1>5 DEF Http!Refresh, Http!TypeOK, Http_Own, Http_Call
  <2>2. http_issued' \in [http_Issuers -> Http!Pairs]
    <3>1. CASE UNCHANGED http_issued
      BY <3>1 DEF Http!TypeOK
    <3>2. CASE ~UNCHANGED http_issued
      <4>1. /\ http_issued[http_Configured] < http_MaxCalls
            /\ http_issued' = [http_issued EXCEPT ![http_Configured] = @ + 1]
        BY <1>5, <3>2 DEF Http!Refresh
      <4> QED BY <4>1 DEF Http!TypeOK, Http!Pairs
    <3> QED BY <3>1, <3>2
  <2>3. http_sent' \subseteq {http_Configured}
    BY <1>5, <2>1 DEF Http!Refresh
  <2>4. CASE Http!Finish("auth") /\ UNCHANGED http_store
    <3>1. "auth" \in Http!Answers
      BY DEF Http!Answers
    <3> QED BY <2>1, <2>2, <2>3, <2>4, <3>1, Http_Finished DEF Http!TypeOK, Http_Own, Http!NoMixUp
  <2>5. CASE ~(Http!Finish("auth") /\ UNCHANGED http_store)
    <3>1. /\ token.pair = http_issued[http_Configured] /\ http_issued[http_Configured] < http_MaxCalls
          /\ http_store' = Http!Renewed(token)
          /\ http_call' = [http_call EXCEPT !.stage = "send", !.token = http_store']
          /\ UNCHANGED <<http_answer, http_provider>>
      BY <1>5, <2>5 DEF Http!Refresh
    <3>2. token.pair + 1 \in Http!Pairs
      BY <2>1, <3>1 DEF Http!TypeOK, Http!Pairs, Http!Credentials
    <3>3. http_store' \in Http!Credentials /\ http_store'.issuer = http_Configured
      BY <2>1, <3>1, <3>2 DEF Http!Credentials, Http!Renewed
    <3>4. /\ http_call' \in Http_Call /\ http_call'.token = http_store' /\ http_call'.stage = "send"
      BY <2>1, <3>1, <3>3 DEF Http_Call, Http!Stages
    <3> HIDE DEF token
    <3> QED BY <2>1, <2>2, <2>3, <3>1, <3>3, <3>4 DEF Http!TypeOK, Http_Own, Http!NoMixUp, Http_Call
  <2> QED BY <2>4, <2>5
<1>6. CASE Http!Send
  <2>1. /\ http_call # None
        /\ http_sent' = IF http_call.token = None THEN http_sent ELSE http_sent \cup {http_call.token.issuer}
        /\ UNCHANGED <<http_store, http_issued, http_honoured, http_flow, http_offered>>
    BY <1>6 DEF Http!Send
  <2>2. \E class \in Http!Answers : Http!Finish(class)
    BY <1>6 DEF Http!Send, Http!Answers, Http!status_error
  <2>3. http_sent' \subseteq {http_Configured}
    BY <2>1 DEF Http_Own, Http!NoMixUp
  <2> QED BY <2>1, <2>2, <2>3, Http_Finished DEF Http!TypeOK, Http_Own, Http!NoMixUp
<1>7. CASE Http!query
  <2>1. Http_Sound(http_call') /\ http_sent' = {}
        /\ UNCHANGED <<http_store, http_issued, http_honoured, http_flow, http_offered, http_answer, http_provider>>
    BY <1>7, Http_Starts DEF Http!query, Http!Purposes
  <2> QED BY <2>1 DEF Http!TypeOK, Http_Own, Http!NoMixUp, Http_Sound, Http_Call
<1>8. CASE Http!call_tool
  <2>1. Http_Sound(http_call') /\ http_sent' = {}
        /\ UNCHANGED <<http_store, http_issued, http_honoured, http_flow, http_offered, http_answer, http_provider>>
    BY <1>8, Http_Starts DEF Http!call_tool, Http!Purposes
  <2> QED BY <2>1 DEF Http!TypeOK, Http_Own, Http!NoMixUp, Http_Sound, Http_Call
<1>9. CASE Http!take_last_error
  BY <1>9 DEF Http!take_last_error, Http!TypeOK, Http_Own, Http!NoMixUp
<1>10. CASE Http!Expires
  <2>1. /\ http_store # None /\ http_store' = [http_store EXCEPT !.fresh = FALSE]
        /\ UNCHANGED <<http_issued, http_honoured, http_flow, http_offered, http_call, http_answer, http_sent, http_provider>>
    BY <1>10 DEF Http!Expires
  <2>2. http_store' \in Http!Credentials /\ http_store'.issuer = http_store.issuer
    BY <2>1 DEF Http!TypeOK, Http!Credentials
  <2> QED BY <2>1, <2>2 DEF Http!TypeOK, Http_Own, Http!NoMixUp
<1>11. ASSUME NEW g \in BOOLEAN, Http!set_invoke_granted(g) PROVE Http_IInv'
  <2>1. /\ http_provider' = [http_provider EXCEPT !.granted = g]
        /\ \/ Http!Start("reproject")
           \/ UNCHANGED <<http_attached, http_store, http_issued, http_honoured, http_flow, http_offered,
                          http_call, http_answer, http_sent>>
    BY <1>11 DEF Http!set_invoke_granted
  <2>2. http_provider' \in [discovered : BOOLEAN, granted : BOOLEAN, commands : SUBSET http_Tools,
                            ready : BOOLEAN, error : BOOLEAN]
    BY <2>1 DEF Http!TypeOK
  <2>3. CASE Http!Start("reproject")
    <3>1. Http_Sound(http_call') /\ http_sent' = {}
          /\ UNCHANGED <<http_store, http_issued, http_honoured, http_flow, http_offered, http_answer>>
      BY <2>3, Http_Starts DEF Http!Purposes
    <3> QED BY <2>2, <3>1 DEF Http!TypeOK, Http_Own, Http!NoMixUp, Http_Sound, Http_Call
  <2>4. CASE UNCHANGED <<http_attached, http_store, http_issued, http_honoured, http_flow, http_offered,
                         http_call, http_answer, http_sent>>
    BY <2>2, <2>4 DEF Http!TypeOK, Http_Own, Http!NoMixUp
  <2> QED BY <2>1, <2>3, <2>4
<1>12. ASSUME NEW t \in SUBSET http_Tools, Http!ToolsChange(t) PROVE Http_IInv'
  BY <1>12 DEF Http!ToolsChange, Http!TypeOK, Http_Own, Http!NoMixUp
<1>13. CASE Http!SavedElsewhere
  <2>1. /\ \/ http_store' = None
           \/ \E i \in http_Issuers, renewable, fresh \in BOOLEAN :
                 http_store' = [issuer |-> i, pair |-> http_issued[i], renewable |-> renewable, fresh |-> fresh]
        /\ UNCHANGED <<http_issued, http_honoured, http_flow, http_offered, http_call, http_answer, http_sent, http_provider>>
    BY <1>13 DEF Http!SavedElsewhere
  <2>2. http_store' \in Http!Credentials \cup {None}
    BY <2>1 DEF Http!TypeOK, Http!Credentials
  <2> QED BY <2>1, <2>2 DEF Http!TypeOK, Http_Own, Http!NoMixUp
<1> QED BY <1>1, <1>2, <1>3, <1>4, <1>5, <1>6, <1>7, <1>8, <1>9, <1>10, <1>11, <1>12, <1>13 DEF Http!Next

LEMMA Http_Safety ==
  ASSUME http_Configured \in http_Issuers, http_MaxCalls \in Nat
  PROVE  Http!Spec => []Http!NoMixUp /\ []Http!TypeOK
<1>1. Http!Init => Http_IInv
  <2>1. Http!Init => /\ http_call = None /\ http_sent = {} /\ http_flow = None
                     /\ http_answer \in Http!Answers /\ http_offered \subseteq http_Tools
    BY DEF Http!Init, Http!Answers
  <2>2. 1 \in Http!Pairs
    BY DEF Http!Pairs
  <2>3. Http!Init => http_store \in Http!Credentials \cup {None}
    <3>1. ASSUME NEW i \in http_Issuers, NEW b \in BOOLEAN, NEW f \in BOOLEAN
          PROVE  [issuer |-> i, pair |-> 1, renewable |-> b, fresh |-> f] \in Http!Credentials
      BY <2>2 DEF Http!Credentials
    <3> QED BY <3>1 DEF Http!Init
  <2>4. Http!Init => http_issued \in [http_Issuers -> Http!Pairs] /\ http_honoured \in [http_Issuers -> BOOLEAN]
    BY <2>2 DEF Http!Init
  <2>5. Http!Init => http_provider \in [discovered : BOOLEAN, granted : BOOLEAN, commands : SUBSET http_Tools,
                                        ready : BOOLEAN, error : BOOLEAN]
    BY DEF Http!Init
  <2> QED BY <2>1, <2>2, <2>3, <2>4, <2>5 DEF Http_IInv, Http!TypeOK, Http_Own, Http!NoMixUp
<1>2. Http_IInv => Http!NoMixUp /\ Http!TypeOK
  BY DEF Http_IInv
<1> QED BY <1>1, <1>2, Http_Step, PTL DEF Http!Spec

LEMMA Http_Unit ==
  ASSUME [Next]_vars
  PROVE  /\ (unit = "http") = (unit = "http")'
         /\ unit = "http" => [Http!Next]_(Http!vars)
<1>1. CASE HttpStep
  BY <1>1 DEF HttpStep
<1>2. CASE UNCHANGED vars
  BY <1>2 DEF vars, httpVars, Http!vars
<1>3. CASE LifecycleStep \/ RegistryStep \/ PackagesStep \/ WireStep \/ SurfaceStep \/
      ManagerStep
  BY <1>3 DEF LifecycleStep, RegistryStep, PackagesStep, WireStep, SurfaceStep,
         ManagerStep
<1> QED BY <1>1, <1>2, <1>3 DEF Next

(* auth/mod.rs: no token, of access or to refresh with, goes out but those of the issuer the
   key names, although another process may put any issuer's credential into the store before
   a call, between its load and its refresh, and between its refresh and its sending. *)
THEOREM OwnTokens == Spec => []NoMixUp
<1>1. Init => (unit = "http" => Http!Init)
  BY DEF Init
<1>2. [Next]_vars /\ unit = "http" => [Http!Next]_(Http!vars) /\ (unit = "http")'
  BY Http_Unit
<1>3. [Next]_vars /\ ~(unit = "http") => ~(unit = "http")'
  BY Http_Unit
<1>4. Http!Spec => []Http!NoMixUp
  BY PluginsAssumption, Http_Safety
<1>5. (unit = "http" => Http!NoMixUp) => NoMixUp
  BY DEF NoMixUp
<1> QED BY <1>1, <1>2, <1>3, <1>4, <1>5, PTL DEF Spec, Http!Spec

-----------------------------------------------------------------------------
(* The wire: an answer is taken for the invocation it belongs to.            *)

Wire_Requests == [method : Wire!Methods, of : Nat]
Wire_Lines == [of : Nat, shape : Wire!Shapes, action : wire_Descriptors \cup {None}]

Wire_Typed ==
  /\ wire_calls \in Nat /\ wire_strays \in Nat
  /\ wire_inbox \in Seq(Wire_Requests) /\ wire_out \in Seq(Wire_Lines)
  /\ wire_process \in {"none", "up", "exited"} /\ wire_pc \in Wire!Methods \cup {"idle"}
  /\ wire_pc # "idle" => wire_process # "none" /\ wire_method \in Wire!Methods

(* As long as the plugin has written nothing of its own accord, there is at most one line on
   the wire, a request of the present invocation or its answer, and none between invocations. *)
Wire_Quiet ==
  wire_strays = 0 =>
    /\ wire_pc = "idle" => wire_inbox = <<>> /\ wire_out = <<>>
    /\ wire_inbox = <<>> \/ wire_out = <<>>
    /\ Len(wire_inbox) <= 1 /\ Len(wire_out) <= 1
    /\ \A i \in 1 .. Len(wire_inbox) : wire_inbox[i].of = wire_calls
    /\ \A i \in 1 .. Len(wire_out) : wire_out[i].of = wire_calls

Wire_IInv == Wire_Typed /\ Wire_Quiet /\ Wire!AnswerIsOwn

LEMMA Wire_Taken ==
  ASSUME NEW S, NEW q \in Seq(S), q # <<>>
  PROVE  /\ Head(q) \in S /\ Head(q) = q[1] /\ Len(q) >= 1
         /\ Tail(q) \in Seq(S) /\ Len(Tail(q)) = Len(q) - 1
         /\ \A i \in 1 .. Len(Tail(q)) : i + 1 \in 1 .. Len(q) /\ Tail(q)[i] = q[i + 1]
<1>1. Len(q) \in Nat /\ Len(q) >= 1
  OBVIOUS
<1>2. Head(q) \in S /\ Head(q) = q[1] /\ Tail(q) \in Seq(S) /\ Len(Tail(q)) = Len(q) - 1
  BY <1>1
<1>3. \A i \in 1 .. Len(Tail(q)) : i + 1 \in 1 .. Len(q) /\ Tail(q)[i] = q[i + 1]
  BY <1>1, <1>2
<1> QED BY <1>1, <1>2, <1>3

LEMMA Wire_Put ==
  ASSUME NEW S, NEW q \in Seq(S), NEW e \in S
  PROVE  /\ Append(q, e) \in Seq(S) /\ Len(Append(q, e)) = Len(q) + 1
         /\ Append(q, e)[Len(q) + 1] = e
         /\ \A i \in 1 .. Len(q) : Append(q, e)[i] = q[i]
OBVIOUS

LEMMA Wire_Single ==
  ASSUME NEW S, NEW q \in Seq(S), Len(q) = 0
  PROVE  q = <<>>
OBVIOUS

LEMMA Wire_Stutter == Wire_IInv /\ UNCHANGED Wire!vars => Wire_IInv'
BY DEF Wire_IInv, Wire_Typed, Wire_Quiet, Wire!AnswerIsOwn, Wire!vars, Wire!wire

(* The handle is gone or a fresh one, and the host waits for nothing. *)
LEMMA Wire_Over ==
  ASSUME Wire_IInv, wire_process' \in {"none", "up", "exited"}, wire_inbox' = <<>>, wire_out' = <<>>,
         wire_pc' = "idle", wire_outcome' \in {wire_outcome, None}, wire_calls' \in Nat,
         UNCHANGED wire_strays
  PROVE  Wire_IInv'
<1>1. Wire_Typed'
  BY DEF Wire_IInv, Wire_Typed
<1>2. Wire_Quiet'
  BY DEF Wire_Quiet
<1>3. Wire!AnswerIsOwn'
  BY DEF Wire_IInv, Wire!AnswerIsOwn
<1> QED BY <1>1, <1>2, <1>3 DEF Wire_IInv

(* Nothing is asked between invocations, so a new one starts on an empty wire. *)
LEMMA Wire_Invokes ==
  ASSUME NEW m \in {"query", "discover", "execute_action"}, Wire_IInv, Wire!invoke(m)
  PROVE  Wire_IInv'
<1>1. /\ wire_pc = "idle" /\ wire_calls' = wire_calls + 1 /\ wire_calls' \in Nat /\ wire_outcome' = None
      /\ UNCHANGED wire_strays
  BY DEF Wire!invoke, Wire_IInv, Wire_Typed
<1>2. m \in Wire!Methods /\ "initialize" \in Wire!Methods
  BY DEF Wire!Methods
<1>3. CASE wire_process = "up" /\ Wire!Sends(m, wire_calls') /\ wire_method' = m
           /\ UNCHANGED <<wire_process, wire_out>>
  <2> DEFINE e == [method |-> m, of |-> wire_calls']
  <2>1. e \in Wire_Requests /\ e.of = wire_calls'
    BY <1>1, <1>2 DEF Wire_Requests
  <2>2. wire_inbox' = Append(wire_inbox, e) /\ wire_pc' = m
    BY <1>3 DEF Wire!Sends
  <2> HIDE DEF e
  <2>3. /\ wire_inbox' \in Seq(Wire_Requests) /\ Len(wire_inbox') = Len(wire_inbox) + 1
        /\ wire_inbox'[Len(wire_inbox) + 1] = e
    BY <2>1, <2>2, Wire_Put DEF Wire_IInv, Wire_Typed
  <2>4. Wire_Typed'
    BY <1>1, <1>2, <1>3, <2>2, <2>3 DEF Wire_IInv, Wire_Typed
  <2>5. ASSUME wire_strays = 0 PROVE Wire_Quiet'
    <3>1. wire_inbox = <<>> /\ wire_out = <<>>
      BY <1>1, <2>5 DEF Wire_IInv, Wire_Quiet
    <3>2. Len(wire_inbox') = 1 /\ wire_inbox'[1] = e /\ wire_out' = <<>>
      BY <1>3, <2>3, <3>1
    <3>3. wire_pc' # "idle"
      BY <2>2
    <3> QED BY <2>1, <3>2, <3>3 DEF Wire_Quiet
  <2>6. Wire_Quiet'
    BY <1>1, <2>5 DEF Wire_Quiet
  <2> QED BY <1>1, <2>4, <2>6 DEF Wire_IInv, Wire!AnswerIsOwn
<1>4. CASE wire_process' = "up" /\ wire_out' = <<>> /\ wire_method' = m
           /\ wire_inbox' = <<[method |-> "initialize", of |-> wire_calls']>> /\ wire_pc' = "initialize"
  <2> DEFINE e == [method |-> "initialize", of |-> wire_calls']
  <2>1. e \in Wire_Requests /\ e.of = wire_calls'
    BY <1>1, <1>2 DEF Wire_Requests
  <2>2. wire_inbox' = <<e>>
    BY <1>4
  <2> HIDE DEF e
  <2>3. wire_inbox' \in Seq(Wire_Requests) /\ Len(wire_inbox') = 1 /\ wire_inbox'[1] = e
    BY <2>1, <2>2
  <2>4. Wire_Typed'
    BY <1>1, <1>2, <1>4, <2>3 DEF Wire_IInv, Wire_Typed
  <2>5. Wire_Quiet'
    BY <1>1, <1>4, <2>1, <2>3 DEF Wire_Quiet
  <2> QED BY <1>1, <2>4, <2>5 DEF Wire_IInv, Wire!AnswerIsOwn
<1>5. CASE wire_process # "up" /\ Wire!Gone /\ Wire!Idle
  BY <1>1, <1>5, Wire_Over DEF Wire!Gone, Wire!Idle
<1> QED BY <1>3, <1>4, <1>5 DEF Wire!invoke

LEMMA Wire_Serves ==
  ASSUME Wire_IInv, Wire!serve
  PROVE  Wire_IInv'
<1> DEFINE req == Head(wire_inbox)
<1>1. PICK shape \in Wire!Shapes, d \in wire_Descriptors \cup {None} :
         /\ wire_inbox' = Tail(wire_inbox)
         /\ wire_out' = Append(wire_out, Wire!Answer(req.of, shape, d))
         /\ wire_process' = IF req.method = "shutdown" THEN "exited" ELSE "up"
  <2>1. req.method \in Wire!Methods => Wire!ShapesFor(req.method) \subseteq Wire!Shapes
    BY DEF Wire!ShapesFor, Wire!Shapes, Wire!Methods
  <2>2. req \in Wire_Requests
    BY Wire_Taken DEF Wire!serve, Wire_IInv, Wire_Typed
  <2>3. req.method \in Wire!Methods
    BY <2>2 DEF Wire_Requests
  <2> QED BY <2>1, <2>3 DEF Wire!serve
<1>2. /\ wire_inbox # <<>> /\ wire_process = "up"
      /\ UNCHANGED <<wire_pc, wire_method, wire_outcome, wire_calls, wire_strays>>
  BY DEF Wire!serve
<1>3. /\ req \in Wire_Requests /\ req = wire_inbox[1] /\ Len(wire_inbox) >= 1
      /\ wire_inbox' \in Seq(Wire_Requests) /\ Len(wire_inbox') = Len(wire_inbox) - 1
  BY <1>1, <1>2, Wire_Taken DEF Wire_IInv, Wire_Typed
<1> DEFINE a == Wire!Answer(req.of, shape, d)
<1>4. a \in Wire_Lines /\ a.of = req.of
  BY <1>3 DEF Wire_Lines, Wire!Answer, Wire_Requests
<1> HIDE DEF a, req
<1>5. /\ wire_out' \in Seq(Wire_Lines) /\ Len(wire_out') = Len(wire_out) + 1
      /\ wire_out'[Len(wire_out) + 1] = a
  BY <1>1, <1>4, Wire_Put DEF Wire_IInv, Wire_Typed, a
<1>6. Wire_Typed'
  BY <1>1, <1>2, <1>3, <1>5 DEF Wire_IInv, Wire_Typed
<1>7. ASSUME wire_strays = 0 PROVE Wire_Quiet'
  <2>1. wire_out = <<>> /\ Len(wire_inbox) = 1 /\ wire_pc # "idle" /\ req.of = wire_calls
    BY <1>2, <1>3, <1>7 DEF Wire_IInv, Wire_Quiet, Wire_Typed
  <2>2. Len(wire_inbox') = 0 /\ wire_inbox' = <<>>
    BY <1>3, <2>1, Wire_Single
  <2>3. Len(wire_out') = 1 /\ wire_out'[1] = a
    BY <1>5, <2>1
  <2> QED BY <1>2, <1>4, <2>1, <2>2, <2>3 DEF Wire_Quiet
<1>8. Wire_Quiet'
  BY <1>2, <1>7 DEF Wire_Quiet
<1> QED BY <1>2, <1>6, <1>8 DEF Wire_IInv, Wire!AnswerIsOwn

(* A line of the plugin's own accord ends the quiet for good. *)
LEMMA Wire_Strays ==
  ASSUME Wire_IInv, Wire!Strays
  PROVE  Wire_IInv'
<1>1. PICK shape \in Wire!Shapes, of \in 1 .. wire_calls :
         wire_out' = Append(wire_out, Wire!Answer(of, shape, None))
  BY DEF Wire!Strays
<1>2. /\ wire_strays' = wire_strays + 1
      /\ UNCHANGED <<wire_process, wire_inbox, wire_pc, wire_method, wire_outcome, wire_calls>>
  BY DEF Wire!Strays
<1>3. wire_strays \in Nat /\ wire_strays' \in Nat /\ wire_strays' > 0 /\ wire_calls \in Nat
  BY <1>2 DEF Wire_IInv, Wire_Typed
<1>4. Wire!Answer(of, shape, None) \in Wire_Lines
  BY <1>3 DEF Wire!Answer, Wire_Lines
<1>5. wire_out' \in Seq(Wire_Lines)
  BY <1>1, <1>4, Wire_Put DEF Wire_IInv, Wire_Typed
<1>6. Wire_Typed'
  BY <1>2, <1>3, <1>5 DEF Wire_IInv, Wire_Typed
<1>7. Wire_Quiet' /\ Wire!AnswerIsOwn'
  BY <1>2, <1>3 DEF Wire_Quiet, Wire_IInv, Wire!AnswerIsOwn
<1> QED BY <1>6, <1>7 DEF Wire_IInv

(* A line was read, and the host goes on to ask something: the wire holds its request alone. *)
LEMMA Wire_Asks ==
  ASSUME Wire_IInv, wire_pc # "idle", wire_out # <<>>, wire_out' = Tail(wire_out),
         NEW m \in Wire!Methods, Wire!Sends(m, wire_calls), UNCHANGED <<wire_process, wire_method, wire_calls, wire_strays>>
  PROVE  Wire_Typed' /\ Wire_Quiet'
<1> DEFINE e == [method |-> m, of |-> wire_calls]
<1>1. e \in Wire_Requests /\ e.of = wire_calls /\ m # "idle"
  BY DEF Wire_Requests, Wire_IInv, Wire_Typed, Wire!Methods
<1>2. wire_inbox' = Append(wire_inbox, e) /\ wire_pc' = m
  BY DEF Wire!Sends
<1> HIDE DEF e
<1>3. /\ wire_inbox' \in Seq(Wire_Requests) /\ Len(wire_inbox') = Len(wire_inbox) + 1
      /\ wire_inbox'[Len(wire_inbox) + 1] = e
  BY <1>1, <1>2, Wire_Put DEF Wire_IInv, Wire_Typed
<1>4. wire_out' \in Seq(Wire_Lines) /\ Len(wire_out') = Len(wire_out) - 1
  BY Wire_Taken DEF Wire_IInv, Wire_Typed
<1>5. Wire_Typed'
  BY <1>2, <1>3, <1>4 DEF Wire_IInv, Wire_Typed
<1>6. ASSUME wire_strays = 0 PROVE Wire_Quiet'
  <2>1. Len(wire_out) = 1 /\ wire_inbox = <<>>
    <3>1. wire_inbox = <<>> /\ Len(wire_out) <= 1
      BY <1>6 DEF Wire_IInv, Wire_Quiet
    <3>2. Len(wire_out) \in Nat /\ Len(wire_out) >= 1
      BY Wire_Taken DEF Wire_IInv, Wire_Typed
    <3>3. \A n \in Nat : n >= 1 /\ n <= 1 => n = 1
      OBVIOUS
    <3> QED BY <3>1, <3>2, <3>3
  <2>2. wire_out' = <<>>
    BY <1>4, <2>1, Wire_Single
  <2>3. Len(wire_inbox') = 1 /\ wire_inbox'[1] = e
    BY <1>3, <2>1
  <2> QED BY <1>1, <1>2, <2>2, <2>3 DEF Wire_Quiet
<1>7. Wire_Quiet'
  BY <1>6 DEF Wire_Quiet
<1> QED BY <1>5, <1>7

LEMMA Wire_Reads ==
  ASSUME Wire_IInv, Wire!Reads
  PROVE  Wire_IInv'
<1> DEFINE line == Head(wire_out)
<1>1. /\ wire_pc # "idle" /\ wire_out # <<>> /\ UNCHANGED <<wire_calls, wire_strays>>
      /\ wire_pc \in Wire!Methods /\ wire_method \in Wire!Methods
      /\ wire_process \in {"none", "up", "exited"} /\ wire_calls \in Nat /\ wire_strays \in Nat
  BY DEF Wire!Reads, Wire_IInv, Wire_Typed
<1>2. line \in Wire_Lines /\ line = wire_out[1] /\ Len(wire_out) >= 1
  BY <1>1, Wire_Taken DEF Wire_IInv, Wire_Typed
<1>3. wire_strays = 0 => line.of = wire_calls
  BY <1>2 DEF Wire_IInv, Wire_Quiet, Wire_Typed
<1> HIDE DEF line
<1>4. ASSUME Wire!Fails, UNCHANGED wire_outcome PROVE Wire_IInv'
  BY <1>1, <1>4, Wire_Over DEF Wire!Fails, Wire!Gone, Wire!Idle
<1>5. CASE Wire!Handshake(line)
  <2>1. CASE line.shape = "echo"
    BY <1>1, <1>5, <2>1, Wire_Asks DEF Wire!Handshake, Wire!Sends, Wire_IInv, Wire!AnswerIsOwn
  <2>2. CASE line.shape # "echo"
    BY <1>4, <1>5, <2>2 DEF Wire!Handshake
  <2> QED BY <2>1, <2>2
<1>6. CASE Wire!Accepts(line)
  <2>1. CASE ~Wire!Fits(line)
    BY <1>4, <1>6, <2>1 DEF Wire!Accepts
  <2>2. CASE Wire!Fits(line)
    <3>1. /\ wire_outcome' = [of |-> wire_calls, answer |-> line.of, shape |-> line.shape,
                              action |-> Wire!classify_action(line.action)]
          /\ wire_out' = Tail(wire_out) /\ Wire!Finishes(line.shape) /\ UNCHANGED wire_process
      BY <1>6, <2>2 DEF Wire!Accepts, line
    <3>2. line.shape = "echo" => line.of = wire_calls
      BY <2>2 DEF Wire!Fits, Wire!parse_query_result, Wire!execute_action_result
    <3>3. Wire!AnswerIsOwn'
      BY <1>1, <1>3, <3>1, <3>2 DEF Wire!AnswerIsOwn
    <3>4. CASE wire_manifest.lifetime = "Ephemeral"
      <4>1. Wire!Sends("shutdown", wire_calls) /\ UNCHANGED wire_method /\ "shutdown" \in Wire!Methods
        BY <3>1, <3>4 DEF Wire!Finishes, Wire!Methods
      <4> QED BY <1>1, <3>1, <3>3, <4>1, Wire_Asks DEF Wire_IInv
    <3>5. CASE wire_manifest.lifetime # "Ephemeral"
      <4>1. wire_pc' = "idle" /\ UNCHANGED wire_inbox
        BY <3>1, <3>5 DEF Wire!Finishes, Wire!Idle
      <4>2. wire_out' \in Seq(Wire_Lines) /\ Len(wire_out') = Len(wire_out) - 1
        BY <1>1, <3>1, Wire_Taken DEF Wire_IInv, Wire_Typed
      <4>3. Wire_Typed'
        BY <1>1, <3>1, <4>1, <4>2 DEF Wire_IInv, Wire_Typed
      <4>4. ASSUME wire_strays = 0 PROVE Wire_Quiet'
        <5>1. Len(wire_out) = 1 /\ wire_inbox = <<>>
          <6>1. wire_inbox = <<>> /\ Len(wire_out) <= 1
            BY <1>1, <4>4 DEF Wire_IInv, Wire_Quiet
          <6>2. Len(wire_out) \in Nat
            BY DEF Wire_IInv, Wire_Typed
          <6>3. \A n \in Nat : n >= 1 /\ n <= 1 => n = 1
            OBVIOUS
          <6> QED BY <1>2, <6>1, <6>2, <6>3
        <5>2. wire_out' = <<>> /\ wire_inbox' = <<>>
          BY <4>1, <4>2, <5>1, Wire_Single
        <5> QED BY <5>2 DEF Wire_Quiet
      <4>5. Wire_Quiet'
        BY <1>1, <4>4 DEF Wire_Quiet
      <4> QED BY <3>3, <4>3, <4>5 DEF Wire_IInv
    <3> QED BY <3>4, <3>5
  <2> QED BY <2>1, <2>2
<1>7. CASE Wire!Shuts(line)
  BY <1>1, <1>7, Wire_Over DEF Wire!Shuts, Wire!Idle
<1> QED BY <1>5, <1>6, <1>7 DEF Wire!Reads, line

LEMMA Wire_Step == Wire_IInv /\ [Wire!Next]_(Wire!vars) => Wire_IInv'
<1> SUFFICES ASSUME Wire_IInv, Wire!Next PROVE Wire_IInv'
  BY Wire_Stutter
<1>1. CASE Wire!Exits
  BY <1>1 DEF Wire!Exits, Wire_IInv, Wire_Typed, Wire_Quiet, Wire!AnswerIsOwn
<1>2. CASE Wire!idle_reclaim
  BY <1>2, Wire_Over DEF Wire!idle_reclaim, Wire!Gone, Wire_IInv, Wire_Typed
<1>3. CASE Wire!TimesOut
  BY <1>3, Wire_Over DEF Wire!TimesOut, Wire!Shuts, Wire!Fails, Wire!Gone, Wire!Idle, Wire_IInv, Wire_Typed
<1> QED BY <1>1, <1>2, <1>3, Wire_Serves, Wire_Strays, Wire_Reads, Wire_Invokes DEF Wire!Next

LEMMA Wire_Safety == Wire!Spec => []Wire!AnswerIsOwn
<1>1. Wire!Init => Wire_IInv
  BY DEF Wire!Init, Wire_IInv, Wire_Typed, Wire_Quiet, Wire!AnswerIsOwn
<1>2. Wire_IInv => Wire!AnswerIsOwn
  BY DEF Wire_IInv
<1> QED BY <1>1, <1>2, Wire_Step, PTL DEF Wire!Spec

LEMMA Wire_Unit ==
  ASSUME [Next]_vars
  PROVE  /\ (unit = "wire") = (unit = "wire")'
         /\ unit = "wire" => [Wire!Next]_(Wire!vars)
<1>1. CASE WireStep
  BY <1>1 DEF WireStep
<1>2. CASE UNCHANGED vars
  BY <1>2 DEF vars, wireVars, Wire!vars, Wire!wire
<1>3. CASE LifecycleStep \/ RegistryStep \/ PackagesStep \/ SurfaceStep \/ HttpStep \/
      ManagerStep
  BY <1>3 DEF LifecycleStep, RegistryStep, PackagesStep, SurfaceStep, HttpStep,
         ManagerStep
<1> QED BY <1>1, <1>2, <1>3 DEF Next

(* launcher-plugin-host, query and execute_action: after any timeouts, crashes and respawns,
   what an invocation returns is the plugin's answer to that invocation, unless the plugin
   once wrote a line that nobody asked for and the answer is of a shape without an echo. *)
THEOREM OwnAnswers == Spec => []AnswerIsOwn
<1>1. Init => (unit = "wire" => Wire!Init)
  BY DEF Init
<1>2. [Next]_vars /\ unit = "wire" => [Wire!Next]_(Wire!vars) /\ (unit = "wire")'
  BY Wire_Unit
<1>3. [Next]_vars /\ ~(unit = "wire") => ~(unit = "wire")'
  BY Wire_Unit
<1>4. Wire!Spec => []Wire!AnswerIsOwn
  BY Wire_Safety
<1>5. (unit = "wire" => Wire!AnswerIsOwn) => AnswerIsOwn
  BY DEF AnswerIsOwn
<1> QED BY <1>1, <1>2, <1>3, <1>4, <1>5, PTL DEF Spec, Wire!Spec

-----------------------------------------------------------------------------
(* The registry: what is trusted or allowed was the host's last word.        *)

Registry_Row == [enabled : BOOLEAN, quarantined : BOOLEAN, failures : Nat,
                 trust : Registry!TrustState, revision : Nat]
Registry_Rows == [registry_Plugins -> Registry_Row]
Registry_Decisions == [Registry!Pairs -> Registry!CapDecision]
Registry_ToolSets == SUBSET [plugin : registry_Plugins, tool : registry_Tools,
                             functions : BOOLEAN, contract : BOOLEAN]
Registry_Tables == [plugins : Registry_Rows, rows : SUBSET registry_Plugins,
                    capabilities : Registry_Decisions, tools : Registry_ToolSets]
Registry_Trusts == [registry_Plugins -> SUBSET Registry!TrustState]
Registry_Doubts == [Registry!Pairs -> SUBSET Registry!CapDecision]
Registry_Switches == [registry_Plugins -> SUBSET BOOLEAN]
Registry_Words == [trust : Registry_Trusts, decision : Registry_Doubts, enabled : Registry_Switches]

(* Whatever the tables grant, the words granted. *)
Registry_Covered(tables, words) ==
  /\ \A p \in registry_Plugins : tables.plugins[p].trust = "trusted" => "trusted" \in words.trust[p]
  /\ \A x \in Registry!Pairs : tables.capabilities[x] = "allow" => "allow" \in words.decision[x]

(* The file and its backup are both covered by the words in doubt, so that a start may take
   either; and the file is covered by the words it holds, which are all that is left of the
   doubt once a backup is written. *)
Registry_IInv ==
  /\ registry_db \in Registry_Tables /\ Registry_Covered(registry_db, registry_last)
  /\ registry_backup # None =>
        registry_backup \in Registry_Tables /\ Registry_Covered(registry_backup, registry_last)
  /\ registry_last \in Registry_Words
  /\ registry_held \in Registry_Words /\ Registry_Covered(registry_db, registry_held)

LEMMA Registry_Fresh ==
  /\ Registry!Fresh \in Registry_Tables
  /\ \A words : Registry_Covered(Registry!Fresh, words)
  /\ \A off \in SUBSET registry_Plugins :
        /\ Registry!migrate(off) \in Registry_Tables
        /\ \A words : Registry_Covered(Registry!migrate(off), words)
<1>1. ASSUME NEW b \in BOOLEAN
      PROVE  /\ [Registry!Absent EXCEPT !.enabled = b] \in Registry_Row
             /\ [Registry!Absent EXCEPT !.enabled = b].trust = "unknown"
  BY <1>1 DEF Registry!Absent, Registry_Row, Registry!TrustState
<1>2. Registry!Absent \in Registry_Row /\ Registry!Absent.trust = "unknown"
  BY DEF Registry!Absent, Registry_Row, Registry!TrustState
<1>3. "unset" \in Registry!CapDecision
  BY DEF Registry!CapDecision
<1>4. Registry!Fresh \in Registry_Tables /\ \A words : Registry_Covered(Registry!Fresh, words)
  BY <1>2, <1>3 DEF Registry!Fresh, Registry_Tables, Registry_Covered, Registry_Rows, Registry_Decisions, Registry_ToolSets
<1>5. ASSUME NEW off \in SUBSET registry_Plugins
      PROVE  /\ Registry!migrate(off) \in Registry_Tables
             /\ \A words : Registry_Covered(Registry!migrate(off), words)
  <2> DEFINE rows == [p \in registry_Plugins |-> [Registry!Absent EXCEPT !.enabled = p \notin off]]
  <2>1. \A p \in registry_Plugins : rows[p] \in Registry_Row /\ rows[p].trust = "unknown"
    BY <1>1
  <2>2. rows \in [registry_Plugins -> Registry_Row]
    BY <2>1
  <2>3. Registry!migrate(off) = [Registry!Fresh EXCEPT !.plugins = rows, !.rows = off]
    BY DEF Registry!migrate
  <2> HIDE DEF rows
  <2>4. Registry!migrate(off) \in Registry_Tables
    BY <1>4, <2>2, <2>3 DEF Registry_Tables, Registry_Rows
  <2>5. Registry!migrate(off).plugins = rows
        /\ Registry!migrate(off).capabilities = [x \in Registry!Pairs |-> "unset"]
    BY <1>4, <2>3 DEF Registry_Tables, Registry!Fresh
  <2> QED BY <2>1, <2>4, <2>5 DEF Registry_Covered
<1> QED BY <1>4, <1>5

(* A row is rewritten, and with it what may have been said. *)
LEMMA Registry_Rewritten ==
  ASSUME NEW p \in registry_Plugins, NEW r \in Registry_Row, registry_db \in Registry_Tables
  PROVE  /\ Registry!Row(p, r) \in Registry_Tables
         /\ Registry!Row(p, r).capabilities = registry_db.capabilities
         /\ Registry!Row(p, r).plugins[p].trust = r.trust
         /\ \A q \in registry_Plugins : q # p => Registry!Row(p, r).plugins[q] = registry_db.plugins[q]
<1> DEFINE n == [r EXCEPT !.revision = @ + 1]
<1>1. n \in Registry_Row /\ n.trust = r.trust
  BY DEF Registry_Row
<1> DEFINE rows == [registry_db.plugins EXCEPT ![p] = n]
<1>2. Registry!Row(p, r) = [registry_db EXCEPT !.plugins = rows, !.rows = registry_db.rows \cup {p}]
  BY DEF Registry!Row, Registry_Tables
<1> HIDE DEF n
<1>3. /\ rows \in [registry_Plugins -> Registry_Row] /\ rows[p] = n
      /\ \A q \in registry_Plugins : q # p => rows[q] = registry_db.plugins[q]
  BY <1>1 DEF Registry_Tables, Registry_Rows
<1> HIDE DEF rows
<1>4. /\ Registry!Row(p, r) \in Registry_Tables /\ Registry!Row(p, r).plugins = rows
      /\ Registry!Row(p, r).capabilities = registry_db.capabilities
  <2>1. /\ registry_db.rows \cup {p} \in SUBSET registry_Plugins
        /\ registry_db.tools \in Registry_ToolSets /\ registry_db.capabilities \in Registry_Decisions
    BY DEF Registry_Tables
  <2>2. rows \in Registry_Rows
    BY <1>3 DEF Registry_Rows
  <2> DEFINE seen == registry_db.rows \cup {p}
  <2>3. seen \in SUBSET registry_Plugins
    BY <2>1
  <2> HIDE DEF seen
  <2>4. /\ [registry_db EXCEPT !.plugins = rows, !.rows = seen] \in Registry_Tables
        /\ [registry_db EXCEPT !.plugins = rows, !.rows = seen].plugins = rows
        /\ [registry_db EXCEPT !.plugins = rows, !.rows = seen].capabilities = registry_db.capabilities
    BY <2>1, <2>2, <2>3 DEF Registry_Tables
  <2> QED BY <1>2, <2>4 DEF seen
<1> QED BY <1>1, <1>3, <1>4

(* A word about one plugin leaves the words about the others, and the other words. *)
LEMMA Registry_Enables ==
  ASSUME NEW w \in Registry_Words, NEW p \in registry_Plugins, NEW S \in SUBSET BOOLEAN
  PROVE  /\ [w EXCEPT !.enabled[p] = S] \in Registry_Words
         /\ [w EXCEPT !.enabled[p] = S].trust = w.trust
         /\ [w EXCEPT !.enabled[p] = S].decision = w.decision
<1> DEFINE n == [w.enabled EXCEPT ![p] = S]
<1>1. n \in Registry_Switches
  BY DEF Registry_Words, Registry_Switches
<1>2. [w EXCEPT !.enabled[p] = S] = [w EXCEPT !.enabled = n]
  BY DEF Registry_Words
<1> HIDE DEF n
<1>3. [w EXCEPT !.enabled = n] \in Registry_Words /\ [w EXCEPT !.enabled = n].enabled = n /\ [w EXCEPT !.enabled = n].trust = w.trust /\ [w EXCEPT !.enabled = n].decision = w.decision
  BY <1>1 DEF Registry_Words
<1> QED BY <1>2, <1>3 DEF n

LEMMA Registry_Trusting ==
  ASSUME NEW w \in Registry_Words, NEW p \in registry_Plugins, NEW S \in SUBSET Registry!TrustState
  PROVE  /\ [w EXCEPT !.trust[p] = S] \in Registry_Words
         /\ [w EXCEPT !.trust[p] = S].trust = [w.trust EXCEPT ![p] = S]
         /\ [w EXCEPT !.trust[p] = S].decision = w.decision
<1> DEFINE n == [w.trust EXCEPT ![p] = S]
<1>1. n \in Registry_Trusts
  BY DEF Registry_Words, Registry_Trusts
<1>2. [w EXCEPT !.trust[p] = S] = [w EXCEPT !.trust = n]
  BY DEF Registry_Words
<1> HIDE DEF n
<1>3. [w EXCEPT !.trust = n] \in Registry_Words /\ [w EXCEPT !.trust = n].trust = n /\ [w EXCEPT !.trust = n].decision = w.decision
  BY <1>1 DEF Registry_Words
<1> QED BY <1>2, <1>3 DEF n

LEMMA Registry_Deciding ==
  ASSUME NEW w \in Registry_Words, NEW x \in Registry!Pairs, NEW S \in SUBSET Registry!CapDecision
  PROVE  /\ [w EXCEPT !.decision[x] = S] \in Registry_Words
         /\ [w EXCEPT !.decision[x] = S].decision = [w.decision EXCEPT ![x] = S]
         /\ [w EXCEPT !.decision[x] = S].trust = w.trust
<1> DEFINE n == [w.decision EXCEPT ![x] = S]
<1>1. n \in Registry_Doubts
  BY DEF Registry_Words, Registry_Doubts
<1>2. [w EXCEPT !.decision[x] = S] = [w EXCEPT !.decision = n]
  BY DEF Registry_Words
<1> HIDE DEF n
<1>3. [w EXCEPT !.decision = n] \in Registry_Words /\ [w EXCEPT !.decision = n].decision = n /\ [w EXCEPT !.decision = n].trust = w.trust
  BY <1>1 DEF Registry_Words
<1> QED BY <1>2, <1>3 DEF n

(* A call that writes tables covered by what the host says, now and after the backup. *)
LEMMA Registry_Calls ==
  ASSUME Registry_IInv, registry_db' \in Registry_Tables, registry_last' \in Registry_Words,
         Registry_Covered(registry_db', registry_last'),
         \A p \in registry_Plugins : registry_last.trust[p] \subseteq registry_last'.trust[p],
         \A x \in Registry!Pairs : registry_last.decision[x] \subseteq registry_last'.decision[x],
         registry_held' \in Registry_Words, Registry_Covered(registry_db', registry_held'),
         UNCHANGED registry_backup
  PROVE  Registry_IInv'
<1>1. registry_backup # None => Registry_Covered(registry_backup, registry_last')
  BY DEF Registry_IInv, Registry_Covered
<1> QED BY <1>1 DEF Registry_IInv

(* A call about one row that says nothing about trust, or that it says. *)
LEMMA Registry_RowCalls ==
  ASSUME Registry_IInv, NEW p \in registry_Plugins, NEW r \in Registry_Row,
         registry_db' = Registry!Row(p, r), NEW w \in Registry_Words, NEW v \in Registry_Words,
         registry_last' = v, registry_held' = w,
         w.decision = registry_held.decision, v.decision = registry_last.decision,
         \A q \in registry_Plugins :
            /\ registry_last.trust[q] \subseteq v.trust[q]
            /\ q # p => w.trust[q] = registry_held.trust[q],
         r.trust = "trusted" => "trusted" \in w.trust[p] /\ "trusted" \in v.trust[p],
         UNCHANGED registry_backup
  PROVE  Registry_IInv'
<1>1. /\ registry_db \in Registry_Tables /\ Registry_Covered(registry_db, registry_last)
      /\ registry_last \in Registry_Words /\ Registry_Covered(registry_db, registry_held)
  BY DEF Registry_IInv
<1>2. /\ registry_db' \in Registry_Tables /\ registry_db'.capabilities = registry_db.capabilities
      /\ registry_db'.plugins[p].trust = r.trust
      /\ \A q \in registry_Plugins : q # p => registry_db'.plugins[q] = registry_db.plugins[q]
  BY <1>1, Registry_Rewritten
<1>3. Registry_Covered(registry_db', w)
  BY <1>1, <1>2 DEF Registry_Covered
<1>4. Registry_Covered(registry_db', v)
  BY <1>1, <1>2 DEF Registry_Covered
<1> QED BY <1>1, <1>2, <1>3, <1>4, Registry_Calls

(* The row of a plugin, with one of its columns rewritten. *)
LEMMA Registry_RowEnabled ==
  ASSUME NEW r \in Registry_Row, NEW on \in BOOLEAN
  PROVE  [r EXCEPT !.enabled = on] \in Registry_Row /\ [r EXCEPT !.enabled = on].trust = r.trust
BY DEF Registry_Row

LEMMA Registry_RowTrust ==
  ASSUME NEW r \in Registry_Row, NEW t \in Registry!TrustState
  PROVE  [r EXCEPT !.trust = t] \in Registry_Row /\ [r EXCEPT !.trust = t].trust = t
BY DEF Registry_Row

LEMMA Registry_RowFailures ==
  ASSUME NEW r \in Registry_Row, NEW n \in Nat, NEW b \in BOOLEAN
  PROVE  /\ [r EXCEPT !.failures = n, !.quarantined = b] \in Registry_Row
         /\ [r EXCEPT !.failures = n, !.quarantined = b].trust = r.trust
BY DEF Registry_Row

LEMMA Registry_set_enabled ==
  ASSUME Registry_IInv, NEW p \in registry_Plugins, NEW on \in BOOLEAN, Registry!set_enabled(p, on)
  PROVE  Registry_IInv'
<1> DEFINE r == [registry_db.plugins[p] EXCEPT !.enabled = on]
           v == [registry_last EXCEPT !.enabled[p] = @ \cup {on}]
           w == [registry_held EXCEPT !.enabled[p] = {on}]
<1>1. registry_db' = Registry!Row(p, r) /\ registry_last' = v /\ registry_held' = w
      /\ UNCHANGED registry_backup
  BY DEF Registry!set_enabled, Registry!Says, Registry!Call
<1>2. registry_db.plugins[p] \in Registry_Row /\ registry_last \in Registry_Words
      /\ Registry_Covered(registry_db, registry_last)
      /\ registry_held \in Registry_Words /\ Registry_Covered(registry_db, registry_held)
  BY DEF Registry_IInv, Registry_Tables, Registry_Rows
<1>3. r \in Registry_Row /\ r.trust = registry_db.plugins[p].trust
  BY <1>2, Registry_RowEnabled
<1>4. registry_last.enabled[p] \cup {on} \in SUBSET BOOLEAN /\ {on} \in SUBSET BOOLEAN
  BY <1>2 DEF Registry_Words, Registry_Switches
<1>5. v \in Registry_Words /\ v.trust = registry_last.trust /\ v.decision = registry_last.decision
  BY <1>2, <1>4, Registry_Enables
<1>6. w \in Registry_Words /\ w.trust = registry_held.trust /\ w.decision = registry_held.decision
  BY <1>2, <1>4, Registry_Enables
<1>7. r.trust = "trusted" => "trusted" \in registry_last.trust[p] /\ "trusted" \in registry_held.trust[p]
  BY <1>2, <1>3 DEF Registry_Covered
<1> HIDE DEF r, v, w
<1> QED BY <1>1, <1>3, <1>5, <1>6, <1>7, Registry_RowCalls

LEMMA Registry_set_trust ==
  ASSUME Registry_IInv, NEW p \in registry_Plugins, NEW t \in Registry!TrustState,
         Registry!set_trust(p, t)
  PROVE  Registry_IInv'
<1> DEFINE r == [registry_db.plugins[p] EXCEPT !.trust = t]
           v == [registry_last EXCEPT !.trust[p] = @ \cup {t}]
           w == [registry_held EXCEPT !.trust[p] = {t}]
<1>1. registry_db' = Registry!Row(p, r) /\ registry_last' = v /\ registry_held' = w
      /\ UNCHANGED registry_backup
  BY DEF Registry!set_trust, Registry!Says, Registry!Call
<1>2. registry_db.plugins[p] \in Registry_Row /\ registry_last \in Registry_Words
      /\ registry_last.trust \in Registry_Trusts
      /\ registry_held \in Registry_Words /\ registry_held.trust \in Registry_Trusts
  BY DEF Registry_IInv, Registry_Tables, Registry_Rows, Registry_Words
<1>3. r \in Registry_Row /\ r.trust = t
  BY <1>2, Registry_RowTrust
<1>4. registry_last.trust[p] \cup {t} \in SUBSET Registry!TrustState /\ {t} \in SUBSET Registry!TrustState
  BY <1>2 DEF Registry_Trusts
<1>5. /\ v \in Registry_Words /\ v.decision = registry_last.decision
      /\ v.trust = [registry_last.trust EXCEPT ![p] = registry_last.trust[p] \cup {t}]
  BY <1>2, <1>4, Registry_Trusting
<1>6. /\ w \in Registry_Words /\ w.decision = registry_held.decision
      /\ w.trust = [registry_held.trust EXCEPT ![p] = {t}]
  BY <1>2, <1>4, Registry_Trusting
<1> HIDE DEF r, v, w
<1>7. /\ \A q \in registry_Plugins : registry_last.trust[q] \subseteq v.trust[q]
      /\ \A q \in registry_Plugins : q # p => w.trust[q] = registry_held.trust[q]
      /\ t \in w.trust[p] /\ t \in v.trust[p]
  BY <1>2, <1>5, <1>6 DEF Registry_Trusts
<1>8. r.trust = "trusted" => "trusted" \in w.trust[p] /\ "trusted" \in v.trust[p]
  BY <1>3, <1>7
<1>9. \A q \in registry_Plugins :
         /\ registry_last.trust[q] \subseteq v.trust[q]
         /\ q # p => w.trust[q] = registry_held.trust[q]
  BY <1>7
<1>10. r \in Registry_Row /\ v \in Registry_Words /\ w \in Registry_Words
       /\ v.decision = registry_last.decision /\ w.decision = registry_held.decision
  BY <1>3, <1>5, <1>6
<1> QED BY <1>1, <1>8, <1>9, <1>10, Registry_RowCalls

(* Calls that say nothing: what is said stays said. *)
LEMMA Registry_Silent ==
  ASSUME Registry_IInv, NEW p \in registry_Plugins, NEW r \in Registry_Row,
         r.trust = "trusted" => registry_db.plugins[p].trust = "trusted",
         registry_db' = Registry!Row(p, r), registry_last' = registry_last,
         registry_held' = registry_held, UNCHANGED registry_backup
  PROVE  Registry_IInv'
<1>1. registry_last \in Registry_Words /\ Registry_Covered(registry_db, registry_last)
      /\ registry_held \in Registry_Words /\ Registry_Covered(registry_db, registry_held)
  BY DEF Registry_IInv
<1>2. r.trust = "trusted" => "trusted" \in registry_last.trust[p] /\ "trusted" \in registry_held.trust[p]
  BY <1>1 DEF Registry_Covered
<1> QED BY <1>1, <1>2, Registry_RowCalls

LEMMA Registry_note_manifest_observed ==
  ASSUME Registry_IInv, NEW p \in registry_Plugins, Registry!note_manifest_observed(p)
  PROVE  Registry_IInv'
<1> DEFINE now == registry_db.plugins[p].trust
           t == IF Registry!trust(p) = "unknown" THEN "known" ELSE now
           r == [registry_db.plugins[p] EXCEPT !.trust = t]
<1>1. registry_db.plugins[p] \in Registry_Row
  BY DEF Registry_IInv, Registry_Tables, Registry_Rows
<1>2. t \in Registry!TrustState /\ (t = "trusted" => now = "trusted")
  BY <1>1 DEF Registry_Row, Registry!TrustState, Registry!trust
<1>3. r = [registry_db.plugins[p] EXCEPT !.trust = IF Registry!trust(p) = "unknown" THEN "known" ELSE @]
  BY <1>1 DEF Registry_Row
<1>4. registry_db' = Registry!Row(p, r) /\ registry_last' = registry_last
      /\ registry_held' = registry_held /\ UNCHANGED registry_backup
  BY <1>3 DEF Registry!note_manifest_observed, Registry!Changes, Registry!Call
<1> HIDE DEF t
<1>5. r \in Registry_Row /\ r.trust = t
  BY <1>1, <1>2, Registry_RowTrust
<1> HIDE DEF r
<1> QED BY <1>2, <1>4, <1>5, Registry_Silent

LEMMA Registry_record_failure ==
  ASSUME Registry_IInv, NEW p \in registry_Plugins, Registry!record_failure(p)
  PROVE  Registry_IInv'
<1>1. registry_db.plugins[p] \in Registry_Row /\ registry_db.plugins[p].failures \in Nat
  BY DEF Registry_IInv, Registry_Tables, Registry_Rows, Registry_Row
<1>2. PICK b \in BOOLEAN :
         b = (Registry!lifecycle_record(p).failures + 1 >= Registry!QUARANTINE_THRESHOLD)
  <2>1. (Registry!lifecycle_record(p).failures + 1 >= Registry!QUARANTINE_THRESHOLD) \in BOOLEAN
    OBVIOUS
  <2> QED BY <2>1
<1> DEFINE n == registry_db.plugins[p].failures + 1
           r == [registry_db.plugins[p] EXCEPT !.failures = n, !.quarantined = b]
<1>3. registry_db' = Registry!Row(p, r) /\ registry_last' = registry_last
      /\ registry_held' = registry_held /\ UNCHANGED registry_backup
  BY <1>2 DEF Registry!record_failure, Registry!Changes, Registry!Call
<1>4. n \in Nat
  BY <1>1
<1> HIDE DEF n
<1>5. r \in Registry_Row /\ r.trust = registry_db.plugins[p].trust
  BY <1>1, <1>4, Registry_RowFailures
<1> HIDE DEF r
<1> QED BY <1>3, <1>5, Registry_Silent

LEMMA Registry_record_success ==
  ASSUME Registry_IInv, NEW p \in registry_Plugins, Registry!record_success(p)
  PROVE  Registry_IInv'
<1> DEFINE r == [registry_db.plugins[p] EXCEPT !.failures = 0, !.quarantined = FALSE]
           rows == [registry_db.plugins EXCEPT ![p] = r]
<1>1. /\ registry_db.plugins[p] \in Registry_Row /\ registry_db \in Registry_Tables
      /\ Registry_Covered(registry_db, registry_last) /\ registry_last \in Registry_Words
      /\ Registry_Covered(registry_db, registry_held) /\ registry_held \in Registry_Words
  BY DEF Registry_IInv, Registry_Tables, Registry_Rows
<1>2. /\ registry_db' = [registry_db EXCEPT !.plugins[p] = [@ EXCEPT !.failures = 0, !.quarantined = FALSE]]
      /\ registry_last' = registry_last /\ registry_held' = registry_held /\ UNCHANGED registry_backup
  BY DEF Registry!record_success, Registry!Changes, Registry!Call
<1>3. r \in Registry_Row /\ r.trust = registry_db.plugins[p].trust
  BY <1>1 DEF Registry_Row
<1>4. registry_db' = [registry_db EXCEPT !.plugins = rows]
  BY <1>1, <1>2 DEF Registry_Tables, Registry_Rows
<1> HIDE DEF r
<1>5. rows \in Registry_Rows /\ \A q \in registry_Plugins : rows[q].trust = registry_db.plugins[q].trust
  BY <1>1, <1>3 DEF Registry_Tables, Registry_Rows
<1> HIDE DEF rows
<1>6. /\ registry_db' \in Registry_Tables /\ registry_db'.plugins = rows
      /\ registry_db'.capabilities = registry_db.capabilities
  BY <1>1, <1>4, <1>5 DEF Registry_Tables
<1>7. Registry_Covered(registry_db', registry_last) /\ Registry_Covered(registry_db', registry_held)
  BY <1>1, <1>5, <1>6 DEF Registry_Covered
<1> QED BY <1>1, <1>2, <1>6, <1>7, Registry_Calls

LEMMA Registry_set_capability_decision ==
  ASSUME Registry_IInv, NEW p \in registry_Plugins, NEW c \in registry_Capabilities,
         NEW d \in Registry!CapDecision, Registry!set_capability_decision(p, c, d)
  PROVE  Registry_IInv'
<1> DEFINE x == <<p, c>>
           v == [registry_last EXCEPT !.decision[x] = @ \cup {d}]
           w == [registry_held EXCEPT !.decision[x] = {d}]
           grants == [registry_db.capabilities EXCEPT ![x] = d]
<1>1. registry_db' = [registry_db EXCEPT !.capabilities[x] = d] /\ registry_last' = v
      /\ registry_held' = w /\ UNCHANGED registry_backup
  BY DEF Registry!set_capability_decision, Registry!Says, Registry!Call
<1>2. /\ registry_db \in Registry_Tables /\ Registry_Covered(registry_db, registry_last)
      /\ registry_last \in Registry_Words /\ registry_last.decision \in Registry_Doubts
      /\ Registry_Covered(registry_db, registry_held)
      /\ registry_held \in Registry_Words /\ registry_held.decision \in Registry_Doubts
  BY DEF Registry_IInv, Registry_Words
<1>3. x \in Registry!Pairs
  BY DEF Registry!Pairs
<1> HIDE DEF x
<1>4. registry_db' = [registry_db EXCEPT !.capabilities = grants]
  BY <1>1, <1>2 DEF Registry_Tables
<1>5. /\ grants \in Registry_Decisions /\ grants[x] = d
      /\ \A y \in Registry!Pairs : y # x => grants[y] = registry_db.capabilities[y]
  BY <1>2, <1>3 DEF Registry_Tables, Registry_Decisions
<1> HIDE DEF grants
<1>6. /\ registry_db' \in Registry_Tables /\ registry_db'.capabilities = grants
      /\ registry_db'.plugins = registry_db.plugins
  BY <1>2, <1>4, <1>5 DEF Registry_Tables
<1>7. registry_last.decision[x] \cup {d} \in SUBSET Registry!CapDecision
      /\ {d} \in SUBSET Registry!CapDecision
  BY <1>2, <1>3 DEF Registry_Doubts
<1>8. /\ v \in Registry_Words /\ v.trust = registry_last.trust
      /\ v.decision = [registry_last.decision EXCEPT ![x] = registry_last.decision[x] \cup {d}]
  BY <1>2, <1>3, <1>7, Registry_Deciding
<1>9. /\ w \in Registry_Words /\ w.trust = registry_held.trust
      /\ w.decision = [registry_held.decision EXCEPT ![x] = {d}]
  BY <1>2, <1>3, <1>7, Registry_Deciding
<1> HIDE DEF v, w
<1>10. /\ \A y \in Registry!Pairs : registry_last.decision[y] \subseteq v.decision[y]
       /\ \A y \in Registry!Pairs : y # x => w.decision[y] = registry_held.decision[y]
       /\ d \in w.decision[x] /\ d \in v.decision[x]
  BY <1>2, <1>3, <1>8, <1>9 DEF Registry_Doubts
<1>11. Registry_Covered(registry_db', w)
  BY <1>2, <1>5, <1>6, <1>9, <1>10 DEF Registry_Covered
<1>12. Registry_Covered(registry_db', v)
  BY <1>2, <1>5, <1>6, <1>8, <1>10 DEF Registry_Covered
<1> QED BY <1>1, <1>6, <1>8, <1>9, <1>10, <1>11, <1>12, Registry_Calls

(* What only touches the metadata of the tools says nothing about anybody. *)
LEMMA Registry_Tools ==
  ASSUME Registry_IInv, NEW ts \in Registry_ToolSets, registry_db' = [registry_db EXCEPT !.tools = ts],
         UNCHANGED <<registry_held, registry_last, registry_backup>>
  PROVE  Registry_IInv'
<1>1. /\ registry_db' \in Registry_Tables /\ registry_db'.plugins = registry_db.plugins
      /\ registry_db'.capabilities = registry_db.capabilities
  BY DEF Registry_IInv, Registry_Tables
<1> QED BY <1>1 DEF Registry_IInv, Registry_Covered

LEMMA Registry_Stutter == Registry_IInv /\ UNCHANGED Registry!vars => Registry_IInv'
BY DEF Registry_IInv, Registry_Covered, Registry!vars

LEMMA Registry_Step == Registry_IInv /\ [Registry!Next]_(Registry!vars) => Registry_IInv'
<1> SUFFICES ASSUME Registry_IInv, Registry!Next PROVE Registry_IInv'
  BY Registry_Stutter
<1>1. CASE Registry!write_backup
  BY <1>1 DEF Registry!write_backup, Registry!Copies, Registry_IInv, Registry_Covered
<1>2. ASSUME NEW damage, Registry!open(damage) PROVE Registry_IInv'
  <2>1. /\ \/ UNCHANGED <<registry_db, registry_held>>
           \/ /\ \/ registry_db' = Registry!Fresh
                 \/ registry_backup # None /\ registry_db' = registry_backup
              /\ registry_held' = registry_last
        /\ Registry!Copies(registry_db', registry_held')
    BY <1>2 DEF Registry!open, Registry!try_restore_from_backup
  <2>2. /\ registry_db' \in Registry_Tables /\ Registry_Covered(registry_db', registry_last)
        /\ registry_held' \in Registry_Words /\ Registry_Covered(registry_db', registry_held')
    BY <2>1, Registry_Fresh DEF Registry_IInv
  <2>3. \/ registry_backup' = registry_db' /\ registry_last' = registry_held'
        \/ UNCHANGED <<registry_backup, registry_last>>
    BY <2>1 DEF Registry!Copies
  <2> QED BY <2>2, <2>3 DEF Registry_IInv
<1>3. ASSUME NEW p \in registry_Plugins, NEW c \in registry_Capabilities, Registry!record_capability(p, c)
      PROVE  Registry_IInv'
  BY <1>3 DEF Registry!record_capability, Registry!Changes, Registry!Call, Registry_IInv, Registry_Covered
<1>4. ASSUME NEW p \in registry_Plugins, NEW t \in registry_Tools, Registry!upsert_tool(p, t)
      PROVE  Registry_IInv'
  <2> DEFINE row == [plugin |-> p, tool |-> t, functions |-> FALSE, contract |-> FALSE]
             ts == registry_db.tools \cup {row}
  <2>1. row \in [plugin : registry_Plugins, tool : registry_Tools, functions : BOOLEAN, contract : BOOLEAN]
    OBVIOUS
  <2>2. registry_db \in Registry_Tables /\ registry_db.tools \in Registry_ToolSets
    BY DEF Registry_IInv, Registry_Tables
  <2>3. ts \in Registry_ToolSets
    BY <2>1, <2>2 DEF Registry_ToolSets
  <2>4. registry_db' = [registry_db EXCEPT !.tools = ts]
        /\ UNCHANGED <<registry_held, registry_last, registry_backup>>
    BY <1>4, <2>2 DEF Registry!upsert_tool, Registry!Call, Registry_Tables
  <2> HIDE DEF ts
  <2> QED BY <2>3, <2>4, Registry_Tools
<1>5. ASSUME NEW p \in registry_Plugins, NEW t \in registry_Tools, NEW column \in {"functions", "contract"},
             Registry!Amends(p, t, column)
      PROVE  Registry_IInv'
  <2> DEFINE R == [plugin : registry_Plugins, tool : registry_Tools, functions : BOOLEAN, contract : BOOLEAN]
             ts == {IF row.plugin = p /\ row.tool = t THEN [row EXCEPT ![column] = TRUE] ELSE row :
                       row \in registry_db.tools}
  <2>1. \A row \in R : [row EXCEPT ![column] = TRUE] \in R
    BY <1>5
  <2>2. registry_db \in Registry_Tables /\ registry_db.tools \in SUBSET R
    BY DEF Registry_IInv, Registry_Tables, Registry_ToolSets
  <2>3. ts \in Registry_ToolSets
    BY <2>1, <2>2 DEF Registry_ToolSets
  <2>4. registry_db' = [registry_db EXCEPT !.tools = ts]
        /\ UNCHANGED <<registry_held, registry_last, registry_backup>>
    BY <1>5, <2>2 DEF Registry!Amends, Registry!Call, Registry_Tables
  <2> HIDE DEF ts
  <2> QED BY <2>3, <2>4, Registry_Tools
<1>6. ASSUME NEW p \in registry_Plugins, NEW t \in registry_Tools,
             Registry!upsert_tool_function(p, t) \/ Registry!set_ui_contract(p, t)
      PROVE  Registry_IInv'
  BY <1>5, <1>6 DEF Registry!upsert_tool_function, Registry!set_ui_contract
<1> QED BY <1>1, <1>2, <1>3, <1>4, <1>6, Registry_set_enabled, Registry_set_trust,
           Registry_note_manifest_observed, Registry_record_failure, Registry_record_success,
           Registry_set_capability_decision DEF Registry!Next

LEMMA Registry_Safety == Registry!Spec => []Registry!FailClosed
<1>1. Registry!Init => Registry_IInv
  <2> SUFFICES ASSUME Registry!Init PROVE Registry_IInv
    OBVIOUS
  <2>1. PICK off \in SUBSET registry_Plugins :
           /\ registry_db = Registry!migrate(off) /\ registry_backup \in {registry_db, None}
           /\ registry_last = registry_held
           /\ registry_held = [trust |-> [p \in registry_Plugins |-> {"unknown"}],
                               decision |-> [x \in Registry!Pairs |-> {"unset"}],
                               enabled |-> [p \in registry_Plugins |-> {p \notin off}]]
    BY DEF Registry!Init
  <2>2. /\ [p \in registry_Plugins |-> {"unknown"}] \in Registry_Trusts
        /\ [x \in Registry!Pairs |-> {"unset"}] \in Registry_Doubts
    BY DEF Registry_Trusts, Registry_Doubts, Registry!TrustState, Registry!CapDecision
  <2>3. [p \in registry_Plugins |-> {p \notin off}] \in Registry_Switches
    <3>1. \A p \in registry_Plugins : {p \notin off} \in SUBSET BOOLEAN
      OBVIOUS
    <3> QED BY <3>1 DEF Registry_Switches
  <2>4. registry_last \in Registry_Words
    BY <2>1, <2>2, <2>3 DEF Registry_Words
  <2> QED BY <2>1, <2>4, Registry_Fresh DEF Registry_IInv
<1>2. Registry_IInv => Registry!FailClosed
  <2>1. \A x \in Registry!Pairs : <<x[1], x[2]>> = x
    BY DEF Registry!Pairs
  <2> QED BY <2>1 DEF Registry_IInv, Registry_Covered, Registry!FailClosed, Registry!trust,
                      Registry!capability_decision
<1> QED BY <1>1, <1>2, Registry_Step, PTL DEF Registry!Spec

LEMMA Registry_Unit ==
  ASSUME [Next]_vars
  PROVE  /\ (unit = "registry") = (unit = "registry")'
         /\ unit = "registry" => [Registry!Next]_(Registry!vars)
<1>1. CASE RegistryStep
  BY <1>1 DEF RegistryStep
<1>2. CASE UNCHANGED vars
  BY <1>2 DEF vars, registryVars, Registry!vars
<1>3. CASE LifecycleStep \/ PackagesStep \/ WireStep \/ SurfaceStep \/ HttpStep \/
      ManagerStep
  BY <1>3 DEF LifecycleStep, PackagesStep, WireStep, SurfaceStep, HttpStep, ManagerStep
<1> QED BY <1>1, <1>2, <1>3 DEF Next

(* plugin_registry.rs, set_trust "is the ONLY path to Trusted": whatever was observed,
   requested, migrated, damaged and restored, and whichever backups failed, the registry
   trusts a plugin or allows it a capability only when that was the host's last word on it,
   unless no backup was written between the host's taking it back and the damage. *)
THEOREM RegistryFailsClosed == Spec => []FailClosed
<1>1. Init => (unit = "registry" => Registry!Init)
  BY DEF Init
<1>2. [Next]_vars /\ unit = "registry" => [Registry!Next]_(Registry!vars) /\ (unit = "registry")'
  BY Registry_Unit
<1>3. [Next]_vars /\ ~(unit = "registry") => ~(unit = "registry")'
  BY Registry_Unit
<1>4. Registry!Spec => []Registry!FailClosed
  BY Registry_Safety
<1>5. (unit = "registry" => Registry!FailClosed) => FailClosed
  BY DEF FailClosed
<1> QED BY <1>1, <1>2, <1>3, <1>4, <1>5, PTL DEF Spec, Registry!Spec

-----------------------------------------------------------------------------
(* The surface: what gets the events is what is on the screen.               *)

Surface_Maybe == Surface!Sessions \cup {None}
Surface_Posts == [kind : {"open", "update", "hide"}, session : Surface_Maybe, shows : Nat]

Surface_Typed ==
  /\ tool_opened \in Nat /\ tool_opened <= tool_MaxSessions /\ tool_events \in Nat
  /\ DOMAIN tool_openers \subseteq Surface!Sessions
  /\ \A n \in DOMAIN tool_openers : tool_openers[n] \in {"asking", "posting"}
  /\ tool_slot \in Surface_Maybe /\ tool_alive \subseteq Surface!Sessions
  /\ tool_unread \in [Surface!Sessions -> Seq(Nat)]
  /\ tool_relays \subseteq [event : Nat, of : Surface_Maybe]
  /\ tool_posts \in Seq(Surface_Posts) /\ tool_screen.session \in Surface_Maybe

(* The mutex is held until the answer is posted, so the session that is asked is the one in
   the slot. *)
Surface_Held ==
  tool_holder # None =>
    tool_slot \in Surface!Sessions /\ tool_holder.to = tool_slot /\ tool_holder.event \in Nat

(* The last thing posted that is not a mere hiding, or else the screen, shows the slot. *)
Surface_Settled(posts, screen, slot) ==
  /\ \A i \in 1 .. Len(posts) :
        /\ posts[i].kind # "hide"
        /\ \A j \in 1 .. Len(posts) : j > i => posts[j].kind = "hide"
        => posts[i].session = slot
  /\ (\A i \in 1 .. Len(posts) : posts[i].kind = "hide") => screen.session \in {slot, None}

(* While tools are opened one at a time, an opening that has taken the slot is the one that
   will post next, and between openings the screen catches up with the slot. *)
Surface_Order ==
  ~tool_overlapped =>
    /\ \A m, n \in DOMAIN tool_openers : m = n
    /\ \A n \in DOMAIN tool_openers : tool_openers[n] = "posting" => n = tool_slot
    /\ (\A n \in DOMAIN tool_openers : tool_openers[n] = "asking")
          => Surface_Settled(tool_posts, tool_screen, tool_slot)

Surface_IInv == Surface_Typed /\ Surface_Held /\ Surface_Order

(* What a post does to what is settled. *)
LEMMA Surface_PostShows ==
  ASSUME NEW q \in Seq(Surface_Posts), NEW p \in Surface_Posts, NEW screen, NEW slot,
         p.kind # "hide", p.session = slot
  PROVE  Surface_Settled(Append(q, p), screen, slot)
<1> DEFINE r == Append(q, p)
<1>1. /\ Len(q) \in Nat /\ Len(r) = Len(q) + 1 /\ r[Len(q) + 1] = p
      /\ Len(q) + 1 \in 1 .. Len(r)
  OBVIOUS
<1> HIDE DEF r
<1>2. \A i \in 1 .. Len(r) : i = Len(q) + 1 \/ Len(q) + 1 > i
  BY <1>1
<1>3. \A i \in 1 .. Len(r) : (\A j \in 1 .. Len(r) : j > i => r[j].kind = "hide") => r[i] = p
  BY <1>1, <1>2
<1>4. ~(\A i \in 1 .. Len(r) : r[i].kind = "hide")
  BY <1>1
<1> QED BY <1>3, <1>4 DEF Surface_Settled, r

LEMMA Surface_PostHides ==
  ASSUME NEW q \in Seq(Surface_Posts), NEW p \in Surface_Posts, NEW screen, NEW slot,
         p.kind = "hide", Surface_Settled(q, screen, slot)
  PROVE  Surface_Settled(Append(q, p), screen, slot)
<1> DEFINE r == Append(q, p)
<1>1. /\ Len(q) \in Nat /\ Len(r) = Len(q) + 1 /\ r[Len(q) + 1] = p
      /\ \A i \in 1 .. Len(q) : i \in 1 .. Len(r) /\ r[i] = q[i]
  OBVIOUS
<1> HIDE DEF r
<1>2. \A i \in 1 .. Len(r) : i = Len(q) + 1 \/ i \in 1 .. Len(q)
  BY <1>1
<1>3. ASSUME NEW i \in 1 .. Len(r), r[i].kind # "hide",
             \A j \in 1 .. Len(r) : j > i => r[j].kind = "hide"
      PROVE  r[i].session = slot
  <2>1. i \in 1 .. Len(q) /\ r[i] = q[i]
    BY <1>1, <1>2, <1>3
  <2>2. \A j \in 1 .. Len(q) : j > i => q[j].kind = "hide"
    BY <1>1, <1>3
  <2> QED BY <1>3, <2>1, <2>2 DEF Surface_Settled
<1>4. (\A i \in 1 .. Len(r) : r[i].kind = "hide") => screen.session \in {slot, None}
  BY <1>1 DEF Surface_Settled
<1> QED BY <1>3, <1>4 DEF Surface_Settled, r

(* What the event loop does to it. *)
LEMMA Surface_Runs ==
  ASSUME NEW q \in Seq(Surface_Posts), q # <<>>, NEW slot, NEW before, NEW after,
         Surface_Settled(q, before, slot),
         after.session = IF Head(q).kind = "hide" THEN before.session ELSE Head(q).session
  PROVE  Surface_Settled(Tail(q), after, slot)
<1> DEFINE r == Tail(q)
<1>1. /\ Len(q) \in Nat /\ Len(q) >= 1 /\ Len(r) = Len(q) - 1 /\ Head(q) = q[1] /\ r \in Seq(Surface_Posts)
      /\ \A i \in 1 .. Len(r) : i + 1 \in 1 .. Len(q) /\ r[i] = q[i + 1]
  BY Wire_Taken
<1> HIDE DEF r
<1>2. \A j \in 1 .. Len(q) : j = 1 \/ (j - 1 \in 1 .. Len(r) /\ r[j - 1] = q[j])
  BY <1>1
<1>3. ASSUME NEW i \in 1 .. Len(r), r[i].kind # "hide",
             \A j \in 1 .. Len(r) : j > i => r[j].kind = "hide"
      PROVE  r[i].session = slot
  <2>1. i + 1 \in 1 .. Len(q) /\ q[i + 1] = r[i]
    BY <1>1
  <2>2. ASSUME NEW j \in 1 .. Len(q), j > i + 1 PROVE q[j].kind = "hide"
    <3>1. j - 1 \in 1 .. Len(r) /\ r[j - 1] = q[j] /\ j - 1 > i
      BY <1>1, <1>2, <2>2
    <3> QED BY <1>3, <3>1
  <2> QED BY <1>3, <2>1, <2>2 DEF Surface_Settled
<1>4. ASSUME \A i \in 1 .. Len(r) : r[i].kind = "hide" PROVE after.session \in {slot, None}
  <2>1. \A j \in 1 .. Len(q) : j > 1 => q[j].kind = "hide"
    BY <1>1, <1>2, <1>4
  <2>2. 1 \in 1 .. Len(q)
    BY <1>1
  <2>3. CASE Head(q).kind = "hide"
    <3>1. \A j \in 1 .. Len(q) : q[j].kind = "hide"
      BY <1>1, <2>1, <2>3
    <3> QED BY <2>3, <3>1 DEF Surface_Settled
  <2>4. CASE Head(q).kind # "hide"
    BY <1>1, <2>1, <2>2, <2>4 DEF Surface_Settled
  <2> QED BY <2>3, <2>4
<1> QED BY <1>3, <1>4 DEF Surface_Settled, r

LEMMA Surface_Stutter == Surface_IInv /\ UNCHANGED Surface!vars => Surface_IInv'
BY DEF Surface_IInv, Surface_Typed, Surface_Held, Surface_Order, Surface!vars, Surface!session,
       Surface!threads

(* An opening that ended early, or posted, leaves no opening behind it. *)
LEMMA Surface_Gone ==
  ASSUME Surface_IInv, NEW n \in DOMAIN tool_openers, Surface!Ends(n)
  PROVE  /\ DOMAIN tool_openers' \subseteq DOMAIN tool_openers
         /\ \A k \in DOMAIN tool_openers' : tool_openers'[k] = tool_openers[k]
         /\ ~tool_overlapped => DOMAIN tool_openers' = {}
BY DEF Surface!Ends, Surface_IInv, Surface_Order

(* A post of the session in the slot, or a hiding. *)
LEMMA Surface_Posted ==
  ASSUME Surface_IInv, NEW p \in Surface_Posts, Surface!Post(p),
         p.kind = "hide" \/ p.session = tool_slot
  PROVE  /\ tool_posts' \in Seq(Surface_Posts)
         /\ p.kind # "hide" \/ Surface_Settled(tool_posts, tool_screen, tool_slot)
              => Surface_Settled(tool_posts', tool_screen, tool_slot)
<1>1. tool_posts \in Seq(Surface_Posts) /\ tool_posts' = Append(tool_posts, p)
  BY DEF Surface_IInv, Surface_Typed, Surface!Post
<1>2. tool_posts' \in Seq(Surface_Posts)
  BY <1>1, Wire_Put
<1>3. CASE p.kind = "hide"
  BY <1>1, <1>2, <1>3, Surface_PostHides
<1>4. CASE p.kind # "hide"
  BY <1>1, <1>2, <1>4, Surface_PostShows
<1> QED BY <1>3, <1>4

LEMMA Surface_Opens ==
  ASSUME tool_MaxSessions \in Nat, Surface_IInv, Surface!open_tool
  PROVE  Surface_IInv'
<1>1. /\ tool_opened < tool_MaxSessions /\ tool_opened' = tool_opened + 1
      /\ tool_openers' = [n \in DOMAIN tool_openers \cup {tool_opened'} |->
                             IF n = tool_opened' THEN "asking" ELSE tool_openers[n]]
      /\ tool_overlapped' = (tool_overlapped \/ tool_openers # <<>>)
      /\ UNCHANGED <<tool_slot, tool_unread, tool_alive, tool_relays, tool_holder, tool_posts,
                     tool_screen, tool_events>>
  BY DEF Surface!open_tool, Surface!session
<1>2. tool_opened' \in Surface!Sessions
  BY <1>1 DEF Surface_IInv, Surface_Typed, Surface!Sessions
<1>3. tool_opened' \in Nat /\ tool_opened' <= tool_MaxSessions
  BY <1>1 DEF Surface_IInv, Surface_Typed
<1>4. /\ DOMAIN tool_openers' \subseteq Surface!Sessions
      /\ \A n \in DOMAIN tool_openers' : tool_openers'[n] \in {"asking", "posting"}
  BY <1>1, <1>2 DEF Surface_IInv, Surface_Typed
<1>5. Surface_Typed'
  BY <1>1, <1>3, <1>4 DEF Surface_IInv, Surface_Typed, Surface_Maybe
<1>6. Surface_Held'
  BY <1>1 DEF Surface_IInv, Surface_Held
<1>7. ASSUME ~tool_overlapped' PROVE Surface_Order'
  <2>1. ~tool_overlapped /\ tool_openers = <<>>
    BY <1>1, <1>7
  <2>2. DOMAIN tool_openers = {}
    BY <2>1
  <2>3. DOMAIN tool_openers' = {tool_opened'} /\ tool_openers'[tool_opened'] = "asking"
    BY <1>1, <2>2
  <2>4. Surface_Settled(tool_posts, tool_screen, tool_slot)
    BY <2>1, <2>2 DEF Surface_IInv, Surface_Order
  <2> QED BY <1>1, <2>3, <2>4 DEF Surface_Order
<1>8. Surface_Order'
  BY <1>7 DEF Surface_Order
<1> QED BY <1>5, <1>6, <1>8 DEF Surface_IInv

LEMMA Surface_Takes ==
  ASSUME Surface_IInv, NEW n \in DOMAIN tool_openers, Surface!Opened(n)
  PROVE  Surface_IInv'
<1>1. /\ tool_slot' = n /\ tool_holder = None /\ tool_alive' = (tool_alive \ {tool_slot}) \cup {n}
      /\ tool_openers' = [tool_openers EXCEPT ![n] = "posting"]
      /\ UNCHANGED <<tool_unread, tool_closed, tool_relays, tool_closers, tool_holder, tool_posts,
                     tool_screen, tool_sent, tool_opened, tool_events, tool_overlapped>>
  BY DEF Surface!Opened, Surface!Free
<1>2. n \in Surface!Sessions
  BY DEF Surface_IInv, Surface_Typed
<1>3. /\ DOMAIN tool_openers' = DOMAIN tool_openers /\ tool_openers'[n] = "posting"
      /\ \A k \in DOMAIN tool_openers : tool_openers'[k] \in {"posting", tool_openers[k]}
  BY <1>1
<1>4. Surface_Typed'
  <2>1. DOMAIN tool_openers' \subseteq Surface!Sessions /\ tool_slot' \in Surface_Maybe
        /\ tool_alive' \subseteq Surface!Sessions
    BY <1>1, <1>2, <1>3 DEF Surface_IInv, Surface_Typed, Surface_Maybe
  <2>2. \A k \in DOMAIN tool_openers' : tool_openers'[k] \in {"asking", "posting"}
    BY <1>3 DEF Surface_IInv, Surface_Typed
  <2> QED BY <1>1, <2>1, <2>2 DEF Surface_IInv, Surface_Typed
<1>5. Surface_Held'
  BY <1>1 DEF Surface_Held
<1>6. Surface_Order'
  BY <1>1, <1>3 DEF Surface_IInv, Surface_Order
<1> QED BY <1>4, <1>5, <1>6 DEF Surface_IInv

LEMMA Surface_Shows ==
  ASSUME Surface_IInv, NEW n \in DOMAIN tool_openers, Surface!Shown(n)
  PROVE  Surface_IInv'
<1> DEFINE p == [kind |-> "open", session |-> n, shows |-> 0]
<1>1. /\ tool_openers[n] = "posting" /\ Surface!Ends(n) /\ Surface!Post(p)
      /\ UNCHANGED <<tool_slot, tool_unread, tool_alive, tool_relays, tool_holder, tool_screen,
                     tool_opened, tool_events, tool_overlapped>>
  BY DEF Surface!Shown, Surface!session
<1>2. p \in Surface_Posts /\ p.kind # "hide" /\ p.session = n
  BY DEF Surface_IInv, Surface_Typed, Surface_Posts, Surface_Maybe
<1> HIDE DEF p
<1>3. /\ DOMAIN tool_openers' \subseteq DOMAIN tool_openers
      /\ \A k \in DOMAIN tool_openers' : tool_openers'[k] = tool_openers[k]
      /\ ~tool_overlapped => DOMAIN tool_openers' = {}
  BY <1>1, Surface_Gone
<1>4. tool_posts' \in Seq(Surface_Posts)
  BY <1>1, <1>2, Wire_Put DEF Surface!Post, Surface_IInv, Surface_Typed
<1>5. Surface_Typed'
  BY <1>1, <1>3, <1>4 DEF Surface_IInv, Surface_Typed
<1>6. Surface_Held'
  BY <1>1 DEF Surface_IInv, Surface_Held
<1>7. ASSUME ~tool_overlapped PROVE Surface_Order'
  <2>1. n = tool_slot
    BY <1>1, <1>7 DEF Surface_IInv, Surface_Order
  <2>2. Surface_Settled(tool_posts', tool_screen, tool_slot)
    BY <1>1, <1>2, <2>1, Surface_Posted
  <2> QED BY <1>1, <1>3, <1>7, <2>2 DEF Surface_Order
<1>8. Surface_Order'
  BY <1>1, <1>7 DEF Surface_Order
<1> QED BY <1>5, <1>6, <1>8 DEF Surface_IInv

LEMMA Surface_Fails ==
  ASSUME Surface_IInv, NEW n \in DOMAIN tool_openers, Surface!OpenFails(n)
  PROVE  Surface_IInv'
<1>1. /\ tool_openers[n] = "asking" /\ Surface!Ends(n)
      /\ UNCHANGED <<tool_slot, tool_unread, tool_alive, tool_relays, tool_holder, tool_posts,
                     tool_screen, tool_opened, tool_events, tool_overlapped>>
  BY DEF Surface!OpenFails, Surface!session
<1>2. /\ DOMAIN tool_openers' \subseteq DOMAIN tool_openers
      /\ \A k \in DOMAIN tool_openers' : tool_openers'[k] = tool_openers[k]
      /\ ~tool_overlapped => DOMAIN tool_openers' = {}
  BY <1>1, Surface_Gone
<1>3. Surface_Typed' /\ Surface_Held'
  BY <1>1, <1>2 DEF Surface_IInv, Surface_Typed, Surface_Held
<1>4. ASSUME ~tool_overlapped PROVE Surface_Settled(tool_posts, tool_screen, tool_slot)
  <2>1. \A k \in DOMAIN tool_openers : tool_openers[k] = "asking"
    BY <1>1, <1>4 DEF Surface_IInv, Surface_Order
  <2> QED BY <1>4, <2>1 DEF Surface_IInv, Surface_Order
<1>5. Surface_Order'
  BY <1>1, <1>2, <1>4 DEF Surface_Order
<1> QED BY <1>3, <1>5 DEF Surface_IInv

(* What the mutex's holder does, and what waits for it, leaves the openings alone. *)
LEMMA Surface_Answers ==
  ASSUME Surface_IInv, NEW nodes \in BOOLEAN, Surface!Answers(nodes)
  PROVE  Surface_IInv'
<1> DEFINE answers == tool_unread[tool_holder.to]
           p == [kind |-> "update", session |-> tool_holder.to, shows |-> Head(answers)]
<1>1. /\ tool_holder # None /\ tool_holder' = None /\ answers # <<>>
      /\ tool_unread' = [tool_unread EXCEPT ![tool_holder.to] = Tail(@)]
      /\ IF nodes THEN Surface!Post(p) ELSE UNCHANGED tool_posts
      /\ UNCHANGED <<tool_slot, tool_alive, tool_openers, tool_relays, tool_screen, tool_opened,
                     tool_events, tool_overlapped>>
  BY DEF Surface!Answers
<1>2. tool_holder.to \in Surface!Sessions /\ tool_holder.to = tool_slot
  BY <1>1 DEF Surface_IInv, Surface_Held
<1>3. answers \in Seq(Nat)
  BY <1>2 DEF Surface_IInv, Surface_Typed
<1>4. Head(answers) \in Nat /\ Tail(answers) \in Seq(Nat)
  BY <1>1, <1>3, Wire_Taken
<1>5. tool_unread' \in [Surface!Sessions -> Seq(Nat)]
  BY <1>1, <1>2, <1>4 DEF Surface_IInv, Surface_Typed
<1>6. p \in Surface_Posts /\ p.kind # "hide" /\ p.session = tool_slot
  BY <1>2, <1>4 DEF Surface_Posts, Surface_Maybe
<1> HIDE DEF answers, p
<1>7. tool_posts' \in Seq(Surface_Posts)
      /\ (Surface_Settled(tool_posts, tool_screen, tool_slot)
             => Surface_Settled(tool_posts', tool_screen, tool_slot))
  <2>1. CASE nodes
    BY <1>1, <1>6, <2>1, Surface_Posted
  <2>2. CASE ~nodes
    BY <1>1, <2>2 DEF Surface_IInv, Surface_Typed
  <2> QED BY <2>1, <2>2
<1>8. Surface_Typed'
  BY <1>1, <1>5, <1>7 DEF Surface_IInv, Surface_Typed
<1>9. Surface_Held'
  BY <1>1 DEF Surface_Held
<1>10. Surface_Order'
  BY <1>1, <1>7 DEF Surface_IInv, Surface_Order
<1> QED BY <1>8, <1>9, <1>10 DEF Surface_IInv

LEMMA Surface_Sends ==
  ASSUME Surface_IInv, NEW e \in tool_relays, Surface!Sends(e)
  PROVE  Surface_IInv'
<1>1. /\ tool_relays' = tool_relays \ {e} /\ tool_holder = None
      /\ UNCHANGED <<tool_slot, tool_alive, tool_openers, tool_posts, tool_screen, tool_opened,
                     tool_events, tool_overlapped>>
  BY DEF Surface!Sends, Surface!Free
<1>2. e.event \in Nat
  BY DEF Surface_IInv, Surface_Typed
<1>3. CASE tool_slot = None
  <2>1. UNCHANGED <<tool_unread, tool_holder>>
    BY <1>3 DEF Surface!Sends
  <2> QED BY <1>1, <2>1 DEF Surface_IInv, Surface_Typed, Surface_Held, Surface_Order
<1>4. CASE tool_slot # None
  <2>1. /\ tool_holder' = [event |-> e.event, to |-> tool_slot]
        /\ tool_unread' = Surface!tool_request(tool_slot, e.event)
    BY <1>4 DEF Surface!Sends
  <2>2. tool_slot \in Surface!Sessions
    BY <1>4 DEF Surface_IInv, Surface_Typed, Surface_Maybe
  <2>3. tool_unread[tool_slot] \in Seq(Nat)
    BY <2>2 DEF Surface_IInv, Surface_Typed
  <2>4. Append(tool_unread[tool_slot], e.event) \in Seq(Nat)
    BY <1>2, <2>3, Wire_Put
  <2>5. tool_unread' \in [Surface!Sessions -> Seq(Nat)]
    BY <2>1, <2>2, <2>4 DEF Surface!tool_request, Surface_IInv, Surface_Typed
  <2>6. Surface_Typed'
    BY <1>1, <2>5 DEF Surface_IInv, Surface_Typed
  <2>7. Surface_Held'
    BY <1>1, <1>2, <2>1, <2>2 DEF Surface_Held
  <2>8. Surface_Order'
    BY <1>1 DEF Surface_IInv, Surface_Order
  <2> QED BY <2>6, <2>7, <2>8 DEF Surface_IInv
<1> QED BY <1>3, <1>4

LEMMA Surface_Closes ==
  ASSUME Surface_IInv, NEW answered \in BOOLEAN, Surface!Closes(answered)
  PROVE  Surface_IInv'
<1> DEFINE late == Surface!tool_request(tool_slot, 0)
<1>1. UNCHANGED <<tool_slot, tool_alive, tool_openers, tool_relays, tool_holder, tool_posts,
                  tool_screen, tool_opened, tool_events, tool_overlapped>>
  BY DEF Surface!Closes
<1>2. tool_unread' \in [Surface!Sessions -> Seq(Nat)]
  <2>1. CASE tool_slot \notin tool_alive
    BY <2>1 DEF Surface!Closes, Surface_IInv, Surface_Typed
  <2>2. CASE tool_slot \in tool_alive
    <3>1. tool_slot \in Surface!Sessions /\ tool_unread[tool_slot] \in Seq(Nat)
      BY <2>2 DEF Surface_IInv, Surface_Typed
    <3>2. Append(tool_unread[tool_slot], 0) \in Seq(Nat) /\ Append(tool_unread[tool_slot], 0) # <<>>
      BY <3>1
    <3>3. late = [tool_unread EXCEPT ![tool_slot] = Append(@, 0)]
      BY <2>2 DEF Surface!tool_request
    <3>4. late \in [Surface!Sessions -> Seq(Nat)] /\ late[tool_slot] = Append(tool_unread[tool_slot], 0)
      BY <3>1, <3>2, <3>3 DEF Surface_IInv, Surface_Typed
    <3>5. tool_unread' = IF answered THEN [late EXCEPT ![tool_slot] = Tail(@)] ELSE late
      BY <2>2 DEF Surface!Closes
    <3> HIDE DEF late
    <3>6. Tail(late[tool_slot]) \in Seq(Nat)
      BY <3>2, <3>4, Wire_Taken
    <3> QED BY <3>1, <3>4, <3>5, <3>6
  <2> QED BY <2>1, <2>2
<1> QED BY <1>1, <1>2 DEF Surface_IInv, Surface_Typed, Surface_Held, Surface_Order

LEMMA Surface_Loop ==
  ASSUME Surface_IInv, Surface!Run
  PROVE  Surface_IInv'
<1> DEFINE p == Head(tool_posts)
<1>1. /\ tool_posts # <<>> /\ tool_screen' = Surface!Applied(p) /\ tool_posts' = Tail(tool_posts)
      /\ UNCHANGED <<tool_slot, tool_unread, tool_alive, tool_openers, tool_relays, tool_holder,
                     tool_opened, tool_events, tool_overlapped>>
  BY DEF Surface!Run, Surface!session, Surface!threads
<1>2. tool_posts \in Seq(Surface_Posts)
  BY DEF Surface_IInv, Surface_Typed
<1>3. p \in Surface_Posts /\ tool_posts' \in Seq(Surface_Posts)
  BY <1>1, <1>2, Wire_Taken
<1> HIDE DEF p
<1>4. tool_screen'.session = IF p.kind = "hide" THEN tool_screen.session ELSE p.session
  BY <1>1, <1>3 DEF Surface!Applied, Surface_Posts
<1>5. tool_screen'.session \in Surface_Maybe
  BY <1>3, <1>4 DEF Surface_IInv, Surface_Typed, Surface_Posts
<1>6. Surface_Settled(tool_posts, tool_screen, tool_slot)
      => Surface_Settled(tool_posts', tool_screen', tool_slot)
  BY <1>1, <1>2, <1>4, Surface_Runs DEF p
<1>7. Surface_Typed'
  BY <1>1, <1>3, <1>5 DEF Surface_IInv, Surface_Typed
<1>8. Surface_Held' /\ Surface_Order'
  BY <1>1, <1>6 DEF Surface_IInv, Surface_Held, Surface_Order
<1> QED BY <1>7, <1>8 DEF Surface_IInv

LEMMA Surface_Step ==
  ASSUME tool_MaxSessions \in Nat
  PROVE  Surface_IInv /\ [Surface!Next]_(Surface!vars) => Surface_IInv'
<1> SUFFICES ASSUME Surface_IInv, Surface!Next PROVE Surface_IInv'
  BY Surface_Stutter
<1>1. CASE Surface!relay_event
  <2>1. tool_events' \in Nat /\ tool_screen.session \in Surface_Maybe
    BY <1>1 DEF Surface!relay_event, Surface_IInv, Surface_Typed
  <2>2. tool_relays' \subseteq [event : Nat, of : Surface_Maybe]
    BY <1>1, <2>1 DEF Surface!relay_event, Surface_IInv, Surface_Typed
  <2> QED BY <1>1, <2>1, <2>2 DEF Surface!relay_event, Surface!session, Surface_IInv, Surface_Typed,
                                  Surface_Held, Surface_Order
<1>2. CASE Surface!close_session
  <2> DEFINE p == [kind |-> "hide", session |-> None, shows |-> 0]
  <2>1. Surface!Post(p) /\ tool_events' = tool_events + 1
        /\ UNCHANGED <<tool_slot, tool_unread, tool_alive, tool_openers, tool_relays, tool_holder,
                       tool_screen, tool_opened, tool_overlapped>>
    BY <1>2 DEF Surface!close_session, Surface!session
  <2>2. p \in Surface_Posts /\ p.kind = "hide"
    BY DEF Surface_Posts, Surface_Maybe
  <2> HIDE DEF p
  <2>3. tool_posts' \in Seq(Surface_Posts)
        /\ (Surface_Settled(tool_posts, tool_screen, tool_slot)
               => Surface_Settled(tool_posts', tool_screen, tool_slot))
    BY <2>1, <2>2, Surface_Posted
  <2>4. Surface_Typed'
    BY <2>1, <2>3 DEF Surface_IInv, Surface_Typed
  <2> QED BY <2>1, <2>3, <2>4 DEF Surface_IInv, Surface_Held, Surface_Order
<1>3. CASE Surface!Fails
  BY <1>3 DEF Surface!Fails, Surface!session, Surface_IInv, Surface_Typed, Surface_Held, Surface_Order
<1>4. CASE Surface!Exits
  BY <1>4 DEF Surface!Exits, Surface!threads, Surface_IInv, Surface_Typed, Surface_Held, Surface_Order
<1> QED BY <1>1, <1>2, <1>3, <1>4, Surface_Opens, Surface_Loop, Surface_Takes, Surface_Fails,
           Surface_Shows, Surface_Sends, Surface_Answers, Surface_Closes DEF Surface!Next

LEMMA Surface_Safety ==
  ASSUME tool_MaxSessions \in Nat
  PROVE  Surface!Spec => []Surface!DrivesWhatItShows
<1>1. Surface!Init => Surface_IInv
  <2>1. ASSUME Surface!Init PROVE DOMAIN tool_openers = {} /\ tool_posts = <<>> /\ tool_posts \in Seq(Surface_Posts)
    BY <2>1 DEF Surface!Init
  <2> QED BY <2>1 DEF Surface!Init, Surface_IInv, Surface_Typed, Surface_Held, Surface_Order,
                      Surface_Settled, Surface_Maybe
<1>2. Surface_IInv => Surface!DrivesWhatItShows
  <2> SUFFICES ASSUME Surface_IInv, tool_openers = <<>>, tool_posts = <<>>, ~tool_overlapped,
                      tool_screen.session # None
               PROVE  tool_screen.session = tool_slot
    BY DEF Surface!DrivesWhatItShows
  <2>1. DOMAIN tool_openers = {} /\ Len(tool_posts) = 0
    OBVIOUS
  <2>2. Surface_Settled(tool_posts, tool_screen, tool_slot)
    BY <2>1 DEF Surface_IInv, Surface_Order
  <2> QED BY <2>1, <2>2 DEF Surface_Settled
<1> QED BY <1>1, <1>2, Surface_Step, PTL DEF Surface!Spec

LEMMA Surface_Unit ==
  ASSUME [Next]_vars
  PROVE  /\ (unit = "tool") = (unit = "tool")'
         /\ unit = "tool" => [Surface!Next]_(Surface!vars)
<1>1. CASE SurfaceStep
  BY <1>1 DEF SurfaceStep
<1>2. CASE UNCHANGED vars
  BY <1>2 DEF vars, toolVars, Surface!vars, Surface!session, Surface!threads
<1>3. CASE LifecycleStep \/ RegistryStep \/ PackagesStep \/ WireStep \/ HttpStep \/
      ManagerStep
  BY <1>3 DEF LifecycleStep, RegistryStep, PackagesStep, WireStep, HttpStep, ManagerStep
<1> QED BY <1>1, <1>2, <1>3 DEF Next

(* tool_ui_host.rs: once the threads and the event loop have come to rest, the session that
   gets the events is the one on the screen, provided that no two tools were opened at the
   same time. What an event of the earlier session draws cannot come after a later opening. *)
THEOREM SurfaceIsDriven == Spec => []DrivesWhatItShows
<1>1. Init => (unit = "tool" => Surface!Init)
  BY DEF Init
<1>2. [Next]_vars /\ unit = "tool" => [Surface!Next]_(Surface!vars) /\ (unit = "tool")'
  BY Surface_Unit
<1>3. [Next]_vars /\ ~(unit = "tool") => ~(unit = "tool")'
  BY Surface_Unit
<1>4. Surface!Spec => []Surface!DrivesWhatItShows
  BY PluginsAssumption, Surface_Safety
<1>5. (unit = "tool" => Surface!DrivesWhatItShows) => DrivesWhatItShows
  BY DEF DrivesWhatItShows
<1> QED BY <1>1, <1>2, <1>3, <1>4, <1>5, PTL DEF Spec, Surface!Spec

-----------------------------------------------------------------------------
(* The packages: what a plan in order puts in place has in place what it     *)
(* needs, however far it gets and whatever of it is taken back.               *)

Package_Step == [name : {"execute", "rollback"}, plan : Seq(package_Packages), next : Nat \ {0}]
Package_Before(plan, n) == {plan[k] : k \in {k \in DOMAIN plan : k < n}}
Package_Left(plan, n) == {plan[k] : k \in {k \in DOMAIN plan : k >= n}}
Package_In(plan) == {plan[k] : k \in DOMAIN plan}

(* Reading backwards, each package comes before what it depends on. *)
Package_Backwards(plan) ==
  \A i \in DOMAIN plan : \A d \in DOMAIN package_index[plan[i]] :
     package_index[plan[i]][d] \in Package_In(plan)
       => \E j \in DOMAIN plan : i < j /\ plan[j] = package_index[plan[i]][d]
Package_Closed(plan) ==
  \A i \in DOMAIN plan : \A d \in DOMAIN package_index[plan[i]] :
     package_index[plan[i]][d] \in Package_In(plan)
Package_Once(plan) == \A i, j \in DOMAIN plan : plan[i] = plan[j] => i = j
Package_Owed == package_execution.put \ package_execution.kept
Package_AllNew(ids) == \A p \in ids : package_installed[p] = "new"

(* The steps before the next one are done, and what they put in place is there. *)
Package_Executing ==
  package_command.name = "execute" =>
     /\ package_command \in Package_Step
     /\ package_command.next <= Len(package_command.plan) + 1
     /\ Package_Once(package_command.plan) /\ Packages!InOrder(package_command.plan)
     /\ package_execution.kept = {}
     /\ package_execution.put = Package_Before(package_command.plan, package_command.next)
     /\ Package_AllNew(package_execution.put)

(* What is still to be taken back is in place, and nothing else but what was refused. *)
Package_Undoing ==
  package_command.name = "rollback" =>
     /\ package_command \in Package_Step
     /\ Package_Once(package_command.plan) /\ Package_Closed(package_command.plan)
     /\ Package_Backwards(package_command.plan)
     /\ Package_Owed \subseteq Package_Left(package_command.plan, package_command.next)
     /\ Package_AllNew(Package_Left(package_command.plan, package_command.next))

(* An execution that is over leaves what it promised; another command promises nothing. *)
Package_Elsewhere ==
  package_command.name \notin {"execute", "rollback"} =>
     /\ Packages!DependenciesFirst
     /\ package_command.name # "none" => Package_Owed = {}

Package_IInv ==
  /\ package_index \in package_Indexes /\ DOMAIN package_installed = package_Packages
  /\ package_execution = [before |-> package_execution.before, put |-> package_execution.put,
                          kept |-> package_execution.kept]
  /\ Package_Executing /\ Package_Undoing /\ Package_Elsewhere

-----------------------------------------------------------------------------
(* Resolution: a recursive function of resolutions. A call has a depth to go, and
   there are that many packages at most that it may enter. *)

Package_Steps(n, S) == [(1 .. n) \X S -> S]
Package_Run(n, S, s0, step, f) ==
  f \in [0 .. n -> S] /\ f[0] = s0 /\ \A i \in 1 .. n : f[i] = step[<<i, f[i - 1]>>]

(* Whatever takes one step for each of n numbers has a value after each. *)
LEMMA Package_Recursion ==
  ASSUME NEW n, NEW S, NEW s0, NEW step, n \in Nat, s0 \in S, step \in Package_Steps(n, S)
  PROVE  \E f : Package_Run(n, S, s0, step, f)
<1> USE DEF Package_Steps, Package_Run
<1> DEFINE Done(m) == \E f \in [0 .. m -> S] :
                         f[0] = s0 /\ \A i \in 1 .. m : f[i] = step[<<i, f[i - 1]>>]
           Bad == {m \in 0 .. n : ~ Done(m)}
<1>1. SUFFICES ASSUME Bad # {} PROVE FALSE
  <2>1. n \in 0 .. n
    OBVIOUS
  <2>2. Done(n) => \E f : Package_Run(n, S, s0, step, f)
    OBVIOUS
  <2> HIDE DEF Done
  <2> QED BY <2>1, <2>2
<1>2. PICK b \in Bad : \A m \in Bad : b <= m
  <2>1. Bad \subseteq Nat
    OBVIOUS
  <2> QED BY <1>1, <2>1, LeastExists
<1>3. CASE b = 0
  <2> DEFINE f == [i \in 0 .. 0 |-> s0]
  <2>1. f \in [0 .. 0 -> S] /\ f[0] = s0 /\ \A i \in 1 .. 0 : f[i] = step[<<i, f[i - 1]>>]
    OBVIOUS
  <2>2. Done(0)
    BY <2>1
  <2> QED BY <1>3, <2>2
<1>4. CASE b # 0
  <2>1. b \in 1 .. n /\ b - 1 \in 0 .. n /\ b - 1 \notin Bad
    BY <1>2, <1>4
  <2>2. PICK g \in [0 .. b - 1 -> S] :
           g[0] = s0 /\ \A i \in 1 .. b - 1 : g[i] = step[<<i, g[i - 1]>>]
    BY <2>1
  <2> DEFINE f == [i \in 0 .. b |-> IF i = b THEN step[<<b, g[b - 1]>>] ELSE g[i]]
  <2>3. step[<<b, g[b - 1]>>] \in S
    BY <2>1, <2>2
  <2>4. f \in [0 .. b -> S]
    BY <2>1, <2>2, <2>3
  <2>5. f[0] = s0
    BY <2>1, <2>2
  <2>6. ASSUME NEW i \in 1 .. b PROVE f[i] = step[<<i, f[i - 1]>>]
    <3>1. f[i - 1] = g[i - 1]
      BY <2>1
    <3>2. CASE i = b
      <4>1. f[b] = step[<<b, g[b - 1]>>]
        BY <2>1
      <4> HIDE DEF f
      <4> QED BY <3>1, <3>2, <4>1
    <3>3. CASE i # b
      <4>1. i \in 1 .. b - 1
        BY <2>1, <3>3
      <4>2. f[i] = g[i]
        BY <2>1, <3>3
      <4> QED BY <2>2, <3>1, <4>1, <4>2
    <3> QED BY <3>2, <3>3
  <2> HIDE DEF f
  <2>7. Done(b)
    BY <2>4, <2>5, <2>6
  <2> QED BY <2>7
<1> QED BY <1>3, <1>4

(* A resolution that has not failed: what it placed is the plan, each package once and after
   what it depends on, and apart from what is being visited. *)
Package_Deps(id) == Packages!ToSet(package_index[id])
Package_Sound(r) ==
  /\ r \in Packages!Resolution /\ r.visiting \cap r.placed = {}
  /\ r.placed = Package_In(r.plan) /\ r.placed \subseteq DOMAIN package_index
  /\ Package_Once(r.plan) /\ Packages!InOrder(r.plan)

(* Whoever is visited depends on id, directly or not. *)
Package_Ahead(id, r) ==
  \A v \in r.visiting : \A all \in SUBSET Packages!Ids :
     Packages!Closed(all) /\ Package_Deps(v) \subseteq all => id \in all

Package_AllAhead(ids, r) == \A id \in ids : Package_Ahead(id, r)

(* What id needs is missing, or needs itself. *)
Package_Doomed(id) ==
  \E p \in Packages!Ids :
     /\ \A all \in SUBSET Packages!Ids : Packages!Closed(all) /\ id \in all => p \in all
     /\ p \in DOMAIN package_index => p \in Packages!Needed(Package_Deps(p))

(* What a visit of ids makes of r: all of them placed, with nothing that they do not need, or
   an error with a reason. *)
Package_Done(ids, r, s) ==
  /\ s.error = "none" =>
        /\ Package_Sound(s) /\ s.visiting = r.visiting
        /\ r.placed \subseteq s.placed /\ ids \subseteq s.placed
        /\ \A all \in SUBSET Packages!Ids :
              Packages!Closed(all) /\ ids \subseteq all => s.placed \subseteq r.placed \cup all
  /\ s.error # "none" => \E id \in ids : Package_Doomed(id)

(* There are fewer than n packages left to visit. *)
Package_Room(r, n) == Cardinality(DOMAIN package_index \ r.visiting) < n

(* What calls may nest n deep promise. *)
Package_Visits(visit, n) ==
  /\ visit \in [Packages!Ids \X Packages!Resolution -> Packages!Resolution]
  /\ \A id \in Packages!Ids, r \in Packages!Resolution :
        /\ r.error # "none" => visit[<<id, r>>].error # "none"
        /\ r.error = "none" /\ Package_Sound(r) /\ Package_Ahead(id, r) /\ Package_Room(r, n)
           => Package_Done({id}, r, visit[<<id, r>>])

(* Visits one after the other. *)
LEMMA Package_Then ==
  ASSUME NEW A, NEW B, NEW r, NEW s, NEW t, s.error = "none",
         Package_Done(A, r, s), Package_Done(B, s, t)
  PROVE  Package_Done(A \cup B, r, t)
<1>1. ASSUME t.error = "none", NEW all \in SUBSET Packages!Ids, Packages!Closed(all), A \cup B \subseteq all
      PROVE  t.placed \subseteq r.placed \cup all
  <2>1. s.placed \subseteq r.placed \cup all
    BY <1>1 DEF Package_Done
  <2>2. t.placed \subseteq s.placed \cup all
    BY <1>1 DEF Package_Done
  <2> QED BY <2>1, <2>2
<1>2. t.error = "none" => /\ Package_Sound(t) /\ t.visiting = r.visiting
                      /\ r.placed \subseteq t.placed /\ A \cup B \subseteq t.placed
  BY DEF Package_Done
<1>3. t.error # "none" => \E id \in A \cup B : Package_Doomed(id)
  BY DEF Package_Done
<1> QED BY <1>1, <1>2, <1>3 DEF Package_Done

(* The visits of a list, as the recursion makes them. *)
Package_Visiting(visit, ids, r, f) ==
  /\ f \in [0 .. Len(ids) -> Packages!Resolution]
  /\ f[0] = r /\ Packages!Each(visit, ids, r) = f[Len(ids)]
  /\ \A k \in 1 .. Len(ids) : f[k] = visit[<<ids[k], f[k - 1]>>]

LEMMA Package_EachIs ==
  ASSUME NEW visit \in [Packages!Ids \X Packages!Resolution -> Packages!Resolution],
         NEW ids \in Seq(Packages!Ids), NEW r \in Packages!Resolution
  PROVE  \E f : Package_Visiting(visit, ids, r, f)
<1> DEFINE n == Len(ids)
           S == Packages!Resolution
           step == [x \in (1 .. n) \X S |-> visit[<<ids[x[1]], x[2]>>]]
           Makes(f) == f = [k \in 0 .. n |-> IF k = 0 THEN r ELSE visit[<<ids[k], f[k - 1]>>]]
<1>1. n \in Nat /\ \A k \in 1 .. n : ids[k] \in Packages!Ids
  OBVIOUS
<1>2. step \in Package_Steps(n, S)
  <2>1. ASSUME NEW k \in 1 .. n, NEW s \in S PROVE visit[<<ids[k], s>>] \in S
    BY <1>1
  <2> QED BY <2>1 DEF Package_Steps
<1>3. PICK f : /\ f \in [0 .. n -> S] /\ f[0] = r
               /\ \A k \in 1 .. n : f[k] = step[<<k, f[k - 1]>>]
  <2> HIDE DEF step, n, S, Makes
  <2>1. \E f : Package_Run(n, S, r, step, f)
    BY <1>1, <1>2, Package_Recursion DEF S
  <2> QED BY <2>1 DEF Package_Run
<1>4. \A k \in 1 .. n : f[k] = visit[<<ids[k], f[k - 1]>>]
  <2>1. ASSUME NEW k \in 1 .. n PROVE f[k] = visit[<<ids[k], f[k - 1]>>]
    <3>1. k - 1 \in 0 .. n
      BY <1>1
    <3>2. f[k - 1] \in S
      BY <1>3, <3>1
    <3> HIDE DEF S, n
    <3>3. <<k, f[k - 1]>> \in (1 .. n) \X S
      BY <3>2
    <3> QED BY <1>3, <3>3
  <2> QED BY <2>1
<1>5. PICK g : Makes(g) /\ Packages!Each(visit, ids, r) = g[n]
  <2>1. Makes(f)
    <3> HIDE DEF step
    <3> QED BY <1>1, <1>3, <1>4
  <2>2. Packages!Each(visit, ids, r) = (CHOOSE h : Makes(h))[n]
    BY DEF Packages!Each
  <2> HIDE DEF Makes
  <2>3. Makes(CHOOSE h : Makes(h))
    BY <2>1
  <2> QED BY <2>2, <2>3
<1>6. g[0] = r /\ \A k \in 1 .. n : g[k] = visit[<<ids[k], g[k - 1]>>]
  BY <1>1, <1>5
<1>7. g \in [0 .. n -> S]
  <2> DEFINE Bad == {k \in 0 .. n : g[k] \notin S}
  <2>1. SUFFICES ASSUME Bad # {} PROVE FALSE
    BY <1>5
  <2>2. PICK b \in Bad : \A m \in Bad : b <= m
    <3>1. Bad \subseteq Nat
      OBVIOUS
    <3> HIDE DEF Bad
    <3> QED BY <2>1, <3>1, LeastExists
  <2>3. b \in 1 .. n /\ b - 1 \in 0 .. n
    BY <1>1, <1>6, <2>2
  <2>4. g[b - 1] \in S
    BY <2>2, <2>3
  <2>5. g[b] \in S
    BY <1>1, <1>6, <2>3, <2>4
  <2> QED BY <2>2, <2>5
<1> QED BY <1>5, <1>6, <1>7 DEF Package_Visiting

LEMMA Package_EachDone ==
  ASSUME NEW visit, NEW n \in Nat, Package_Visits(visit, n), NEW ids \in Seq(Packages!Ids), NEW r,
         r.error = "none", Package_Sound(r), Package_AllAhead(Packages!ToSet(ids), r),
         Package_Room(r, n)
  PROVE  /\ Packages!Each(visit, ids, r) \in Packages!Resolution
         /\ Package_Done(Packages!ToSet(ids), r, Packages!Each(visit, ids, r))
<1>1. /\ visit \in [Packages!Ids \X Packages!Resolution -> Packages!Resolution]
      /\ r \in Packages!Resolution
  BY DEF Package_Visits, Package_Sound
<1>2. PICK f : Package_Visiting(visit, ids, r, f)
  BY <1>1, Package_EachIs
<1>3. /\ f \in [0 .. Len(ids) -> Packages!Resolution]
      /\ f[0] = r /\ Packages!Each(visit, ids, r) = f[Len(ids)]
      /\ \A k \in 1 .. Len(ids) : f[k] = visit[<<ids[k], f[k - 1]>>]
  BY <1>2 DEF Package_Visiting
<1>4. Len(ids) \in Nat /\ DOMAIN ids = 1 .. Len(ids)
  OBVIOUS
<1>5. \A k \in 1 .. Len(ids) : ids[k] \in Packages!Ids
  OBVIOUS
<1> DEFINE First(k) == {ids[j] : j \in 1 .. k}
           Bad == {k \in 0 .. Len(ids) : ~ Package_Done(First(k), r, f[k])}
<1>6. Package_Done(First(0), r, f[0])
  BY <1>3 DEF Package_Done
<1>7. ASSUME NEW k \in 1 .. Len(ids), Package_Done(First(k - 1), r, f[k - 1])
      PROVE  Package_Done(First(k), r, f[k])
  <2>1. First(k) = First(k - 1) \cup {ids[k]} /\ k - 1 \in 0 .. Len(ids)
    BY <1>4
  <2>2. PICK s : s = f[k - 1] /\ s \in Packages!Resolution
    <3>1. f[k - 1] \in Packages!Resolution
      BY <1>3, <2>1
    <3> QED BY <3>1
  <2>3. f[k] = visit[<<ids[k], s>>] /\ ids[k] \in Packages!Ids
    <3>1. f[k] = visit[<<ids[k], f[k - 1]>>]
      BY <1>3
    <3>2. ids[k] \in Packages!Ids
      BY <1>5
    <3> QED BY <2>2, <3>1, <3>2
  <2> HIDE DEF First, Bad
  <2>4. CASE s.error # "none"
    <3>1. f[k].error # "none"
      BY <2>2, <2>3, <2>4 DEF Package_Visits
    <3>2. \E id \in First(k - 1) : Package_Doomed(id)
      BY <1>7, <2>2, <2>4 DEF Package_Done
    <3> QED BY <2>1, <3>1, <3>2 DEF Package_Done
  <2>5. CASE s.error = "none"
    <3>1. Package_Sound(s) /\ s.visiting = r.visiting
      BY <1>7, <2>2, <2>5 DEF Package_Done
    <3>2. Package_Ahead(ids[k], r)
      BY <1>4 DEF Packages!ToSet, Package_AllAhead
    <3>3. Package_Ahead(ids[k], s)
      BY <3>1, <3>2 DEF Package_Ahead
    <3>4. Package_Room(s, n)
      BY <3>1 DEF Package_Room
    <3>5. Package_Done({ids[k]}, s, f[k])
      BY <2>2, <2>3, <2>5, <3>1, <3>3, <3>4 DEF Package_Visits
    <3>6. Package_Done(First(k - 1) \cup {ids[k]}, r, f[k])
      BY <1>7, <2>2, <2>5, <3>5, Package_Then
    <3> QED BY <2>1, <3>6
  <2> QED BY <2>4, <2>5
<1>8. Bad = {}
  <2>1. SUFFICES ASSUME Bad # {} PROVE FALSE
    OBVIOUS
  <2>2. Bad \subseteq Nat
    OBVIOUS
  <2>3. PICK b \in Bad : \A m \in Bad : b <= m
    <3> HIDE DEF Bad
    <3> QED BY <2>1, <2>2, LeastExists
  <2>4. b # 0
    BY <1>6, <2>3
  <2>5. b \in 1 .. Len(ids) /\ b - 1 \in 0 .. Len(ids) /\ ~(b <= b - 1)
    BY <1>4, <2>3, <2>4
  <2>6. b - 1 \notin Bad
    <3> HIDE DEF Bad
    <3> QED BY <2>3, <2>5
  <2>7. Package_Done(First(b - 1), r, f[b - 1])
    BY <2>5, <2>6
  <2>8. Package_Done(First(b), r, f[b])
    <3> HIDE DEF First, Bad
    <3> QED BY <1>7, <2>5, <2>7
  <2> QED BY <2>3, <2>8
<1>9. Package_Done(First(Len(ids)), r, f[Len(ids)])
  <2>1. Len(ids) \in 0 .. Len(ids)
    BY <1>4
  <2> HIDE DEF First
  <2> QED BY <1>8, <2>1
<1>10. First(Len(ids)) = Packages!ToSet(ids)
  BY <1>4 DEF Packages!ToSet
<1> QED BY <1>3, <1>4, <1>9, <1>10

(* One more at the end. *)
LEMMA Package_Append ==
  ASSUME NEW S, NEW q \in Seq(S), NEW x \in S
  PROVE  /\ Append(q, x) \in Seq(S) /\ Len(q) \in Nat
         /\ DOMAIN q = 1 .. Len(q) /\ DOMAIN Append(q, x) = (1 .. Len(q)) \cup {Len(q) + 1}
         /\ Append(q, x)[Len(q) + 1] = x /\ \A i \in 1 .. Len(q) : Append(q, x)[i] = q[i]
<1>1. Append(q, x) \in Seq(S) /\ Len(q) \in Nat /\ DOMAIN q = 1 .. Len(q)
  OBVIOUS
<1>2. DOMAIN Append(q, x) = 1 .. Len(q) + 1
  OBVIOUS
<1>3. 1 .. Len(q) + 1 = (1 .. Len(q)) \cup {Len(q) + 1}
  BY <1>1
<1>4. Append(q, x)[Len(q) + 1] = x /\ \A i \in 1 .. Len(q) : Append(q, x)[i] = q[i]
  BY <1>1
<1> QED BY <1>1, <1>2, <1>3, <1>4

(* Whoever is visited is not placed, so what is visited is placed once and after the rest. *)
LEMMA Package_Placed ==
  ASSUME NEW id \in DOMAIN package_index, NEW r, NEW s, id \notin r.visiting, Package_Sound(s),
         s.error = "none", s.visiting = r.visiting \cup {id}, Package_Deps(id) \subseteq s.placed,
         NEW t, t = [plan |-> Append(s.plan, id), placed |-> s.placed \cup {id},
                     visiting |-> s.visiting \ {id}, error |-> "none"]
  PROVE  /\ Package_Sound(t) /\ t.error = "none" /\ t.visiting = r.visiting
         /\ t.placed = s.placed \cup {id}
<1>1. s \in Packages!Resolution /\ id \in Packages!Ids
  BY DEF Package_Sound, Packages!Ids
<1>2. /\ s.plan \in Seq(Packages!Ids) /\ s.placed \subseteq Packages!Ids
      /\ s.visiting \subseteq Packages!Ids
  BY <1>1 DEF Packages!Resolution
<1>3. PICK plan : plan = Append(s.plan, id)
  OBVIOUS
<1>4. plan \in Seq(Packages!Ids)
  BY <1>1, <1>2, <1>3, Package_Append
<1>5. t = [plan |-> plan, placed |-> s.placed \cup {id}, visiting |-> s.visiting \ {id}, error |-> "none"]
  BY <1>3
<1>6. t \in Packages!Resolution
  BY <1>1, <1>2, <1>4, <1>5 DEF Packages!Resolution
<1>7. /\ t.plan = plan /\ t.error = "none" /\ t.visiting = r.visiting /\ t.placed = s.placed \cup {id}
  <2>1. /\ t.plan = plan /\ t.error = "none" /\ t.visiting = s.visiting \ {id}
        /\ t.placed = s.placed \cup {id}
    BY <1>5
  <2>2. s.visiting \ {id} = r.visiting
    OBVIOUS
  <2> QED BY <2>1, <2>2
<1>8. id \notin s.placed
  BY DEF Package_Sound
<1>9. t.visiting \cap t.placed = {}
  BY <1>7 DEF Package_Sound
<1>10. PICK n : n = Len(s.plan) /\ n \in Nat
  BY <1>2
<1>11. /\ DOMAIN s.plan = 1 .. n /\ DOMAIN plan = (1 .. n) \cup {n + 1} /\ plan[n + 1] = id
       /\ \A i \in 1 .. n : plan[i] = s.plan[i]
  BY <1>1, <1>2, <1>3, <1>10, Package_Append
<1>12. \A i \in 1 .. n : i < n + 1 /\ i # n + 1
  BY <1>10
<1>13. Package_In(plan) = Package_In(s.plan) \cup {id}
  BY <1>11 DEF Package_In
<1>14. t.placed = Package_In(t.plan) /\ t.placed \subseteq DOMAIN package_index
  BY <1>7, <1>13 DEF Package_Sound
<1>15. Package_Once(plan)
  <2>1. \A i \in 1 .. n : s.plan[i] # id
    BY <1>8, <1>11 DEF Package_Sound, Package_In
  <2>2. \A i, j \in 1 .. n : s.plan[i] = s.plan[j] => i = j
    BY <1>11 DEF Package_Sound, Package_Once
  <2> QED BY <1>11, <1>12, <2>1, <2>2 DEF Package_Once
<1>16. Packages!InOrder(plan)
  <2>1. ASSUME NEW i \in 1 .. n, NEW d \in DOMAIN package_index[plan[i]]
        PROVE  \E j \in DOMAIN plan : j < i /\ plan[j] = package_index[plan[i]][d]
    <3>1. PICK j \in 1 .. n : j < i /\ s.plan[j] = package_index[s.plan[i]][d]
      BY <1>11, <2>1 DEF Package_Sound, Packages!InOrder
    <3> QED BY <1>11, <1>12, <3>1
  <2>2. ASSUME NEW d \in DOMAIN package_index[id]
        PROVE  \E j \in DOMAIN plan : j < n + 1 /\ plan[j] = package_index[id][d]
    <3>1. package_index[id][d] \in s.placed
      BY <2>2 DEF Package_Deps, Packages!ToSet
    <3>2. PICK j \in 1 .. n : s.plan[j] = package_index[id][d]
      BY <1>11, <3>1 DEF Package_Sound, Package_In
    <3> QED BY <1>11, <1>12, <3>2
  <2>3. ASSUME NEW i \in DOMAIN plan, NEW d \in DOMAIN package_index[plan[i]]
        PROVE  \E j \in DOMAIN plan : j < i /\ plan[j] = package_index[plan[i]][d]
    <3>1. CASE i \in 1 .. n
      BY <2>1, <2>3, <3>1
    <3>2. CASE i = n + 1
      <4>1. d \in DOMAIN package_index[id]
        BY <1>11, <2>3, <3>2
      <4> QED BY <1>11, <2>2, <3>2, <4>1
    <3> QED BY <1>11, <3>1, <3>2
  <2> QED BY <2>3 DEF Packages!InOrder
<1> QED BY <1>6, <1>7, <1>9, <1>14, <1>15, <1>16 DEF Package_Sound

(* The index that the proofs are about: finitely many packages, and a list of ids for each. *)
Package_Index ==
  /\ IsFiniteSet(DOMAIN package_index) /\ DOMAIN package_index \subseteq package_Packages
  /\ \A p \in DOMAIN package_index : package_index[p] \in Seq(Package_Deps(p))

LEMMA Package_DepsAreIds ==
  ASSUME Package_Index, NEW p \in DOMAIN package_index
  PROVE  package_index[p] \in Seq(Packages!Ids) /\ Package_Deps(p) \subseteq Packages!Ids
<1>1. Package_Deps(p) \subseteq Packages!Ids
  BY DEF Package_Deps, Packages!Ids
<1>2. package_index[p] \in Seq(Package_Deps(p))
  BY DEF Package_Index
<1> HIDE DEF Package_Deps
<1> QED BY <1>1, <1>2

(* One visit, if the calls that it makes keep their promise. *)
LEMMA Package_VisitedDone ==
  ASSUME Package_Index, NEW visit, NEW n \in Nat, Package_Visits(visit, n),
         NEW id \in Packages!Ids, NEW r, r.error = "none",
         Package_Sound(r), Package_Ahead(id, r), Package_Room(r, n + 1)
  PROVE  Package_Done({id}, r, Packages!Visited(visit, id, r))
<1>0. PICK s : s = Packages!Visited(visit, id, r)
  OBVIOUS
<1> SUFFICES Package_Done({id}, r, s)
  BY <1>0
<1>1. r \in Packages!Resolution
  BY DEF Package_Sound
<1>2. CASE id \in r.placed
  <2>1. s = r
    BY <1>0, <1>2 DEF Packages!Visited, Packages!Placed
  <2> QED BY <1>2, <2>1 DEF Package_Done
<1>3. CASE id \notin r.placed /\ id \in r.visiting
  <2>1. s = [r EXCEPT !.error = "cycle"]
    BY <1>0, <1>3 DEF Packages!Visited, Packages!Placed
  <2>2. s.error = "cycle"
    BY <1>1, <2>1 DEF Packages!Resolution
  <2>3. id \in Packages!Needed(Package_Deps(id))
    BY <1>3 DEF Package_Ahead, Packages!Needed
  <2>4. Package_Doomed(id)
    BY <2>3 DEF Package_Doomed
  <2> QED BY <2>2, <2>4 DEF Package_Done
<1>4. CASE id \notin r.placed /\ id \notin r.visiting /\ id \notin DOMAIN package_index
  <2>1. s = [r EXCEPT !.error = "missing"]
    BY <1>0, <1>4 DEF Packages!Visited, Packages!Placed
  <2>2. s.error = "missing"
    BY <1>1, <2>1 DEF Packages!Resolution
  <2>3. Package_Doomed(id)
    BY <1>4 DEF Package_Doomed
  <2> QED BY <2>2, <2>3 DEF Package_Done
<1>5. CASE id \notin r.placed /\ id \notin r.visiting /\ id \in DOMAIN package_index
  <2>1. PICK mid : mid = [r EXCEPT !.visiting = @ \cup {id}]
    OBVIOUS
  <2>2. /\ mid \in Packages!Resolution /\ mid.visiting = r.visiting \cup {id} /\ mid.error = "none"
        /\ mid.plan = r.plan /\ mid.placed = r.placed
    BY <1>1, <2>1 DEF Packages!Resolution
  <2>3. Package_Sound(mid)
    BY <1>5, <2>2 DEF Package_Sound
  <2>4. package_index[id] \in Seq(Packages!Ids) /\ Package_Deps(id) \subseteq Packages!Ids
    BY <1>5, Package_DepsAreIds
  <2>5. Package_AllAhead(Package_Deps(id), mid)
    <3>1. ASSUME NEW dep \in Package_Deps(id), NEW v \in mid.visiting,
                 NEW all \in SUBSET Packages!Ids, Packages!Closed(all), Package_Deps(v) \subseteq all
          PROVE  dep \in all
      <4>1. CASE v = id
        BY <3>1, <4>1
      <4>2. CASE v \in r.visiting
        <5>1. id \in all
          BY <3>1, <4>2 DEF Package_Ahead
        <5> QED BY <1>5, <3>1, <5>1 DEF Packages!Closed, Package_Deps
      <4> QED BY <2>2, <4>1, <4>2
    <3> QED BY <3>1 DEF Package_AllAhead, Package_Ahead
  <2>6. Package_Room(mid, n)
    <3> DEFINE left == DOMAIN package_index \ r.visiting
    <3>1. IsFiniteSet(left) /\ id \in left
      BY <1>5, FS_Subset DEF Package_Index
    <3>2. DOMAIN package_index \ mid.visiting = left \ {id}
      BY <2>2
    <3>3. Cardinality(left \ {id}) = Cardinality(left) - 1 /\ Cardinality(left) \in Nat
      BY <3>1, FS_RemoveElement, FS_CardinalityType
    <3>4. Cardinality(left) < n + 1
      BY DEF Package_Room
    <3>5. Cardinality(left) - 1 < n
      BY <3>3, <3>4
    <3> HIDE DEF left
    <3> QED BY <3>2, <3>3, <3>5 DEF Package_Room
  <2>7. PICK inner : inner = Packages!Each(visit, package_index[id], mid)
    OBVIOUS
  <2>8. Package_Done(Package_Deps(id), mid, inner)
    BY <2>2, <2>3, <2>4, <2>5, <2>6, <2>7, Package_EachDone DEF Package_Deps
  <2>9. s = IF inner.error # "none" THEN inner
            ELSE [inner EXCEPT !.visiting = @ \ {id}, !.placed = @ \cup {id}, !.plan = Append(@, id)]
    BY <1>0, <1>5, <2>1, <2>7 DEF Packages!Visited, Packages!Placed
  <2>10. CASE inner.error # "none"
    <3>1. PICK dep \in Package_Deps(id) : Package_Doomed(dep)
      BY <2>8, <2>10 DEF Package_Done
    <3>2. PICK p \in Packages!Ids :
              /\ \A all \in SUBSET Packages!Ids : Packages!Closed(all) /\ dep \in all => p \in all
              /\ p \in DOMAIN package_index => p \in Packages!Needed(Package_Deps(p))
      BY <3>1 DEF Package_Doomed
    <3>3. ASSUME NEW all \in SUBSET Packages!Ids, Packages!Closed(all), id \in all PROVE p \in all
      <4>1. dep \in all
        BY <1>5, <3>1, <3>3 DEF Packages!Closed, Package_Deps
      <4> QED BY <3>2, <3>3, <4>1
    <3>4. Package_Doomed(id)
      BY <3>2, <3>3 DEF Package_Doomed
    <3> QED BY <2>9, <2>10, <3>4 DEF Package_Done
  <2>11. CASE inner.error = "none"
    <3>1. /\ Package_Sound(inner) /\ inner.visiting = r.visiting \cup {id}
          /\ r.placed \subseteq inner.placed /\ Package_Deps(id) \subseteq inner.placed
      BY <2>2, <2>8, <2>11 DEF Package_Done
    <3>2. s = [inner EXCEPT !.visiting = @ \ {id}, !.placed = @ \cup {id}, !.plan = Append(@, id)]
      BY <2>9, <2>11
    <3>3. s = [plan |-> Append(inner.plan, id), placed |-> inner.placed \cup {id},
               visiting |-> inner.visiting \ {id}, error |-> "none"]
      BY <2>11, <3>1, <3>2 DEF Package_Sound, Packages!Resolution
    <3>4. Package_Sound(s) /\ s.error = "none" /\ s.visiting = r.visiting /\ s.placed = inner.placed \cup {id}
      BY <1>5, <2>11, <3>1, <3>3, Package_Placed
    <3>5. ASSUME NEW all \in SUBSET Packages!Ids, Packages!Closed(all), id \in all
          PROVE  s.placed \subseteq r.placed \cup all
      <4>1. Package_Deps(id) \subseteq all
        BY <1>5, <3>5 DEF Packages!Closed, Package_Deps
      <4>2. inner.placed \subseteq r.placed \cup all
        BY <2>2, <2>8, <2>11, <3>5, <4>1 DEF Package_Done
      <4> QED BY <3>4, <3>5, <4>2
    <3> QED BY <3>1, <3>4, <3>5 DEF Package_Done
  <2> QED BY <2>10, <2>11
<1> QED BY <1>2, <1>3, <1>4, <1>5

(* Whatever the calls make, one visit makes a resolution of a resolution. *)
LEMMA Package_VisitedType ==
  ASSUME Package_Index, NEW visit \in [Packages!Ids \X Packages!Resolution -> Packages!Resolution],
         NEW id \in Packages!Ids, NEW r \in Packages!Resolution
  PROVE  /\ Packages!Visited(visit, id, r) \in Packages!Resolution
         /\ r.error # "none" => Packages!Visited(visit, id, r).error # "none"
<1>0. PICK s : s = Packages!Visited(visit, id, r)
  OBVIOUS
<1> SUFFICES s \in Packages!Resolution /\ (r.error # "none" => s.error # "none")
  BY <1>0
<1>1. CASE r.error # "none" \/ id \in r.placed
  <2>1. s = r
    BY <1>0, <1>1 DEF Packages!Visited, Packages!Placed
  <2> QED BY <2>1
<1>2. CASE r.error = "none" /\ id \notin r.placed /\ (id \in r.visiting \/ id \notin DOMAIN package_index)
  <2>1. s = [r EXCEPT !.error = "cycle"] \/ s = [r EXCEPT !.error = "missing"]
    BY <1>0, <1>2 DEF Packages!Visited, Packages!Placed
  <2> QED BY <1>2, <2>1 DEF Packages!Resolution
<1>3. CASE r.error = "none" /\ id \notin r.placed /\ id \notin r.visiting /\ id \in DOMAIN package_index
  <2>1. PICK mid : mid = [r EXCEPT !.visiting = @ \cup {id}]
    OBVIOUS
  <2>2. mid \in Packages!Resolution
    BY <2>1 DEF Packages!Resolution
  <2>3. package_index[id] \in Seq(Packages!Ids)
    BY <1>3, Package_DepsAreIds
  <2>4. PICK inner : inner = Packages!Each(visit, package_index[id], mid)
    OBVIOUS
  <2>5. inner \in Packages!Resolution
    <3>1. PICK ids \in Seq(Packages!Ids) : ids = package_index[id]
      BY <2>3
    <3>2. PICK f : Package_Visiting(visit, ids, mid, f)
      BY <2>2, Package_EachIs
    <3>3. f \in [0 .. Len(ids) -> Packages!Resolution] /\ inner = f[Len(ids)]
      BY <2>4, <3>1, <3>2 DEF Package_Visiting
    <3>4. Len(ids) \in 0 .. Len(ids)
      OBVIOUS
    <3> QED BY <3>3, <3>4
  <2>6. s = IF inner.error # "none" THEN inner
            ELSE [inner EXCEPT !.visiting = @ \ {id}, !.placed = @ \cup {id}, !.plan = Append(@, id)]
    BY <1>0, <1>3, <2>1, <2>4 DEF Packages!Visited, Packages!Placed
  <2>7. Append(inner.plan, id) \in Seq(Packages!Ids)
    <3>1. inner.plan \in Seq(Packages!Ids)
      BY <2>5 DEF Packages!Resolution
    <3> QED BY <3>1, Package_Append
  <2>8. CASE inner.error # "none"
    BY <1>3, <2>5, <2>6, <2>8
  <2>9. CASE inner.error = "none"
    <3>1. s = [inner EXCEPT !.visiting = @ \ {id}, !.placed = @ \cup {id}, !.plan = Append(@, id)]
      BY <2>6, <2>9
    <3>2. s = [plan |-> Append(inner.plan, id), placed |-> inner.placed \cup {id},
               visiting |-> inner.visiting \ {id}, error |-> "none"]
      BY <2>5, <2>9, <3>1 DEF Packages!Resolution
    <3>3. inner.placed \cup {id} \subseteq Packages!Ids /\ inner.visiting \ {id} \subseteq Packages!Ids
      BY <2>5 DEF Packages!Resolution
    <3> QED BY <1>3, <2>7, <3>2, <3>3 DEF Packages!Resolution
  <2> QED BY <2>8, <2>9
<1> QED BY <1>1, <1>2, <1>3

(* The recursion of emit, one level at a time. *)
Package_Deepest == [call \in Packages!Ids \X Packages!Resolution |-> [call[2] EXCEPT !.error = "cycle"]]
Package_Level(visit) ==
  [call \in Packages!Ids \X Packages!Resolution |-> Packages!Visited(visit, call[1], call[2])]

LEMMA Package_EmitIs ==
  ASSUME Package_Index
  PROVE  /\ Packages!Depth \in Nat
         /\ Packages!emit[0] = Package_Deepest
         /\ \A n \in 1 .. Packages!Depth : Packages!emit[n] = Package_Level(Packages!emit[n - 1])
<1> DEFINE D == Packages!Depth
           Calls == Packages!Ids \X Packages!Resolution
           S == [Calls -> Packages!Resolution]
           step == [x \in (1 .. D) \X S |-> Package_Level(x[2])]
           Makes(f) == f = [n \in 0 .. D |->
                              [call \in Calls |-> IF n = 0 THEN [call[2] EXCEPT !.error = "cycle"]
                                                  ELSE Packages!Visited(f[n - 1], call[1], call[2])]]
<1>1. D \in Nat
  <2>1. Packages!Cardinality(DOMAIN package_index) = Cardinality(DOMAIN package_index)
    BY DEF Packages!Cardinality, Cardinality
  <2>2. Cardinality(DOMAIN package_index) \in Nat
    BY FS_CardinalityType DEF Package_Index
  <2> QED BY <2>1, <2>2 DEF Packages!Depth
<1>2. Package_Deepest \in S
  <2>1. ASSUME NEW call \in Calls PROVE [call[2] EXCEPT !.error = "cycle"] \in Packages!Resolution
    BY DEF Packages!Resolution
  <2> QED BY <2>1 DEF Package_Deepest
<1>3. \A visit \in S : Package_Level(visit) \in S
  <2>1. ASSUME NEW visit \in S, NEW call \in Calls
        PROVE  Packages!Visited(visit, call[1], call[2]) \in Packages!Resolution
    <3>1. call[1] \in Packages!Ids /\ call[2] \in Packages!Resolution
      OBVIOUS
    <3> QED BY <3>1, Package_VisitedType
  <2> QED BY <2>1 DEF Package_Level
<1>4. PICK f : /\ f \in [0 .. D -> S] /\ f[0] = Package_Deepest
               /\ \A n \in 1 .. D : f[n] = step[<<n, f[n - 1]>>]
  <2> HIDE DEF S, D
  <2>1. step \in Package_Steps(D, S)
    BY <1>3 DEF Package_Steps
  <2> HIDE DEF step
  <2>2. \E f : Package_Run(D, S, Package_Deepest, step, f)
    BY <1>1, <1>2, <2>1, Package_Recursion
  <2> QED BY <2>2 DEF Package_Run
<1>5. \A n \in 1 .. D : f[n] = Package_Level(f[n - 1])
  <2>1. ASSUME NEW n \in 1 .. D PROVE f[n] = Package_Level(f[n - 1])
    <3>1. n - 1 \in 0 .. D
      BY <1>1
    <3>2. f[n - 1] \in S
      BY <1>4, <3>1
    <3>3. <<n, f[n - 1]>> \in (1 .. D) \X S
      BY <3>2
    <3> HIDE DEF S, D
    <3> QED BY <1>4, <3>3
  <2> QED BY <2>1
<1>6. Makes(f)
  <2> HIDE DEF D, S, step
  <2>1. DOMAIN f = 0 .. D /\ f = [n \in 0 .. D |-> f[n]]
    BY <1>4
  <2>2. ASSUME NEW n \in 0 .. D
        PROVE  f[n] = [call \in Calls |-> IF n = 0 THEN [call[2] EXCEPT !.error = "cycle"]
                                          ELSE Packages!Visited(f[n - 1], call[1], call[2])]
    <3>1. CASE n = 0
      BY <1>4, <3>1 DEF Package_Deepest
    <3>2. CASE n # 0
      <4>1. n \in 1 .. D
        BY <1>1, <3>2
      <4> QED BY <1>5, <3>2, <4>1 DEF Package_Level
    <3> QED BY <3>1, <3>2
  <2> HIDE DEF Calls
  <2> QED BY <2>1, <2>2
<1>7. Makes(Packages!emit)
  <2>1. Packages!emit = CHOOSE g : Makes(g)
    BY DEF Packages!emit
  <2> HIDE DEF Makes
  <2> QED BY <1>6, <2>1
<1>8. Packages!emit[0] = Package_Deepest
  BY <1>1, <1>7 DEF Package_Deepest
<1>9. ASSUME NEW n \in 1 .. D PROVE Packages!emit[n] = Package_Level(Packages!emit[n - 1])
  <2>1. n \in 0 .. D /\ n # 0
    BY <1>1
  <2> HIDE DEF D
  <2> QED BY <1>7, <2>1 DEF Package_Level
<1> QED BY <1>1, <1>8, <1>9

(* Every level keeps the promise of its depth, and none is at the deepest one. *)
LEMMA Package_EmitVisits ==
  ASSUME Package_Index
  PROVE  Package_Visits(Packages!emit[Packages!Depth], Packages!Depth)
<1> DEFINE D == Packages!Depth
           Bad == {n \in 0 .. D : ~ Package_Visits(Packages!emit[n], n)}
<1>1. /\ D \in Nat /\ Packages!emit[0] = Package_Deepest
      /\ \A n \in 1 .. D : Packages!emit[n] = Package_Level(Packages!emit[n - 1])
  BY Package_EmitIs
<1>2. Package_Visits(Packages!emit[0], 0)
  <2>1. ASSUME NEW id \in Packages!Ids, NEW r \in Packages!Resolution
        PROVE  /\ Package_Deepest[<<id, r>>] = [r EXCEPT !.error = "cycle"]
               /\ Package_Deepest[<<id, r>>] \in Packages!Resolution
               /\ Package_Deepest[<<id, r>>].error = "cycle"
    <3>1. Package_Deepest[<<id, r>>] = [r EXCEPT !.error = "cycle"]
      BY DEF Package_Deepest
    <3> QED BY <3>1 DEF Packages!Resolution
  <2>2. Package_Deepest \in [Packages!Ids \X Packages!Resolution -> Packages!Resolution]
    <3>1. ASSUME NEW call \in Packages!Ids \X Packages!Resolution
          PROVE  [call[2] EXCEPT !.error = "cycle"] \in Packages!Resolution
      BY DEF Packages!Resolution
    <3> QED BY <3>1 DEF Package_Deepest
  <2>3. ASSUME NEW r PROVE ~ Package_Room(r, 0)
    <3>1. Cardinality(DOMAIN package_index \ r.visiting) \in Nat
      BY FS_Subset, FS_CardinalityType DEF Package_Index
    <3> QED BY <3>1 DEF Package_Room
  <2> QED BY <1>1, <2>1, <2>2, <2>3 DEF Package_Visits
<1>3. ASSUME NEW n \in 1 .. D, Package_Visits(Packages!emit[n - 1], n - 1)
      PROVE  Package_Visits(Packages!emit[n], n)
  <2>1. PICK visit : visit = Packages!emit[n - 1]
    OBVIOUS
  <2>2. n - 1 \in Nat /\ (n - 1) + 1 = n
    BY <1>1
  <2>3. Packages!emit[n] = Package_Level(visit)
    BY <1>1, <2>1
  <2>4. visit \in [Packages!Ids \X Packages!Resolution -> Packages!Resolution]
    BY <1>3, <2>1 DEF Package_Visits
  <2>5. \A id \in Packages!Ids, r \in Packages!Resolution :
           Package_Level(visit)[<<id, r>>] = Packages!Visited(visit, id, r)
    BY DEF Package_Level
  <2>6. ASSUME NEW id \in Packages!Ids, NEW r \in Packages!Resolution, r.error = "none",
               Package_Sound(r), Package_Ahead(id, r), Package_Room(r, n)
        PROVE  Package_Done({id}, r, Packages!Visited(visit, id, r))
    BY <1>3, <2>1, <2>2, <2>6, Package_VisitedDone
  <2>7. Package_Level(visit) \in [Packages!Ids \X Packages!Resolution -> Packages!Resolution]
    <3>1. ASSUME NEW call \in Packages!Ids \X Packages!Resolution
          PROVE  Packages!Visited(visit, call[1], call[2]) \in Packages!Resolution
      BY <2>4, Package_VisitedType
    <3> QED BY <3>1 DEF Package_Level
  <2>8. \A id \in Packages!Ids, r \in Packages!Resolution :
           r.error # "none" => Packages!Visited(visit, id, r).error # "none"
    BY <2>4, Package_VisitedType
  <2> QED BY <2>3, <2>5, <2>6, <2>7, <2>8 DEF Package_Visits
<1>4. Bad = {}
  <2>1. SUFFICES ASSUME Bad # {} PROVE FALSE
    OBVIOUS
  <2>2. Bad \subseteq Nat
    BY <1>1
  <2>3. PICK b \in Bad : \A m \in Bad : b <= m
    <3> HIDE DEF Bad
    <3> QED BY <2>1, <2>2, LeastExists
  <2>4. b # 0
    BY <1>2, <2>3
  <2>5. b \in 1 .. D /\ b - 1 \in 0 .. D /\ ~(b <= b - 1)
    BY <1>1, <2>3, <2>4
  <2>6. b - 1 \notin Bad
    <3> HIDE DEF Bad
    <3> QED BY <2>3, <2>5
  <2>7. Package_Visits(Packages!emit[b - 1], b - 1)
    BY <2>5, <2>6
  <2>8. Package_Visits(Packages!emit[b], b)
    <3> HIDE DEF Bad, D
    <3> QED BY <1>3, <2>5, <2>7
  <2> QED BY <2>3, <2>8
<1>5. D \in 0 .. D
  BY <1>1
<1> QED BY <1>4, <1>5

(* The whole resolution: all that was asked for in order, and nothing that it does not need;
   or one of what was asked for needs what is missing, or itself. *)
LEMMA Package_Resolved ==
  ASSUME Package_Index, NEW requested \in Seq(package_Packages), NEW r, r = Packages!resolve(requested)
  PROVE  /\ r.error = "none" =>
               /\ Package_Sound(r) /\ Packages!ToSet(requested) \subseteq r.placed
               /\ \A all \in SUBSET Packages!Ids :
                     Packages!Closed(all) /\ Packages!ToSet(requested) \subseteq all => r.placed \subseteq all
         /\ r.error # "none" => \E id \in Packages!ToSet(requested) : Package_Doomed(id)
<1>1. PICK start : start = [plan |-> <<>>, placed |-> {}, visiting |-> {}, error |-> "none"]
  OBVIOUS
<1>2. /\ start.plan = <<>> /\ start.placed = {} /\ start.visiting = {} /\ start.error = "none"
  BY <1>1
<1>3. requested \in Seq(Packages!Ids) /\ Packages!ToSet(requested) \subseteq Packages!Ids
  <2>1. package_Packages \subseteq Packages!Ids
    BY DEF Packages!Ids
  <2>2. requested \in Seq(Packages!Ids)
    BY <2>1
  <2> QED BY <2>2 DEF Packages!ToSet
<1>4. CASE ~(Packages!ToSet(requested) \subseteq DOMAIN package_index)
  <2>1. r.error = "missing"
    <3>1. r = [start EXCEPT !.error = "missing"]
      BY <1>1, <1>4 DEF Packages!resolve
    <3> QED BY <1>1, <3>1
  <2>2. PICK id \in Packages!ToSet(requested) : id \notin DOMAIN package_index
    BY <1>4
  <2>3. Package_Doomed(id)
    BY <1>3, <2>2 DEF Package_Doomed
  <2> QED BY <2>1, <2>3
<1>5. CASE Packages!ToSet(requested) \subseteq DOMAIN package_index
  <2>1. r = Packages!Each(Packages!emit[Packages!Depth], requested, start)
    BY <1>1, <1>5 DEF Packages!resolve
  <2>2. Package_Sound(start)
    <3>1. <<>> \in Seq(Packages!Ids) /\ DOMAIN start.plan = {}
      BY <1>2
    <3>2. start \in Packages!Resolution
      BY <1>1, <3>1 DEF Packages!Resolution
    <3>3. Package_In(start.plan) = {} /\ Package_Once(start.plan) /\ Packages!InOrder(start.plan)
      BY <3>1 DEF Package_In, Package_Once, Packages!InOrder
    <3> QED BY <1>2, <3>2, <3>3 DEF Package_Sound
  <2>3. Package_AllAhead(Packages!ToSet(requested), start)
    BY <1>2 DEF Package_AllAhead, Package_Ahead
  <2>4. Packages!Depth \in Nat /\ Package_Room(start, Packages!Depth)
    <3>1. Cardinality(DOMAIN package_index) \in Nat
      BY FS_CardinalityType DEF Package_Index
    <3>2. Packages!Depth = Cardinality(DOMAIN package_index) + 1
      BY DEF Packages!Depth, Packages!Cardinality, Cardinality
    <3>3. DOMAIN package_index \ start.visiting = DOMAIN package_index
      BY <1>2
    <3>4. Cardinality(DOMAIN package_index) < Packages!Depth /\ Packages!Depth \in Nat
      BY <3>1, <3>2
    <3> QED BY <3>3, <3>4 DEF Package_Room
  <2>5. Package_Done(Packages!ToSet(requested), start, r)
    BY <1>2, <1>3, <2>1, <2>2, <2>3, <2>4, Package_EmitVisits, Package_EachDone
  <2>6. \A all : start.placed \cup all = all
    BY <1>2
  <2> QED BY <2>5, <2>6 DEF Package_Done
<1> QED BY <1>4, <1>5

(* resolver.rs: the plan is what the request needs, in order, and there is one exactly when
   nothing of that is missing or needs itself. *)
LEMMA Package_Planned ==
  ASSUME Package_Index, NEW requested \in Seq(package_Packages), NEW r, r = Packages!resolve(requested)
  PROVE  /\ r.error = "none" <=> Packages!Resolvable(requested)
         /\ r.error = "none" =>
               /\ Packages!ToSet(r.plan) = Packages!Needed(Packages!ToSet(requested))
               /\ r.plan \in Seq(package_Packages) /\ Packages!IsInjective(r.plan) /\ Packages!InOrder(r.plan)
<1> DEFINE asked == Packages!ToSet(requested)
<1>1. asked \subseteq Packages!Ids
  <2>1. \A i \in DOMAIN requested : requested[i] \in package_Packages
    OBVIOUS
  <2> QED BY <2>1 DEF Packages!ToSet, Packages!Ids
<1>2. /\ r.error = "none" =>
            /\ Package_Sound(r) /\ asked \subseteq r.placed
            /\ \A all \in SUBSET Packages!Ids :
                  Packages!Closed(all) /\ asked \subseteq all => r.placed \subseteq all
      /\ r.error # "none" => \E id \in asked : Package_Doomed(id)
  BY Package_Resolved
<1> HIDE DEF asked
<1>3. CASE r.error = "none"
  <2>1. PICK plan : plan = r.plan
    OBVIOUS
  <2>2. /\ plan \in Seq(Packages!Ids) /\ r.placed \subseteq Packages!Ids /\ r.placed = Package_In(plan)
        /\ r.placed \subseteq DOMAIN package_index /\ Package_Once(plan) /\ Packages!InOrder(plan)
    BY <1>2, <1>3, <2>1 DEF Package_Sound, Packages!Resolution
  <2>3. PICK n : n = Len(plan) /\ n \in Nat /\ DOMAIN plan = 1 .. n
    BY <2>2
  <2>4. Packages!Closed(r.placed)
    <3>1. ASSUME NEW p \in r.placed, NEW d \in DOMAIN package_index[p] PROVE package_index[p][d] \in r.placed
      <4>1. PICK i \in DOMAIN plan : plan[i] = p
        BY <2>2 DEF Package_In
      <4>2. PICK j \in DOMAIN plan : plan[j] = package_index[p][d]
        BY <2>2, <3>1, <4>1 DEF Packages!InOrder
      <4> QED BY <2>2, <4>2 DEF Package_In
    <3> QED BY <3>1 DEF Packages!Closed, Packages!ToSet
  <2>5. r.placed = Packages!Needed(asked)
    <3>1. r.placed \subseteq Packages!Needed(asked)
      BY <1>2, <1>3, <2>2 DEF Packages!Needed
    <3>2. Packages!Needed(asked) \subseteq r.placed
      BY <1>2, <1>3, <2>2, <2>4 DEF Packages!Needed
    <3> QED BY <3>1, <3>2
  <2>6. Packages!ToSet(plan) = r.placed
    BY <2>2 DEF Packages!ToSet, Package_In
  <2>7. plan \in Seq(package_Packages)
    <3>1. \A i \in 1 .. n : plan[i] \in r.placed
      BY <2>2, <2>3 DEF Package_In
    <3>2. \A i \in 1 .. n : plan[i] \in package_Packages
      BY <2>2, <3>1 DEF Package_Index
    <3> QED BY <2>2, <2>3, <3>2
  <2>8. Packages!IsInjective(plan)
    BY <2>2 DEF Package_Once, Packages!IsInjective
  <2>9. ASSUME NEW p \in r.placed PROVE p \notin Packages!Needed(Package_Deps(p))
    <3>1. PICK i \in DOMAIN plan : plan[i] = p
      BY <2>2 DEF Package_In
    <3> DEFINE below == Package_Before(plan, i)
    <3>2. below \subseteq r.placed
      BY <2>2 DEF Package_Before, Package_In
    <3>3. Packages!Closed(below)
      <4>1. ASSUME NEW k \in DOMAIN plan, k < i, NEW d \in DOMAIN package_index[plan[k]]
            PROVE  package_index[plan[k]][d] \in below
        <5>1. PICK j \in DOMAIN plan : j < k /\ plan[j] = package_index[plan[k]][d]
          BY <2>2, <4>1 DEF Packages!InOrder
        <5>2. j < i
          BY <2>3, <4>1, <5>1
        <5> QED BY <5>1, <5>2 DEF Package_Before
      <4> QED BY <4>1 DEF Packages!Closed, Packages!ToSet, Package_Before
    <3>4. Package_Deps(p) \subseteq below
      BY <2>2, <3>1 DEF Package_Deps, Packages!ToSet, Packages!InOrder, Package_Before
    <3>5. p \notin below
      <4>1. ASSUME NEW k \in DOMAIN plan, k < i, plan[k] = p PROVE FALSE
        <5>1. k = i
          BY <2>2, <3>1, <4>1 DEF Package_Once
        <5> QED BY <2>3, <4>1, <5>1
      <4> QED BY <4>1 DEF Package_Before
    <3> HIDE DEF below
    <3> QED BY <2>2, <3>2, <3>3, <3>4, <3>5 DEF Packages!Needed
  <2>10. Packages!Resolvable(requested)
    BY <2>2, <2>5, <2>9 DEF Packages!Resolvable, Package_Deps, asked
  <2> QED BY <1>3, <2>1, <2>2, <2>5, <2>6, <2>7, <2>8, <2>10 DEF asked
<1>4. CASE r.error # "none"
  <2>1. PICK id \in asked : Package_Doomed(id)
    BY <1>2, <1>4
  <2>2. PICK p \in Packages!Ids :
            /\ \A all \in SUBSET Packages!Ids : Packages!Closed(all) /\ id \in all => p \in all
            /\ p \in DOMAIN package_index => p \in Packages!Needed(Package_Deps(p))
    BY <2>1 DEF Package_Doomed
  <2>3. p \in Packages!Needed(asked)
    BY <2>1, <2>2 DEF Packages!Needed
  <2>4. ~ Packages!Resolvable(requested)
    BY <2>2, <2>3 DEF Packages!Resolvable, Package_Deps, asked
  <2> QED BY <1>4, <2>4
<1> QED BY <1>3, <1>4

LEMMA Package_Plans ==
  ASSUME Package_IInv
  PROVE  Packages!PlanExact /\ Packages!PlanOrdered
<1>1. Package_Index
  <2>1. /\ DOMAIN package_index \subseteq package_Packages
        /\ \A p \in DOMAIN package_index : package_index[p] \in Seq(Package_Deps(p))
    BY PluginsAssumption DEF Package_IInv, Package_Deps
  <2>2. IsFiniteSet(DOMAIN package_index)
    BY <2>1, PluginsAssumption, FS_Subset
  <2> QED BY <2>1, <2>2 DEF Package_Index
<1>2. ASSUME NEW requested \in package_Requests PROVE requested \in Seq(package_Packages)
  BY PluginsAssumption
<1> QED BY <1>1, <1>2, Package_Planned DEF Packages!PlanExact, Packages!PlanOrdered

-----------------------------------------------------------------------------
(* The execution of a plan.                                                  *)

(* A step more, of a plan that holds each package once. *)
LEMMA Package_Longer ==
  ASSUME NEW plan \in Seq(package_Packages), NEW n \in Nat \ {0}, n <= Len(plan), Package_Once(plan)
  PROVE  /\ n \in DOMAIN plan /\ plan[n] \in package_Packages
         /\ plan[n] \notin Package_Before(plan, n)
         /\ \A p : p \in Package_Before(plan, n + 1) <=> p \in Package_Before(plan, n) \/ p = plan[n]
<1>1. Len(plan) \in Nat /\ DOMAIN plan = 1 .. Len(plan) /\ n \in DOMAIN plan
  OBVIOUS
<1>2. plan[n] \in package_Packages
  BY <1>1
<1>3. plan[n] \notin Package_Before(plan, n)
  <2>1. ASSUME NEW k \in DOMAIN plan, k < n, plan[k] = plan[n] PROVE FALSE
    <3>1. k = n
      BY <1>1, <2>1 DEF Package_Once
    <3> QED BY <2>1, <3>1, <1>1
  <2> QED BY <2>1 DEF Package_Before
<1>4. ASSUME NEW p PROVE p \in Package_Before(plan, n + 1) <=> p \in Package_Before(plan, n) \/ p = plan[n]
  <2>1. \A k \in DOMAIN plan : k < n + 1 <=> k < n \/ k = n
    BY <1>1
  <2> QED BY <1>1, <2>1 DEF Package_Before
<1> QED BY <1>1, <1>2, <1>3, <1>4

(* What takes back the steps done: they are in order the other way round. *)
LEMMA Package_Reversed ==
  ASSUME NEW plan \in Seq(package_Packages), NEW n \in Nat \ {0}, n <= Len(plan),
         Package_Once(plan), Packages!InOrder(plan)
  PROVE  LET back == Packages!Rollback(SubSeq(plan, 1, n - 1)) IN
         /\ back \in Seq(package_Packages) /\ Package_Once(back) /\ Package_Backwards(back)
         /\ Package_Closed(back) /\ Package_In(back) = Package_Before(plan, n)
<1> DEFINE done == SubSeq(plan, 1, n - 1)
           back == Packages!Rollback(done)
<1>1. /\ Len(plan) \in Nat /\ DOMAIN plan = 1 .. Len(plan) /\ n - 1 \in Nat /\ n - 1 <= Len(plan)
      /\ \A k \in DOMAIN plan : plan[k] \in package_Packages
  OBVIOUS
<1>2. done = [k \in 1 .. n - 1 |-> plan[k]] /\ Len(done) = n - 1
  BY <1>1
<1> HIDE DEF done
<1>3. back = [i \in 1 .. n - 1 |-> done[((n - 1) - i) + 1]]
  BY <1>2 DEF Packages!Rollback, Packages!Reverse
<1> HIDE DEF back
<1>4. \A i \in 1 .. n - 1 : n - i \in 1 .. n - 1 /\ n - i \in DOMAIN plan /\ back[i] = plan[n - i]
  <2>1. TAKE i \in 1 .. n - 1
  <2>2. n - i \in 1 .. n - 1 /\ n - i \in DOMAIN plan /\ ((n - 1) - i) + 1 = n - i
    BY <1>1
  <2>3. back[i] = done[n - i]
    BY <1>3, <2>2
  <2>4. done[n - i] = plan[n - i]
    BY <1>2, <2>2
  <2> QED BY <2>2, <2>3, <2>4
<1>5. DOMAIN back = 1 .. n - 1 /\ back \in [1 .. n - 1 -> package_Packages]
  BY <1>1, <1>3, <1>4
<1>6. back \in Seq(package_Packages)
  BY <1>1, <1>5
<1>7. Package_In(back) = Package_Before(plan, n)
  <2>1. ASSUME NEW i \in DOMAIN back PROVE back[i] \in Package_Before(plan, n)
    <3>1. n - i \in DOMAIN plan /\ n - i < n /\ back[i] = plan[n - i]
      BY <1>4, <1>5
    <3> QED BY <3>1 DEF Package_Before
  <2>2. ASSUME NEW k \in DOMAIN plan, k < n PROVE plan[k] \in Package_In(back)
    <3>1. n - k \in 1 .. n - 1 /\ n - (n - k) = k
      BY <1>1, <2>2
    <3>2. back[n - k] = plan[k]
      BY <1>4, <3>1
    <3> QED BY <3>1, <3>2, <1>5 DEF Package_In
  <2> QED BY <2>1, <2>2 DEF Package_In, Package_Before
<1>8. Package_Once(back)
  <2>1. ASSUME NEW i \in DOMAIN back, NEW j \in DOMAIN back, back[i] = back[j] PROVE i = j
    <3>1. /\ n - i \in DOMAIN plan /\ n - j \in DOMAIN plan /\ plan[n - i] = plan[n - j]
          /\ i \in Nat /\ j \in Nat
      BY <1>4, <1>5, <2>1
    <3>2. n - i = n - j
      BY <3>1 DEF Package_Once
    <3> QED BY <3>1, <3>2
  <2> QED BY <2>1 DEF Package_Once
<1>9. ASSUME NEW i \in DOMAIN back, NEW d \in DOMAIN package_index[back[i]]
      PROVE  \E j \in DOMAIN back : i < j /\ back[j] = package_index[back[i]][d]
  <2>1. n - i \in DOMAIN plan /\ back[i] = plan[n - i] /\ i \in 1 .. n - 1
    BY <1>4, <1>5
  <2>2. PICK k \in DOMAIN plan : k < n - i /\ plan[k] = package_index[plan[n - i]][d]
    BY <2>1 DEF Packages!InOrder
  <2>3. n - k \in 1 .. n - 1 /\ i < n - k /\ n - (n - k) = k
    BY <1>1, <2>1, <2>2
  <2>4. back[n - k] = plan[k]
    BY <1>4, <2>3
  <2> QED BY <1>5, <2>1, <2>2, <2>3, <2>4
<1>10. Package_Backwards(back) /\ Package_Closed(back)
  BY <1>9 DEF Package_Backwards, Package_Closed, Package_In
<1> QED BY <1>6, <1>7, <1>8, <1>10 DEF back, done

(* What the invariant says of a package put in place by the plan. *)
LEMMA Package_InPlace ==
  ASSUME Package_IInv
  PROVE  Packages!DependenciesFirst
<1> SUFFICES ASSUME package_command.name \in {"execute", "rollback"},
                    NEW p \in Package_Owed, NEW d \in DOMAIN package_index[p]
             PROVE  package_installed[package_index[p][d]] = "new"
  BY DEF Package_IInv, Package_Elsewhere, Packages!DependenciesFirst, Packages!Fresh, Package_Owed
<1>1. PICK plan, n : plan = package_command.plan /\ n = package_command.next
  OBVIOUS
<1>2. plan \in Seq(package_Packages) /\ n \in Nat \ {0}
  BY <1>1 DEF Package_IInv, Package_Executing, Package_Undoing, Package_Step
<1>3. Len(plan) \in Nat /\ DOMAIN plan = 1 .. Len(plan)
  BY <1>2
<1>4. CASE package_command.name = "execute"
  <2>1. /\ Packages!InOrder(plan) /\ p \in Package_Before(plan, n)
        /\ Package_AllNew(Package_Before(plan, n))
    BY <1>1, <1>4 DEF Package_IInv, Package_Executing, Package_Owed
  <2>2. PICK i \in DOMAIN plan : i < n /\ plan[i] = p
    BY <2>1 DEF Package_Before
  <2>3. PICK j \in DOMAIN plan : j < i /\ plan[j] = package_index[p][d]
    BY <2>1, <2>2 DEF Packages!InOrder
  <2>4. j < n
    BY <1>2, <1>3, <2>2, <2>3
  <2>5. plan[j] \in Package_Before(plan, n)
    BY <2>4 DEF Package_Before
  <2> QED BY <2>1, <2>3, <2>5 DEF Package_AllNew
<1>5. CASE package_command.name = "rollback"
  <2>1. /\ Package_Backwards(plan) /\ Package_Closed(plan) /\ p \in Package_Left(plan, n)
        /\ Package_AllNew(Package_Left(plan, n))
    BY <1>1, <1>5 DEF Package_IInv, Package_Undoing
  <2>2. PICK i \in DOMAIN plan : i >= n /\ plan[i] = p
    BY <2>1 DEF Package_Left
  <2>3. PICK j \in DOMAIN plan : i < j /\ plan[j] = package_index[p][d]
    BY <2>1, <2>2 DEF Package_Backwards, Package_Closed
  <2>4. j >= n
    BY <1>2, <1>3, <2>2, <2>3
  <2>5. plan[j] \in Package_Left(plan, n)
    BY <2>4 DEF Package_Left
  <2> QED BY <2>1, <2>3, <2>5 DEF Package_AllNew
<1> QED BY <1>4, <1>5

(* Another command, or none yet, has put nothing in place by a plan. *)
LEMMA Package_Afresh ==
  ASSUME Package_IInv, DOMAIN package_installed' = DOMAIN package_installed,
         UNCHANGED package_index, package_command'.name \notin {"execute", "rollback"},
         \E before : package_execution' = [before |-> before, put |-> {}, kept |-> {}]
  PROVE  Package_IInv'
<1>1. /\ package_execution'.put = {} /\ package_execution'.kept = {}
      /\ package_execution' = [before |-> package_execution'.before, put |-> package_execution'.put,
                               kept |-> package_execution'.kept]
  OBVIOUS
<1>2. Package_Elsewhere'
  BY <1>1 DEF Package_Elsewhere, Packages!DependenciesFirst, Package_Owed
<1> QED BY <1>1, <1>2 DEF Package_IInv, Package_Executing, Package_Undoing

(* The command is over: what it put in place is as it left it. *)
LEMMA Package_Over ==
  ASSUME Package_IInv, package_command' = Packages!NoCommand,
         UNCHANGED <<package_installed, package_index, package_execution>>
  PROVE  Package_IInv'
<1>1. package_command'.name = "none"
  BY DEF Packages!NoCommand
<1>2. Packages!DependenciesFirst'
  BY Package_InPlace DEF Packages!DependenciesFirst, Packages!Fresh
<1>3. Package_Elsewhere'
  BY <1>1, <1>2 DEF Package_Elsewhere
<1> QED BY <1>1, <1>3 DEF Package_IInv, Package_Executing, Package_Undoing

(* A command of one package goes on: no plan put anything in place. *)
LEMMA Package_Single ==
  ASSUME Package_IInv, package_command.name \in {"write", "validate", "swap", "rename"},
         DOMAIN package_installed' = DOMAIN package_installed,
         UNCHANGED <<package_index, package_execution>>,
         package_command'.name \notin {"execute", "rollback"}
  PROVE  Package_IInv'
<1>1. Package_Owed = {}
  BY DEF Package_IInv, Package_Elsewhere
<1>2. Package_Owed' = {}
  BY <1>1 DEF Package_Owed
<1>3. Packages!DependenciesFirst'
  BY <1>2 DEF Packages!DependenciesFirst, Package_Owed
<1>4. Package_Elsewhere'
  BY <1>2, <1>3 DEF Package_Elsewhere
<1> QED BY <1>4 DEF Package_IInv, Package_Executing, Package_Undoing

LEMMA Package_Begins ==
  ASSUME Package_IInv, NEW requested \in package_Requests,
         Packages!execute_plan(requested)
  PROVE  Package_IInv'
<1> DEFINE r == Packages!resolve(requested)
<1>1. /\ UNCHANGED <<package_installed, package_index>>
      /\ package_execution' = [before |-> package_installed, put |-> {}, kept |-> {}]
      /\ package_command' = IF r.error # "none" THEN Packages!NoCommand
                            ELSE [name |-> "execute", plan |-> r.plan, next |-> 1]
  BY DEF Packages!execute_plan, Packages!Start
<1>2. CASE r.error # "none"
  <2>1. package_command'.name = "none"
    BY <1>1, <1>2 DEF Packages!NoCommand
  <2> QED BY <1>1, <2>1, Package_Afresh
<1>3. CASE r.error = "none"
  <2>1. r.plan \in Seq(package_Packages) /\ Packages!IsInjective(r.plan) /\ Packages!InOrder(r.plan)
    BY <1>3, Package_Plans DEF Packages!PlanOrdered
  <2>2. PICK plan : plan = r.plan
    OBVIOUS
  <2> HIDE DEF r
  <2>3. package_command' = [name |-> "execute", plan |-> plan, next |-> 1]
    BY <1>1, <1>3, <2>2
  <2>4. package_command' \in Package_Step /\ 1 <= Len(plan) + 1
    BY <2>1, <2>2, <2>3 DEF Package_Step
  <2>5. Package_Before(plan, 1) = {}
    BY <2>1, <2>2 DEF Package_Before
  <2>6. Package_Once(plan)
    BY <2>1, <2>2 DEF Package_Once, Packages!IsInjective
  <2>7. Packages!InOrder(plan)'
    BY <1>1, <2>1, <2>2 DEF Packages!InOrder
  <2>8. /\ package_command'.name = "execute" /\ package_command'.plan = plan
        /\ package_command'.next = 1
    BY <2>3
  <2>9. /\ package_execution'.put = {} /\ package_execution'.kept = {}
        /\ package_execution' = [before |-> package_execution'.before,
              put |-> package_execution'.put, kept |-> package_execution'.kept]
    BY <1>1
  <2>10. Package_Executing'
    BY <2>4, <2>5, <2>6, <2>7, <2>8, <2>9 DEF Package_Executing, Package_AllNew
  <2>11. DOMAIN package_installed' = package_Packages /\ package_index' \in package_Indexes
    BY <1>1 DEF Package_IInv
  <2> QED BY <2>8, <2>9, <2>10, <2>11 DEF Package_IInv, Package_Undoing, Package_Elsewhere
<1> QED BY <1>2, <1>3

LEMMA Package_StepOk ==
  ASSUME Package_IInv, Packages!StepOk
  PROVE  Package_IInv'
<1>1. PICK plan, n : plan = package_command.plan /\ n = package_command.next
  OBVIOUS
<1>2. /\ package_command.name = "execute" /\ n <= Len(plan)
      /\ package_installed' = [package_installed EXCEPT ![plan[n]] = "new"]
      /\ package_command' = [package_command EXCEPT !.next = @ + 1]
      /\ package_execution' = [package_execution EXCEPT !.put = @ \cup {plan[n]}]
      /\ UNCHANGED package_index
  BY <1>1 DEF Packages!StepOk, Packages!Does
<1>3. /\ package_command \in Package_Step /\ Package_Once(plan) /\ Packages!InOrder(plan)
      /\ package_execution.kept = {} /\ package_execution.put = Package_Before(plan, n)
      /\ Package_AllNew(package_execution.put)
  BY <1>1, <1>2 DEF Package_IInv, Package_Executing
<1>4. plan \in Seq(package_Packages) /\ n \in Nat \ {0}
  BY <1>1, <1>3 DEF Package_Step
<1>5. /\ package_command' \in Package_Step /\ package_command'.name = "execute"
      /\ package_command'.plan = plan /\ package_command'.next = n + 1
  BY <1>1, <1>2, <1>3 DEF Package_Step
<1>6. n + 1 <= Len(plan) + 1
  BY <1>2, <1>4
<1>7. /\ package_execution'.put = package_execution.put \cup {plan[n]}
      /\ package_execution'.kept = {}
      /\ package_execution' = [before |-> package_execution'.before,
              put |-> package_execution'.put, kept |-> package_execution'.kept]
  BY <1>2, <1>3 DEF Package_IInv
<1>8. package_execution'.put = Package_Before(plan, n + 1)
  BY <1>2, <1>3, <1>4, <1>7, Package_Longer
<1>9. DOMAIN package_installed = package_Packages /\ package_index \in package_Indexes
  BY DEF Package_IInv
<1>10. plan[n] \in package_Packages
  BY <1>2, <1>3, <1>4, Package_Longer
<1>11. Package_AllNew(package_execution.put)'
  BY <1>2, <1>3, <1>7, <1>9, <1>10 DEF Package_AllNew
<1>12. Packages!InOrder(plan)'
  BY <1>2, <1>3 DEF Packages!InOrder
<1>13. Package_Executing'
  BY <1>3, <1>5, <1>6, <1>7, <1>8, <1>11, <1>12 DEF Package_Executing
<1> QED BY <1>2, <1>5, <1>7, <1>9, <1>13 DEF Package_IInv, Package_Undoing, Package_Elsewhere

LEMMA Package_StepFails ==
  ASSUME Package_IInv, Packages!StepFails
  PROVE  Package_IInv'
<1>1. PICK plan, n : plan = package_command.plan /\ n = package_command.next
  OBVIOUS
<1>2. PICK back : back = Packages!Rollback(SubSeq(plan, 1, n - 1))
  OBVIOUS
<1>3. /\ package_command.name = "execute" /\ n <= Len(plan)
      /\ package_command' = [name |-> "rollback", next |-> 1, plan |-> back]
      /\ UNCHANGED <<package_index, package_execution, package_installed>>
  BY <1>1, <1>2 DEF Packages!StepFails, Packages!Go, Packages!Does
<1>4. /\ package_command \in Package_Step /\ Package_Once(plan) /\ Packages!InOrder(plan)
      /\ package_execution.put = Package_Before(plan, n) /\ Package_AllNew(package_execution.put)
  BY <1>1, <1>3 DEF Package_IInv, Package_Executing
<1>5. plan \in Seq(package_Packages) /\ n \in Nat \ {0}
  BY <1>1, <1>4 DEF Package_Step
<1>6. /\ back \in Seq(package_Packages) /\ Package_Once(back) /\ Package_Backwards(back)
      /\ Package_Closed(back) /\ Package_In(back) = Package_Before(plan, n)
  BY <1>2, <1>3, <1>4, <1>5, Package_Reversed
<1>7. /\ package_command' \in Package_Step /\ package_command'.name = "rollback"
      /\ package_command'.plan = back /\ package_command'.next = 1
  BY <1>3, <1>6 DEF Package_Step
<1>8. Package_Left(back, 1) = Package_In(back)
  BY <1>6 DEF Package_Left, Package_In
<1>9. Package_Backwards(back)' /\ Package_Closed(back)'
  BY <1>3, <1>6 DEF Package_Backwards, Package_Closed
<1>10. Package_Owed' \subseteq Package_Left(back, 1)
  BY <1>3, <1>4, <1>6, <1>8 DEF Package_Owed
<1>11. Package_AllNew(Package_Left(back, 1))'
  BY <1>3, <1>4, <1>6, <1>8 DEF Package_AllNew
<1>12. Package_Undoing'
  BY <1>6, <1>7, <1>9, <1>10, <1>11 DEF Package_Undoing, Package_AllNew
<1> QED BY <1>3, <1>7, <1>12 DEF Package_IInv, Package_Executing, Package_Elsewhere

(* What is left after one more removal: the package removed is not in it. *)
LEMMA Package_Less ==
  ASSUME NEW plan \in Seq(package_Packages), NEW n \in Nat \ {0}, n <= Len(plan), Package_Once(plan)
  PROVE  /\ plan[n] \in package_Packages /\ plan[n] \notin Package_Left(plan, n + 1)
         /\ Package_Left(plan, n + 1) \subseteq Package_Left(plan, n)
         /\ Package_Left(plan, n) \subseteq Package_Left(plan, n + 1) \cup {plan[n]}
         /\ Package_Left(plan, n + 1) \subseteq package_Packages
<1>1. Len(plan) \in Nat /\ DOMAIN plan = 1 .. Len(plan) /\ n \in DOMAIN plan
  OBVIOUS
<1>2. \A k \in DOMAIN plan : plan[k] \in package_Packages
  BY <1>1
<1>3. \A k \in DOMAIN plan : /\ k >= n + 1 => k >= n /\ k # n
                             /\ k >= n => k >= n + 1 \/ k = n
  BY <1>1
<1>4. plan[n] \notin Package_Left(plan, n + 1)
  BY <1>1, <1>3 DEF Package_Left, Package_Once
<1> QED BY <1>1, <1>2, <1>3, <1>4 DEF Package_Left

LEMMA Package_RollbackStep ==
  ASSUME Package_IInv, Packages!RollbackStep
  PROVE  Package_IInv'
<1>1. PICK plan, n : plan = package_command.plan /\ n = package_command.next
  OBVIOUS
<1>2. /\ package_command.name = "rollback" /\ UNCHANGED package_index
      /\ IF n > Len(plan)
         THEN package_command' = Packages!NoCommand /\ UNCHANGED <<package_installed, package_execution>>
         ELSE /\ package_command' = [package_command EXCEPT !.next = @ + 1]
              /\ \/ /\ package_installed' = [package_installed EXCEPT ![plan[n]] = "absent"]
                    /\ package_execution' = [package_execution EXCEPT !.put = @ \ {plan[n]}]
                 \/ /\ package_execution' = [package_execution EXCEPT !.kept = @ \cup {plan[n]}]
                    /\ UNCHANGED package_installed
  BY <1>1 DEF Packages!RollbackStep, Packages!Go, Packages!Does
<1>3. CASE n > Len(plan)
  BY <1>2, <1>3, Package_Over
<1>4. CASE ~(n > Len(plan))
  <2>1. /\ package_command \in Package_Step /\ Package_Once(plan) /\ Package_Closed(plan)
        /\ Package_Backwards(plan) /\ Package_Owed \subseteq Package_Left(plan, n)
        /\ Package_AllNew(Package_Left(plan, n))
    BY <1>1, <1>2 DEF Package_IInv, Package_Undoing
  <2>2. plan \in Seq(package_Packages) /\ n \in Nat \ {0} /\ n <= Len(plan)
    BY <1>1, <1>4, <2>1 DEF Package_Step
  <2>3. /\ package_command' \in Package_Step /\ package_command'.name = "rollback"
        /\ package_command'.plan = plan /\ package_command'.next = n + 1
    BY <1>1, <1>2, <1>4, <2>1 DEF Package_Step
  <2>4. Package_Backwards(plan)' /\ Package_Closed(plan)'
    BY <1>2, <2>1 DEF Package_Backwards, Package_Closed
  <2>5. /\ plan[n] \in package_Packages /\ plan[n] \notin Package_Left(plan, n + 1)
        /\ Package_Left(plan, n + 1) \subseteq Package_Left(plan, n)
        /\ Package_Left(plan, n) \subseteq Package_Left(plan, n + 1) \cup {plan[n]}
        /\ Package_Left(plan, n + 1) \subseteq package_Packages
    BY <2>1, <2>2, Package_Less
  <2>6. /\ DOMAIN package_installed = package_Packages
        /\ package_execution = [before |-> package_execution.before,
              put |-> package_execution.put, kept |-> package_execution.kept]
    BY DEF Package_IInv
  <2>7. /\ Package_Owed' = Package_Owed \ {plan[n]}
        /\ package_execution' = [before |-> package_execution'.before,
              put |-> package_execution'.put, kept |-> package_execution'.kept]
    BY <1>2, <1>4, <2>6 DEF Package_Owed
  <2>8. Package_Owed' \subseteq Package_Left(plan, n + 1)
    BY <2>1, <2>5, <2>7
  <2>9. Package_AllNew(Package_Left(plan, n + 1))'
    BY <1>2, <1>4, <2>1, <2>5, <2>6 DEF Package_AllNew, Package_Left
  <2>10. Package_Undoing'
    BY <2>1, <2>3, <2>4, <2>8, <2>9 DEF Package_Undoing, Package_AllNew
  <2>11. DOMAIN package_installed' = package_Packages
    BY <1>2, <1>4, <2>6
  <2> QED BY <1>2, <2>3, <2>7, <2>10, <2>11 DEF Package_IInv, Package_Executing, Package_Elsewhere
<1> QED BY <1>3, <1>4

LEMMA Package_Stepped ==
  ASSUME Package_IInv, [Packages!Next]_(Packages!vars)
  PROVE  Package_IInv'
<1>1. ASSUME NEW p \in package_Packages, Packages!cmd_install(p) \/ Packages!cmd_uninstall(p)
      PROVE  Package_IInv'
  <2>1. /\ DOMAIN package_installed' = DOMAIN package_installed /\ UNCHANGED package_index
        /\ package_command'.name \in {"write", "none"}
        /\ package_execution' = [before |-> package_installed, put |-> {}, kept |-> {}]
    BY <1>1 DEF Packages!cmd_install, Packages!cmd_uninstall, Packages!Start, Packages!NoCommand
  <2> QED BY <2>1, Package_Afresh
<1>2. CASE Packages!WriteFiles \/ Packages!ValidateStaged \/ Packages!RemoveTarget \/
           Packages!RenameStaged
  <2>1. /\ DOMAIN package_installed' = DOMAIN package_installed
        /\ UNCHANGED <<package_index, package_execution>>
        /\ package_command.name \in {"write", "validate", "swap", "rename"}
        /\ package_command'.name \in {"validate", "swap", "rename", "none"}
    BY <1>2 DEF Packages!WriteFiles, Packages!ValidateStaged, Packages!RemoveTarget,
       Packages!RenameStaged, Packages!Go, Packages!Does, Packages!NoCommand
  <2> QED BY <2>1, Package_Single
<1>3. CASE Packages!Killed \/ Packages!Done
  BY <1>3, Package_Over DEF Packages!Killed, Packages!Done, Packages!Go, Packages!Does
<1>4. CASE Packages!Boot \/ UNCHANGED Packages!vars
  <2>1. UNCHANGED <<package_index, package_installed, package_command, package_execution>>
    BY <1>4 DEF Packages!Boot, Packages!vars
  <2>2. Package_Executing'
    BY <2>1 DEF Package_IInv, Package_Executing, Package_AllNew, Packages!InOrder
  <2>3. Package_Undoing'
    BY <2>1 DEF Package_IInv, Package_Undoing, Package_Backwards, Package_Closed, Package_AllNew,
                Package_Owed
  <2>4. Package_Elsewhere'
    BY <2>1 DEF Package_IInv, Package_Elsewhere, Package_Owed, Packages!DependenciesFirst,
                Packages!Fresh
  <2> QED BY <2>1, <2>2, <2>3, <2>4 DEF Package_IInv
<1> QED BY <1>1, <1>2, <1>3, <1>4, Package_Begins, Package_StepOk, Package_StepFails,
        Package_RollbackStep DEF Packages!Next

LEMMA Package_Unit ==
  ASSUME [Next]_vars
  PROVE  /\ (unit = "package") = (unit = "package")'
         /\ unit = "package" => [Packages!Next]_(Packages!vars)
<1>1. CASE PackagesStep
  BY <1>1 DEF PackagesStep
<1>2. CASE UNCHANGED vars
  BY <1>2 DEF vars, packageVars, Packages!vars
<1>3. CASE LifecycleStep \/ RegistryStep \/ WireStep \/ SurfaceStep \/ HttpStep \/
      ManagerStep
  BY <1>3 DEF LifecycleStep, RegistryStep, WireStep, SurfaceStep, HttpStep, ManagerStep
<1> QED BY <1>1, <1>2, <1>3 DEF Next

(* resolver.rs, transactional.rs: a plan is what the request needs, each package once and after
   what it depends on, and there is one exactly when nothing needed is missing or needs itself.
   Whatever step fails, whichever removals are refused and wherever the command is killed, no
   package the plan put in place lacks what it depends on, then or later until another command
   runs, but one whose own removal was refused. *)
THEOREM PackagesStaySound == Spec => []PackagesSound
<1>1. Init => (unit = "package" => Package_IInv)
  <2> SUFFICES ASSUME Packages!Init PROVE Package_IInv
    BY DEF Init
  <2>1. /\ package_command.name = "none" /\ package_execution.put = {}
        /\ package_execution = [before |-> package_execution.before,
              put |-> package_execution.put, kept |-> package_execution.kept]
    BY DEF Packages!Init, Packages!NoCommand
  <2>2. package_index \in package_Indexes /\ DOMAIN package_installed = package_Packages
    BY DEF Packages!Init
  <2> QED BY <2>1, <2>2 DEF Package_IInv, Package_Executing, Package_Undoing, Package_Elsewhere,
             Packages!DependenciesFirst
<1>2. [Next]_vars /\ (unit = "package" => Package_IInv) => (unit = "package" => Package_IInv)'
  BY Package_Unit, Package_Stepped
<1>3. (unit = "package" => Package_IInv) => PackagesSound
  BY Package_InPlace, Package_Plans DEF PackagesSound, Packages!PackagesSound
<1> QED BY <1>1, <1>2, <1>3, PTL DEF Spec

=============================================================================
