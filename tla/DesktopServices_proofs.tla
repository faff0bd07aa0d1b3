------------------------ MODULE DesktopServices_proofs ------------------------
(***************************************************************************)
(* Proofs about the services that MCDesktop puts side by side: favorites,     *)
(* trigger queue, icons, search cache, graph editor, settings, effects on the   *)
(* system, file index, bounded agent, parallel search, application catalog and   *)
(* ranking.                                                                    *)
(* Each is proved by itself for any values of its constants; the last step      *)
(* takes the result to the sum, where a behaviour is of one unit and stays of   *)
(* it.                                                                        *)
(***************************************************************************)
EXTENDS MCDesktop, WellFoundedInduction, FiniteSetTheorems, TLAPS

-----------------------------------------------------------------------------
(* What the proofs of several services need.                                 *)

(* A nonempty set of numbers has a least one. *)
LEMMA LeastExists ==
  ASSUME NEW S, S \subseteq Nat, S # {}
  PROVE  \E m \in S : \A n \in S : m <= n
<1>1. \E m \in S : \A n \in S : ~ (<<n, m>> \in OpToRel(<, Nat))
  BY NatLessThanWellFounded, WFMin
<1>2. PICK m \in S : \A n \in S : ~ (<<n, m>> \in OpToRel(<, Nat))
  BY <1>1
<1>3. ASSUME NEW n \in S PROVE m <= n
  <2>1. n \in Nat /\ m \in Nat
    OBVIOUS
  <2>2. n < m => <<n, m>> \in OpToRel(<, Nat)
    BY <2>1 DEF OpToRel
  <2>3. ~ (n < m)
    BY <1>2, <1>3, <2>2
  <2> QED BY <2>1, <2>3
<1> QED BY <1>2, <1>3

-----------------------------------------------------------------------------
(* The favorites.                                                            *)

(* A pin adds the favorite with it, in one statement after the check; whatever another
   caller removes takes its pin along (favorites.rs, pin and remove). *)
LEMMA Stars_Step ==
  ASSUME Stars!PinsAreFavorites, [Stars!Next]_(Stars!vars)
  PROVE  Stars!PinsAreFavorites'
<1> USE DEF Stars!PinsAreFavorites, Stars!Pinned
<1>1. CASE UNCHANGED Stars!vars
  BY <1>1 DEF Stars!vars
<1>2. ASSUME NEW d \in {None, "header", "inside"}, Stars!open(d)
      PROVE  Stars!PinsAreFavorites'
  <2>1. CASE d = None
    BY <1>2, <2>1 DEF Stars!open
  <2>2. CASE d # None
    <3>1. favorites_favorites' = {} /\ favorites_pins' = <<>>
      BY <1>2, <2>2 DEF Stars!open
    <3>2. DOMAIN favorites_pins' = {}
      BY <3>1
    <3> QED BY <3>1, <3>2
  <2> QED BY <2>1, <2>2
<1>3. ASSUME NEW c \in favorites_Callers, Stars!Pin(c)
      PROVE  Stars!PinsAreFavorites'
  <2> DEFINE k == favorites_calls[c].key
  <2>1. /\ favorites_favorites' = favorites_favorites \cup {k}
        /\ DOMAIN favorites_pins' = DOMAIN favorites_pins \cup {k}
    BY <1>3 DEF Stars!Pin
  <2> QED BY <2>1
<1>4. ASSUME NEW c \in favorites_Callers, Stars!Reorder(c)
      PROVE  Stars!PinsAreFavorites'
  <2>1. DOMAIN favorites_pins' = DOMAIN favorites_pins /\ UNCHANGED favorites_favorites
    BY <1>4 DEF Stars!Reorder
  <2> QED BY <2>1
<1>5. ASSUME NEW c \in favorites_Callers, Stars!Snapshot(c) \/ Stars!take_snapshot(c)
      PROVE  Stars!PinsAreFavorites'
  BY <1>5 DEF Stars!Snapshot, Stars!take_snapshot
<1>6. ASSUME NEW c \in favorites_Callers, NEW k \in favorites_Keys, Stars!add(c, k)
      PROVE  Stars!PinsAreFavorites'
  BY <1>6 DEF Stars!add
<1>7. ASSUME NEW c \in favorites_Callers, NEW k \in favorites_Keys,
             Stars!remove(c, k) \/ Stars!unpin(c, k)
      PROVE  Stars!PinsAreFavorites'
  <2>1. DOMAIN favorites_pins' = DOMAIN favorites_pins \ {k}
    BY <1>7 DEF Stars!remove, Stars!unpin, Stars!Unpinned
  <2>2. favorites_favorites' = favorites_favorites \ {k} \/ UNCHANGED favorites_favorites
    BY <1>7 DEF Stars!remove, Stars!unpin
  <2> QED BY <2>1, <2>2
<1>8. ASSUME NEW c \in favorites_Callers, NEW k \in favorites_Keys,
             Stars!pin(c, k) \/ \E to \in 0 .. 1 : Stars!reorder(c, k, to)
      PROVE  Stars!PinsAreFavorites'
  <2>1. UNCHANGED <<favorites_favorites, favorites_pins>>
    BY <1>8 DEF Stars!pin, Stars!reorder
  <2> QED BY <2>1
<1> QED BY <1>1, <1>2, <1>3, <1>4, <1>5, <1>6, <1>7, <1>8 DEF Stars!Next

LEMMA Stars_Safety == Stars!Spec => []Stars!PinsAreFavorites
<1>1. Stars!Init => Stars!PinsAreFavorites
  BY DEF Stars!Init, Stars!PinsAreFavorites, Stars!Pinned
<1> QED BY <1>1, Stars_Step, PTL DEF Stars!Spec

LEMMA Stars_Unit ==
  ASSUME [Next]_vars
  PROVE  /\ (unit = "favorites") = (unit = "favorites")'
         /\ unit = "favorites" => [Stars!Next]_(Stars!vars)
<1>1. CASE StarsStep
  BY <1>1 DEF StarsStep
<1>2. CASE UNCHANGED vars
  BY <1>2 DEF vars, favoritesVars, Stars!vars
<1>3. CASE SearchStep \/ RankedStep \/ IconsStep \/ CatalogStep \/ CoordinatorStep \/
      FilesStep \/ SettingsStep \/ EditorStep \/ TriggerStep \/ EffectsStep \/ AgentStep
  BY <1>3 DEF SearchStep, RankedStep, IconsStep, CatalogStep, CoordinatorStep, FilesStep,
         SettingsStep, EditorStep, TriggerStep, EffectsStep, AgentStep
<1> QED BY <1>1, <1>2, <1>3 DEF Next

(* Pins stay a subset of the favorites through every interleaving of the calls
   (favorites.rs, INV-FAV-006 and INV-FAV-007). *)
THEOREM PinsStayFavorites == Spec => []PinsAreFavorites
<1>1. Init => (unit = "favorites" => Stars!Init)
  BY DEF Init
<1>2. [Next]_vars /\ unit = "favorites" => [Stars!Next]_(Stars!vars) /\ (unit = "favorites")'
  BY Stars_Unit
<1>3. [Next]_vars /\ ~(unit = "favorites") => ~(unit = "favorites")'
  BY Stars_Unit
<1>4. Stars!Spec => []Stars!PinsAreFavorites
  BY Stars_Safety
<1>5. (unit = "favorites" => Stars!PinsAreFavorites) => PinsAreFavorites
  BY DEF PinsAreFavorites
<1> QED BY <1>1, <1>2, <1>3, <1>4, <1>5, PTL DEF Spec, Stars!Spec

-----------------------------------------------------------------------------
(* The trigger queue.                                                        *)

(* The events consumed so far: what was started is among them. *)
Trigger_Consumed == {i \in DOMAIN trigger_table : trigger_table[i].consumed}

Trigger_Typed ==
  /\ trigger_table \in Seq(Trigger!Row) /\ trigger_started \in Seq(Nat)

(* They are the oldest ones, whatever crashed. *)
Trigger_Oldest ==
  \A i, j \in DOMAIN trigger_table : i < j /\ j \in Trigger_Consumed => i \in Trigger_Consumed

(* What was started was consumed; the event in hand is consumed and younger than all that
   were started. *)
Trigger_Behind ==
  /\ \A n \in DOMAIN trigger_started : trigger_started[n] \in Trigger_Consumed
  /\ trigger_service.at = "dequeued" =>
        /\ trigger_service.id \in Trigger_Consumed
        /\ \A n \in DOMAIN trigger_started : trigger_started[n] < trigger_service.id

Trigger_IInv ==
  Trigger_Typed /\ Trigger_Oldest /\ Trigger_Behind /\ Trigger!OnceInOrder

(* Another event behind the others is not consumed. *)
LEMMA Trigger_Enqueue ==
  ASSUME Trigger_IInv, NEW k \in Trigger!Kinds, NEW w \in trigger_Workflows,
         Trigger!enqueue(k, w)
  PROVE  Trigger_IInv'
<1> DEFINE r == [kind |-> k, workflow |-> w, consumed |-> FALSE]
<1>1. r \in Trigger!Row /\ r.consumed = FALSE
  BY DEF Trigger!Row
<1>2. trigger_table' = Append(trigger_table, r)
      /\ UNCHANGED <<trigger_service, trigger_started>>
  BY DEF Trigger!enqueue
<1>3. trigger_table \in Seq(Trigger!Row) /\ trigger_started \in Seq(Nat)
  BY DEF Trigger_IInv, Trigger_Typed
<1> HIDE DEF r
<1>4. /\ trigger_table' \in Seq(Trigger!Row)
      /\ DOMAIN trigger_table' = 1 .. Len(trigger_table) + 1
      /\ DOMAIN trigger_table = 1 .. Len(trigger_table)
      /\ \A i \in DOMAIN trigger_table : trigger_table'[i] = trigger_table[i]
      /\ trigger_table'[Len(trigger_table) + 1] = r
      /\ Len(trigger_table) \in Nat
  BY <1>1, <1>2, <1>3
<1>5. Trigger_Consumed' = Trigger_Consumed
  BY <1>1, <1>4 DEF Trigger_Consumed
<1>6. Trigger_Consumed \subseteq DOMAIN trigger_table
  BY DEF Trigger_Consumed
<1>7. Trigger_Oldest'
  BY <1>4, <1>5, <1>6 DEF Trigger_IInv, Trigger_Oldest
<1>8. Trigger_Typed' /\ Trigger_Behind' /\ Trigger!OnceInOrder'
  BY <1>2, <1>3, <1>4, <1>5
  DEF Trigger_IInv, Trigger_Typed, Trigger_Behind, Trigger!OnceInOrder
<1> QED BY <1>7, <1>8 DEF Trigger_IInv

(* The event taken is the oldest one that waits. *)
LEMMA Trigger_Least ==
  ASSUME Trigger_Typed, Trigger!Pending # {}
  PROVE  /\ Trigger!Next_event \in Trigger!Pending
         /\ \A j \in Trigger!Pending : Trigger!Next_event <= j
<1>1. Trigger!Pending \subseteq Nat
  BY DEF Trigger!Pending, Trigger_Typed
<1>2. \E i \in Trigger!Pending : \A j \in Trigger!Pending : i <= j
  BY <1>1, LeastExists
<1> QED BY <1>2 DEF Trigger!Next_event

LEMMA Trigger_Dequeue ==
  ASSUME Trigger_IInv, Trigger!dequeue
  PROVE  Trigger_IInv'
<1> DEFINE e == Trigger!Next_event
<1>1. /\ trigger_table \in Seq(Trigger!Row) /\ trigger_started \in Seq(Nat)
      /\ Trigger_Typed /\ Trigger!Pending # {}
  BY DEF Trigger_IInv, Trigger_Typed, Trigger!dequeue
<1>2. /\ e \in Trigger!Pending
      /\ \A j \in Trigger!Pending : e <= j
  BY <1>1, Trigger_Least
<1>3. /\ trigger_table' = [trigger_table EXCEPT ![e].consumed = TRUE]
      /\ trigger_service' = [at |-> "dequeued", id |-> e]
      /\ UNCHANGED trigger_started
  BY DEF Trigger!dequeue
<1> HIDE DEF e
<1>4. e \in DOMAIN trigger_table /\ e \notin Trigger_Consumed
  BY <1>2 DEF Trigger!Pending, Trigger_Consumed
<1>5. trigger_table[e] \in Trigger!Row
  BY <1>1, <1>4
<1>6. [trigger_table[e] EXCEPT !.consumed = TRUE] \in Trigger!Row
      /\ [trigger_table[e] EXCEPT !.consumed = TRUE].consumed = TRUE
  BY <1>5 DEF Trigger!Row
<1>7. /\ trigger_table' \in Seq(Trigger!Row) /\ DOMAIN trigger_table' = DOMAIN trigger_table
      /\ trigger_table'[e] = [trigger_table[e] EXCEPT !.consumed = TRUE]
      /\ \A i \in DOMAIN trigger_table : i # e => trigger_table'[i] = trigger_table[i]
  BY <1>1, <1>3, <1>4, <1>6
<1>8. Trigger_Consumed' = Trigger_Consumed \cup {e}
  BY <1>4, <1>6, <1>7 DEF Trigger_Consumed
<1>9. DOMAIN trigger_table \subseteq Nat
  BY <1>1
<1>10. \A i \in DOMAIN trigger_table : i < e => i \in Trigger_Consumed
  BY <1>2, <1>4, <1>9 DEF Trigger!Pending, Trigger_Consumed
<1>11. \A j \in Trigger_Consumed : j < e
  BY <1>4, <1>9 DEF Trigger_IInv, Trigger_Oldest, Trigger_Consumed
<1>12. Trigger_Oldest'
  BY <1>7, <1>8, <1>10 DEF Trigger_IInv, Trigger_Oldest
<1>13. Trigger_Behind'
  BY <1>3, <1>8, <1>11 DEF Trigger_IInv, Trigger_Behind
<1>14. Trigger_Typed' /\ Trigger!OnceInOrder'
  BY <1>1, <1>3, <1>7 DEF Trigger_IInv, Trigger_Typed, Trigger!OnceInOrder
<1> QED BY <1>12, <1>13, <1>14 DEF Trigger_IInv

LEMMA Trigger_Start ==
  ASSUME Trigger_IInv, Trigger!start_workflow
  PROVE  Trigger_IInv'
<1> DEFINE e == trigger_service.id
<1>1. /\ trigger_started \in Seq(Nat) /\ trigger_service' = [at |-> "ready"]
      /\ UNCHANGED trigger_table
      /\ e \in Trigger_Consumed /\ e \in Nat
      /\ \A n \in DOMAIN trigger_started : trigger_started[n] < e
  BY DEF Trigger_IInv, Trigger_Typed, Trigger_Behind, Trigger!start_workflow, Trigger_Consumed
<1>2. trigger_started' \in {trigger_started, Append(trigger_started, e)}
  BY DEF Trigger!start_workflow
<1> HIDE DEF e
<1>3. CASE trigger_started' = trigger_started
  BY <1>1, <1>3
  DEF Trigger_IInv, Trigger_Typed, Trigger_Oldest, Trigger_Behind, Trigger!OnceInOrder,
      Trigger_Consumed
<1>4. CASE trigger_started' = Append(trigger_started, e)
  <2>1. /\ trigger_started' \in Seq(Nat)
        /\ DOMAIN trigger_started' = 1 .. Len(trigger_started) + 1
        /\ DOMAIN trigger_started = 1 .. Len(trigger_started)
        /\ Len(trigger_started) \in Nat
        /\ trigger_started'[Len(trigger_started) + 1] = e
        /\ \A n \in DOMAIN trigger_started : trigger_started'[n] = trigger_started[n]
    BY <1>1, <1>4
  <2>2. Trigger_Consumed' = Trigger_Consumed
    BY <1>1 DEF Trigger_Consumed
  <2>3. Trigger_Behind'
    <3>1. ASSUME NEW n \in DOMAIN trigger_started'
          PROVE  trigger_started'[n] \in Trigger_Consumed
      <4>1. n \in DOMAIN trigger_started \/ n = Len(trigger_started) + 1
        BY <2>1
      <4> QED BY <4>1, <1>1, <2>1 DEF Trigger_IInv, Trigger_Behind
    <3>2. trigger_service'.at # "dequeued"
      BY <1>1
    <3> QED BY <2>2, <3>1, <3>2 DEF Trigger_Behind
  <2>4. Trigger!OnceInOrder'
    BY <1>1, <2>1 DEF Trigger_IInv, Trigger!OnceInOrder
  <2>5. Trigger_Typed'
    <3>1. trigger_table' \in Seq(Trigger!Row)
      BY <1>1 DEF Trigger_IInv, Trigger_Typed
    <3> QED BY <2>1, <3>1 DEF Trigger_Typed
  <2>6. Trigger_Oldest'
    BY <1>1, <2>2 DEF Trigger_IInv, Trigger_Oldest
  <2> QED BY <2>3, <2>4, <2>5, <2>6 DEF Trigger_IInv
<1> QED BY <1>2, <1>3, <1>4

LEMMA Trigger_Others ==
  ASSUME Trigger_IInv,
         \/ Trigger!open \/ Trigger!Dies \/ UNCHANGED Trigger!vars
         \/ \E ws \in SUBSET trigger_Workflows : ws # trigger_defined /\ Trigger!Redefine(ws)
  PROVE  Trigger_IInv'
<1>1. /\ UNCHANGED <<trigger_table, trigger_started>>
      /\ trigger_service' \in {trigger_service, [at |-> "ready"], [at |-> "down"]}
  BY DEF Trigger!open, Trigger!Dies, Trigger!vars, Trigger!Redefine
<1>2. Trigger_Consumed' = Trigger_Consumed
  BY <1>1 DEF Trigger_Consumed
<1>3. trigger_service'.at = "dequeued" => trigger_service' = trigger_service
  BY <1>1
<1>4. Trigger_Behind'
  BY <1>1, <1>2, <1>3 DEF Trigger_IInv, Trigger_Behind
<1>5. Trigger_Typed' /\ Trigger_Oldest' /\ Trigger!OnceInOrder'
  BY <1>1, <1>2 DEF Trigger_IInv, Trigger_Typed, Trigger_Oldest, Trigger!OnceInOrder
<1> QED BY <1>4, <1>5 DEF Trigger_IInv

LEMMA Trigger_Safety == Trigger!Spec => []Trigger!OnceInOrder
<1>1. Trigger!Init => Trigger_IInv
  BY DEF Trigger!Init, Trigger_IInv, Trigger_Typed, Trigger_Oldest, Trigger_Behind,
         Trigger!OnceInOrder, Trigger_Consumed
<1>2. Trigger_IInv /\ [Trigger!Next]_(Trigger!vars) => Trigger_IInv'
  BY Trigger_Enqueue, Trigger_Dequeue, Trigger_Start, Trigger_Others DEF Trigger!Next
<1>3. Trigger_IInv => Trigger!OnceInOrder
  BY DEF Trigger_IInv
<1> QED BY <1>1, <1>2, <1>3, PTL DEF Trigger!Spec

LEMMA Trigger_Unit ==
  ASSUME [Next]_vars
  PROVE  /\ (unit = "trigger") = (unit = "trigger")'
         /\ unit = "trigger" => [Trigger!Next]_(Trigger!vars)
<1>1. CASE TriggerStep
  BY <1>1 DEF TriggerStep
<1>2. CASE UNCHANGED vars
  BY <1>2 DEF vars, triggerVars, Trigger!vars
<1>3. CASE SearchStep \/ RankedStep \/ IconsStep \/ CatalogStep \/ StarsStep \/
      CoordinatorStep \/ FilesStep \/ SettingsStep \/ EditorStep \/ EffectsStep \/ AgentStep
  BY <1>3 DEF SearchStep, RankedStep, IconsStep, CatalogStep, StarsStep, CoordinatorStep,
         FilesStep, SettingsStep, EditorStep, EffectsStep, AgentStep
<1> QED BY <1>1, <1>2, <1>3 DEF Next

(* Across crashes of the launcher no event starts a second run, and none starts before an
   older one that starts at all (triggers.rs, dequeue). *)
THEOREM TriggersOnceInOrder == Spec => []OnceInOrder
<1>1. Init => (unit = "trigger" => Trigger!Init)
  BY DEF Init
<1>2. [Next]_vars /\ unit = "trigger" => [Trigger!Next]_(Trigger!vars) /\ (unit = "trigger")'
  BY Trigger_Unit
<1>3. [Next]_vars /\ ~(unit = "trigger") => ~(unit = "trigger")'
  BY Trigger_Unit
<1>4. Trigger!Spec => []Trigger!OnceInOrder
  BY Trigger_Safety
<1>5. (unit = "trigger" => Trigger!OnceInOrder) => OnceInOrder
  BY DEF OnceInOrder
<1> QED BY <1>1, <1>2, <1>3, <1>4, <1>5, PTL DEF Spec, Trigger!Spec

-----------------------------------------------------------------------------
(* The icon cache.                                                           *)

Icons_Stages == {"memory", "disk", "extract", "write", "rename", "keep"}
Icons_Call == [exe : icons_Exes, at : Icons_Stages, rev : {None, 0, 1}]

(* No value and a damaged file are neither an icon nor a call. *)
Icons_Marks == None \notin {0, 1} /\ Torn \notin {0, 1} /\ None \notin Icons_Call

Icons_Typed ==
  /\ icons_world \in [icons_Exes -> {None, 0, 1}]
  /\ icons_disk \in [icons_Exes -> {None, Torn, 0, 1}]
  /\ icons_extracted \in [icons_Exes -> Nat] /\ icons_faults \in [icons_Exes -> Nat]
  /\ icons_call \in {None} \cup Icons_Call

(* A call carries the icon it extracted to its file. *)
Icons_Carried ==
  icons_call # None => (icons_call.at \in {"write", "rename"} => icons_call.rev \in {0, 1})

(* The icon of an executable is in its file, or with the call that will write it. *)
Icons_Held(x) ==
  \/ icons_disk[x] \in {0, 1}
  \/ /\ icons_call # None /\ icons_call.exe = x
     /\ icons_call.at \in {"write", "rename"}

(* The call is about to extract it: there was no file, or it could not be read. *)
Icons_Due(x) == icons_call # None /\ icons_call.exe = x /\ icons_call.at = "extract"

(* Whatever was extracted and is not held was lost to a fault of its own. *)
Icons_Counted ==
  \A x \in icons_Exes :
     /\ icons_extracted[x] <= 1 + icons_faults[x]
     /\ ~ Icons_Held(x) \/ Icons_Due(x) => icons_extracted[x] <= icons_faults[x]

Icons_IInv == Icons_Typed /\ Icons_Carried /\ Icons_Counted

Icons_Gone(c, a, r) == [c EXCEPT !.at = a, !.rev = r]

LEMMA Icons_Goes ==
  ASSUME NEW c \in Icons_Call, NEW a \in Icons_Stages, NEW r \in {None, 0, 1}
  PROVE  /\ Icons_Gone(c, a, r) \in Icons_Call
         /\ Icons_Gone(c, a, r).exe = c.exe
         /\ Icons_Gone(c, a, r).at = a
         /\ Icons_Gone(c, a, r).rev = r
BY DEF Icons_Call, Icons_Gone

(* A call begins, ends before anything was extracted or after all was done, or nothing that
   counts happens. *)
LEMMA Icons_Quiet ==
  ASSUME Icons_Marks, Icons_IInv,
         \/ UNCHANGED Icons!vars \/ Icons!LookInMemory \/ Icons!Keep
         \/ \E x \in icons_Exes : Icons!get(x)
  PROVE  Icons_IInv'
<1>1. CASE UNCHANGED Icons!vars
  BY <1>1 DEF Icons!vars, Icons_IInv, Icons_Typed, Icons_Carried, Icons_Counted, Icons_Held, Icons_Due
<1>2. ASSUME UNCHANGED <<icons_world, icons_disk, icons_extracted, icons_faults>>,
             icons_call = None \/ icons_call.at \notin {"write", "rename"},
             \/ icons_call' = None
             \/ icons_call' \in Icons_Call /\ icons_call'.at \in {"memory", "disk"}
      PROVE  Icons_IInv'
  <2>1. Icons_Typed'
    BY <1>2 DEF Icons_IInv, Icons_Typed
  <2>2. Icons_Carried'
    BY <1>2 DEF Icons_Carried
  <2>3. Icons_Counted'
    BY <1>2 DEF Icons_IInv, Icons_Counted, Icons_Held, Icons_Due
  <2> QED BY <2>1, <2>2, <2>3 DEF Icons_IInv
<1>3. CASE Icons!LookInMemory
  <2>1. icons_call # None /\ icons_call.at = "memory" /\ icons_call \in Icons_Call
    BY <1>3 DEF Icons!LookInMemory, Icons_IInv, Icons_Typed
  <2>2. \/ icons_call' = None
        \/ icons_call' = Icons_Gone(icons_call, "disk", None)
    BY <1>3 DEF Icons!LookInMemory, Icons!Ends, Icons!To, Icons_Gone
  <2>3. \/ icons_call' = None
        \/ icons_call' \in Icons_Call /\ icons_call'.at = "disk"
    BY <2>1, <2>2, Icons_Goes DEF Icons_Stages
  <2>4. UNCHANGED <<icons_world, icons_disk, icons_extracted, icons_faults>>
    BY <1>3 DEF Icons!LookInMemory
  <2> QED BY <1>2, <2>1, <2>3, <2>4
<1>4. CASE Icons!Keep
  <2>1. icons_call.at = "keep" /\ icons_call' = None
    BY <1>4 DEF Icons!Keep, Icons!Ends
  <2>2. UNCHANGED <<icons_world, icons_disk, icons_extracted, icons_faults>>
    BY <1>4 DEF Icons!Keep
  <2> QED BY <1>2, <2>1, <2>2
<1>5. ASSUME NEW x \in icons_Exes, Icons!get(x)
      PROVE  Icons_IInv'
  <2>1. icons_call' \in Icons_Call /\ icons_call'.at = "memory"
    BY <1>5 DEF Icons!get, Icons_Call, Icons_Stages
  <2>2. icons_call = None
        /\ UNCHANGED <<icons_world, icons_disk, icons_extracted, icons_faults>>
    BY <1>5 DEF Icons!get
  <2> QED BY <1>2, <2>1, <2>2
<1> QED BY <1>1, <1>3, <1>4, <1>5

LEMMA Icons_Disk ==
  ASSUME Icons_Marks, Icons_IInv, Icons!LookOnDisk
  PROVE  Icons_IInv'
<1> DEFINE x == icons_call.exe
<1>1. icons_call \in Icons_Call /\ icons_call.at = "disk" /\ x \in icons_Exes
  BY DEF Icons!LookOnDisk, Icons_IInv, Icons_Typed, Icons_Call
<1>2. UNCHANGED <<icons_world, icons_extracted, icons_faults>>
  BY DEF Icons!LookOnDisk
<1>3. CASE icons_disk[x] \in {None, Torn}
  <2>1. /\ icons_disk' \in {icons_disk, [icons_disk EXCEPT ![x] = None]}
        /\ icons_call' = Icons_Gone(icons_call, "extract", None)
    BY <1>3 DEF Icons!LookOnDisk, Icons!To, Icons_Gone
  <2>2. icons_call' \in Icons_Call /\ icons_call'.at = "extract" /\ icons_call'.exe = x
    BY <1>1, <2>1, Icons_Goes DEF Icons_Stages
  <2>3. /\ icons_disk' \in [icons_Exes -> {None, Torn, 0, 1}]
        /\ \A y \in icons_Exes : icons_disk'[y] \in {0, 1} <=> icons_disk[y] \in {0, 1}
    BY <1>1, <1>3, <2>1 DEF Icons_IInv, Icons_Typed, Icons_Marks
  <2>4. Icons_Typed' /\ Icons_Carried'
    BY <1>2, <2>2, <2>3 DEF Icons_IInv, Icons_Typed, Icons_Carried
  <2>5. ~ Icons_Held(x)
    BY <1>1, <1>3 DEF Icons_Held, Icons_Marks
  <2>6. Icons_Counted'
    BY <1>1, <1>2, <2>2, <2>3, <2>5 DEF Icons_IInv, Icons_Counted, Icons_Held, Icons_Due
  <2> QED BY <2>4, <2>6 DEF Icons_IInv
<1>4. CASE icons_disk[x] \notin {None, Torn}
  <2>1. UNCHANGED icons_disk /\ icons_call' = Icons_Gone(icons_call, "keep", icons_disk[x])
    BY <1>4 DEF Icons!LookOnDisk, Icons!To, Icons_Gone
  <2>2. icons_disk[x] \in {0, 1}
    BY <1>1, <1>4 DEF Icons_IInv, Icons_Typed
  <2>3. icons_call' \in Icons_Call /\ icons_call'.at = "keep" /\ icons_call'.exe = x
    BY <1>1, <2>1, <2>2, Icons_Goes DEF Icons_Stages
  <2>4. Icons_Typed' /\ Icons_Carried'
    BY <1>2, <2>1, <2>3 DEF Icons_IInv, Icons_Typed, Icons_Carried
  <2>5. Icons_Counted'
    BY <1>1, <1>2, <2>1, <2>3 DEF Icons_IInv, Icons_Counted, Icons_Held, Icons_Due
  <2> QED BY <2>4, <2>5 DEF Icons_IInv
<1> QED BY <1>3, <1>4

(* The one step that counts: the icon was due, and now the call holds it. *)
LEMMA Icons_Extract ==
  ASSUME Icons_Marks, Icons_IInv, Icons!extract_icon
  PROVE  Icons_IInv'
<1> DEFINE x == icons_call.exe
<1>1. /\ icons_call \in Icons_Call /\ icons_call.at = "extract" /\ x \in icons_Exes
      /\ icons_call # None
  BY DEF Icons!extract_icon, Icons_IInv, Icons_Typed, Icons_Call
<1>2. UNCHANGED <<icons_world, icons_disk, icons_faults>>
  BY DEF Icons!extract_icon
<1>3. Icons_Due(x)
  BY <1>1 DEF Icons_Due
<1>4. /\ icons_extracted \in [icons_Exes -> Nat] /\ icons_faults \in [icons_Exes -> Nat]
      /\ icons_extracted[x] \in Nat /\ icons_extracted[x] <= icons_faults[x]
  BY <1>1, <1>3 DEF Icons_IInv, Icons_Typed, Icons_Counted
<1>5. CASE icons_world[x] = None
  <2>1. icons_call' = None /\ UNCHANGED icons_extracted
    BY <1>5 DEF Icons!extract_icon, Icons!Ends
  <2>2. Icons_Typed' /\ Icons_Carried'
    BY <1>2, <2>1 DEF Icons_IInv, Icons_Typed, Icons_Carried
  <2>3. Icons_Counted'
    BY <1>1, <1>2, <2>1 DEF Icons_IInv, Icons_Counted, Icons_Held, Icons_Due
  <2> QED BY <2>2, <2>3 DEF Icons_IInv
<1>6. CASE icons_world[x] # None
  <2>1. /\ icons_call' = Icons_Gone(icons_call, "write", icons_world[x])
        /\ icons_extracted' = [icons_extracted EXCEPT ![x] = @ + 1]
    BY <1>6 DEF Icons!extract_icon, Icons!To, Icons_Gone
  <2>2. icons_world[x] \in {0, 1}
    BY <1>1, <1>6 DEF Icons_IInv, Icons_Typed
  <2>3. /\ icons_call' \in Icons_Call /\ icons_call'.at = "write" /\ icons_call'.exe = x
        /\ icons_call'.rev \in {0, 1} /\ icons_call' # None
    BY <1>1, <2>1, <2>2, Icons_Goes DEF Icons_Stages, Icons_Marks
  <2>4. /\ icons_extracted' \in [icons_Exes -> Nat] /\ icons_extracted'[x] = icons_extracted[x] + 1
        /\ \A y \in icons_Exes : y # x => icons_extracted'[y] = icons_extracted[y]
    BY <1>1, <1>4, <2>1
  <2>5. Icons_Typed' /\ Icons_Carried'
    BY <1>2, <2>3, <2>4 DEF Icons_IInv, Icons_Typed, Icons_Carried
  <2>6. Icons_Counted'
    BY <1>1, <1>2, <1>4, <2>3, <2>4 DEF Icons_IInv, Icons_Counted, Icons_Held, Icons_Due
  <2> QED BY <2>5, <2>6 DEF Icons_IInv
<1> QED BY <1>5, <1>6

(* The icon goes to its file: first beside it, then under its name. *)
LEMMA Icons_Write ==
  ASSUME Icons_Marks, Icons_IInv, Icons!WriteTemp
  PROVE  Icons_IInv'
<1>1. icons_call \in Icons_Call /\ icons_call.at = "write" /\ icons_call.rev \in {0, 1}
  BY DEF Icons!WriteTemp, Icons_IInv, Icons_Typed, Icons_Carried
<1>2. icons_call' = Icons_Gone(icons_call, "rename", icons_call.rev)
  BY DEF Icons!WriteTemp, Icons!To, Icons_Gone
<1>3. /\ icons_call' \in Icons_Call /\ icons_call'.at = "rename"
      /\ icons_call'.exe = icons_call.exe /\ icons_call'.rev \in {0, 1}
  BY <1>1, <1>2, Icons_Goes DEF Icons_Stages
<1>4. UNCHANGED <<icons_world, icons_disk, icons_extracted, icons_faults>>
  BY DEF Icons!WriteTemp
<1>5. Icons_Typed' /\ Icons_Carried'
  BY <1>3, <1>4 DEF Icons_IInv, Icons_Typed, Icons_Carried
<1>6. Icons_Counted'
  BY <1>1, <1>3, <1>4 DEF Icons_IInv, Icons_Counted, Icons_Held, Icons_Due, Icons_Marks
<1> QED BY <1>5, <1>6 DEF Icons_IInv

LEMMA Icons_Rename ==
  ASSUME Icons_Marks, Icons_IInv, Icons!Rename
  PROVE  Icons_IInv'
<1> DEFINE x == icons_call.exe
<1>1. /\ icons_call \in Icons_Call /\ icons_call.at = "rename" /\ icons_call.rev \in {0, 1}
      /\ x \in icons_Exes
  BY DEF Icons!Rename, Icons_IInv, Icons_Typed, Icons_Carried, Icons_Call
<1>2. /\ icons_call' = Icons_Gone(icons_call, "keep", icons_call.rev)
      /\ icons_disk' = [icons_disk EXCEPT ![x] = icons_call.rev]
  BY DEF Icons!Rename, Icons!Named, Icons!To, Icons_Gone
<1>3. icons_call' \in Icons_Call /\ icons_call'.at = "keep" /\ icons_call'.exe = x
  BY <1>1, <1>2, Icons_Goes DEF Icons_Stages
<1>4. UNCHANGED <<icons_world, icons_extracted, icons_faults>>
  BY DEF Icons!Rename
<1>5. /\ icons_disk' \in [icons_Exes -> {None, Torn, 0, 1}]
      /\ icons_disk'[x] \in {0, 1}
      /\ \A y \in icons_Exes : y # x => icons_disk'[y] = icons_disk[y]
  BY <1>1, <1>2 DEF Icons_IInv, Icons_Typed
<1>6. Icons_Typed' /\ Icons_Carried'
  BY <1>3, <1>4, <1>5 DEF Icons_IInv, Icons_Typed, Icons_Carried
<1>7. Icons_Counted'
  BY <1>1, <1>3, <1>4, <1>5 DEF Icons_IInv, Icons_Counted, Icons_Held, Icons_Due
<1> QED BY <1>6, <1>7 DEF Icons_IInv

(* A fault may lose what its executable has, and counts for that one; the others keep what
   they have. *)
LEMMA Icons_Lost ==
  ASSUME Icons_IInv, NEW x \in icons_Exes, Icons!Fault(x), UNCHANGED icons_extracted,
         \A y \in icons_Exes \ {x} : /\ Icons_Held(y) => Icons_Held(y)'
                                     /\ Icons_Due(y)' => Icons_Due(y)
  PROVE  icons_faults' \in [icons_Exes -> Nat] /\ Icons_Counted'
<1>1. icons_faults' = [icons_faults EXCEPT ![x] = @ + 1]
  BY DEF Icons!Fault
<1>2. icons_faults \in [icons_Exes -> Nat] /\ icons_extracted \in [icons_Exes -> Nat]
  BY DEF Icons_IInv, Icons_Typed
<1>3. /\ icons_faults' \in [icons_Exes -> Nat] /\ icons_faults'[x] = icons_faults[x] + 1
      /\ \A y \in icons_Exes \ {x} : icons_faults'[y] = icons_faults[y]
  BY <1>1, <1>2
<1>4. ASSUME NEW y \in icons_Exes
      PROVE  /\ icons_extracted'[y] <= 1 + icons_faults'[y]
             /\ (~ Icons_Held(y) \/ Icons_Due(y))' => icons_extracted'[y] <= icons_faults'[y]
  <2>1. /\ icons_extracted[y] \in Nat /\ icons_faults[y] \in Nat
        /\ icons_extracted[y] <= 1 + icons_faults[y]
        /\ ~ Icons_Held(y) \/ Icons_Due(y) => icons_extracted[y] <= icons_faults[y]
    BY <1>2 DEF Icons_IInv, Icons_Counted
  <2>2. CASE y = x
    BY <1>3, <2>1, <2>2
  <2>3. CASE y # x
    BY <1>3, <2>1, <2>3
  <2> QED BY <2>2, <2>3
<1> QED BY <1>3, <1>4 DEF Icons_Counted

(* The file is not read, or not written: the icon is the call's own. *)
LEMMA Icons_CallFault ==
  ASSUME Icons_Marks, Icons_IInv, Icons!ReadFails \/ Icons!WriteFails
  PROVE  Icons_IInv'
<1> DEFINE x == icons_call.exe
<1>1. icons_call \in Icons_Call /\ x \in icons_Exes /\ Icons!Fault(x)
  BY DEF Icons!ReadFails, Icons!WriteFails, Icons_IInv, Icons_Typed, Icons_Call
<1>2. UNCHANGED <<icons_world, icons_disk, icons_extracted>>
  BY DEF Icons!ReadFails, Icons!WriteFails
<1>3. /\ icons_call' \in Icons_Call /\ icons_call'.exe = x
      /\ icons_call'.at \notin {"write", "rename"}
  <2>1. CASE Icons!ReadFails
    <3>1. icons_call' = Icons_Gone(icons_call, "extract", None)
      BY <2>1 DEF Icons!ReadFails, Icons!To, Icons_Gone
    <3> QED BY <1>1, <3>1, Icons_Goes DEF Icons_Stages
  <2>2. CASE Icons!WriteFails
    <3>1. icons_call.rev \in {0, 1}
      BY <2>2 DEF Icons!WriteFails, Icons_IInv, Icons_Typed, Icons_Carried
    <3>2. icons_call' = Icons_Gone(icons_call, "keep", icons_call.rev)
      BY <2>2 DEF Icons!WriteFails, Icons!To, Icons_Gone
    <3> QED BY <1>1, <3>1, <3>2, Icons_Goes DEF Icons_Stages
  <2> QED BY <2>1, <2>2
<1>4. icons_faults' \in [icons_Exes -> Nat] /\ Icons_Counted'
  <2>1. \A y \in icons_Exes \ {x} : /\ Icons_Held(y) => Icons_Held(y)'
                                    /\ Icons_Due(y)' => Icons_Due(y)
    BY <1>2, <1>3 DEF Icons_Held, Icons_Due
  <2> QED BY <1>1, <1>2, <2>1, Icons_Lost
<1>5. Icons_Typed' /\ Icons_Carried'
  BY <1>2, <1>3, <1>4 DEF Icons_IInv, Icons_Typed, Icons_Carried
<1> QED BY <1>4, <1>5 DEF Icons_IInv

(* A restart empties the memory: what is on disk stays there. *)
LEMMA Icons_Restart ==
  ASSUME Icons_Marks, Icons_IInv, Icons!Dies
  PROVE  Icons_IInv'
<1> DEFINE x == icons_call.exe
<1>1. icons_call' = None /\ UNCHANGED <<icons_world, icons_disk, icons_extracted>>
  BY DEF Icons!Dies
<1>2. icons_faults' \in [icons_Exes -> Nat] /\ Icons_Counted'
  <2>1. CASE icons_call # None /\ icons_call.at \in {"write", "rename"}
    <3>1. x \in icons_Exes /\ Icons!Fault(x)
      BY <2>1 DEF Icons!Dies, Icons_IInv, Icons_Typed, Icons_Call
    <3>2. \A y \in icons_Exes \ {x} : /\ Icons_Held(y) => Icons_Held(y)'
                                      /\ Icons_Due(y)' => Icons_Due(y)
      BY <1>1 DEF Icons_Held, Icons_Due
    <3> QED BY <1>1, <3>1, <3>2, Icons_Lost
  <2>2. CASE ~ (icons_call # None /\ icons_call.at \in {"write", "rename"})
    <3>1. UNCHANGED icons_faults
      BY <2>2 DEF Icons!Dies
    <3>2. icons_faults' \in [icons_Exes -> Nat]
      BY <3>1 DEF Icons_IInv, Icons_Typed
    <3>3. Icons_Counted'
      BY <1>1, <2>2, <3>1 DEF Icons_IInv, Icons_Counted, Icons_Held, Icons_Due
    <3> QED BY <3>2, <3>3
  <2> QED BY <2>1, <2>2
<1>3. Icons_Typed' /\ Icons_Carried'
  BY <1>1, <1>2 DEF Icons_IInv, Icons_Typed, Icons_Carried
<1> QED BY <1>2, <1>3 DEF Icons_IInv

(* What happens outside: a file is damaged, an executable changes. *)
LEMMA Icons_Outside ==
  ASSUME Icons_Marks, Icons_IInv, NEW x \in icons_Exes,
         Icons!Damaged(x) \/ \E rev \in {None, 0, 1} : Icons!Updated(x, rev)
  PROVE  Icons_IInv'
<1>1. CASE Icons!Damaged(x)
  <2>1. /\ Icons!Fault(x) /\ icons_disk' = [icons_disk EXCEPT ![x] = Torn]
        /\ UNCHANGED <<icons_world, icons_call, icons_extracted>>
    BY <1>1 DEF Icons!Damaged
  <2>2. /\ icons_disk' \in [icons_Exes -> {None, Torn, 0, 1}]
        /\ \A y \in icons_Exes \ {x} : icons_disk'[y] = icons_disk[y]
    BY <2>1 DEF Icons_IInv, Icons_Typed
  <2>3. icons_faults' \in [icons_Exes -> Nat] /\ Icons_Counted'
    <3>1. \A y \in icons_Exes \ {x} : /\ Icons_Held(y) => Icons_Held(y)'
                                      /\ Icons_Due(y)' => Icons_Due(y)
      BY <2>1, <2>2 DEF Icons_Held, Icons_Due
    <3> QED BY <2>1, <3>1, Icons_Lost
  <2>4. Icons_Typed' /\ Icons_Carried'
    BY <2>1, <2>2, <2>3 DEF Icons_IInv, Icons_Typed, Icons_Carried
  <2> QED BY <2>3, <2>4 DEF Icons_IInv
<1>2. ASSUME NEW rev \in {None, 0, 1}, Icons!Updated(x, rev)
      PROVE  Icons_IInv'
  <2>1. /\ icons_world' = [icons_world EXCEPT ![x] = rev]
        /\ UNCHANGED <<icons_disk, icons_call, icons_extracted, icons_faults>>
    BY <1>2 DEF Icons!Updated
  <2>2. icons_world' \in [icons_Exes -> {None, 0, 1}]
    BY <2>1 DEF Icons_IInv, Icons_Typed
  <2>3. Icons_Typed' /\ Icons_Carried'
    BY <2>1, <2>2 DEF Icons_IInv, Icons_Typed, Icons_Carried
  <2>4. Icons_Counted'
    BY <2>1 DEF Icons_IInv, Icons_Counted, Icons_Held, Icons_Due
  <2> QED BY <2>3, <2>4 DEF Icons_IInv
<1> QED BY <1>1, <1>2

LEMMA Icons_Safety ==
  ASSUME Icons_Marks
  PROVE  Icons!Spec => []Icons!ExtractedOnce
<1>1. Icons!Init => Icons_IInv
  <2> SUFFICES ASSUME Icons!Init PROVE Icons_IInv
    OBVIOUS
  <2>1. Icons_Typed /\ Icons_Carried
    BY DEF Icons!Init, Icons_Typed, Icons_Carried
  <2>2. Icons_Counted
    BY DEF Icons!Init, Icons_Counted, Icons_Held, Icons_Due
  <2> QED BY <2>1, <2>2 DEF Icons_IInv
<1>2. Icons_IInv /\ [Icons!Next]_(Icons!vars) => Icons_IInv'
  BY Icons_Marks, Icons_Quiet, Icons_Disk, Icons_Extract, Icons_Write, Icons_Rename,
     Icons_CallFault, Icons_Restart, Icons_Outside DEF Icons!Next
<1>3. Icons_IInv => Icons!ExtractedOnce
  BY DEF Icons_IInv, Icons_Counted, Icons!ExtractedOnce
<1> QED BY <1>1, <1>2, <1>3, PTL DEF Icons!Spec

LEMMA Icons_Unit ==
  ASSUME [Next]_vars
  PROVE  /\ (unit = "icons") = (unit = "icons")'
         /\ unit = "icons" => [Icons!Next]_(Icons!vars)
<1>1. CASE IconsStep
  BY <1>1 DEF IconsStep
<1>2. CASE UNCHANGED vars
  BY <1>2 DEF vars, iconsVars, Icons!vars
<1>3. CASE SearchStep \/ RankedStep \/ CatalogStep \/ StarsStep \/ CoordinatorStep \/
      FilesStep \/ SettingsStep \/ EditorStep \/ TriggerStep \/ EffectsStep \/ AgentStep
  BY <1>3 DEF SearchStep, RankedStep, CatalogStep, StarsStep, CoordinatorStep, FilesStep,
         SettingsStep, EditorStep, TriggerStep, EffectsStep, AgentStep
<1> QED BY <1>1, <1>2, <1>3 DEF Next

(* Whatever memory evicts, however often the launcher is restarted and whatever happens to the
   other icons, an icon is extracted once, and once more for each time its own file was not
   read, not written or damaged (icons.rs, memory, disk, extraction). *)
THEOREM IconsExtractedOnce == Spec => []ExtractedOnce
<1>1. Init => (unit = "icons" => Icons!Init)
  BY DEF Init
<1>2. [Next]_vars /\ unit = "icons" => [Icons!Next]_(Icons!vars) /\ (unit = "icons")'
  BY Icons_Unit
<1>3. [Next]_vars /\ ~(unit = "icons") => ~(unit = "icons")'
  BY Icons_Unit
<1>4. Icons!Spec => []Icons!ExtractedOnce
  BY MarksAssumption, Icons_Safety DEF Icons_Marks, Icons_Call, Icons_Stages
<1>5. (unit = "icons" => Icons!ExtractedOnce) => ExtractedOnce
  BY DEF ExtractedOnce
<1> QED BY <1>1, <1>2, <1>3, <1>4, <1>5, PTL DEF Spec, Icons!Spec

-----------------------------------------------------------------------------
(* The search cache.                                                         *)

Search_Envs == [file : Nat, user : Nat, context : Nat]
Search_Ranked == <<search_uses, search_snapshot, search_context>>

(* An answer made under an environment is no older than its files, and as long as the
   generations of the usage and of the context have not moved it is ranked as one made now. *)
Search_Current(env, answer) ==
  /\ env \in Search_Envs /\ answer.file \in Nat
  /\ env.file <= answer.file
  /\ env.user <= search_userGen /\ env.context <= search_contextGen
  /\ env.user = search_userGen /\ env.context = search_contextGen => answer.ranked = Search_Ranked

(* What the cache may hold: anything that is current in this sense. *)
Search_Sizes == {0} \cup {search_Bytes[q] : q \in search_Texts}
Search_Answers ==
  [file : Nat, ranked : Nat \X (SUBSET search_Keys) \X (search_Contexts \cup {None}),
   offered : Nat, failed : SUBSET search_Providers]
Search_Entries ==
  [key : [q : search_Texts, env : Search_Envs], answer : Search_Answers, age : Nat,
   ttl : {search_CompleteTtl, search_NegativeTtl}, bytes : Search_Sizes]
Search_Good == {e \in Search_Entries : Search_Current(e.key.env, e.answer)}

Search_Typed ==
  /\ search_fileGen \in Nat /\ search_userGen \in Nat /\ search_contextGen \in Nat
  /\ search_uses \in Nat /\ search_snapshot \in SUBSET search_Keys /\ search_offered \in Nat
  /\ search_store \in SUBSET search_Keys
  /\ search_context \in search_Contexts \cup {None}

(* The search under way began under generations of the core that have not moved since, and
   with files that may have. *)
Search_UnderWay ==
  search_searching # None =>
     /\ search_searching \in [q : search_Texts, env : Search_Envs]
     /\ search_searching.env.file <= search_fileGen
     /\ search_searching.env.user = search_userGen
     /\ search_searching.env.context = search_contextGen

Search_IInv == Search_Typed /\ Search_UnderWay /\ search_cache \in Seq(Search_Good)

(* What eviction, removal and ageing leave are entries that were there. *)
LEMMA Search_Kept ==
  ASSUME NEW S, NEW s \in Seq(S), NEW m \in 1 .. Len(s) + 1
  PROVE  SubSeq(s, m, Len(s)) \in Seq(S)
OBVIOUS

LEMMA Search_Removed ==
  ASSUME NEW S, NEW s \in Seq(S), NEW i \in DOMAIN s
  PROVE  Search!RemoveAt(s, i) \in Seq(S)
<1>1. i \in 1 .. Len(s) /\ Len(s) \in Nat
  OBVIOUS
<1>2. SubSeq(s, 1, i - 1) \in Seq(S) /\ SubSeq(s, i + 1, Len(s)) \in Seq(S)
  BY <1>1
<1>3. SubSeq(s, 1, i - 1) \o SubSeq(s, i + 1, Len(s)) \in Seq(S)
  BY <1>2
<1> QED BY <1>3 DEF Search!RemoveAt

LEMMA Search_Larger ==
  ASSUME NEW S, NEW T, S \subseteq T, NEW s \in Seq(S)
  PROVE  s \in Seq(T)
OBVIOUS

LEMMA Search_Without ==
  ASSUME NEW S, search_cache \in Seq(S), NEW key
  PROVE  Search!Without(key) \in Seq(S)
<1>1. CASE Search!Entry(key) = {}
  BY <1>1 DEF Search!Without
<1>2. CASE Search!Entry(key) # {}
  <2> DEFINE i == CHOOSE i \in Search!Entry(key) : TRUE
  <2>1. i \in Search!Entry(key)
    BY <1>2
  <2>2. i \in DOMAIN search_cache
    BY <2>1 DEF Search!Entry
  <2>3. Search!Without(key) = Search!RemoveAt(search_cache, i)
    BY <1>2 DEF Search!Without
  <2> HIDE DEF i
  <2> QED BY <2>2, <2>3, Search_Removed
<1> QED BY <1>1, <1>2

LEMMA Search_Evicted ==
  ASSUME NEW S, NEW s \in Seq(S), NEW b
  PROVE  Search!Evict(s, b) \in Seq(S)
<1> DEFINE End == Len(s) + 1
           Fits(n) == LET kept == SubSeq(s, n, Len(s)) IN
                      Search!SizeOf(kept) + b <= search_MaxBytes /\ Len(kept) < search_MaxEntries
           N == {n \in 1 .. End : Fits(n) \/ n = End}
           m == Search!Min(N)
<1>1. End \in N /\ N \subseteq Nat /\ N \subseteq 1 .. Len(s) + 1
  <2> HIDE DEF Fits
  <2>1. Len(s) \in Nat
    OBVIOUS
  <2> QED BY <2>1
<1>2. Search!Evict(s, b) = SubSeq(s, m, Len(s))
  BY DEF Search!Evict
<1> HIDE DEF N
<1>3. \E x \in N : \A y \in N : x <= y
  BY <1>1, LeastExists
<1>4. m \in N
  BY <1>3 DEF Search!Min
<1> HIDE DEF m
<1> QED BY <1>1, <1>2, <1>4, Search_Kept

(* A stored answer stays good as long as what it was ranked with moves only with a generation. *)
LEMMA Search_Grows ==
  ASSUME Search_Typed, Search_Typed',
         search_userGen' >= search_userGen, search_contextGen' >= search_contextGen,
         \/ search_userGen' > search_userGen \/ search_contextGen' > search_contextGen
         \/ UNCHANGED <<search_uses, search_snapshot, search_context>>,
         search_cache \in Seq(Search_Good), UNCHANGED search_cache
  PROVE  search_cache' \in Seq(Search_Good)'
<1>1. ASSUME NEW e \in Search_Good
      PROVE  e \in Search_Good'
  <2>1. e \in Search_Entries /\ Search_Current(e.key.env, e.answer)
    BY DEF Search_Good
  <2> DEFINE env == e.key.env  a == e.answer
  <2>2. env \in Search_Envs /\ a.file \in Nat /\ env.file <= a.file
    BY <2>1 DEF Search_Current
  <2>3. env.user \in Nat /\ env.context \in Nat
    BY <2>2 DEF Search_Envs
  <2>4. env.user <= search_userGen /\ env.context <= search_contextGen
        /\ (env.user = search_userGen /\ env.context = search_contextGen => a.ranked = Search_Ranked)
    BY <2>1 DEF Search_Current
  <2> HIDE DEF env, a
  <2>5. env.user <= search_userGen' /\ env.context <= search_contextGen'
    BY <2>3, <2>4 DEF Search_Typed
  <2>6. env.user = search_userGen' /\ env.context = search_contextGen' => a.ranked = Search_Ranked'
    BY <2>3, <2>4 DEF Search_Typed, Search_Ranked
  <2>7. Search_Current(env, a)'
    BY <2>2, <2>5, <2>6 DEF Search_Current
  <2> QED BY <2>1, <2>7 DEF Search_Good, env, a
<1>2. Search_Good \subseteq Search_Good'
  BY <1>1
<1>3. search_cache \in Seq(Search_Good')
  BY <1>2, Search_Larger
<1> QED BY <1>3

(* The indexer commits under any search; what ranks the results moves between two. *)
LEMMA Search_Moves ==
  ASSUME Search_IInv,
         \/ Search!Commit \/ Search!replace \/ Search!record_use_with_title
         \/ \E k \in search_Keys : Search!toggle_favorite(k)
         \/ \E c \in search_Contexts \cup {None} : Search!set_search_context(c)
         \/ UNCHANGED Search!vars
  PROVE  Search_IInv' /\ UNCHANGED search_last
<1> USE DEF Search!Idle, Search!Move, Search!core
<1>1. ASSUME Search_Typed', UNCHANGED <<search_cache, search_last, search_searching>>,
             search_fileGen' >= search_fileGen, search_userGen' >= search_userGen,
             search_contextGen' >= search_contextGen,
             \/ search_userGen' > search_userGen \/ search_contextGen' > search_contextGen
             \/ UNCHANGED <<search_uses, search_snapshot, search_context>>,
             search_searching = None \/ UNCHANGED <<search_userGen, search_contextGen>>
      PROVE  Search_IInv' /\ UNCHANGED search_last
  <2>1. search_cache' \in Seq(Search_Good)'
    BY <1>1, Search_Grows DEF Search_IInv
  <2>2. Search_UnderWay'
    BY <1>1 DEF Search_IInv, Search_UnderWay, Search_Typed, Search_Envs
  <2> QED BY <1>1, <2>1, <2>2 DEF Search_IInv
<1>2. CASE Search!Commit
  <2>1. Search_Typed'
    BY <1>2 DEF Search!Commit, Search_IInv, Search_Typed
  <2> QED BY <1>1, <1>2, <2>1 DEF Search!Commit, Search_IInv, Search_Typed
<1>3. CASE Search!replace
  <2>1. Search_Typed'
    BY <1>3 DEF Search!replace, Search_IInv, Search_Typed
  <2> QED BY <1>1, <1>3, <2>1 DEF Search!replace, Search_IInv, Search_Typed
<1>4. CASE Search!record_use_with_title
  <2>1. Search_Typed'
    BY <1>4 DEF Search!record_use_with_title, Search_IInv, Search_Typed
  <2> QED BY <1>1, <1>4, <2>1 DEF Search!record_use_with_title, Search_IInv, Search_Typed
<1>5. ASSUME NEW k \in search_Keys, Search!toggle_favorite(k)
      PROVE  Search_IInv' /\ UNCHANGED search_last
  <2>1. Search_Typed'
    BY <1>5 DEF Search!toggle_favorite, Search_IInv, Search_Typed
  <2> QED BY <1>1, <1>5, <2>1 DEF Search!toggle_favorite, Search_IInv, Search_Typed
<1>6. ASSUME NEW c \in search_Contexts \cup {None}, Search!set_search_context(c)
      PROVE  Search_IInv' /\ UNCHANGED search_last
  <2>1. Search_Typed'
    BY <1>6 DEF Search!set_search_context, Search_IInv, Search_Typed
  <2> QED BY <1>1, <1>6, <2>1 DEF Search!set_search_context, Search_IInv, Search_Typed
<1>7. CASE UNCHANGED Search!vars
  <2>1. Search_Typed'
    BY <1>7 DEF Search!vars, Search_IInv, Search_Typed
  <2> QED BY <1>1, <1>7, <2>1 DEF Search!vars, Search_IInv, Search_Typed
<1> QED BY <1>2, <1>3, <1>4, <1>5, <1>6, <1>7

(* A new process begins with generations and cache of its own. *)
LEMMA Search_Restart ==
  ASSUME Search_IInv, Search!Restart
  PROVE  Search_IInv' /\ search_last' = None
<1>1. /\ search_last' = None /\ search_searching' = None
      /\ search_cache' = <<>>
  BY DEF Search!Restart
<1>2. Search_Typed'
  BY DEF Search!Restart, Search_IInv, Search_Typed
<1>3. search_cache' \in Seq(Search_Good)'
  BY <1>1
<1>4. Search_UnderWay'
  BY <1>1 DEF Search_UnderWay
<1> QED BY <1>1, <1>2, <1>3, <1>4 DEF Search_IInv

LEMMA Search_Ages ==
  ASSUME NEW e \in Search_Good
  PROVE  [e EXCEPT !.age = @ + 1] \in Search_Good
<1> DEFINE f == [e EXCEPT !.age = @ + 1]
<1>1. e \in Search_Entries /\ Search_Current(e.key.env, e.answer)
  BY DEF Search_Good
<1>2. f \in Search_Entries /\ f.key = e.key /\ f.answer = e.answer
  <2>1. \A A, B, C, D, r : r \in [key : A, answer : B, age : Nat, ttl : C, bytes : D] =>
           /\ [r EXCEPT !.age = @ + 1] \in [key : A, answer : B, age : Nat, ttl : C, bytes : D]
           /\ [r EXCEPT !.age = @ + 1].key = r.key
           /\ [r EXCEPT !.age = @ + 1].answer = r.answer
    OBVIOUS
  <2> QED BY <1>1, <2>1 DEF Search_Entries
<1> HIDE DEF f
<1>3. Search_Current(f.key.env, f.answer)
  BY <1>1, <1>2
<1> QED BY <1>2, <1>3 DEF Search_Good, f

LEMMA Search_Tick ==
  ASSUME Search_IInv, Search!Tick
  PROVE  Search_IInv' /\ UNCHANGED search_last
<1>1. UNCHANGED <<search_fileGen, search_userGen, search_contextGen, search_uses, search_store,
                  search_snapshot, search_context, search_offered, search_searching, search_last>>
  BY DEF Search!Tick
<1>2. search_cache' = [i \in DOMAIN search_cache |-> [search_cache[i] EXCEPT !.age = @ + 1]]
  BY DEF Search!Tick
<1>3. search_cache \in Seq(Search_Good)
  BY DEF Search_IInv
<1>4. \A i \in DOMAIN search_cache : [search_cache[i] EXCEPT !.age = @ + 1] \in Search_Good
  BY <1>3, Search_Ages
<1>5. search_cache' \in Seq(Search_Good)
  BY <1>2, <1>3, <1>4
<1>6. Search_Good' = Search_Good
  BY <1>1 DEF Search_Good, Search_Current, Search_Ranked
<1>7. Search_Typed' /\ Search_UnderWay'
  BY <1>1 DEF Search_IInv, Search_Typed, Search_UnderWay
<1> QED BY <1>1, <1>5, <1>6, <1>7 DEF Search_IInv

(* A hit was stored under the very generations of now. *)
LEMMA Search_Starts ==
  ASSUME Search_IInv, NEW q \in search_Texts, Search!SearchStarts(q)
  PROVE  /\ Search_IInv'
         /\ UNCHANGED search_last \/ ( /\ search_last'.file >= search_last'.since.file
                                       /\ search_last'.ranked = Search_Ranked )
<1> DEFINE key == [q |-> q, env |-> Search!Env]
           hit == {i \in Search!Entry(key) : ~ Search!Expired(search_cache[i])}
           i == CHOOSE i \in hit : TRUE
<1>1. UNCHANGED <<search_fileGen, search_userGen, search_contextGen, search_uses, search_store,
                  search_snapshot, search_context, search_offered>>
      /\ search_searching = None
  BY DEF Search!SearchStarts
<1>2. Search!Env \in Search_Envs /\ Search!Env.file = search_fileGen
      /\ Search!Env.user = search_userGen /\ Search!Env.context = search_contextGen
  BY DEF Search!Env, Search_Envs, Search_IInv, Search_Typed
<1>3. key \in [q : search_Texts, env : Search_Envs] /\ key.env = Search!Env
  BY <1>2
<1>4. \/ hit # {} /\ search_last' = Search!Answer(Search!Env, search_cache[i].answer, {})
         /\ UNCHANGED <<search_searching, search_cache>>
      \/ search_searching' = key /\ search_cache' = Search!Without(key) /\ UNCHANGED search_last
  BY DEF Search!SearchStarts
<1>5. Search_Good' = Search_Good /\ search_cache \in Seq(Search_Good)
  BY <1>1 DEF Search_Good, Search_Current, Search_Ranked, Search_IInv
<1>6. Search_Typed'
  BY <1>1 DEF Search_IInv, Search_Typed
<1> HIDE DEF key
<1>7. CASE hit # {} /\ search_last' = Search!Answer(Search!Env, search_cache[i].answer, {})
           /\ UNCHANGED <<search_searching, search_cache>>
  <2>1. i \in hit
    BY <1>7
  <2>2. i \in DOMAIN search_cache /\ search_cache[i].key = key
    BY <2>1 DEF Search!Entry
  <2> HIDE DEF i
  <2>3. search_cache[i] \in Search_Good
    BY <1>5, <2>2
  <2> DEFINE a == search_cache[i].answer
  <2>4. Search_Current(Search!Env, a)
    BY <1>3, <2>2, <2>3 DEF Search_Good
  <2>5. a.file \in Nat /\ a.file >= search_fileGen /\ a.ranked = Search_Ranked
    BY <1>2, <2>4 DEF Search_Current, Search_IInv, Search_Typed
  <2> HIDE DEF a
  <2>6. search_last' = Search!Answer(Search!Env, a, {})
    BY <1>7 DEF a
  <2>7. search_last'.file = a.file /\ search_last'.ranked = a.ranked
        /\ search_last'.since = Search!Env
    BY <2>6 DEF Search!Answer
  <2>8. search_last'.file >= search_last'.since.file /\ search_last'.ranked = Search_Ranked
    BY <1>2, <2>5, <2>7
  <2>9. Search_UnderWay' /\ search_cache' \in Seq(Search_Good)
    BY <1>1, <1>5, <1>7 DEF Search_IInv, Search_UnderWay
  <2> QED BY <1>5, <1>6, <2>8, <2>9 DEF Search_IInv
<1>8. CASE search_searching' = key /\ search_cache' = Search!Without(key) /\ UNCHANGED search_last
  <2>1. search_cache' \in Seq(Search_Good)
    BY <1>5, <1>8, Search_Without
  <2>2. Search_UnderWay'
    BY <1>1, <1>2, <1>3, <1>8 DEF Search_UnderWay, Search_IInv, Search_Typed
  <2> QED BY <1>5, <1>6, <1>8, <2>1, <2>2 DEF Search_IInv
<1> QED BY <1>4, <1>7, <1>8

(* The answer is made under the generations the search began with, from files that may have
   moved on. *)
LEMMA Search_Returns ==
  ASSUME Search_IInv, Search!SearchReturns
  PROVE  /\ Search_IInv'
         /\ search_last'.file >= search_last'.since.file
         /\ search_last'.ranked = Search_Ranked
<1> DEFINE env == search_searching.env
           Made(failed) == [file |-> search_fileGen, ranked |-> Search_Ranked,
                            offered |-> search_offered, failed |-> failed]
           Stored(failed, ttl, bytes) == [key |-> search_searching, answer |-> Made(failed), age |-> 0,
                                          ttl |-> ttl, bytes |-> bytes]
<1>1. UNCHANGED <<search_fileGen, search_userGen, search_contextGen, search_uses, search_store,
                  search_snapshot, search_context, search_offered>>
      /\ search_searching # None /\ search_searching' = None
  BY DEF Search!SearchReturns
<1>2. /\ search_searching \in [q : search_Texts, env : Search_Envs]
      /\ env \in Search_Envs /\ env.file <= search_fileGen
      /\ env.user = search_userGen /\ env.context = search_contextGen
      /\ search_searching.q \in search_Texts
  BY <1>1 DEF Search_IInv, Search_UnderWay
<1>3. PICK failed \in SUBSET search_Providers :
        LET none == search_searching.q \in search_Empty \/ failed = search_Providers IN
        /\ search_last' = Search!Answer(env, Made(failed), failed)
        /\ search_cache' = Search!put(Stored(failed,
                               IF none THEN search_NegativeTtl ELSE search_CompleteTtl,
                               IF none THEN 0 ELSE search_Bytes[search_searching.q]))
  BY DEF Search!SearchReturns, Search_Ranked
<1> DEFINE a == Made(failed)
<1>4. PICK ttl \in {search_CompleteTtl, search_NegativeTtl}, bytes \in Search_Sizes :
        search_cache' = Search!put(Stored(failed, ttl, bytes))
  BY <1>2, <1>3 DEF Search_Sizes
<1> DEFINE e == Stored(failed, ttl, bytes)
<1>5. a \in Search_Answers /\ a.file = search_fileGen /\ a.ranked = Search_Ranked
  BY DEF Search_Answers, Search_Ranked, Search_IInv, Search_Typed
<1>6. e.key = search_searching /\ e.answer = a
  OBVIOUS
<1>7. e \in Search_Entries
  <2> HIDE DEF Made
  <2>1. 0 \in Nat
    OBVIOUS
  <2> QED BY <1>2, <1>5, <2>1 DEF Search_Entries
<1>8. search_cache' = Search!put(e)
  BY <1>4
<1>9. search_last' = Search!Answer(env, a, failed)
  BY <1>3
<1> HIDE DEF e, a, Made, Stored
<1>10. Search_Current(env, a)
  BY <1>2, <1>5 DEF Search_Current, Search_IInv, Search_Typed
<1>11. e \in Search_Good
  BY <1>6, <1>7, <1>10 DEF Search_Good
<1>12. Search!put(e) \in Seq(Search_Good)
  <2>1. search_cache \in Seq(Search_Good)
    BY DEF Search_IInv
  <2>2. Search!Evict(Search!Without(e.key), e.bytes) \in Seq(Search_Good)
    BY <2>1, Search_Without, Search_Evicted
  <2>3. Append(Search!Evict(Search!Without(e.key), e.bytes), e) \in Seq(Search_Good)
    BY <1>11, <2>2
  <2> QED BY <2>1, <2>3 DEF Search!put
<1>13. Search_Good' = Search_Good
  BY <1>1 DEF Search_Good, Search_Current, Search_Ranked
<1>14. Search_Typed' /\ Search_UnderWay'
  BY <1>1 DEF Search_IInv, Search_Typed, Search_UnderWay
<1>15. search_last'.file = search_fileGen /\ search_last'.ranked = Search_Ranked
       /\ search_last'.since = env
  BY <1>5, <1>9 DEF Search!Answer
<1>16. search_last'.file >= search_last'.since.file
  BY <1>2, <1>15 DEF Search_IInv, Search_Typed, Search_Envs
<1> QED BY <1>8, <1>12, <1>13, <1>14, <1>15, <1>16 DEF Search_IInv

LEMMA Search_Step ==
  ASSUME Search_IInv, [Search!Next]_(Search!vars)
  PROVE  /\ Search_IInv'
         /\ search_last' # search_last /\ search_last' # None =>
               /\ search_last'.file >= search_last'.since.file
               /\ search_last'.ranked = <<search_uses, search_snapshot, search_context>>
BY Search_Moves, Search_Restart, Search_Tick, Search_Starts, Search_Returns
DEF Search!Next, Search_Ranked

LEMMA Search_Safety == Search!Spec => Search!NeverOlder
<1>1. Search!Init => Search_IInv
  <2> SUFFICES ASSUME Search!Init PROVE Search_IInv
    OBVIOUS
  <2>1. Search_Typed /\ Search_UnderWay
    BY DEF Search!Init, Search_Typed, Search_UnderWay
  <2>2. search_cache \in Seq(Search_Good)
    BY DEF Search!Init
  <2> QED BY <2>1, <2>2 DEF Search_IInv
<1>2. Search_IInv /\ [Search!Next]_(Search!vars) => Search_IInv'
  BY Search_Step
<1>3. Search_IInv /\ [Search!Next]_(Search!vars) =>
        [search_last' # search_last /\ search_last' # None =>
            /\ search_last'.file >= search_last'.since.file
            /\ search_last'.ranked = <<search_uses, search_snapshot, search_context>>]_(Search!vars)
  BY Search_Step
<1> QED BY <1>1, <1>2, <1>3, PTL DEF Search!Spec, Search!NeverOlder

LEMMA Search_Unit ==
  ASSUME [Next]_vars
  PROVE  /\ (unit = "search") = (unit = "search")'
         /\ unit = "search" => [Search!Next]_(Search!vars)
         /\ unit # "search" => UNCHANGED Search!vars
<1>1. CASE SearchStep
  BY <1>1 DEF SearchStep
<1>2. CASE UNCHANGED vars
  BY <1>2 DEF vars, searchVars, Search!vars, Search!core
<1>3. CASE RankedStep \/ IconsStep \/ CatalogStep \/ StarsStep \/ CoordinatorStep \/
      FilesStep \/ SettingsStep \/ EditorStep \/ TriggerStep \/ EffectsStep \/ AgentStep
  BY <1>3 DEF RankedStep, IconsStep, CatalogStep, StarsStep, CoordinatorStep, FilesStep,
         SettingsStep, EditorStep, TriggerStep, EffectsStep, AgentStep, searchVars, Search!vars,
         Search!core
<1> QED BY <1>1, <1>2, <1>3 DEF Next

(* Whatever moves while a search is under way, an answer, cached or not, shows files no older
   than its search and the ranking of its moment (Core::search and the generations of its key). *)
THEOREM AnswersAreNeverOlder == Spec => NeverOlder
<1>1. Init => (unit = "search" => Search!Init)
  BY DEF Init
<1>2. [Next]_vars /\ unit = "search" => [Search!Next]_(Search!vars) /\ (unit = "search")'
  BY Search_Unit
<1>3. [Next]_vars /\ ~(unit = "search") => ~(unit = "search")'
  BY Search_Unit
<1>4. [Next]_vars /\ ~(unit = "search") => UNCHANGED Search!vars
  BY Search_Unit
<1>5. Search!Spec => Search!NeverOlder
  BY Search_Safety
<1> QED BY <1>1, <1>2, <1>3, <1>4, <1>5, PTL DEF Spec, Search!Spec, NeverOlder, Search!NeverOlder

-----------------------------------------------------------------------------
(* The settings.                                                             *)

(* The defaults are a configuration; no file, and a file that does not parse, are none. *)
Settings_Marks ==
  /\ Settings!Default \in Settings!Config
  /\ Gone \notin Settings!Config /\ Settings!Mixed \notin Settings!Config

(* A start reads the file before it takes the stamp, and nobody but the user's editor writes
   the file in between. *)
Settings_Starting ==
  /\ settings_phase \in {"down", "starting"} =>
        \A t \in Settings!Threads : settings_writer[t].at = "idle"
  /\ settings_phase = "starting" /\ ~settings_missed => settings_using = Settings!Parsed(settings_file)

(* The stamp is never ahead of the file. *)
Settings_Stamped ==
  /\ settings_mtime \in Nat
  /\ settings_phase = "running" => settings_stamp \in Nat /\ settings_stamp <= settings_mtime

(* A reload notes the stamp before it reads: if the file is still of that time, what it read
   is what the file says. *)
Settings_Reloading ==
  settings_phase = "reloading" =>
     /\ settings_seen \in [at : Nat, cfg : Settings!Config \cup {Gone}]
     /\ settings_seen.at <= settings_mtime
     /\ settings_seen.cfg # Gone /\ settings_seen.at = settings_mtime /\ ~settings_missed
        => settings_seen.cfg = Settings!Parsed(settings_file)

Settings_IInv ==
  Settings_Starting /\ Settings_Stamped /\ Settings_Reloading /\ Settings!StampIsTrue

(* Reading puts the defaults in the place of what cannot be parsed, and that is what it
   returns; a file that is replaced has a new time. *)
LEMMA Settings_Loaded ==
  ASSUME Settings_Marks, settings_mtime \in Nat
  PROVE  /\ Settings!Touched(settings_file) \in Nat /\ Settings!Touched(settings_file) >= settings_mtime
         /\ Settings!Touched(settings_file) = settings_mtime => Settings!Loads(settings_file) = settings_file
         /\ Settings!Parsed(Settings!Loads(settings_file)) = Settings!Parsed(settings_file)
<1>1. /\ Settings!Touched(settings_file) \in Nat /\ Settings!Touched(settings_file) >= settings_mtime
      /\ Settings!Touched(settings_file) = settings_mtime => Settings!Loads(settings_file) = settings_file
  BY DEF Settings!Touched
<1>2. Settings!Parsed(Settings!Loads(settings_file)) = Settings!Parsed(settings_file)
  <2>1. CASE settings_file \in {Settings!Mixed, Gone}
    BY <2>1 DEF Settings!Parsed, Settings!Loads, Settings_Marks
  <2>2. CASE settings_file \notin {Settings!Mixed, Gone}
    BY <2>2 DEF Settings!Loads
  <2> QED BY <2>1, <2>2
<1> QED BY <1>1, <1>2

(* The time of the file moves with the file, while the launcher runs: nothing else does. *)
LEMMA Settings_Written ==
  ASSUME Settings_IInv, settings_mtime' \in Nat, settings_mtime' >= settings_mtime,
         settings_mtime' = settings_mtime => settings_file' = settings_file,
         settings_phase \in {"running", "reloading"} \/ UNCHANGED settings_writer,
         settings_phase # "starting" \/ settings_file' = settings_file \/ settings_missed',
         settings_missed => settings_missed',
         UNCHANGED <<settings_phase, settings_using, settings_stamp, settings_seen>>
  PROVE  Settings_IInv'
<1>1. Settings_Starting'
  BY DEF Settings_IInv, Settings_Starting, Settings!Parsed, Settings!Threads
<1>2. Settings_Stamped'
  BY DEF Settings_IInv, Settings_Stamped
<1>3. Settings_Reloading'
  BY DEF Settings_IInv, Settings_Reloading, Settings_Stamped, Settings!Parsed
<1>4. Settings!StampIsTrue'
  BY DEF Settings_IInv, Settings_Stamped, Settings!StampIsTrue, Settings!Parsed
<1> QED BY <1>1, <1>2, <1>3, <1>4 DEF Settings_IInv

LEMMA Settings_Writers ==
  ASSUME Settings_Marks, Settings_IInv,
         \/ Settings!Edit
         \/ \E t \in Settings!Threads :
               \/ Settings!Begin(t) \/ Settings!CreateTemp(t)
               \/ Settings!WriteTemp(t) \/ Settings!Rename(t)
  PROVE  Settings_IInv'
<1> USE DEF Settings!shell
<1>1. settings_mtime \in Nat
  BY DEF Settings_IInv, Settings_Stamped
<1>2. CASE Settings!Edit
  <2>1. /\ settings_mtime' = settings_mtime + 1
        /\ UNCHANGED <<settings_writer, settings_phase, settings_using, settings_stamp, settings_seen>>
    BY <1>2 DEF Settings!Edit
  <2>2. settings_missed' = (settings_missed \/ settings_phase = "starting")
    BY <1>2 DEF Settings!Edit
  <2>3. (settings_phase # "starting" \/ settings_missed') /\ (settings_missed => settings_missed')
    BY <2>2
  <2> QED BY <1>1, <2>1, <2>3, Settings_Written
<1>3. ASSUME NEW t \in Settings!Threads, Settings!Begin(t)
      PROVE  Settings_IInv'
  BY <1>1, <1>3, Settings_Loaded, Settings_Written DEF Settings!Begin, Settings!Running
<1>4. ASSUME NEW t \in Settings!Threads, settings_writer[t].at # "idle"
      PROVE  settings_phase \notin {"down", "starting"}
  BY <1>4 DEF Settings_IInv, Settings_Starting
<1>5. ASSUME NEW t \in Settings!Threads,
             Settings!CreateTemp(t) \/ Settings!WriteTemp(t) \/ Settings!Rename(t)
      PROVE  Settings_IInv'
  <2>1. settings_writer[t].at # "idle"
    BY <1>5 DEF Settings!CreateTemp, Settings!WriteTemp, Settings!Rename
  <2>2. settings_phase \notin {"down", "starting"}
    BY <1>4, <2>1
  <2>3. \/ settings_mtime' = settings_mtime /\ settings_file' = settings_file
        \/ settings_mtime' = settings_mtime + 1
    BY <1>5 DEF Settings!CreateTemp, Settings!WriteTemp, Settings!Rename
  <2>4. UNCHANGED <<settings_phase, settings_using, settings_stamp, settings_seen, settings_missed>>
    BY <1>5 DEF Settings!CreateTemp, Settings!WriteTemp, Settings!Rename
  <2>5. CASE settings_phase \in {"running", "reloading"}
    BY <1>1, <2>3, <2>4, <2>5, Settings_Written
  <2>6. CASE settings_phase \notin {"down", "starting", "running", "reloading"}
    BY <2>3, <2>4, <2>6, <1>1
    DEF Settings_IInv, Settings_Starting, Settings_Stamped, Settings_Reloading, Settings!StampIsTrue
  <2> QED BY <2>2, <2>5, <2>6
<1> QED BY <1>2, <1>3, <1>5

(* The process: a start, its end, and the reload when the popup is summoned. *)
LEMMA Settings_Process ==
  ASSUME Settings_Marks, Settings_IInv,
         \/ Settings!Start \/ Settings!Started \/ Settings!Dies \/ UNCHANGED Settings!vars
  PROVE  Settings_IInv'
<1>1. settings_mtime \in Nat
  BY DEF Settings_IInv, Settings_Stamped
<1>2. CASE Settings!Start
  <2>1. /\ settings_phase = "down" /\ settings_phase' = "starting"
        /\ settings_file' = Settings!Loads(settings_file) /\ settings_mtime' = Settings!Touched(settings_file)
        /\ settings_using' = Settings!Parsed(settings_file) /\ UNCHANGED settings_writer
    BY <1>2 DEF Settings!Start
  <2>2. Settings!Parsed(settings_file') = Settings!Parsed(settings_file) /\ settings_mtime' \in Nat
    BY <1>1, <2>1, Settings_Loaded
  <2>3. Settings_Starting'
    BY <2>1, <2>2 DEF Settings_IInv, Settings_Starting, Settings!Parsed
  <2> QED BY <2>1, <2>2, <2>3
      DEF Settings_IInv, Settings_Stamped, Settings_Reloading, Settings!StampIsTrue
<1>3. CASE Settings!Started
  <2>1. /\ settings_phase = "starting" /\ settings_phase' = "running" /\ settings_stamp' = settings_mtime
        /\ UNCHANGED <<settings_file, settings_mtime, settings_using, settings_missed>>
    BY <1>3 DEF Settings!Started, Settings!files
  <2> QED BY <1>1, <2>1
      DEF Settings_IInv, Settings_Starting, Settings_Stamped, Settings_Reloading,
          Settings!StampIsTrue, Settings!Parsed
<1>4. CASE Settings!Dies
  <2>1. /\ settings_phase' = "down" /\ UNCHANGED settings_mtime
        /\ settings_writer' = [t \in Settings!Threads |-> Settings!Idle]
    BY <1>4 DEF Settings!Dies, Settings!files
  <2>2. \A t \in Settings!Threads : settings_writer'[t].at = "idle"
    BY <2>1 DEF Settings!Idle
  <2> QED BY <1>1, <2>1, <2>2
      DEF Settings_IInv, Settings_Starting, Settings_Stamped, Settings_Reloading,
          Settings!StampIsTrue, Settings!Threads
<1>5. CASE UNCHANGED Settings!vars
  BY <1>1, <1>5, Settings_Written DEF Settings!vars, Settings!files, Settings!shell
<1> QED BY <1>2, <1>3, <1>4, <1>5

LEMMA Settings_Reload ==
  ASSUME Settings_Marks, Settings_IInv,
         Settings!Summon \/ Settings!Load \/ Settings!Apply
  PROVE  Settings_IInv'
<1>1. settings_mtime \in Nat
  BY DEF Settings_IInv, Settings_Stamped
<1>2. CASE Settings!Summon
  <2>1. /\ settings_phase' = "reloading" /\ UNCHANGED <<settings_file, settings_mtime>>
        /\ settings_seen' = [at |-> settings_mtime, cfg |-> Gone]
    BY <1>2 DEF Settings!Summon, Settings!files
  <2>2. settings_seen'.at = settings_mtime /\ settings_seen'.cfg = Gone
    BY <2>1
  <2> QED BY <1>1, <2>1, <2>2
      DEF Settings_IInv, Settings_Starting, Settings_Stamped, Settings_Reloading, Settings!StampIsTrue
<1>3. CASE Settings!Load
  <2>1. /\ settings_phase = "reloading" /\ settings_phase' = "reloading"
        /\ settings_seen \in [at : Nat, cfg : Settings!Config \cup {Gone}]
        /\ settings_seen.at \in Nat /\ settings_seen.at <= settings_mtime
    BY <1>3 DEF Settings!Load, Settings_IInv, Settings_Reloading
  <2>2. \/ /\ settings_seen' = [settings_seen EXCEPT !.cfg = Settings!Parsed(settings_file)]
           /\ settings_file' = Settings!Loads(settings_file)
           /\ settings_mtime' = Settings!Touched(settings_file)
        \/ settings_missed' /\ UNCHANGED settings_mtime
           /\ settings_seen' = [settings_seen EXCEPT !.cfg = Settings!Default]
    BY <1>3 DEF Settings!Load
  <2>3. Settings!Parsed(settings_file) \in Settings!Config /\ Settings!Default \in Settings!Config
    BY DEF Settings!Parsed, Settings_Marks
  <2>4. \A S, r, c : r \in [at : Nat, cfg : S] /\ c \in S =>
           /\ [r EXCEPT !.cfg = c] \in [at : Nat, cfg : S]
           /\ [r EXCEPT !.cfg = c].at = r.at /\ [r EXCEPT !.cfg = c].cfg = c
    OBVIOUS
  <2>5. PICK c \in Settings!Config :
           /\ settings_seen' = [settings_seen EXCEPT !.cfg = c]
           /\ \/ /\ c = Settings!Parsed(settings_file)
                 /\ settings_file' = Settings!Loads(settings_file)
                 /\ settings_mtime' = Settings!Touched(settings_file)
              \/ settings_missed' /\ UNCHANGED settings_mtime
    BY <2>2, <2>3
  <2>6. /\ settings_seen' \in [at : Nat, cfg : Settings!Config \cup {Gone}]
        /\ settings_seen'.at = settings_seen.at /\ settings_seen'.cfg = c
    BY <2>1, <2>4, <2>5
  <2>7. settings_mtime' \in Nat /\ settings_mtime' >= settings_mtime
    BY <1>1, <2>5, Settings_Loaded
  <2>8. settings_missed' \/ settings_seen'.cfg = Settings!Parsed(settings_file')
    BY <1>1, <2>5, <2>6, Settings_Loaded
  <2> QED BY <2>1, <2>6, <2>7, <2>8
      DEF Settings_IInv, Settings_Starting, Settings_Stamped, Settings_Reloading,
          Settings!StampIsTrue, Settings!Parsed
<1>4. CASE Settings!Apply
  <2>1. /\ settings_phase = "reloading" /\ settings_phase' = "running"
        /\ settings_seen.cfg # Gone
        /\ settings_using' = settings_seen.cfg /\ settings_stamp' = settings_seen.at
        /\ UNCHANGED <<settings_file, settings_mtime, settings_missed>>
    BY <1>4 DEF Settings!Apply, Settings!Stamp, Settings!files
  <2> QED BY <2>1
      DEF Settings_IInv, Settings_Starting, Settings_Stamped, Settings_Reloading,
          Settings!StampIsTrue, Settings!Parsed
<1> QED BY <1>2, <1>3, <1>4

LEMMA Settings_Safety ==
  ASSUME Settings_Marks
  PROVE  Settings!Spec => []Settings!StampIsTrue
<1>1. Settings!Init => Settings_IInv
  BY DEF Settings!Init, Settings!Idle, Settings_IInv, Settings_Starting, Settings_Stamped,
         Settings_Reloading, Settings!StampIsTrue
<1>2. Settings_IInv /\ [Settings!Next]_(Settings!vars) => Settings_IInv'
  BY Settings_Marks, Settings_Writers, Settings_Process, Settings_Reload DEF Settings!Next
<1>3. Settings_IInv => Settings!StampIsTrue
  BY DEF Settings_IInv
<1> QED BY <1>1, <1>2, <1>3, PTL DEF Settings!Spec

LEMMA Settings_Unit ==
  ASSUME [Next]_vars
  PROVE  /\ (unit = "settings") = (unit = "settings")'
         /\ unit = "settings" => [Settings!Next]_(Settings!vars)
<1>1. CASE SettingsStep
  BY <1>1 DEF SettingsStep
<1>2. CASE UNCHANGED vars
  BY <1>2 DEF vars, settingsVars, Settings!vars, Settings!files, Settings!shell, Settings!health
<1>3. CASE SearchStep \/ RankedStep \/ IconsStep \/ CatalogStep \/ StarsStep \/
      CoordinatorStep \/ FilesStep \/ EditorStep \/ TriggerStep \/ EffectsStep \/ AgentStep
  BY <1>3 DEF SearchStep, RankedStep, IconsStep, CatalogStep, StarsStep, CoordinatorStep,
         FilesStep, EditorStep, TriggerStep, EffectsStep, AgentStep
<1> QED BY <1>1, <1>2, <1>3 DEF Next

(* Settings that carry the stamp of the file are those of the file: a change is never taken
   for one already applied (maybe_reload_config). *)
THEOREM StampsAreTrue == Spec => []StampIsTrue
<1>1. Init => (unit = "settings" => Settings!Init)
  BY DEF Init
<1>2. [Next]_vars /\ unit = "settings" => [Settings!Next]_(Settings!vars) /\ (unit = "settings")'
  BY Settings_Unit
<1>3. [Next]_vars /\ ~(unit = "settings") => ~(unit = "settings")'
  BY Settings_Unit
<1>4. Settings!Spec => []Settings!StampIsTrue
  BY MarksAssumption, Settings_Safety DEF Settings_Marks
<1>5. (unit = "settings" => Settings!StampIsTrue) => StampIsTrue
  BY DEF StampIsTrue
<1> QED BY <1>1, <1>2, <1>3, <1>4, <1>5, PTL DEF Spec, Settings!Spec

-----------------------------------------------------------------------------
(* The graph editor.                                                         *)

Editor_Nodes == editor_Nodes \cup {editor_Entry}
Editor_Graphs ==
  [entry : {editor_Entry}, nodes : SUBSET Editor_Nodes, edges : SUBSET (Editor_Nodes \X Editor_Nodes),
   conds : SUBSET Editor_Nodes]
Editor_States == [graph : Editor_Graphs, undo : Seq(Editor_Graphs), redo : Seq(Editor_Graphs)]

(* Neighbours in a list of graphs are one edit apart, going forward or back. *)
Editor_Joined(g, h, forward) == IF forward THEN Editor!Leads(g, h) ELSE Editor!Leads(h, g)
Editor_Linked(s, forward) == \A i \in 1 .. Len(s) - 1 : Editor_Joined(s[i], s[i + 1], forward)

(* The two stacks, each ended by the graph, are linked and keep the bound together. *)
Editor_Line(e) ==
  /\ Editor_Linked(Append(e.undo, e.graph), TRUE)
  /\ Editor_Linked(Append(e.redo, e.graph), FALSE)
  /\ Len(e.undo) + Len(e.redo) <= editor_MaxUndo

(* The stacks hold graphs and nothing else, the editor nothing but graph and stacks. *)
Editor_IInv ==
  /\ editor_editor # None => editor_editor \in Editor_States /\ Editor_Line(editor_editor)
  /\ editor_draft \in {None, Torn} \cup Editor_Graphs

(* A stack gives back what was put on it, and takes back what it gave. *)
LEMMA Editor_Pushed ==
  ASSUME NEW S, NEW s \in Seq(S), NEW e \in S
  PROVE  /\ Append(s, e) \in Seq(S)
         /\ Editor!Last(Append(s, e)) = e /\ Editor!Front(Append(s, e)) = s
<1> DEFINE t == Append(s, e)
<1>1. t \in Seq(S) /\ Len(t) = Len(s) + 1 /\ t[Len(t)] = e /\ Len(s) \in Nat
  OBVIOUS
<1>2. SubSeq(t, 1, Len(t) - 1) = s
  <2> DEFINE f == SubSeq(t, 1, Len(t) - 1)
  <2>1. f \in Seq(S) /\ Len(f) = Len(s)
    BY <1>1
  <2>2. \A i \in 1 .. Len(s) : f[i] = s[i]
    BY <1>1
  <2> HIDE DEF f
  <2> QED BY <2>1, <2>2
<1> QED BY <1>1, <1>2 DEF Editor!Last, Editor!Front

LEMMA Editor_Popped ==
  ASSUME NEW S, NEW s \in Seq(S), s # <<>>
  PROVE  /\ Editor!Last(s) \in S /\ Editor!Front(s) \in Seq(S)
         /\ Append(Editor!Front(s), Editor!Last(s)) = s
         /\ Len(Editor!Front(s)) = Len(s) - 1
<1>1. Len(s) \in Nat /\ Len(s) >= 1
  OBVIOUS
<1>2. s[Len(s)] \in S
  BY <1>1
<1> DEFINE f == SubSeq(s, 1, Len(s) - 1)
<1>3. f \in Seq(S) /\ Len(f) = Len(s) - 1 /\ \A i \in 1 .. Len(s) - 1 : f[i] = s[i]
  <2>1. f \in Seq(S)
    BY <1>1
  <2>2. Len(f) = Len(s) - 1
    BY <1>1
  <2>3. \A i \in 1 .. Len(s) - 1 : f[i] = s[i]
    BY <1>1
  <2> QED BY <2>1, <2>2, <2>3
<1> DEFINE e == s[Len(s)]
           t == Append(f, e)
<1> HIDE DEF f, e
<1>4. e \in S
  BY <1>2 DEF e
<1>5. t \in Seq(S) /\ Len(t) = Len(s) /\ t[Len(s)] = e /\ \A i \in 1 .. Len(s) - 1 : t[i] = f[i]
  BY <1>1, <1>3, <1>4
<1> HIDE DEF t
<1>6. \A i \in 1 .. Len(s) : t[i] = s[i]
  BY <1>1, <1>3, <1>5 DEF e
<1>7. t = s
  BY <1>5, <1>6
<1> QED BY <1>3, <1>4, <1>7 DEF t, f, e, Editor!Last, Editor!Front

(* A linked list may grow by what follows its end, and lose its end or its beginning. *)
LEMMA Editor_LinkGrows ==
  ASSUME NEW S, NEW s \in Seq(S), NEW e \in S, NEW f \in S, NEW forward \in BOOLEAN,
         Editor_Linked(Append(s, e), forward), Editor_Joined(e, f, forward)
  PROVE  Editor_Linked(Append(Append(s, e), f), forward)
<1> DEFINE t == Append(s, e)
           u == Append(t, f)
<1>1. t \in Seq(S) /\ Len(t) = Len(s) + 1 /\ t[Len(t)] = e /\ Len(s) \in Nat
  OBVIOUS
<1> HIDE DEF t
<1>2. u \in Seq(S) /\ Len(u) = Len(t) + 1 /\ u[Len(t) + 1] = f /\ \A i \in 1 .. Len(t) : u[i] = t[i]
  BY <1>1
<1> HIDE DEF u
<1>3. ASSUME NEW i \in 1 .. Len(u) - 1
      PROVE  Editor_Joined(u[i], u[i + 1], forward)
  <2>1. CASE i = Len(t)
    <3>1. u[i] = e /\ u[i + 1] = f
      BY <1>1, <1>2, <2>1
    <3> QED BY <3>1
  <2>2. CASE i # Len(t)
    <3>1. i \in 1 .. Len(t) - 1 /\ u[i] = t[i] /\ u[i + 1] = t[i + 1]
      BY <1>1, <1>2, <2>2
    <3> QED BY <3>1 DEF Editor_Linked, t
  <2> QED BY <2>1, <2>2
<1> QED BY <1>3 DEF Editor_Linked, u, t

LEMMA Editor_LinkShrinks ==
  ASSUME NEW S, NEW s \in Seq(S), s # <<>>, NEW e \in S, NEW forward \in BOOLEAN,
         Editor_Linked(Append(s, e), forward)
  PROVE  Editor_Linked(s, forward) /\ Editor_Joined(Editor!Last(s), e, forward)
<1> DEFINE t == Append(s, e)
<1>1. /\ Len(t) = Len(s) + 1 /\ t[Len(s) + 1] = e /\ Len(s) \in Nat /\ Len(s) >= 1
      /\ \A i \in 1 .. Len(s) : t[i] = s[i]
  OBVIOUS
<1>2. \A i \in 1 .. Len(s) : Editor_Joined(t[i], t[i + 1], forward)
  BY <1>1 DEF Editor_Linked
<1> HIDE DEF t
<1>3. ASSUME NEW i \in 1 .. Len(s) - 1
      PROVE  Editor_Joined(s[i], s[i + 1], forward)
  <2>1. i \in 1 .. Len(s) /\ t[i] = s[i] /\ t[i + 1] = s[i + 1]
    BY <1>1
  <2> QED BY <1>2, <2>1
<1>4. Editor_Joined(s[Len(s)], e, forward)
  <2>1. Len(s) \in 1 .. Len(s) /\ t[Len(s)] = s[Len(s)] /\ t[Len(s) + 1] = e
    BY <1>1
  <2> QED BY <1>2, <2>1
<1> QED BY <1>3, <1>4 DEF Editor_Linked, Editor!Last

LEMMA Editor_LinkForgets ==
  ASSUME NEW S, NEW s \in Seq(S), s # <<>>, NEW e \in S, NEW forward \in BOOLEAN,
         Editor_Linked(Append(s, e), forward)
  PROVE  Editor_Linked(Append(Tail(s), e), forward)
<1> DEFINE t == Append(s, e)
           u == Append(Tail(s), e)
<1>1. Tail(s) \in Seq(S) /\ Len(Tail(s)) = Len(s) - 1 /\ Len(s) \in Nat /\ Len(s) >= 1
      /\ \A i \in 1 .. Len(s) - 1 : Tail(s)[i] = s[i + 1]
  OBVIOUS
<1>2. Len(t) = Len(s) + 1 /\ t[Len(s) + 1] = e /\ \A i \in 1 .. Len(s) : t[i] = s[i]
  OBVIOUS
<1>3. Len(u) = Len(s) /\ u[Len(s)] = e /\ \A i \in 1 .. Len(s) - 1 : u[i] = Tail(s)[i]
  BY <1>1
<1>4. \A i \in 1 .. Len(s) : Editor_Joined(t[i], t[i + 1], forward)
  BY <1>2 DEF Editor_Linked
<1> HIDE DEF t, u
<1>5. \A i \in 1 .. Len(s) : u[i] = t[i + 1]
  BY <1>1, <1>2, <1>3
<1>6. ASSUME NEW i \in 1 .. Len(u) - 1
      PROVE  Editor_Joined(u[i], u[i + 1], forward)
  <2>1. i + 1 \in 1 .. Len(s) /\ u[i] = t[i + 1] /\ u[i + 1] = t[(i + 1) + 1]
    BY <1>1, <1>3, <1>5
  <2> QED BY <1>4, <2>1
<1> QED BY <1>6 DEF Editor_Linked, u

(* One graph more here and one less there. *)
LEMMA Editor_Bound ==
  /\ editor_MaxUndo \in Nat
  /\ \A m, n \in Nat : m + n <= editor_MaxUndo =>
        /\ m <= editor_MaxUndo /\ (m - 1) + (n + 1) <= editor_MaxUndo
        /\ (m + 1) + (n - 1) <= editor_MaxUndo
<1>1. editor_MaxUndo \in Nat
  BY InputsAssumption
<1> QED BY <1>1

(* Undo and redo move one graph from stack to stack along the line. *)
LEMMA Editor_Moves ==
  ASSUME NEW e \in Editor_States, Editor_Line(e)
  PROVE  /\ e.undo # <<>> => Editor!Undo(e) \in Editor_States /\ Editor_Line(Editor!Undo(e))
         /\ e.redo # <<>> => Editor!Redo(e) \in Editor_States /\ Editor_Line(Editor!Redo(e))
<1>1. e.graph \in Editor_Graphs /\ e.undo \in Seq(Editor_Graphs) /\ e.redo \in Seq(Editor_Graphs)
  BY DEF Editor_States
<1>2. \A s \in Seq(Editor_Graphs), g \in Editor_Graphs :
         Len(Append(s, g)) = Len(s) + 1 /\ Len(s) \in Nat
  OBVIOUS
<1>3. ASSUME e.undo # <<>>
      PROVE  Editor!Undo(e) \in Editor_States /\ Editor_Line(Editor!Undo(e))
  <2> DEFINE u == Editor!Undo(e)
  <2>1. /\ u.graph = Editor!Last(e.undo) /\ u.undo = Editor!Front(e.undo)
        /\ u.redo = Append(e.redo, e.graph)
    BY DEF Editor!Undo
  <2>2. /\ u.graph \in Editor_Graphs /\ u.undo \in Seq(Editor_Graphs)
        /\ u.redo \in Seq(Editor_Graphs)
        /\ Append(u.undo, u.graph) = e.undo /\ Len(u.undo) = Len(e.undo) - 1
    <3> HIDE DEF u
    <3>1. /\ Editor!Last(e.undo) \in Editor_Graphs /\ Editor!Front(e.undo) \in Seq(Editor_Graphs)
          /\ Append(Editor!Front(e.undo), Editor!Last(e.undo)) = e.undo
          /\ Len(Editor!Front(e.undo)) = Len(e.undo) - 1
      BY <1>1, <1>3, Editor_Popped
    <3>2. Append(e.redo, e.graph) \in Seq(Editor_Graphs)
      BY <1>1
    <3> QED BY <2>1, <3>1, <3>2
  <2>3. Editor_Linked(e.undo, TRUE) /\ Editor_Joined(u.graph, e.graph, TRUE)
    BY <1>1, <1>3, <2>1, Editor_LinkShrinks DEF Editor_Line
  <2>4. Editor_Linked(Append(Append(e.redo, e.graph), u.graph), FALSE)
    <3>1. Editor_Joined(e.graph, u.graph, FALSE)
      BY <2>3 DEF Editor_Joined
    <3> HIDE DEF u
    <3> QED BY <1>1, <2>2, <3>1, Editor_LinkGrows DEF Editor_Line
  <2>5. Len(u.undo) + Len(u.redo) <= editor_MaxUndo
    <3> HIDE DEF u
    <3>1. Len(e.undo) \in Nat /\ Len(e.redo) \in Nat /\ Len(u.redo) = Len(e.redo) + 1
      BY <1>1, <1>2, <2>1
    <3>2. Len(u.undo) = Len(e.undo) - 1
      BY <2>2
    <3>3. Len(e.undo) + Len(e.redo) <= editor_MaxUndo
      BY DEF Editor_Line
    <3>4. /\ (Len(e.undo) - 1) + (Len(e.redo) + 1) <= editor_MaxUndo
          /\ (Len(e.undo) + 1) + (Len(e.redo) - 1) <= editor_MaxUndo
      BY <3>1, <3>3, Editor_Bound
    <3> QED BY <3>1, <3>2, <3>4
  <2>6. u \in Editor_States
    BY <2>2 DEF Editor!Undo, Editor_States
  <2> HIDE DEF u
  <2>7. Editor_Line(u)
    BY <2>1, <2>2, <2>3, <2>4, <2>5 DEF Editor_Line
  <2> QED BY <2>6, <2>7 DEF u
<1>4. ASSUME e.redo # <<>>
      PROVE  Editor!Redo(e) \in Editor_States /\ Editor_Line(Editor!Redo(e))
  <2> DEFINE u == Editor!Redo(e)
  <2>1. /\ u.graph = Editor!Last(e.redo) /\ u.redo = Editor!Front(e.redo)
        /\ u.undo = Append(e.undo, e.graph)
    BY DEF Editor!Redo
  <2>2. /\ u.graph \in Editor_Graphs /\ u.redo \in Seq(Editor_Graphs)
        /\ u.undo \in Seq(Editor_Graphs)
        /\ Append(u.redo, u.graph) = e.redo /\ Len(u.redo) = Len(e.redo) - 1
    <3> HIDE DEF u
    <3>1. /\ Editor!Last(e.redo) \in Editor_Graphs /\ Editor!Front(e.redo) \in Seq(Editor_Graphs)
          /\ Append(Editor!Front(e.redo), Editor!Last(e.redo)) = e.redo
          /\ Len(Editor!Front(e.redo)) = Len(e.redo) - 1
      BY <1>1, <1>4, Editor_Popped
    <3>2. Append(e.undo, e.graph) \in Seq(Editor_Graphs)
      BY <1>1
    <3> QED BY <2>1, <3>1, <3>2
  <2>3. Editor_Linked(e.redo, FALSE) /\ Editor_Joined(u.graph, e.graph, FALSE)
    BY <1>1, <1>4, <2>1, Editor_LinkShrinks DEF Editor_Line
  <2>4. Editor_Linked(Append(Append(e.undo, e.graph), u.graph), TRUE)
    <3>1. Editor_Joined(e.graph, u.graph, TRUE)
      BY <2>3 DEF Editor_Joined
    <3> HIDE DEF u
    <3> QED BY <1>1, <2>2, <3>1, Editor_LinkGrows DEF Editor_Line
  <2>5. Len(u.undo) + Len(u.redo) <= editor_MaxUndo
    <3> HIDE DEF u
    <3>1. Len(e.undo) \in Nat /\ Len(e.redo) \in Nat /\ Len(u.undo) = Len(e.undo) + 1
      BY <1>1, <1>2, <2>1
    <3>2. Len(u.redo) = Len(e.redo) - 1
      BY <2>2
    <3>3. Len(e.undo) + Len(e.redo) <= editor_MaxUndo
      BY DEF Editor_Line
    <3>4. /\ (Len(e.undo) - 1) + (Len(e.redo) + 1) <= editor_MaxUndo
          /\ (Len(e.undo) + 1) + (Len(e.redo) - 1) <= editor_MaxUndo
      BY <3>1, <3>3, Editor_Bound
    <3> QED BY <3>1, <3>2, <3>4
  <2>6. u \in Editor_States
    BY <2>2 DEF Editor!Redo, Editor_States
  <2> HIDE DEF u
  <2>7. Editor_Line(u)
    BY <2>1, <2>2, <2>3, <2>4, <2>5 DEF Editor_Line
  <2> QED BY <2>6, <2>7 DEF u
<1> QED BY <1>3, <1>4

(* An edit puts the graph on the undo stack, which may forget its oldest, and empties the other. *)
LEMMA Editor_Snapshot ==
  ASSUME NEW e \in Editor_States, Editor_Line(e), NEW g \in Editor_Graphs,
         Editor!Leads(e.graph, g)
  PROVE  LET p == [Editor!push_undo(e) EXCEPT !.graph = g] IN p \in Editor_States /\ Editor_Line(p)
<1> DEFINE u == Append(e.undo, e.graph)
           stack == Editor!Pushed(u)
           p == [Editor!push_undo(e) EXCEPT !.graph = g]
<1>1. e.graph \in Editor_Graphs /\ e.undo \in Seq(Editor_Graphs) /\ e.redo \in Seq(Editor_Graphs)
  BY DEF Editor_States
<1>2. u \in Seq(Editor_Graphs) /\ u # <<>> /\ Len(u) = Len(e.undo) + 1 /\ Len(e.undo) \in Nat
  BY <1>1
<1>3. Len(e.undo) <= editor_MaxUndo /\ Editor_Linked(Append(u, g), TRUE)
  <2>1. Editor_Joined(e.graph, g, TRUE)
    BY DEF Editor_Joined
  <2>2. Len(e.redo) \in Nat
    BY <1>1
  <2>3. Len(e.undo) <= editor_MaxUndo
    <3>1. Len(e.undo) + Len(e.redo) <= editor_MaxUndo
      BY DEF Editor_Line
    <3> QED BY <1>2, <2>2, <3>1, Editor_Bound
  <2>4. Editor_Linked(Append(e.undo, e.graph), TRUE)
    BY DEF Editor_Line
  <2>5. Editor_Linked(Append(Append(e.undo, e.graph), g), TRUE)
    BY <1>1, <2>1, <2>4, Editor_LinkGrows
  <2> QED BY <2>3, <2>5
<1> HIDE DEF u
<1>4. /\ stack \in Seq(Editor_Graphs) /\ Len(stack) <= editor_MaxUndo
      /\ Editor_Linked(Append(stack, g), TRUE)
  <2>1. CASE Len(u) > editor_MaxUndo
    <3>1. stack = Tail(u)
      BY <2>1 DEF Editor!Pushed
    <3>2. Tail(u) \in Seq(Editor_Graphs) /\ Len(Tail(u)) = Len(u) - 1
      BY <1>2
    <3>3. Editor_Linked(Append(Tail(u), g), TRUE)
      BY <1>2, <1>3, Editor_LinkForgets
    <3> HIDE DEF stack
    <3>4. Len(Tail(u)) <= editor_MaxUndo
      BY <1>2, <1>3, <3>2, Editor_Bound
    <3> QED BY <3>1, <3>2, <3>3, <3>4
  <2>2. CASE ~ (Len(u) > editor_MaxUndo)
    <3>1. stack = u
      BY <2>2 DEF Editor!Pushed
    <3> HIDE DEF stack
    <3>2. Len(u) <= editor_MaxUndo
      BY <1>2, <2>2, Editor_Bound
    <3> QED BY <1>2, <1>3, <3>1, <3>2
  <2> QED BY <2>1, <2>2
<1>5. Editor!push_undo(e) = [e EXCEPT !.undo = stack, !.redo = <<>>]
  BY DEF Editor!push_undo, u
<1>6. p = [graph |-> g, undo |-> stack, redo |-> <<>>]
  <2> HIDE DEF stack
  <2>1. e = [graph |-> e.graph, undo |-> e.undo, redo |-> e.redo]
    BY DEF Editor_States
  <2>2. Editor!push_undo(e) = [graph |-> e.graph, undo |-> stack, redo |-> <<>>]
    BY <1>5, <2>1
  <2> QED BY <2>2
<1> HIDE DEF stack
<1>7. <<>> \in Seq(Editor_Graphs) /\ Len(<<>>) = 0 /\ Len(stack) \in Nat /\ Len(Append(<<>>, g)) = 1
  BY <1>4
<1>8. Editor_Linked(Append(<<>>, g), FALSE)
  BY <1>7 DEF Editor_Linked
<1> HIDE DEF p
<1>9. p \in Editor_States
  BY <1>4, <1>6, <1>7 DEF Editor_States
<1>10. Editor_Line(p)
  <2>1. p.undo = stack /\ p.graph = g /\ p.redo = <<>>
    BY <1>6
  <2>2. Len(p.undo) + Len(p.redo) <= editor_MaxUndo
    BY <1>4, <1>7, <2>1, Editor_Bound
  <2> QED BY <1>4, <1>8, <2>1, <2>2 DEF Editor_Line
<1> QED BY <1>9, <1>10 DEF p

LEMMA Editor_Results ==
  ASSUME NEW g \in Editor_Graphs, NEW r \in Editor!Results(g)
  PROVE  r.graph \in Editor_Graphs
<1>1. ASSUME NEW n \in editor_Nodes
      PROVE  /\ Editor!AddNode(g, n).graph \in Editor_Graphs
             /\ Editor!RemoveNode(g, n).graph \in Editor_Graphs
  BY DEF Editor!AddNode, Editor!RemoveNode, Editor_Graphs, Editor_Nodes
<1>2. ASSUME NEW a \in editor_Nodes, NEW b \in editor_Nodes
      PROVE  /\ Editor!AddEdge(g, a, b).graph \in Editor_Graphs
             /\ Editor!RemoveEdge(g, a, b).graph \in Editor_Graphs
  BY DEF Editor!AddEdge, Editor!RemoveEdge, Editor_Graphs, Editor_Nodes
<1>3. ASSUME NEW n \in editor_Nodes, NEW on \in BOOLEAN
      PROVE  Editor!SetCondition(g, n, on).graph \in Editor_Graphs
  BY DEF Editor!SetCondition, Editor_Graphs, Editor_Nodes
<1>4. \/ \E n \in editor_Nodes : r = Editor!AddNode(g, n) \/ r = Editor!RemoveNode(g, n)
      \/ \E a, b \in editor_Nodes : r = Editor!AddEdge(g, a, b) \/ r = Editor!RemoveEdge(g, a, b)
      \/ \E n \in editor_Nodes, on \in BOOLEAN : r = Editor!SetCondition(g, n, on)
  BY DEF Editor!Results
<1> QED BY <1>1, <1>2, <1>3, <1>4

LEMMA Editor_Opens ==
  ASSUME Editor_IInv, Editor!open_editor
  PROVE  Editor_IInv'
<1> DEFINE g == IF editor_draft \in {None, Torn} THEN Editor!Fresh ELSE editor_draft
<1>1. Editor!Fresh \in Editor_Graphs
  BY DEF Editor!Fresh, Editor_Graphs, Editor_Nodes
<1>2. g \in Editor_Graphs
  BY <1>1 DEF Editor_IInv
<1>3. editor_editor' = [graph |-> g, undo |-> <<>>, redo |-> <<>>] /\ UNCHANGED editor_draft
  BY DEF Editor!open_editor, Editor!Show
<1> HIDE DEF g
<1>4. <<>> \in Seq(Editor_Graphs) /\ Len(<<>>) = 0 /\ Len(Append(<<>>, g)) = 1
  OBVIOUS
<1>5. editor_editor' \in Editor_States
  BY <1>2, <1>3, <1>4 DEF Editor_States
<1>6. Editor_Line([graph |-> g, undo |-> <<>>, redo |-> <<>>])
  BY <1>4, Editor_Bound DEF Editor_Line, Editor_Linked
<1> QED BY <1>3, <1>5, <1>6 DEF Editor_IInv

(* A refused edit leaves its snapshot on the stack, too. *)
LEMMA Editor_Edits ==
  ASSUME Editor_IInv, Editor!edit
  PROVE  Editor_IInv'
<1>1. editor_editor \in Editor_States /\ Editor_Line(editor_editor) /\ UNCHANGED editor_draft
  BY DEF Editor_IInv, Editor!edit
<1>2. editor_editor.graph \in Editor_Graphs
  BY <1>1 DEF Editor_States
<1>3. PICK r \in Editor!Results(editor_editor.graph) :
         IF r.ok THEN editor_editor' = [Editor!push_undo(editor_editor) EXCEPT !.graph = r.graph]
         ELSE editor_editor' = Editor!push_undo(editor_editor)
  BY DEF Editor!edit, Editor!Show
<1>4. PICK g \in Editor_Graphs :
         /\ Editor!Leads(editor_editor.graph, g)
         /\ editor_editor' = [Editor!push_undo(editor_editor) EXCEPT !.graph = g]
  <2>1. CASE r.ok
    <3>1. r.graph \in Editor_Graphs /\ Editor!Leads(editor_editor.graph, r.graph)
      BY <1>2, <2>1, Editor_Results DEF Editor!Leads
    <3> QED BY <1>3, <2>1, <3>1
  <2>2. CASE ~ r.ok
    <3>1. Editor!Leads(editor_editor.graph, editor_editor.graph)
      BY DEF Editor!Leads
    <3>2. Editor!push_undo(editor_editor)
            = [Editor!push_undo(editor_editor) EXCEPT !.graph = editor_editor.graph]
      BY <1>1 DEF Editor!push_undo, Editor_States
    <3> QED BY <1>2, <1>3, <2>2, <3>1, <3>2
  <2> QED BY <2>1, <2>2
<1>5. editor_editor' \in Editor_States /\ Editor_Line(editor_editor)'
  BY <1>1, <1>4, Editor_Snapshot DEF Editor_Line
<1> QED BY <1>1, <1>5 DEF Editor_IInv

LEMMA Editor_Others ==
  ASSUME Editor_IInv,
         Editor!undo \/ Editor!redo \/ Editor!export_draft \/ Editor!Dies \/ UNCHANGED Editor!vars
  PROVE  Editor_IInv'
<1>1. CASE Editor!undo \/ Editor!redo
  <2>1. editor_editor \in Editor_States /\ Editor_Line(editor_editor) /\ UNCHANGED editor_draft
    BY <1>1 DEF Editor_IInv, Editor!undo, Editor!redo
  <2>2. editor_editor' \in Editor_States /\ Editor_Line(editor_editor)'
    BY <1>1, <2>1, Editor_Moves DEF Editor!undo, Editor!redo, Editor!Show, Editor_Line
  <2> QED BY <2>1, <2>2 DEF Editor_IInv
<1>2. CASE Editor!export_draft
  <2>1. UNCHANGED editor_editor /\ editor_draft' \in {editor_draft, editor_editor.graph}
    BY <1>2 DEF Editor!export_draft
  <2>2. editor_editor.graph \in Editor_Graphs
    BY <1>2 DEF Editor!export_draft, Editor_IInv, Editor_States
  <2> QED BY <2>1, <2>2 DEF Editor_IInv
<1>3. CASE Editor!Dies
  BY <1>3 DEF Editor!Dies, Editor_IInv
<1>4. CASE UNCHANGED Editor!vars
  BY <1>4 DEF Editor!vars, Editor_IInv
<1> QED BY <1>1, <1>2, <1>3, <1>4

LEMMA Editor_Safety == Editor!Spec => []Editor!OneTimeline
<1>1. Editor!Init => Editor_IInv
  BY DEF Editor!Init, Editor_IInv
<1>2. Editor_IInv /\ [Editor!Next]_(Editor!vars) => Editor_IInv'
  BY Editor_Opens, Editor_Edits, Editor_Others DEF Editor!Next
<1>3. Editor_IInv => Editor!OneTimeline
  <2> SUFFICES ASSUME Editor_IInv, editor_editor # None PROVE Editor!OneTimeline
    BY DEF Editor!OneTimeline
  <2>1. editor_editor \in Editor_States /\ Editor_Line(editor_editor)
    BY DEF Editor_IInv
  <2> DEFINE past == Append(editor_editor.undo, editor_editor.graph)
             future == Append(editor_editor.redo, editor_editor.graph)
  <2>2. Len(past) - 1 = Len(editor_editor.undo) /\ Len(future) - 1 = Len(editor_editor.redo)
    BY <2>1 DEF Editor_States
  <2> HIDE DEF past, future
  <2>3. /\ \A i \in 1 .. Len(editor_editor.undo) : Editor!Leads(past[i], past[i + 1])
        /\ \A i \in 1 .. Len(editor_editor.redo) : Editor!Leads(future[i + 1], future[i])
    BY <2>1, <2>2 DEF Editor_Line, Editor_Linked, Editor_Joined, past, future
  <2> QED BY <2>1, <2>3 DEF Editor!OneTimeline, Editor_Line, past, future
<1> QED BY <1>1, <1>2, <1>3, PTL DEF Editor!Spec

LEMMA Editor_Unit ==
  ASSUME [Next]_vars
  PROVE  /\ (unit = "editor") = (unit = "editor")'
         /\ unit = "editor" => [Editor!Next]_(Editor!vars)
<1>1. CASE EditorStep
  BY <1>1 DEF EditorStep
<1>2. CASE UNCHANGED vars
  BY <1>2 DEF vars, editorVars, Editor!vars
<1>3. CASE SearchStep \/ RankedStep \/ IconsStep \/ CatalogStep \/ StarsStep \/
      CoordinatorStep \/ FilesStep \/ SettingsStep \/ TriggerStep \/ EffectsStep \/ AgentStep
  BY <1>3 DEF SearchStep, RankedStep, IconsStep, CatalogStep, StarsStep, CoordinatorStep,
         FilesStep, SettingsStep, TriggerStep, EffectsStep, AgentStep
<1> QED BY <1>1, <1>2, <1>3 DEF Next

(* In every state that edits, refusals, undos, redos and restarts reach, what can be undone, the
   graph and what can be redone are one line of single edits, and both stacks together keep the
   bound that redo does not check (editor.rs). *)
THEOREM EditorTimeline == Spec => []OneTimeline
<1>1. Init => (unit = "editor" => Editor!Init)
  BY DEF Init
<1>2. [Next]_vars /\ unit = "editor" => [Editor!Next]_(Editor!vars) /\ (unit = "editor")'
  BY Editor_Unit
<1>3. [Next]_vars /\ ~(unit = "editor") => ~(unit = "editor")'
  BY Editor_Unit
<1>4. Editor!Spec => []Editor!OneTimeline
  BY Editor_Safety
<1>5. (unit = "editor" => Editor!OneTimeline) => OneTimeline
  BY DEF OneTimeline
<1> QED BY <1>1, <1>2, <1>3, <1>4, <1>5, PTL DEF Spec, Editor!Spec

-----------------------------------------------------------------------------
(* The effects on the system.                                                *)

(* What a handle names is told apart by when it was given out. *)
Effects_Thing == [life : Nat, owner : system_Owners]

Effects_Typed ==
  /\ system_lives \in Nat
  /\ \A h \in system_Handles :
        system_world[h] # None =>
           system_world[h] \in Effects_Thing /\ system_world[h].life <= system_lives
  /\ system_world \in [system_Handles -> {None} \cup Effects_Thing]

Effects_Commands ==
  [kind : {"process", "window"}, op : {"list", "focus", "kill", "close"}, handle : system_Handles,
   origin : system_Origins, observed : Effects_Thing,
   identity : {None} \cup Nat \cup system_Owners,
   risk : {"info", "reversible", "destructive"}, confirmed : BOOLEAN, seen : Nat]

(* A command keeps what it was built from: the identity is of what was observed, what destroys
   is known as destructive, and who has the life that was observed is who was observed. *)
Effects_Built(c) ==
  /\ c \in Effects_Commands
  /\ c.op \in {"kill", "close"} => c.risk = "destructive"
  /\ c.identity # None =>
        c.identity = IF c.kind = "process" THEN c.observed.life ELSE c.observed.owner
  /\ c.observed.life <= system_lives
  /\ system_world[c.handle] # None /\ system_world[c.handle].life = c.observed.life
        => system_world[c.handle] = c.observed

Effects_Allowed(c) == Effects!Rank(c.risk) <= Effects!Rank(system_policy.ceiling[c.origin])
Effects_Authorized(c) == Effects_Allowed(c) /\ (Effects!requires_confirmation(c.risk) => c.confirmed)

(* Since the adapter looked, the handle names what it named or something newer. *)
Effects_Targeted(c, there) ==
  there # None /\ c.identity # None =>
     there.life > c.seen \/ IF c.kind = "process" THEN there = c.observed
                            ELSE there.owner = c.observed.owner

Effects_IInv ==
  /\ Effects_Typed
  /\ system_at \in {"resolved", "approved", "authorized", "verified"} => Effects_Built(system_cmd)
  /\ system_at = "approved" => Effects_Allowed(system_cmd)
  /\ system_at \in {"authorized", "verified"} => Effects_Authorized(system_cmd)
  /\ system_at = "verified" =>
        system_cmd.seen <= system_lives /\ Effects_Targeted(system_cmd, system_world[system_cmd.handle])
  /\ Effects!OnTargetWithinCeiling

(* The system gives out handles anew, each time with another life. *)
LEMMA Effects_World ==
  ASSUME Effects_IInv,
         \E h \in system_Handles :
            Effects!Disappears(h) \/ \E o \in system_Owners : Effects!Appears(h, o)
  PROVE  Effects_IInv'
<1>1. PICK h \in system_Handles :
        \/ system_world' = [system_world EXCEPT ![h] = None] /\ UNCHANGED system_lives
        \/ \E o \in system_Owners :
              /\ system_world' = [system_world EXCEPT ![h] = [life |-> system_lives + 1, owner |-> o]]
              /\ system_lives' = system_lives + 1
  BY DEF Effects!Appears, Effects!Disappears
<1>2. UNCHANGED <<system_policy, system_cmd, system_at, system_effect>>
  BY DEF Effects!Appears, Effects!Disappears
<1>3. /\ system_lives \in Nat /\ system_lives' \in Nat /\ system_lives' >= system_lives
      /\ system_world \in [system_Handles -> {None} \cup Effects_Thing]
  BY <1>1 DEF Effects_IInv, Effects_Typed
<1>4. /\ system_world' \in [system_Handles -> {None} \cup Effects_Thing]
      /\ \A g \in system_Handles : g # h => system_world'[g] = system_world[g]
      /\ \/ system_world'[h] = None
         \/ /\ system_world'[h] \in Effects_Thing /\ system_world'[h].life = system_lives + 1
            /\ system_lives' = system_lives + 1
  BY <1>1, <1>3 DEF Effects_Thing
<1>5. Effects_Typed'
  BY <1>3, <1>4 DEF Effects_IInv, Effects_Typed, Effects_Thing
<1>6. ASSUME NEW c, Effects_Built(c)
      PROVE  Effects_Built(c)'
  <2>1. c \in Effects_Commands /\ c.handle \in system_Handles /\ c.observed.life \in Nat
        /\ c.observed.life <= system_lives
    BY <1>6 DEF Effects_Built, Effects_Commands, Effects_Thing
  <2>2. system_world'[c.handle] # None /\ system_world'[c.handle].life = c.observed.life
        => system_world'[c.handle] = c.observed
    BY <1>3, <1>4, <1>6, <2>1 DEF Effects_Built
  <2>3. c.observed.life <= system_lives'
    BY <1>3, <2>1
  <2> QED BY <1>6, <2>1, <2>2, <2>3 DEF Effects_Built
<1>7. ASSUME NEW c, c \in Effects_Commands, c.seen <= system_lives,
             Effects_Targeted(c, system_world[c.handle])
      PROVE  c.seen <= system_lives' /\ Effects_Targeted(c, system_world'[c.handle])
  <2>1. c.seen \in Nat /\ c.handle \in system_Handles
    BY <1>7 DEF Effects_Commands
  <2>2. CASE system_world'[c.handle] = system_world[c.handle]
    BY <1>3, <1>7, <2>1, <2>2
  <2>3. CASE c.handle = h
    BY <1>3, <1>4, <1>7, <2>1, <2>3 DEF Effects_Targeted, Effects_Thing
  <2> QED BY <1>4, <2>1, <2>2, <2>3
<1>8. Effects!OnTargetWithinCeiling'
  BY <1>2 DEF Effects_IInv, Effects!OnTargetWithinCeiling
<1>9. system_at \in {"resolved", "approved", "authorized", "verified"} => Effects_Built(system_cmd)'
  BY <1>2, <1>6 DEF Effects_IInv
<1>10. /\ system_at = "approved" => Effects_Allowed(system_cmd)'
       /\ system_at \in {"authorized", "verified"} => Effects_Authorized(system_cmd)'
  BY <1>2 DEF Effects_IInv, Effects_Allowed, Effects_Authorized
<1>11. system_at = "verified" =>
         system_cmd.seen <= system_lives' /\ Effects_Targeted(system_cmd, system_world'[system_cmd.handle])
  BY <1>7 DEF Effects_IInv, Effects_Built
<1> QED BY <1>2, <1>5, <1>8, <1>9, <1>10, <1>11 DEF Effects_IInv

(* A command is built from what its handle names at the moment. *)
LEMMA Effects_Observe ==
  ASSUME Effects_IInv, NEW h \in system_Handles, NEW o \in system_Origins, NEW i \in BOOLEAN,
         NEW kind \in {"process", "window"}, NEW op,
         \/ kind = "process" /\ op \in DOMAIN Effects!process_risk
         \/ kind = "window" /\ op \in DOMAIN Effects!window_risk,
         Effects!Observe(kind, op, h, o, i)
  PROVE  Effects_IInv'
<1> DEFINE w == system_world[h]
           c == Effects!Command(kind, op, h, o, i)
<1>1. /\ w # None /\ w \in Effects_Thing /\ w.life <= system_lives /\ w.life \in Nat
      /\ w.owner \in system_Owners
  BY DEF Effects!Observe, Effects_IInv, Effects_Typed, Effects_Thing
<1>2. /\ system_cmd' = c /\ system_at' = "resolved" /\ system_effect' = None
      /\ UNCHANGED <<system_world, system_lives, system_policy>>
  BY DEF Effects!Observe, Effects!Same
<1> DEFINE risk == IF kind = "process" THEN Effects!process_risk[op] ELSE Effects!window_risk[op]
           identity == IF ~i THEN None ELSE IF kind = "process" THEN w.life ELSE w.owner
<1>3. /\ op \in {"list", "focus", "kill", "close"}
      /\ risk \in {"info", "reversible", "destructive"}
      /\ op \in {"kill", "close"} => risk = "destructive"
  BY DEF Effects!process_risk, Effects!window_risk
<1>4. /\ identity \in {None} \cup Nat \cup system_Owners
      /\ identity # None => identity = IF kind = "process" THEN w.life ELSE w.owner
  BY <1>1
<1>5. c = [kind |-> kind, op |-> op, handle |-> h, origin |-> o, observed |-> w,
           identity |-> identity, risk |-> risk, confirmed |-> FALSE, seen |-> 0]
  BY DEF Effects!Command
<1> HIDE DEF c, risk, identity
<1>6. c \in Effects_Commands
  BY <1>1, <1>3, <1>4, <1>5 DEF Effects_Commands
<1>7. /\ c.kind = kind /\ c.op = op /\ c.handle = h /\ c.observed = w
      /\ c.identity = identity /\ c.risk = risk
  BY <1>5
<1>8. Effects_Built(c)
  BY <1>1, <1>3, <1>4, <1>6, <1>7 DEF Effects_Built
<1>9. Effects_Built(system_cmd)'
  BY <1>2, <1>8 DEF Effects_Built
<1>10. Effects_Typed' /\ Effects!OnTargetWithinCeiling'
  BY <1>2 DEF Effects_IInv, Effects_Typed, Effects!OnTargetWithinCeiling
<1> QED BY <1>2, <1>9, <1>10 DEF Effects_IInv

(* The command goes on as it was built. *)
LEMMA Effects_Resolve ==
  ASSUME Effects_IInv, Effects!resolve
  PROVE  Effects_IInv'
<1>1. /\ system_at = "resolved" /\ UNCHANGED <<system_world, system_lives, system_policy, system_effect>>
      /\ \/ system_at' = "idle"
         \/ system_at' = "approved" /\ UNCHANGED system_cmd /\ Effects!Within_ceiling(system_cmd)
  BY DEF Effects!resolve, Effects!Same, Effects!Go, Effects!Refuse
<1>2. Effects_Typed' /\ Effects!OnTargetWithinCeiling'
  BY <1>1 DEF Effects_IInv, Effects_Typed, Effects!OnTargetWithinCeiling
<1>3. CASE system_at' = "idle"
  BY <1>2, <1>3 DEF Effects_IInv
<1>4. CASE system_at' = "approved" /\ UNCHANGED system_cmd /\ Effects!Within_ceiling(system_cmd)
  <2>1. Effects_Built(system_cmd)'
    BY <1>1, <1>4 DEF Effects_IInv, Effects_Built
  <2>2. Effects_Allowed(system_cmd)'
    BY <1>1, <1>4 DEF Effects_Allowed, Effects!Within_ceiling
  <2> QED BY <1>2, <1>4, <2>1, <2>2 DEF Effects_IInv
<1> QED BY <1>1, <1>3, <1>4

(* Only the confirmation, and what was seen, is written into a command. *)
Effects_Marked(c, confirmed, seen) == [c EXCEPT !.confirmed = confirmed, !.seen = seen]

LEMMA Effects_Marks ==
  ASSUME NEW c \in Effects_Commands, NEW b \in BOOLEAN, NEW n \in Nat
  PROVE  LET d == Effects_Marked(c, b, n) IN
         /\ d \in Effects_Commands /\ d.confirmed = b /\ d.seen = n
         /\ d.kind = c.kind /\ d.op = c.op /\ d.handle = c.handle /\ d.origin = c.origin
         /\ d.observed = c.observed /\ d.identity = c.identity /\ d.risk = c.risk
<1>1. Effects_Marked(c, b, n) \in Effects_Commands
  BY DEF Effects_Marked, Effects_Commands
<1>2. Effects_Marked(c, b, n).confirmed = b /\ Effects_Marked(c, b, n).seen = n
  BY DEF Effects_Marked, Effects_Commands
<1>3. LET d == Effects_Marked(c, b, n) IN
      /\ d.kind = c.kind /\ d.op = c.op /\ d.handle = c.handle /\ d.origin = c.origin
      /\ d.observed = c.observed /\ d.identity = c.identity /\ d.risk = c.risk
  BY DEF Effects_Marked, Effects_Commands
<1> QED BY <1>1, <1>2, <1>3

LEMMA Effects_Rebuilt ==
  ASSUME NEW c, Effects_Built(c), NEW b \in BOOLEAN, NEW n \in Nat
  PROVE  Effects_Built(Effects_Marked(c, b, n))
<1> DEFINE d == Effects_Marked(c, b, n)
<1>1. c \in Effects_Commands
  BY DEF Effects_Built
<1>2. /\ d \in Effects_Commands /\ d.kind = c.kind /\ d.op = c.op /\ d.handle = c.handle
      /\ d.observed = c.observed /\ d.identity = c.identity /\ d.risk = c.risk
  BY <1>1, Effects_Marks
<1> HIDE DEF d
<1>3. Effects_Built(d)
  BY <1>2 DEF Effects_Built
<1> QED BY <1>3 DEF d

LEMMA Effects_Authorize ==
  ASSUME Effects_IInv, NEW b \in BOOLEAN, Effects!authorize_system_command(b)
  PROVE  Effects_IInv'
<1>1. /\ system_at = "approved" /\ UNCHANGED <<system_world, system_lives, system_policy, system_effect>>
      /\ \/ system_at' = "idle"
         \/ /\ system_at' = "authorized" /\ system_cmd' = [system_cmd EXCEPT !.confirmed = b]
            /\ ~ Effects!requires_confirmation(system_cmd.risk) \/ b
  BY DEF Effects!authorize_system_command, Effects!Same, Effects!Refuse
<1>2. Effects_Typed' /\ Effects!OnTargetWithinCeiling'
  BY <1>1 DEF Effects_IInv, Effects_Typed, Effects!OnTargetWithinCeiling
<1>3. CASE system_at' = "idle"
  BY <1>2, <1>3 DEF Effects_IInv
<1>4. CASE system_at' = "authorized" /\ system_cmd' = [system_cmd EXCEPT !.confirmed = b]
           /\ (~ Effects!requires_confirmation(system_cmd.risk) \/ b)
  <2> DEFINE c == system_cmd
             d == Effects_Marked(c, b, c.seen)
  <2>1. Effects_Built(c) /\ c \in Effects_Commands /\ Effects_Allowed(c) /\ c.seen \in Nat
    BY <1>1 DEF Effects_IInv, Effects_Built, Effects_Commands
  <2>2. system_cmd' = d
    BY <1>4, <2>1 DEF Effects_Marked, Effects_Commands
  <2>3. Effects_Built(d) /\ d.confirmed = b /\ d.risk = c.risk /\ d.origin = c.origin
    BY <2>1, Effects_Rebuilt, Effects_Marks
  <2> HIDE DEF d
  <2>4. Effects_Built(system_cmd)'
    BY <1>1, <2>2, <2>3 DEF Effects_Built
  <2>5. Effects_Authorized(system_cmd)'
    BY <1>1, <1>4, <2>1, <2>2, <2>3
    DEF Effects_Authorized, Effects_Allowed, Effects!requires_confirmation
  <2> QED BY <1>2, <1>4, <2>4, <2>5 DEF Effects_IInv
<1> QED BY <1>1, <1>3, <1>4

(* The adapter looks before it acts: what carries the recorded identity is what was observed. *)
LEMMA Effects_Verify ==
  ASSUME Effects_IInv, Effects!verify
  PROVE  Effects_IInv'
<1>1. /\ system_at = "authorized" /\ UNCHANGED <<system_world, system_lives, system_policy, system_effect>>
      /\ \/ system_at' = "idle"
         \/ /\ system_at' = "verified" /\ system_cmd' = [system_cmd EXCEPT !.seen = system_lives]
            /\ Effects!Is_same(system_cmd)
  BY DEF Effects!verify, Effects!Same, Effects!Refuse
<1>2. Effects_Typed' /\ Effects!OnTargetWithinCeiling'
  BY <1>1 DEF Effects_IInv, Effects_Typed, Effects!OnTargetWithinCeiling
<1>3. CASE system_at' = "idle"
  BY <1>2, <1>3 DEF Effects_IInv
<1>4. CASE system_at' = "verified" /\ system_cmd' = [system_cmd EXCEPT !.seen = system_lives]
           /\ Effects!Is_same(system_cmd)
  <2> DEFINE c == system_cmd
             d == Effects_Marked(c, c.confirmed, system_lives)
             there == system_world[c.handle]
  <2>1. /\ Effects_Built(c) /\ c \in Effects_Commands /\ Effects_Authorized(c)
        /\ c.confirmed \in BOOLEAN /\ system_lives \in Nat
    BY <1>1 DEF Effects_IInv, Effects_Built, Effects_Commands, Effects_Typed
  <2>2. system_cmd' = d
    BY <1>4, <2>1 DEF Effects_Marked, Effects_Commands
  <2>3. /\ Effects_Built(d) /\ d.confirmed = c.confirmed /\ d.seen = system_lives
        /\ d.risk = c.risk /\ d.origin = c.origin /\ d.handle = c.handle
        /\ d.identity = c.identity /\ d.kind = c.kind /\ d.observed = c.observed
    BY <2>1, Effects_Rebuilt, Effects_Marks
  <2>4. there # None /\ c.identity # None =>
           IF c.kind = "process" THEN there = c.observed ELSE there.owner = c.observed.owner
    <3>1. c.kind \in {"process", "window"} /\ c.handle \in system_Handles
      BY <2>1 DEF Effects_Commands
    <3> QED BY <1>4, <2>1, <3>1 DEF Effects!Is_same, Effects_Built
  <2> HIDE DEF d
  <2>5. Effects_Targeted(d, there)
    BY <2>3, <2>4 DEF Effects_Targeted
  <2>6. Effects_Built(system_cmd)'
    BY <1>1, <2>2, <2>3 DEF Effects_Built
  <2>7. Effects_Authorized(system_cmd)'
    BY <1>1, <2>1, <2>2, <2>3 DEF Effects_Authorized, Effects_Allowed
  <2>8. system_cmd'.seen <= system_lives'
        /\ Effects_Targeted(system_cmd', system_world'[system_cmd'.handle])
    BY <1>1, <2>1, <2>2, <2>3, <2>5
  <2> QED BY <1>2, <1>4, <2>6, <2>7, <2>8 DEF Effects_IInv
<1> QED BY <1>1, <1>3, <1>4

(* The effect: on what the handle names now. *)
LEMMA Effects_Apply ==
  ASSUME Effects_IInv, Effects!Apply
  PROVE  Effects_IInv'
<1> DEFINE c == system_cmd
           there == system_world[c.handle]
<1>1. /\ system_at = "verified" /\ system_effect' = [cmd |-> c, on |-> there]
      /\ system_at' \in {"idle", "unsettled"} /\ UNCHANGED <<system_lives, system_policy>>
      /\ system_world' \in {system_world, [system_world EXCEPT ![c.handle] = None]}
  BY DEF Effects!Apply
<1>2. /\ Effects_Built(c) /\ Effects_Authorized(c) /\ Effects_Targeted(c, there)
      /\ c.op \in {"kill", "close"} => c.confirmed
  BY <1>1 DEF Effects_IInv, Effects_Built, Effects_Authorized, Effects!requires_confirmation
<1>3. c.handle \in system_Handles
  BY <1>2 DEF Effects_Built, Effects_Commands
<1>4. Effects_Typed'
  BY <1>1, <1>3 DEF Effects_IInv, Effects_Typed
<1>5. Effects!OnTargetWithinCeiling'
  <2>1. system_effect'.cmd = c /\ system_effect'.on = there
    BY <1>1
  <2> QED BY <1>1, <1>2, <2>1
      DEF Effects!OnTargetWithinCeiling, Effects_Authorized, Effects_Allowed, Effects_Targeted
<1> QED BY <1>1, <1>4, <1>5 DEF Effects_IInv

LEMMA Effects_Idle ==
  ASSUME Effects_IInv, Effects!probe_effect \/ UNCHANGED Effects!vars
  PROVE  Effects_IInv'
<1>1. CASE Effects!probe_effect
  BY <1>1 DEF Effects!probe_effect, Effects!Same, Effects_IInv, Effects_Typed,
     Effects!OnTargetWithinCeiling
<1>2. CASE UNCHANGED Effects!vars
  BY <1>2 DEF Effects!vars, Effects_IInv, Effects_Typed, Effects_Built, Effects_Allowed,
     Effects_Authorized, Effects_Targeted, Effects!OnTargetWithinCeiling
<1> QED BY <1>1, <1>2

(* More grants never take an action away or spare its confirmation, and what a type implies is
   asked for whatever the descriptor declares. *)
LEMMA Effects_Monotone == Effects!CapabilityMonotone
<1> SUFFICES ASSUME NEW d \in Effects!Descriptors, NEW granted \in SUBSET Effects!Capabilities,
                    NEW own \in BOOLEAN, Effects!resolve_descriptor_for(d, granted, own).ok
             PROVE  LET r == Effects!resolve_descriptor_for(d, granted, own) IN
                    /\ d.type = "plugin.mcp.invoke" => "mcp.invoke" \in granted
                    /\ d.type = "plugin.own.x" => "plugin.invoke" \in granted
                    /\ d.type # "plugin.other.x"
                    /\ \A more \in SUBSET Effects!Capabilities :
                          Effects!resolve_descriptor_for(d, granted \cup more, own) = r
  BY DEF Effects!CapabilityMonotone
<1>1. [ok |-> FALSE, confirm |-> FALSE].ok = FALSE
  OBVIOUS
<1>2. /\ ~ (d.type \in {"plugin.own.x", "plugin.other.x"}
            /\ ~ Effects!owns_plugin_namespace(own, d.type))
      /\ Effects!Effective(d) \subseteq granted
      /\ Effects!resolve_descriptor_for(d, granted, own) = Effects!resolve_system(d)
  BY <1>1 DEF Effects!resolve_descriptor_for
<1>3. ASSUME NEW more \in SUBSET Effects!Capabilities
      PROVE  Effects!resolve_descriptor_for(d, granted \cup more, own) = Effects!resolve_system(d)
  BY <1>2 DEF Effects!resolve_descriptor_for
<1>4. d.type = "plugin.mcp.invoke" => "mcp.invoke" \in granted
  BY <1>2 DEF Effects!Effective
<1>5. d.type = "plugin.own.x" => "plugin.invoke" \in granted
  BY <1>2 DEF Effects!Effective
<1>6. d.type # "plugin.other.x"
  BY <1>2 DEF Effects!owns_plugin_namespace
<1> QED BY <1>2, <1>3, <1>4, <1>5, <1>6

LEMMA Effects_Safety == Effects!Spec => []Effects!OnTargetWithinCeiling
<1>1. Effects!Init => Effects_IInv
  BY DEF Effects!Init, Effects_IInv, Effects_Typed, Effects!OnTargetWithinCeiling
<1>2. Effects_IInv /\ [Effects!Next]_(Effects!vars) => Effects_IInv'
  BY Effects_World, Effects_Observe, Effects_Resolve, Effects_Authorize, Effects_Verify,
     Effects_Apply, Effects_Idle DEF Effects!Next
<1>3. Effects_IInv => Effects!OnTargetWithinCeiling
  BY DEF Effects_IInv
<1> QED BY <1>1, <1>2, <1>3, PTL DEF Effects!Spec

LEMMA Effects_Unit ==
  ASSUME [Next]_vars
  PROVE  /\ (unit = "system") = (unit = "system")'
         /\ unit = "system" => [Effects!Next]_(Effects!vars)
<1>1. CASE EffectsStep
  BY <1>1 DEF EffectsStep
<1>2. CASE UNCHANGED vars
  BY <1>2 DEF vars, systemVars, Effects!vars
<1>3. CASE SearchStep \/ RankedStep \/ IconsStep \/ CatalogStep \/ StarsStep \/
      CoordinatorStep \/ FilesStep \/ SettingsStep \/ EditorStep \/ TriggerStep \/ AgentStep
  BY <1>3 DEF SearchStep, RankedStep, IconsStep, CatalogStep, StarsStep, CoordinatorStep,
         FilesStep, SettingsStep, EditorStep, TriggerStep, AgentStep
<1> QED BY <1>1, <1>2, <1>3 DEF Next

(* However the system changes between the observation and the effect, nothing happens above
   the ceiling, unconfirmed, on another target than the one observed unless it came after the
   adapter had looked, or beyond the grants (system.rs, system_adapter.rs, launcher-domain). *)
THEOREM EffectsStayWithinPolicy == Spec => []EffectsWithinPolicy
<1>1. Init => (unit = "system" => Effects!Init)
  BY DEF Init
<1>2. [Next]_vars /\ unit = "system" => [Effects!Next]_(Effects!vars) /\ (unit = "system")'
  BY Effects_Unit
<1>3. [Next]_vars /\ ~(unit = "system") => ~(unit = "system")'
  BY Effects_Unit
<1>4. Effects!Spec => []Effects!OnTargetWithinCeiling
  BY Effects_Safety
<1>5. (unit = "system" => Effects!OnTargetWithinCeiling) => EffectsWithinPolicy
  BY Effects_Monotone DEF EffectsWithinPolicy, WithinGrants
<1> QED BY <1>1, <1>2, <1>3, <1>4, <1>5, PTL DEF Spec, Effects!Spec

-----------------------------------------------------------------------------
(* The file index.                                                           *)

(* Names are ASCII, which lower() folds, and the pattern of a root matches the root. *)
Files_Plain == files_Foreign = {} /\ \A r \in files_Roots : r \in files_Covers[r]

(* A row is of a change not handed over yet, or names its file. *)
Files_Names(p) ==
  \/ Files!IdOf(p) \in files_changed
  \/ /\ Files!IdOf(p) \in DOMAIN files_disk
     /\ p.spelling \in {"lower", files_disk[Files!IdOf(p)]}

LEMMA Files_Sound ==
  Files!OneRowPerFile <=> /\ \A p, q \in files_rows : Files!IdOf(p) = Files!IdOf(q) => p = q
                          /\ \A p \in files_rows : Files_Names(p)
BY DEF Files!OneRowPerFile, Files_Names

(* A file on the disk has one spelling, and what a batch verified another. *)
LEMMA Files_OnDisk ==
  ASSUME NEW p \in Files!OnDisk
  PROVE  /\ Files_Names(p)
         /\ p = Files!Path(Files!IdOf(p), files_disk[Files!IdOf(p)])
BY DEF Files!OnDisk, Files!IdOf, Files!Path, Files_Names

LEMMA Files_Verified ==
  ASSUME NEW ids, NEW p \in Files!Verified(ids)
  PROVE  /\ Files!IdOf(p) \in ids /\ p.spelling = "lower"
         /\ p = Files!Path(Files!IdOf(p), "lower")
BY DEF Files!Verified, Files!IdOf, Files!Path

(* The disk changes under the index, and each change is noted. *)
LEMMA Files_Disk ==
  ASSUME Files!OneRowPerFile, NEW id \in Files!Ids,
         \/ Files!Removes(id)
         \/ \E s \in Files!Spellings : Files!Creates(id, s) \/ Files!Respells(id, s)
  PROVE  Files!OneRowPerFile'
<1>1. files_changed' = files_changed \cup {id} /\ UNCHANGED files_rows
  BY DEF Files!Removes, Files!Creates, Files!Respells, Files!Changes
<1>2. \A i \in DOMAIN files_disk : i # id => i \in DOMAIN files_disk' /\ files_disk'[i] = files_disk[i]
  BY DEF Files!Removes, Files!Creates, Files!Respells
<1>3. ASSUME NEW p \in files_rows
      PROVE  Files_Names(p)'
  BY <1>1, <1>2, <1>3, Files_Sound DEF Files_Names
<1> QED BY <1>1, <1>3 DEF Files!OneRowPerFile, Files_Names

(* A batch replaces the rows of the files that exist and deletes those of the files that do not. *)
LEMMA Files_Batch ==
  ASSUME Files_Plain, Files!OneRowPerFile, NEW batch \in SUBSET files_changed,
         Files!apply_batch(batch)
  PROVE  Files!OneRowPerFile'
<1> DEFINE there == batch \cap DOMAIN files_disk
           new == Files!Verified(there)
           kept == {x \in files_rows : Files!IdOf(x) \notin batch}
<1>1. /\ UNCHANGED files_disk /\ files_changed' = files_changed \ batch
      /\ files_rows' = Files!Delete(Files!Upsert([rows |-> files_rows, fts |-> files_fts], there),
                                    batch \ there).rows
  BY DEF Files!apply_batch
<1>2. \A id, x : Files!Lowered(id, x) <=> Files!IdOf(x) = id
  BY DEF Files!Lowered, Files_Plain
<1>3. \A p \in new : /\ Files!IdOf(p) \in there /\ p.spelling = "lower"
                     /\ p = Files!Path(Files!IdOf(p), "lower")
  BY Files_Verified
<1>4. Files!Upsert([rows |-> files_rows, fts |-> files_fts], there).rows
        = {x \in files_rows : Files!IdOf(x) \notin there} \cup new
  BY <1>2 DEF Files!Upsert
<1>5. files_rows' = {x \in {x \in files_rows : Files!IdOf(x) \notin there} \cup new :
                       Files!IdOf(x) \notin batch \ there}
  BY <1>1, <1>2, <1>4 DEF Files!Delete
<1> HIDE DEF new, there
<1>6. files_rows' = kept \cup new
  BY <1>3, <1>5 DEF there
<1>7. ASSUME NEW p \in files_rows', NEW q \in files_rows', Files!IdOf(p) = Files!IdOf(q)
      PROVE  p = q
  <2>1. CASE p \in kept /\ q \in kept
    BY <1>7, <2>1, Files_Sound
  <2>2. CASE p \in new /\ q \in new
    <3>1. p = Files!Path(Files!IdOf(p), "lower") /\ q = Files!Path(Files!IdOf(q), "lower")
      BY <1>3, <2>2
    <3> QED BY <1>7, <3>1
  <2>3. CASE (p \in kept /\ q \in new) \/ (p \in new /\ q \in kept)
    BY <1>3, <1>7, <2>3 DEF there
  <2>4. (p \in kept \/ p \in new) /\ (q \in kept \/ q \in new)
    BY <1>6, <1>7
  <2> QED BY <2>1, <2>2, <2>3, <2>4
<1>8. ASSUME NEW p \in files_rows'
      PROVE  Files_Names(p)'
  <2>1. CASE p \in kept
    <3>1. Files_Names(p) /\ Files!IdOf(p) \notin batch
      BY <2>1, Files_Sound
    <3> QED BY <1>1, <3>1 DEF Files_Names
  <2>2. CASE p \in new
    BY <1>1, <1>3, <2>2 DEF Files_Names, there
  <2> QED BY <1>6, <2>1, <2>2
<1> QED BY <1>7, <1>8 DEF Files!OneRowPerFile, Files_Names

(* A scan inserts files that are there; a rescan of one root first deletes its rows. *)
LEMMA Files_Scanned ==
  ASSUME NEW roots, NEW readable, NEW scanned \in Files!scan_into(roots, readable)
  PROVE  scanned \subseteq {p \in Files!OnDisk : Files!IdOf(p)[1] \in roots}
BY DEF Files!scan_into, Files!Scannable, Files!kSubset

(* The row of a file that was scanned stays good while the disk does. *)
LEMMA Files_Fresh ==
  ASSUME NEW p \in Files!OnDisk, UNCHANGED files_disk
  PROVE  Files_Names(p)'
BY DEF Files!OnDisk, Files!IdOf, Files!Path, Files_Names

LEMMA Files_Scans ==
  ASSUME Files_Plain, Files!OneRowPerFile, NEW readable \in SUBSET files_Roots,
         Files!rebuild(readable) \/ \E r \in files_Roots : Files!rescan_root(r, readable)
  PROVE  Files!OneRowPerFile'
<1>1. UNCHANGED files_disk
  BY DEF Files!rebuild, Files!rescan_root
<1>2. CASE Files!rebuild(readable)
  <2>1. files_rows' \subseteq Files!OnDisk
    BY <1>2, Files_Scanned DEF Files!rebuild
  <2>2. ASSUME NEW p \in files_rows', NEW q \in files_rows', Files!IdOf(p) = Files!IdOf(q)
        PROVE  p = q
    BY <2>1, <2>2, Files_OnDisk
  <2>3. \A p \in files_rows' : Files_Names(p)'
    BY <1>1, <2>1, Files_Fresh
  <2> QED BY <2>2, <2>3 DEF Files!OneRowPerFile, Files_Names
<1>3. ASSUME NEW r \in files_Roots, Files!rescan_root(r, readable)
      PROVE  Files!OneRowPerFile'
  <2> DEFINE kept == {p \in files_rows : ~ Files!Under(r, p)}
  <2>1. PICK scanned : /\ scanned \in Files!scan_into({r}, readable)
                       /\ files_rows' = kept \cup scanned
    BY <1>3 DEF Files!rescan_root
  <2>2. \A p \in scanned : p \in Files!OnDisk /\ Files!IdOf(p)[1] = r
    BY <2>1, Files_Scanned
  <2>3. \A p \in kept : p \in files_rows /\ Files!IdOf(p)[1] # r
    BY DEF Files!Under, Files_Plain
  <2>4. files_changed' = files_changed \ {id \in Files!Ids : id[1] = r}
    BY <1>3 DEF Files!rescan_root
  <2> HIDE DEF kept
  <2>5. ASSUME NEW p \in files_rows', NEW q \in files_rows', Files!IdOf(p) = Files!IdOf(q)
        PROVE  p = q
    <3>1. CASE p \in kept /\ q \in kept
      BY <2>3, <2>5, <3>1, Files_Sound
    <3>2. CASE p \in scanned /\ q \in scanned
      BY <2>2, <2>5, <3>2, Files_OnDisk
    <3>3. CASE (p \in kept /\ q \in scanned) \/ (p \in scanned /\ q \in kept)
      BY <2>2, <2>3, <2>5, <3>3
    <3>4. (p \in kept \/ p \in scanned) /\ (q \in kept \/ q \in scanned)
      BY <2>1, <2>5
    <3> QED BY <3>1, <3>2, <3>3, <3>4
  <2>6. ASSUME NEW p \in files_rows'
        PROVE  Files_Names(p)'
    <3>1. CASE p \in scanned
      BY <1>1, <2>2, <3>1, Files_Fresh
    <3>2. CASE p \in kept
      <4>1. Files_Names(p) /\ Files!IdOf(p)[1] # r
        BY <2>3, <3>2, Files_Sound
      <4> QED BY <1>1, <2>4, <4>1 DEF Files_Names
    <3> QED BY <2>1, <3>1, <3>2
  <2> QED BY <2>5, <2>6 DEF Files!OneRowPerFile, Files_Names
<1> QED BY <1>2, <1>3

LEMMA Files_Others ==
  ASSUME Files!OneRowPerFile,
         \/ \E q \in Files!Queries : Files!search(q)
         \/ \E c \in files_Names : Files!record_use_titled(c)
         \/ \E damage \in {None, "old", "corrupt"} : Files!open(damage)
         \/ UNCHANGED Files!vars
  PROVE  Files!OneRowPerFile'
<1>1. UNCHANGED <<files_disk, files_changed>> /\ files_rows' \in {files_rows, {}}
  BY DEF Files!search, Files!record_use_titled, Files!open, Files!vars
<1>2. UNCHANGED Files!OnDisk
  BY <1>1 DEF Files!OnDisk
<1> QED BY <1>1, <1>2 DEF Files!OneRowPerFile

LEMMA Files_Safety ==
  ASSUME Files_Plain
  PROVE  Files!Spec => []Files!OneRowPerFile
<1>1. Files!Init => Files!OneRowPerFile
  BY DEF Files!Init, Files!OneRowPerFile
<1>2. Files!OneRowPerFile /\ [Files!Next]_(Files!vars) => Files!OneRowPerFile'
  BY Files_Plain, Files_Disk, Files_Batch, Files_Scans, Files_Others DEF Files!Next
<1> QED BY <1>1, <1>2, PTL DEF Files!Spec

LEMMA Files_Unit ==
  ASSUME [Next]_vars
  PROVE  /\ (unit = "files") = (unit = "files")'
         /\ unit = "files" => [Files!Next]_(Files!vars)
<1>1. CASE FilesStep
  BY <1>1 DEF FilesStep
<1>2. CASE UNCHANGED vars
  BY <1>2 DEF vars, filesVars, Files!vars
<1>3. CASE SearchStep \/ RankedStep \/ IconsStep \/ CatalogStep \/ StarsStep \/
      CoordinatorStep \/ SettingsStep \/ EditorStep \/ TriggerStep \/ EffectsStep \/ AgentStep
  BY <1>3 DEF SearchStep, RankedStep, IconsStep, CatalogStep, StarsStep, CoordinatorStep,
         SettingsStep, EditorStep, TriggerStep, EffectsStep, AgentStep
<1> QED BY <1>1, <1>2, <1>3 DEF Next

(* Whatever batches, scans, rebuilds and damage came before, no file has two rows, and a row
   that does not name its file is of a change that was not handed over yet (apply_batch,
   INV-INDEX-005). *)
THEOREM RowsAreFiles ==
  ASSUME Files_Plain
  PROVE  Spec => []OneRowPerFile
<1>1. Init => (unit = "files" => Files!Init)
  BY DEF Init
<1>2. [Next]_vars /\ unit = "files" => [Files!Next]_(Files!vars) /\ (unit = "files")'
  BY Files_Unit
<1>3. [Next]_vars /\ ~(unit = "files") => ~(unit = "files")'
  BY Files_Unit
<1>4. Files!Spec => []Files!OneRowPerFile
  BY Files_Plain, Files_Safety
<1>5. (unit = "files" => Files!OneRowPerFile) => OneRowPerFile
  BY DEF OneRowPerFile
<1> QED BY <1>1, <1>2, <1>3, <1>4, <1>5, PTL DEF Spec, Files!Spec

-----------------------------------------------------------------------------
(* Numbers in their order, which the bounded agent and the parallel search list. *)

(* p lists the numbers of keep in their order. *)
Lists(p, keep) ==
  /\ {p[i] : i \in DOMAIN p} = keep
  /\ \A i, j \in DOMAIN p : i < j => p[i] < p[j]
Listed(keep, n) == \E p \in UNION {[1 .. m -> keep] : m \in 0 .. n} : Lists(p, keep)

(* One number more, at the end. *)
LEMMA ListedLonger ==
  ASSUME NEW n \in Nat, NEW keep \in SUBSET (1 .. n + 1), Listed(keep \ {n + 1}, n)
  PROVE  Listed(keep, n + 1)
<1> DEFINE rest == keep \ {n + 1}
<1>1. PICK p \in UNION {[1 .. m -> rest] : m \in 0 .. n} : Lists(p, rest)
  BY DEF Listed
<1>2. PICK m \in 0 .. n : p \in [1 .. m -> rest]
  BY <1>1
<1>3. CASE n + 1 \notin keep
  <2>1. rest = keep /\ m \in 0 .. n + 1
    BY <1>3
  <2> QED BY <1>1, <1>2, <2>1 DEF Listed
<1>4. CASE n + 1 \in keep
  <2> DEFINE q == [i \in 1 .. m + 1 |-> IF i = m + 1 THEN n + 1 ELSE p[i]]
  <2>1. m \in Nat /\ m + 1 \in 0 .. n + 1 /\ q \in [1 .. m + 1 -> keep]
    BY <1>2, <1>4
  <2>2. ASSUME NEW i \in 1 .. m
        PROVE  i \in 1 .. m + 1 /\ q[i] = p[i] /\ p[i] \in rest /\ p[i] \in 1 .. n
    <3>1. i \in 1 .. m + 1 /\ i # m + 1
      BY <2>1
    <3>2. p[i] \in rest
      BY <1>2
    <3>3. q[i] = p[i]
      BY <3>1
    <3> HIDE DEF q
    <3>4. p[i] \in 1 .. n + 1 /\ p[i] # n + 1
      BY <3>2
    <3>5. p[i] \in 1 .. n
      BY <3>4
    <3> QED BY <3>1, <3>2, <3>3, <3>5
  <2>3. m + 1 \in DOMAIN q /\ q[m + 1] = n + 1
    BY <2>1
  <2>4. {q[i] : i \in DOMAIN q} = keep
    <3>1. ASSUME NEW k \in keep PROVE \E i \in DOMAIN q : q[i] = k
      <4>1. CASE k = n + 1
        BY <4>1, <2>3
      <4>2. CASE k # n + 1
        <5>1. PICK i \in DOMAIN p : p[i] = k
          BY <4>2, <1>1 DEF Lists
        <5> QED BY <5>1, <1>2, <2>2
      <4> QED BY <4>1, <4>2
    <3> QED BY <3>1, <2>1
  <2>5. ASSUME NEW i \in DOMAIN q, NEW j \in DOMAIN q, i < j PROVE q[i] < q[j]
    <3>1. i \in 1 .. m /\ j \in 1 .. m + 1
      BY <2>1, <2>5
    <3>2. CASE j = m + 1
      <4>1. q[j] = n + 1
        BY <3>2, <2>3
      <4>2. q[i] \in 1 .. n
        BY <3>1, <2>2
      <4> QED BY <4>1, <4>2
    <3>3. CASE j # m + 1
      <4>1. j \in 1 .. m
        BY <3>1, <3>3
      <4> QED BY <3>1, <4>1, <2>2, <2>5, <1>1, <1>2 DEF Lists
    <3> QED BY <3>2, <3>3
  <2>6. Lists(q, keep)
    BY <2>4, <2>5 DEF Lists
  <2> QED BY <2>1, <2>6 DEF Listed
<1> QED BY <1>3, <1>4

LEMMA AllListed ==
  ASSUME NEW n \in Nat, NEW keep \in SUBSET (1 .. n)
  PROVE  Listed(keep, n)
<1> DEFINE Bad == {k \in Nat : \E s \in SUBSET (1 .. k) : ~Listed(s, k)}
<1>1. SUFFICES ASSUME Bad # {} PROVE FALSE
  OBVIOUS
<1>2. PICK m \in Bad : \A k \in Bad : m <= k
  BY <1>1, LeastExists
<1>3. PICK s \in SUBSET (1 .. m) : ~Listed(s, m)
  OBVIOUS
<1>4. CASE m = 0
  <2> DEFINE p == [i \in 1 .. 0 |-> 0]
  <2>1. s = {} /\ DOMAIN p = {} /\ p \in [1 .. 0 -> s] /\ 0 \in 0 .. m
    BY <1>4
  <2>2. Lists(p, s)
    BY <2>1 DEF Lists
  <2> QED BY <1>3, <2>1, <2>2 DEF Listed
<1>5. CASE m # 0
  <2>1. m - 1 \in Nat /\ (m - 1) + 1 = m /\ m - 1 \notin Bad
    BY <1>2, <1>5
  <2>2. s \ {m} \in SUBSET (1 .. m - 1)
    OBVIOUS
  <2>3. Listed(s \ {m}, m - 1)
    BY <2>1, <2>2
  <2> HIDE DEF Bad
  <2>4. Listed(s, m)
    BY <2>1, <2>3, ListedLonger
  <2> QED BY <1>3, <2>4
<1> QED BY <1>4, <1>5

(* The least upper bound is one of the numbers. *)
LEMMA Topped ==
  ASSUME NEW n \in Nat, NEW keep \in SUBSET (1 .. n)
  PROVE  \E top \in 0 .. n : /\ top = CHOOSE x \in keep \cup {0} : \A y \in keep \cup {0} : x >= y
                            /\ keep \subseteq 1 .. top
<1> DEFINE all == keep \cup {0}
<1>1. all \subseteq 0 .. n /\ {n - x : x \in all} \subseteq Nat /\ {n - x : x \in all} # {}
  OBVIOUS
<1>2. PICK d \in {n - x : x \in all} : \A e \in {n - x : x \in all} : d <= e
  BY <1>1, LeastExists
<1>3. PICK t \in all : d = n - t
  BY <1>2
<1>4. ASSUME NEW y \in all PROVE t >= y
  <2>1. n - t <= n - y
    BY <1>2, <1>3
  <2> QED BY <1>1, <2>1
<1> DEFINE top == CHOOSE x \in all : \A y \in all : x >= y
<1>5. top \in all /\ \A y \in all : top >= y
  BY <1>3, <1>4
<1> HIDE DEF top
<1>6. top \in 0 .. n /\ keep \subseteq 1 .. top
  BY <1>1, <1>5
<1> QED BY <1>6 DEF top

-----------------------------------------------------------------------------
(* The bounded agent.                                                        *)

Agent_Commands == UNION {{cat[i] : i \in DOMAIN cat} : cat \in agent_Catalogs}
Agent_Answered == UNION {{a[i] : i \in DOMAIN a} : a \in agent_Answers \ {agent_Down, agent_Refused}}
Agent_Proposals == Agent_Answered \cup {Agent!Proposed(c) : c \in Agent_Commands}
Agent_Pairs == {Agent!Pair(p) : p \in Agent_Proposals}
Agent_Budget == [turns : Nat, executions : Nat, failures : Nat, replans : Nat]
Agent_Execution == [turn : Nat, pair : Agent_Pairs, ok : BOOLEAN]

Agent_Typed ==
  /\ agent_budget \in Agent_Budget
  /\ agent_plan \in Seq(Agent_Proposals) /\ agent_log \in Seq(Agent_Execution)

(* What has failed was observed, and nothing was executed before the first turn. *)
Agent_Seen ==
  /\ agent_status = "Created" => agent_log = <<>>
  /\ \A i \in DOMAIN agent_log :
        /\ agent_log[i].turn <= agent_budget.turns
        /\ ~agent_log[i].ok => agent_log[i].pair \in agent_observation

(* Nothing that failed in an earlier turn is still to be executed. *)
Agent_Avoided ==
  \A i \in DOMAIN agent_log, k \in DOMAIN agent_plan :
     agent_log[i].turn < agent_budget.turns /\ ~agent_log[i].ok
        => Agent!Pair(agent_plan[k]) # agent_log[i].pair

Agent_IInv == Agent_Typed /\ Agent_Seen /\ Agent_Avoided /\ Agent!NeverRevives

LEMMA Agent_Increasing ==
  ASSUME NEW n \in Nat, NEW keep \in SUBSET (1 .. n)
  PROVE  /\ \E m \in Nat : Agent!Increasing(keep) \in [1 .. m -> keep]
         /\ Lists(Agent!Increasing(keep), keep)
<1>1. PICK top \in 0 .. n : top = Agent!Max(keep \cup {0}) /\ keep \subseteq 1 .. top
  BY Topped DEF Agent!Max
<1>2. \E p \in UNION {[1 .. m -> keep] : m \in 0 .. top} :
         /\ {p[i] : i \in DOMAIN p} = keep
         /\ \A i, j \in DOMAIN p : i < j => p[i] < p[j]
  <2>1. top \in Nat /\ keep \in SUBSET (1 .. top)
    BY <1>1
  <2>2. Listed(keep, top)
    BY <2>1, AllListed
  <2> QED BY <2>2 DEF Listed, Lists
<1>3. /\ Agent!Increasing(keep) \in UNION {[1 .. m -> keep] : m \in 0 .. top}
      /\ {Agent!Increasing(keep)[i] : i \in DOMAIN Agent!Increasing(keep)} = keep
      /\ \A i, j \in DOMAIN Agent!Increasing(keep) :
            i < j => Agent!Increasing(keep)[i] < Agent!Increasing(keep)[j]
  BY <1>1, <1>2, Zenon DEF Agent!Increasing
<1> QED BY <1>3 DEF Lists

(* A filter keeps elements. *)
LEMMA Agent_Kept ==
  ASSUME NEW S, NEW s \in Seq(S), NEW keep \in SUBSET DOMAIN s
  PROVE  /\ Agent!Kept(s, keep) \in Seq(S)
         /\ \A i \in DOMAIN Agent!Kept(s, keep) :
               \E j \in keep : Agent!Kept(s, keep)[i] = s[j]
<1> DEFINE at == Agent!Increasing(keep)
<1>1. Len(s) \in Nat /\ keep \in SUBSET (1 .. Len(s)) /\ \A j \in keep : s[j] \in S
  OBVIOUS
<1>2. PICK m \in Nat : at \in [1 .. m -> keep]
  BY <1>1, Agent_Increasing
<1> HIDE DEF at
<1>3. m \in Nat /\ Agent!Kept(s, keep) = [i \in 1 .. m |-> s[at[i]]]
  BY <1>1, <1>2 DEF Agent!Kept, at
<1>4. \A i \in 1 .. m : at[i] \in keep
  BY <1>2
<1>5. Agent!Kept(s, keep) \in [1 .. m -> S]
  BY <1>1, <1>3, <1>4
<1> QED BY <1>3, <1>4, <1>5

LEMMA Agent_Taken ==
  ASSUME NEW S, NEW s \in Seq(S), NEW n \in Nat
  PROVE  /\ Agent!Take(s, n) \in Seq(S)
         /\ \A i \in DOMAIN Agent!Take(s, n) : \E j \in DOMAIN s : Agent!Take(s, n)[i] = s[j]
<1> DEFINE m == IF Len(s) < n THEN Len(s) ELSE n
<1>1. m \in 0 .. Len(s) /\ Agent!Take(s, n) = SubSeq(s, 1, m)
  BY DEF Agent!Take
<1> HIDE DEF m
<1>2. /\ SubSeq(s, 1, m) \in Seq(S) /\ DOMAIN SubSeq(s, 1, m) = 1 .. m
      /\ \A i \in 1 .. m : i \in DOMAIN s /\ SubSeq(s, 1, m)[i] = s[i]
  BY <1>1
<1> QED BY <1>1, <1>2

(* Both planners propose, and a replan leaves out what was observed to fail. *)
LEMMA Agent_Planned ==
  ASSUME NEW cat \in agent_Catalogs, NEW answer \in agent_Answers
  PROVE  Agent!plan_with_diagnostics(answer, cat) \in Seq(Agent_Proposals)
<1>1. Agent!KeywordPlan(cat) \in Seq(Agent_Proposals)
  <2> DEFINE hits == Agent!Kept(cat, {i \in DOMAIN cat : cat[i].hit /\ Agent!Ready(cat[i]) # {}})
  <2>1. cat \in Seq({cat[i] : i \in DOMAIN cat})
    BY InputsAssumption
  <2>2. cat \in Seq(Agent_Commands)
    BY <2>1 DEF Agent_Commands
  <2>3. hits \in Seq(Agent_Commands)
    BY <2>2, Agent_Kept
  <2> HIDE DEF hits
  <2>4. Len(hits) \in Nat /\ DOMAIN hits = 1 .. Len(hits)
        /\ \A i \in DOMAIN hits : Agent!Proposed(hits[i]) \in Agent_Proposals
    BY <2>3 DEF Agent_Proposals
  <2>5. [i \in DOMAIN hits |-> Agent!Proposed(hits[i])] \in Seq(Agent_Proposals)
    BY <2>4
  <2> QED BY <2>5 DEF Agent!KeywordPlan, hits
<1>2. Agent!fallback_or_empty(cat) \in Seq(Agent_Proposals)
  <2>1. <<>> \in Seq(Agent_Proposals)
    OBVIOUS
  <2> QED BY <1>1, <2>1 DEF Agent!fallback_or_empty
<1>3. CASE answer \notin {agent_Down, agent_Refused}
  <2> DEFINE cut == Agent!Take(answer, agent_max_proposals)
             keep == {i \in DOMAIN cut : Agent!route_exists(cat, cut[i]) /\ cut[i].input # "other"}
  <2>1. answer \in Seq({answer[i] : i \in DOMAIN answer}) /\ agent_max_proposals \in Nat
    BY <1>3, InputsAssumption
  <2>2. answer \in Seq(Agent_Proposals)
    BY <1>3, <2>1 DEF Agent_Proposals, Agent_Answered
  <2>3. cut \in Seq(Agent_Proposals)
    BY <2>1, <2>2, Agent_Taken
  <2>4. Agent!Kept(cut, keep) \in Seq(Agent_Proposals)
    BY <2>3, Agent_Kept
  <2>5. Agent!plan_with_diagnostics(answer, cat) = Agent!Kept(cut, keep)
    BY <1>3 DEF Agent!plan_with_diagnostics
  <2> QED BY <2>4, <2>5
<1>4. CASE answer \in {agent_Down, agent_Refused}
  BY <1>2, <1>4 DEF Agent!plan_with_diagnostics
<1> QED BY <1>3, <1>4

LEMMA Agent_Replanned ==
  ASSUME NEW cat \in agent_Catalogs, NEW answer \in agent_Answers
  PROVE  /\ Agent!replan(answer, cat) \in Seq(Agent_Proposals)
         /\ \A k \in DOMAIN Agent!replan(answer, cat) :
               Agent!Pair(Agent!replan(answer, cat)[k]) \notin agent_observation
<1> DEFINE all == Agent!plan_with_diagnostics(answer, cat)
           keep == {i \in DOMAIN all : Agent!Pair(all[i]) \notin agent_observation}
<1>1. all \in Seq(Agent_Proposals)
  BY Agent_Planned
<1>2. Agent!replan(answer, cat) = Agent!Kept(all, keep)
  BY DEF Agent!replan
<1> HIDE DEF all
<1>3. /\ Agent!Kept(all, keep) \in Seq(Agent_Proposals)
      /\ \A i \in DOMAIN Agent!Kept(all, keep) :
            \E j \in keep : Agent!Kept(all, keep)[i] = all[j]
  <2>1. keep \in SUBSET DOMAIN all
    OBVIOUS
  <2> HIDE DEF keep
  <2> QED BY <1>1, <2>1, Agent_Kept
<1> QED BY <1>2, <1>3

LEMMA Agent_Logged ==
  ASSUME NEW l \in Seq(Agent_Execution)
  PROVE  \A i \in DOMAIN l : l[i].turn \in Nat
<1>1. \A i \in DOMAIN l : l[i] \in Agent_Execution
  OBVIOUS
<1> QED BY <1>1 DEF Agent_Execution

(* Counting failures, replans, executions or turns keeps the other numbers. *)
LEMMA Agent_Counted ==
  ASSUME NEW b \in Agent_Budget, NEW f \in Nat
  PROVE  /\ [b EXCEPT !.failures = f] \in Agent_Budget
         /\ [b EXCEPT !.failures = f].turns = b.turns
         /\ [b EXCEPT !.failures = f, !.replans = @ + 1] \in Agent_Budget
         /\ [b EXCEPT !.failures = f, !.replans = @ + 1].turns = b.turns
         /\ [b EXCEPT !.executions = @ + 1] \in Agent_Budget
         /\ [b EXCEPT !.executions = @ + 1].turns = b.turns
         /\ [b EXCEPT !.turns = @ + 1] \in Agent_Budget
         /\ [b EXCEPT !.turns = @ + 1].turns = b.turns + 1
         /\ b.turns \in Nat /\ b.failures \in Nat
<1>1. b.replans + 1 \in Nat /\ b.executions + 1 \in Nat /\ b.turns + 1 \in Nat
  BY DEF Agent_Budget
<1> QED BY <1>1 DEF Agent_Budget

LEMMA Agent_Starts ==
  ASSUME Agent_IInv, Agent!StartTurn
  PROVE  Agent_IInv'
<1>1. PICK cat \in agent_Catalogs, answer \in agent_Answers :
        agent_plan' = Agent!Take(IF agent_status = "Replanning" THEN Agent!replan(answer, cat)
                                 ELSE Agent!plan_with_diagnostics(answer, cat),
                                 agent_max_proposals_per_turn)
  BY DEF Agent!StartTurn
<1> DEFINE all == IF agent_status = "Replanning" THEN Agent!replan(answer, cat)
                  ELSE Agent!plan_with_diagnostics(answer, cat)
<1>2. all \in Seq(Agent_Proposals) /\ agent_max_proposals_per_turn \in Nat
  BY Agent_Planned, Agent_Replanned, InputsAssumption
<1>3. agent_status = "Replanning" =>
         \A k \in DOMAIN all : Agent!Pair(all[k]) \notin agent_observation
  BY Agent_Replanned
<1>4. agent_plan' = Agent!Take(all, agent_max_proposals_per_turn)
  BY <1>1
<1> HIDE DEF all
<1>5. /\ agent_plan' \in Seq(Agent_Proposals)
      /\ \A k \in DOMAIN agent_plan' : \E j \in DOMAIN all : agent_plan'[k] = all[j]
  BY <1>2, <1>4, Agent_Taken
<1>6. /\ UNCHANGED <<agent_log, agent_observation>> /\ agent_status' # "Created"
      /\ agent_budget' = [agent_budget EXCEPT !.turns = @ + 1]
      /\ agent_status \in {"Created", "Replanning"}
  BY DEF Agent!StartTurn, Agent!BetweenTurns
<1>7. /\ agent_budget' \in Agent_Budget
      /\ agent_budget'.turns = agent_budget.turns + 1 /\ agent_budget.turns \in Nat
  BY <1>6, Agent_Counted DEF Agent_IInv, Agent_Typed
<1>8. Agent_Typed'
  BY <1>5, <1>6, <1>7 DEF Agent_IInv, Agent_Typed
<1>9. \A i \in DOMAIN agent_log : agent_log[i].turn \in Nat
  BY Agent_Logged DEF Agent_IInv, Agent_Typed
<1>10. Agent_Seen'
  BY <1>6, <1>7, <1>9 DEF Agent_IInv, Agent_Seen
<1>11. Agent_Avoided'
  <2>1. CASE agent_status = "Created"
    <3>1. DOMAIN agent_log' = {}
      BY <2>1, <1>6 DEF Agent_IInv, Agent_Seen
    <3> QED BY <3>1 DEF Agent_Avoided
  <2>2. CASE agent_status = "Replanning"
    <3>1. \A k \in DOMAIN agent_plan' : Agent!Pair(agent_plan'[k]) \notin agent_observation
      BY <2>2, <1>3, <1>5
    <3>2. \A i \in DOMAIN agent_log : ~agent_log[i].ok => agent_log[i].pair \in agent_observation
      BY DEF Agent_IInv, Agent_Seen
    <3>3. ASSUME NEW i \in DOMAIN agent_log, NEW k \in DOMAIN agent_plan', ~agent_log[i].ok
          PROVE  Agent!Pair(agent_plan'[k]) # agent_log[i].pair
      BY <3>1, <3>2, <3>3
    <3> QED BY <3>3, <1>6 DEF Agent_Avoided, Agent!Pair
  <2> QED BY <2>1, <2>2, <1>6
<1>12. Agent!NeverRevives'
  BY <1>6 DEF Agent_IInv, Agent!NeverRevives
<1> QED BY <1>8, <1>10, <1>11, <1>12 DEF Agent_IInv

LEMMA Agent_Executes ==
  ASSUME Agent_IInv, Agent!Execute
  PROVE  Agent_IInv'
<1> DEFINE head == Head(agent_plan)
<1>1. /\ agent_plan \in Seq(Agent_Proposals) /\ agent_plan # <<>> /\ agent_plan' = Tail(agent_plan)
      /\ agent_status = "Executing" /\ UNCHANGED agent_status
      /\ agent_budget' = [agent_budget EXCEPT !.executions = @ + 1]
  BY DEF Agent_IInv, Agent_Typed, Agent!Execute
<1>2. /\ head \in Agent_Proposals /\ Len(agent_plan) \in Nat /\ 1 \in DOMAIN agent_plan /\ head = agent_plan[1]
      /\ agent_plan' \in Seq(Agent_Proposals)
      /\ \A k \in DOMAIN agent_plan' : k + 1 \in DOMAIN agent_plan /\ agent_plan'[k] = agent_plan[k + 1]
  BY <1>1
<1>3. PICK ok \in BOOLEAN :
        /\ agent_log' = Append(agent_log, [turn |-> agent_budget.turns, pair |-> Agent!Pair(head), ok |-> ok])
        /\ agent_observation' = IF ok THEN agent_observation ELSE Agent!Observed(head)
  BY DEF Agent!Execute, Agent!Outcomes
<1> DEFINE e == [turn |-> agent_budget.turns, pair |-> Agent!Pair(head), ok |-> ok]
<1> HIDE DEF head
<1>4. /\ agent_budget' \in Agent_Budget
      /\ agent_budget'.turns = agent_budget.turns /\ agent_budget.turns \in Nat
  BY <1>1, Agent_Counted DEF Agent_IInv, Agent_Typed
<1>5. e \in Agent_Execution
  BY <1>2, <1>4 DEF Agent_Execution, Agent_Pairs
<1>6. e.turn = agent_budget.turns /\ e.pair = Agent!Pair(head) /\ e.ok = ok
  OBVIOUS
<1>7. agent_log \in Seq(Agent_Execution) /\ agent_log' = Append(agent_log, e)
  BY <1>3 DEF Agent_IInv, Agent_Typed
<1> HIDE DEF e
<1>8. /\ agent_log' \in Seq(Agent_Execution) /\ Len(agent_log) \in Nat
      /\ DOMAIN agent_log' = DOMAIN agent_log \cup {Len(agent_log) + 1}
      /\ \A i \in DOMAIN agent_log : agent_log'[i] = agent_log[i]
      /\ agent_log'[Len(agent_log) + 1] = e /\ Len(agent_log) + 1 \notin DOMAIN agent_log
  BY <1>5, <1>7
<1>9. /\ agent_observation \subseteq agent_observation'
      /\ ~e.ok => e.pair \in agent_observation'
  BY <1>3, <1>6 DEF Agent!Observed
<1>10. Agent_Typed'
  BY <1>2, <1>4, <1>8 DEF Agent_Typed
<1>11. Agent_Seen'
  <2>1. ASSUME NEW i \in DOMAIN agent_log'
        PROVE  /\ agent_log'[i].turn <= agent_budget'.turns
               /\ ~agent_log'[i].ok => agent_log'[i].pair \in agent_observation'
    <3>1. CASE i \in DOMAIN agent_log
      <4>1. agent_log'[i] = agent_log[i]
        BY <3>1, <1>8
      <4> QED BY <3>1, <4>1, <1>4, <1>9 DEF Agent_IInv, Agent_Seen
    <3>2. CASE i = Len(agent_log) + 1
      BY <3>2, <1>4, <1>6, <1>8, <1>9
    <3> QED BY <3>1, <3>2, <1>8
  <2> QED BY <2>1, <1>1 DEF Agent_Seen
<1>12. Agent_Avoided'
  <2>1. ASSUME NEW i \in DOMAIN agent_log', NEW k \in DOMAIN agent_plan',
               agent_log'[i].turn < agent_budget'.turns, ~agent_log'[i].ok
        PROVE  Agent!Pair(agent_plan'[k]) # agent_log'[i].pair
    <3>1. i \in DOMAIN agent_log
      BY <2>1, <1>4, <1>6, <1>8
    <3>2. agent_log'[i] = agent_log[i]
      BY <3>1, <1>8
    <3>3. k + 1 \in DOMAIN agent_plan /\ agent_plan'[k] = agent_plan[k + 1]
      BY <1>2
    <3> QED BY <2>1, <3>1, <3>2, <3>3, <1>4 DEF Agent_IInv, Agent_Avoided
  <2> QED BY <2>1 DEF Agent_Avoided, Agent!Pair
<1>13. Agent!NeverRevives'
  <2>1. ASSUME NEW i \in DOMAIN agent_log', NEW j \in DOMAIN agent_log',
               agent_log'[i].turn < agent_log'[j].turn, ~agent_log'[i].ok
        PROVE  agent_log'[j].pair # agent_log'[i].pair
    <3>1. CASE i \in DOMAIN agent_log /\ j \in DOMAIN agent_log
      <4>1. agent_log'[i] = agent_log[i] /\ agent_log'[j] = agent_log[j]
        BY <3>1, <1>8
      <4> QED BY <2>1, <3>1, <4>1 DEF Agent_IInv, Agent!NeverRevives
    <3>2. CASE i \in DOMAIN agent_log /\ j = Len(agent_log) + 1
      <4>1. agent_log'[i] = agent_log[i] /\ agent_log'[j] = e
        BY <3>2, <1>8
      <4> QED BY <2>1, <3>2, <4>1, <1>2, <1>6 DEF Agent_IInv, Agent_Avoided
    <3>3. CASE i = Len(agent_log) + 1
      <4>1. agent_log'[i].turn = agent_budget.turns
        BY <3>3, <1>6, <1>8
      <4>2. agent_log'[j].turn <= agent_budget.turns /\ agent_log'[j].turn \in Nat
        BY <1>11, <1>4, <1>8, Agent_Logged DEF Agent_Seen
      <4> QED BY <2>1, <4>1, <4>2, <1>4
    <3> QED BY <3>1, <3>2, <3>3, <1>8
  <2> QED BY <2>1 DEF Agent!NeverRevives
<1> QED BY <1>10, <1>11, <1>12, <1>13 DEF Agent_IInv

LEMMA Agent_Others ==
  ASSUME Agent_IInv, Agent!NoMoreTurns \/ Agent!EndTurn \/ Agent!TimePasses \/ UNCHANGED Agent!vars
  PROVE  Agent_IInv'
<1>1. /\ UNCHANGED <<agent_log, agent_observation>> /\ agent_plan' \in {agent_plan, <<>>}
      /\ agent_status' = "Created" => agent_status = "Created"
      /\ agent_budget'.turns = agent_budget.turns
      /\ agent_budget' \in Agent_Budget
  <2>1. agent_budget \in Agent_Budget
    BY DEF Agent_IInv, Agent_Typed
  <2>2. CASE Agent!NoMoreTurns \/ Agent!TimePasses \/ UNCHANGED Agent!vars
    BY <2>1, <2>2 DEF Agent!NoMoreTurns, Agent!TimePasses, Agent!vars
  <2>3. CASE Agent!EndTurn
    <3>1. /\ UNCHANGED <<agent_log, agent_observation>> /\ agent_plan' = <<>>
          /\ agent_status' \in {"Completed", "Replanning", "BudgetExhausted"}
      BY <2>3 DEF Agent!EndTurn
    <3>2. PICK failures \in {agent_budget.failures, agent_budget.failures + 1} :
             \/ agent_budget' = [agent_budget EXCEPT !.failures = failures]
             \/ agent_budget' = [agent_budget EXCEPT !.failures = failures, !.replans = @ + 1]
      BY <2>3 DEF Agent!EndTurn
    <3>3. failures \in Nat
      <4>1. agent_budget.failures \in Nat
        BY <2>1 DEF Agent_Budget
      <4> QED BY <3>2, <4>1
    <3>4. /\ agent_budget' \in Agent_Budget
          /\ agent_budget'.turns = agent_budget.turns
      <4>1. CASE agent_budget' = [agent_budget EXCEPT !.failures = failures]
        BY <2>1, <3>3, <4>1 DEF Agent_Budget
      <4>2. CASE agent_budget' = [agent_budget EXCEPT !.failures = failures, !.replans = @ + 1]
        <5>1. agent_budget.replans + 1 \in Nat
          BY <2>1 DEF Agent_Budget
        <5>2. agent_budget' = [agent_budget EXCEPT !.failures = failures,
                                                   !.replans = agent_budget.replans + 1]
          BY <4>2
        <5> QED BY <2>1, <3>3, <5>1, <5>2 DEF Agent_Budget
      <4> QED BY <3>2, <4>1, <4>2
    <3> QED BY <3>1, <3>4
  <2> QED BY <2>2, <2>3
<1>2. <<>> \in Seq(Agent_Proposals) /\ DOMAIN <<>> = {}
  OBVIOUS
<1>3. Agent_Typed'
  BY <1>1, <1>2 DEF Agent_IInv, Agent_Typed
<1>4. Agent_Avoided'
  BY <1>1, <1>2 DEF Agent_IInv, Agent_Avoided, Agent!Pair
<1>5. Agent_Seen' /\ Agent!NeverRevives'
  BY <1>1 DEF Agent_IInv, Agent_Seen, Agent!NeverRevives
<1> QED BY <1>3, <1>4, <1>5 DEF Agent_IInv

LEMMA Agent_Safety == Agent!Init /\ [][Agent!Next]_(Agent!vars) => []Agent!NeverRevives
<1>1. Agent!Init => Agent_IInv
  BY DEF Agent!Init, Agent_IInv, Agent_Typed, Agent_Budget, Agent_Seen, Agent_Avoided, Agent!NeverRevives
<1>2. Agent_IInv /\ [Agent!Next]_(Agent!vars) => Agent_IInv'
  BY Agent_Starts, Agent_Executes, Agent_Others DEF Agent!Next, Agent!Loop
<1>3. Agent_IInv => Agent!NeverRevives
  BY DEF Agent_IInv
<1> QED BY <1>1, <1>2, <1>3, PTL

LEMMA Agent_Unit ==
  ASSUME [Next]_vars
  PROVE  /\ (unit = "agent") = (unit = "agent")'
         /\ unit = "agent" => [Agent!Next]_(Agent!vars)
<1>1. CASE AgentStep
  BY <1>1 DEF AgentStep
<1>2. CASE UNCHANGED vars
  BY <1>2 DEF vars, agentVars, Agent!vars
<1>3. CASE SearchStep \/ RankedStep \/ IconsStep \/ CatalogStep \/ StarsStep \/
      CoordinatorStep \/ FilesStep \/ SettingsStep \/ EditorStep \/ TriggerStep \/ EffectsStep
  BY <1>3 DEF SearchStep, RankedStep, IconsStep, CatalogStep, StarsStep, CoordinatorStep,
         FilesStep, SettingsStep, EditorStep, TriggerStep, EffectsStep
<1> QED BY <1>1, <1>2, <1>3 DEF Next

(* Whatever the model answers and however the catalog changes, an action that failed in one
   turn is not executed in a later one (agent.rs, INV-AGENT-007). *)
THEOREM FailuresStayDown == Spec => []NeverRevives
<1>1. Init => (unit = "agent" => Agent!Init)
  BY DEF Init
<1>2. [Next]_vars /\ unit = "agent" => [Agent!Next]_(Agent!vars) /\ (unit = "agent")'
  BY Agent_Unit
<1>3. [Next]_vars /\ ~(unit = "agent") => ~(unit = "agent")'
  BY Agent_Unit
<1>4. Agent!Init /\ [][Agent!Next]_(Agent!vars) => []Agent!NeverRevives
  BY Agent_Safety
<1>5. (unit = "agent" => Agent!NeverRevives) => NeverRevives
  BY DEF NeverRevives
<1> QED BY <1>1, <1>2, <1>3, <1>4, <1>5, PTL DEF Spec

-----------------------------------------------------------------------------
(* The parallel search.                                                      *)

Coordinator_Range(s) == {s[k] : k \in DOMAIN s}

(* A provider has answered, or its panic was noted and has poisoned it. *)
Coordinator_Done(i) ==
  \/ i \in DOMAIN coordinator_results /\ coordinator_results[i] = i
  \/ i \in coordinator_errors /\ i \in coordinator_poisoned

(* A worker at position w is still to come to position k. *)
Coordinator_Ahead(k, w) == \E m \in Nat : k = w + m * Len(coordinator_workers)

(* Nobody selected is forgotten, unless a worker was killed or has seen the cancel. *)
Coordinator_Covered ==
  ~coordinator_noticed /\ (\A g \in DOMAIN coordinator_workers : coordinator_workers[g] # None)
     => \A k \in DOMAIN coordinator_request.selected :
           \/ Coordinator_Done(coordinator_request.selected[k])
           \/ \E g \in DOMAIN coordinator_workers : Coordinator_Ahead(k, coordinator_workers[g])

Coordinator_Typed ==
  LET sel == coordinator_request.selected IN
  /\ sel \in Seq(Nat) /\ Coordinator_Range(sel) \subseteq 1 .. Len(coordinator_Providers)
  /\ sel = Coordinator!Increasing(Coordinator_Range(sel))
  /\ Len(coordinator_workers) \in Nat \ {0}
  /\ coordinator_workers \in [1 .. Len(coordinator_workers) -> (Nat \ {0}) \cup {None}]
  /\ coordinator_results \in Seq(Nat \cup {None})
  /\ \A i \in DOMAIN coordinator_results :
        \/ coordinator_results[i] = None
        \/ coordinator_results[i] = i /\ i \in Coordinator_Range(sel)

Coordinator_IInv ==
  /\ coordinator_request # None => Coordinator_Typed /\ Coordinator_Covered
  /\ Coordinator!CompleteIsAll

LEMMA Coordinator_Increasing ==
  ASSUME NEW n \in Nat, NEW keep \in SUBSET (1 .. n)
  PROVE  /\ \E m \in Nat : Coordinator!Increasing(keep) \in [1 .. m -> keep]
         /\ Lists(Coordinator!Increasing(keep), keep)
<1>1. PICK top \in 0 .. n : top = Coordinator!Max(keep \cup {0}) /\ keep \subseteq 1 .. top
  BY Topped DEF Coordinator!Max
<1>2. \E p \in UNION {[1 .. m -> keep] : m \in 0 .. top} :
         /\ {p[i] : i \in DOMAIN p} = keep
         /\ \A i, j \in DOMAIN p : i < j => p[i] < p[j]
  <2>1. top \in Nat /\ keep \in SUBSET (1 .. top)
    BY <1>1
  <2>2. Listed(keep, top)
    BY <2>1, AllListed
  <2> QED BY <2>2 DEF Listed, Lists
<1>3. /\ Coordinator!Increasing(keep) \in UNION {[1 .. m -> keep] : m \in 0 .. top}
      /\ {Coordinator!Increasing(keep)[i] : i \in DOMAIN Coordinator!Increasing(keep)} = keep
      /\ \A i, j \in DOMAIN Coordinator!Increasing(keep) :
            i < j => Coordinator!Increasing(keep)[i] < Coordinator!Increasing(keep)[j]
  BY <1>1, <1>2, Zenon DEF Coordinator!Increasing
<1> QED BY <1>3 DEF Lists

(* With n workers, every position belongs to one of them. *)
LEMMA Coordinator_Spread ==
  ASSUME NEW n \in Nat \ {0}, NEW k \in Nat \ {0}
  PROVE  \E g \in 1 .. n, m \in Nat : k = g + m * n
<1> DEFINE Bad == {j \in Nat \ {0} : ~\E g \in 1 .. n, m \in Nat : j = g + m * n}
<1>1. SUFFICES ASSUME Bad # {} PROVE FALSE
  OBVIOUS
<1>2. PICK b \in Bad : \A j \in Bad : b <= j
  BY <1>1, LeastExists
<1>3. b > n
  <2>1. CASE b <= n
    <3>1. b \in 1 .. n /\ b = b + 0 * n
      BY <2>1
    <3> QED BY <3>1
  <2> QED BY <2>1
<1>4. b - n \in Nat \ {0} /\ b - n \notin Bad
  <2>1. b \in Nat \ {0}
    OBVIOUS
  <2> HIDE DEF Bad
  <2>2. b - n \in Nat \ {0} /\ ~(b <= b - n)
    BY <1>3, <2>1
  <2>3. b - n \notin Bad
    BY <1>2, <2>2
  <2> QED BY <2>2, <2>3
<1>5. PICK g \in 1 .. n, m \in Nat : b - n = g + m * n
  BY <1>4
<1>6. m + 1 \in Nat /\ b = g + (m + 1) * n
  BY <1>5
<1> QED BY <1>6

(* An answer, a panic and what follows leave what was done. *)
LEMMA Coordinator_Moves ==
  ASSUME Coordinator_Typed, Coordinator_Covered, NEW g \in DOMAIN coordinator_workers,
         coordinator_workers[g] # None, UNCHANGED <<coordinator_request, coordinator_noticed>>,
         coordinator_workers' = [coordinator_workers EXCEPT ![g] = @ + Len(coordinator_workers)],
         NEW x, x = coordinator_request.selected[coordinator_workers[g]], Coordinator_Done(x)',
         \A i : Coordinator_Done(i) => Coordinator_Done(i)'
  PROVE  Coordinator_Covered'
<1> DEFINE w == coordinator_workers[g]
           n == Len(coordinator_workers)
<1>1. /\ n \in Nat \ {0} /\ DOMAIN coordinator_workers = 1 .. n /\ w \in Nat
      /\ coordinator_workers' \in [1 .. n -> (Nat \ {0}) \cup {None}]
      /\ coordinator_workers'[g] = w + n
      /\ \A h \in DOMAIN coordinator_workers : h # g => coordinator_workers'[h] = coordinator_workers[h]
  <2>1. /\ n \in Nat \ {0} /\ coordinator_workers \in [1 .. n -> (Nat \ {0}) \cup {None}]
    BY DEF Coordinator_Typed
  <2> HIDE DEF n
  <2>2. w \in Nat \ {0} /\ w + n \in Nat \ {0}
    BY <2>1
  <2> QED BY <2>1, <2>2 DEF n
<1>2. Len(coordinator_workers') = n /\ DOMAIN coordinator_workers' = 1 .. n
  BY <1>1
<1>3. SUFFICES ASSUME ~coordinator_noticed', \A h \in 1 .. n : coordinator_workers'[h] # None,
                      NEW k \in DOMAIN coordinator_request.selected,
                      ~Coordinator_Done(coordinator_request.selected[k])'
               PROVE  \E h \in 1 .. n : \E m \in Nat : k = coordinator_workers'[h] + m * n
  BY <1>2 DEF Coordinator_Covered, Coordinator_Ahead, Coordinator_Done
<1>4. \A h \in DOMAIN coordinator_workers : coordinator_workers[h] # None
  BY <1>1, <1>3
<1>5. PICK h \in 1 .. n, m \in Nat : k = coordinator_workers[h] + m * n
  BY <1>1, <1>3, <1>4 DEF Coordinator_Covered, Coordinator_Ahead
<1>6. CASE h # g
  BY <1>1, <1>5, <1>6
<1>7. CASE h = g
  <2>1. m # 0
    <3>1. SUFFICES ASSUME m = 0 PROVE FALSE
      OBVIOUS
    <3>2. m * n = 0
      BY <1>1, <3>1
    <3> HIDE DEF n
    <3>3. k = coordinator_workers[g]
      BY <1>1, <1>5, <1>7, <3>2
    <3>4. coordinator_request'.selected[k] = x
      BY <3>3
    <3>5. ~ Coordinator_Done(x)'
      BY <1>3, <3>4
    <3> QED BY <3>5
  <2>2. m - 1 \in Nat /\ m * n = n + (m - 1) * n /\ m * n \in Nat /\ (m - 1) * n \in Nat
    BY <1>1, <2>1
  <2>3. k = (w + n) + (m - 1) * n
    BY <1>1, <1>5, <1>7, <2>2
  <2> QED BY <1>1, <1>7, <2>2, <2>3
<1> QED BY <1>6, <1>7

(* What is said of the last outcome stays true. *)
LEMMA Coordinator_Said ==
  ASSUME Coordinator!CompleteIsAll, UNCHANGED coordinator_outcome,
         coordinator_poisoned \subseteq coordinator_poisoned'
  PROVE  Coordinator!CompleteIsAll'
BY DEF Coordinator!CompleteIsAll, Coordinator!Range

LEMMA Coordinator_Begins ==
  ASSUME NEW q \in coordinator_Queries, Coordinator!search(q)
  PROVE  Coordinator_IInv'
<1> DEFINE sel == Coordinator!Selected(q)
           keep == {i \in DOMAIN coordinator_Providers : Coordinator!intent_routes_to(q, i)}
           n == Coordinator!GroupsOf(sel)
<1>1. Len(coordinator_Providers) \in Nat /\ keep \in SUBSET (1 .. Len(coordinator_Providers))
  BY InputsAssumption
<1>2. sel = Coordinator!Increasing(keep)
  BY DEF Coordinator!Selected
<1> HIDE DEF keep
<1>3. PICK m \in Nat : sel \in [1 .. m -> keep]
  BY <1>1, <1>2, Coordinator_Increasing
<1>4. Coordinator_Range(sel) = keep
  <2>1. Lists(Coordinator!Increasing(keep), keep)
    BY <1>1, Coordinator_Increasing
  <2>2. Lists(sel, keep)
    BY <1>2, <2>1
  <2> HIDE DEF sel
  <2> QED BY <2>2 DEF Lists, Coordinator_Range
<1>5. /\ coordinator_request' = [selected |-> sel, intent |-> Coordinator!detect_intent(q)]
      /\ coordinator_workers' = [g \in 1 .. n |-> g]
      /\ coordinator_results' = [slot \in DOMAIN sel |-> None] /\ coordinator_outcome' = None
  BY DEF Coordinator!search
<1>6. sel \in [1 .. m -> Nat] /\ sel \in Seq(Nat) /\ DOMAIN sel = 1 .. m /\ Len(sel) = m
  <2> HIDE DEF sel
  <2>1. keep \subseteq Nat
    BY <1>1
  <2>2. sel \in [1 .. m -> Nat]
    BY <1>3, <2>1
  <2> QED BY <2>2
<1>7. n \in Nat \ {0}
  BY <1>6, InputsAssumption DEF Coordinator!GroupsOf
<1> HIDE DEF sel, n
<1>8. /\ DOMAIN coordinator_workers' = 1 .. n /\ Len(coordinator_workers') = n
      /\ coordinator_workers' \in [1 .. n -> (Nat \ {0}) \cup {None}]
      /\ \A g \in 1 .. n : coordinator_workers'[g] = g
  BY <1>5, <1>7
<1>9. coordinator_request'.selected = sel
  BY <1>5
<1>10. Coordinator_Typed'
  <2>1. /\ coordinator_results' \in [1 .. m -> Nat \cup {None}]
        /\ \A i \in DOMAIN coordinator_results' : coordinator_results'[i] = None
    BY <1>5, <1>6
  <2>2. coordinator_results' \in Seq(Nat \cup {None})
    BY <2>1
  <2>3. /\ sel \in Seq(Nat) /\ sel = Coordinator!Increasing(Coordinator_Range(sel))
        /\ Coordinator_Range(sel) \subseteq 1 .. Len(coordinator_Providers)
    BY <1>1, <1>2, <1>4, <1>6
  <2>4. /\ Len(coordinator_workers') \in Nat \ {0}
        /\ coordinator_workers' \in [1 .. Len(coordinator_workers') -> (Nat \ {0}) \cup {None}]
    BY <1>7, <1>8
  <2> QED BY <2>1, <2>2, <2>3, <2>4, <1>9 DEF Coordinator_Typed, Coordinator_Range
<1>11. Coordinator_Covered'
  <2>1. ASSUME NEW k \in DOMAIN sel
        PROVE  \E g \in 1 .. n : \E i \in Nat : k = coordinator_workers'[g] + i * n
    <3>1. k \in Nat \ {0}
      BY <1>6
    <3>2. PICK g \in 1 .. n, i \in Nat : k = g + i * n
      BY <3>1, <1>7, Coordinator_Spread
    <3> QED BY <3>2, <1>8
  <2> QED BY <2>1, <1>8, <1>9 DEF Coordinator_Covered, Coordinator_Ahead
<1>12. Coordinator!CompleteIsAll'
  BY <1>5 DEF Coordinator!CompleteIsAll
<1> QED BY <1>10, <1>11, <1>12 DEF Coordinator_IInv

LEMMA Coordinator_Asks ==
  ASSUME Coordinator_IInv, NEW g, Coordinator!Ask(g)
  PROVE  Coordinator_IInv'
<1>1. /\ coordinator_request # None /\ g \in DOMAIN coordinator_workers
      /\ UNCHANGED <<coordinator_request, coordinator_results, coordinator_errors,
                     coordinator_poisoned, coordinator_outcome>>
      /\ \/ coordinator_noticed' /\ coordinator_workers'
              = [coordinator_workers EXCEPT ![g] = Len(coordinator_request.selected) + 1]
         \/ UNCHANGED <<coordinator_noticed, coordinator_workers>>
  BY DEF Coordinator!Ask, Coordinator!Running
<1>2. Coordinator_Typed
  BY <1>1 DEF Coordinator_IInv
<1>3. CASE coordinator_noticed' /\ coordinator_workers'
              = [coordinator_workers EXCEPT ![g] = Len(coordinator_request.selected) + 1]
  <2>1. Len(coordinator_request.selected) + 1 \in Nat \ {0}
    BY <1>2 DEF Coordinator_Typed
  <2>2. /\ Len(coordinator_workers) \in Nat \ {0}
        /\ coordinator_workers \in [1 .. Len(coordinator_workers) -> (Nat \ {0}) \cup {None}]
    BY <1>2 DEF Coordinator_Typed
  <2>3. /\ coordinator_workers' \in [1 .. Len(coordinator_workers) -> (Nat \ {0}) \cup {None}]
        /\ Len(coordinator_workers') = Len(coordinator_workers)
    <3> DEFINE n == Len(coordinator_workers)
               last == Len(coordinator_request.selected) + 1
    <3>1. n \in Nat \ {0} /\ coordinator_workers \in [1 .. n -> (Nat \ {0}) \cup {None}]
      BY <2>2
    <3>2. last \in Nat \ {0} /\ coordinator_workers' = [coordinator_workers EXCEPT ![g] = last]
      BY <1>3, <2>1
    <3> HIDE DEF n, last
    <3>3. coordinator_workers' \in [1 .. n -> (Nat \ {0}) \cup {None}]
      BY <3>1, <3>2
    <3> QED BY <3>1, <3>3 DEF n
  <2>4. Coordinator_Typed'
    BY <1>1, <1>2, <2>2, <2>3 DEF Coordinator_Typed
  <2>5. Coordinator_Covered'
    BY <1>3 DEF Coordinator_Covered
  <2> QED BY <1>1, <2>4, <2>5, Coordinator_Said DEF Coordinator_IInv
<1>4. CASE UNCHANGED <<coordinator_noticed, coordinator_workers>>
  <2>1. Coordinator_Typed'
    BY <1>1, <1>2, <1>4 DEF Coordinator_Typed
  <2>2. Coordinator_Covered
    BY <1>1 DEF Coordinator_IInv
  <2>3. Coordinator_Covered'
    BY <1>1, <1>4, <2>2 DEF Coordinator_Covered, Coordinator_Done, Coordinator_Ahead
  <2>4. Coordinator!CompleteIsAll'
    BY <1>1, Coordinator_Said DEF Coordinator_IInv
  <2> QED BY <2>1, <2>3, <2>4 DEF Coordinator_IInv
<1> QED BY <1>1, <1>3, <1>4

(* Where a worker is that can be asked. *)
LEMMA Coordinator_Where ==
  ASSUME Coordinator_Typed, NEW g, Coordinator!Running(g)
  PROVE  /\ g \in DOMAIN coordinator_workers /\ coordinator_workers[g] # None
         /\ coordinator_workers[g] \in DOMAIN coordinator_request.selected
         /\ Coordinator!Asked(g) = coordinator_request.selected[coordinator_workers[g]]
         /\ Coordinator!Asked(g) \in Nat
         /\ Coordinator!Asked(g) \in Coordinator_Range(coordinator_request.selected)
<1>1. g \in DOMAIN coordinator_workers /\ coordinator_workers[g] # None
      /\ coordinator_workers[g] <= Len(coordinator_request.selected)
  BY DEF Coordinator!Running
<1>2. coordinator_request.selected \in Seq(Nat) /\ coordinator_workers[g] \in Nat \ {0}
  BY <1>1 DEF Coordinator_Typed
<1>3. coordinator_workers[g] \in DOMAIN coordinator_request.selected
  BY <1>1, <1>2
<1>4. Coordinator!Asked(g) = coordinator_request.selected[coordinator_workers[g]]
  BY DEF Coordinator!Asked, Coordinator!Position
<1> QED BY <1>1, <1>2, <1>3, <1>4 DEF Coordinator_Range

(* The workers after a step of one. *)
LEMMA Coordinator_Advances ==
  ASSUME Coordinator_Typed, NEW g \in DOMAIN coordinator_workers, coordinator_workers[g] # None,
         \/ coordinator_workers' = [coordinator_workers EXCEPT ![g] = @ + Len(coordinator_workers)]
         \/ coordinator_workers' = [coordinator_workers EXCEPT ![g] = None]
  PROVE  /\ Len(coordinator_workers') = Len(coordinator_workers)
         /\ coordinator_workers' \in [1 .. Len(coordinator_workers) -> (Nat \ {0}) \cup {None}]
<1> DEFINE n == Len(coordinator_workers)
<1>1. n \in Nat \ {0} /\ coordinator_workers \in [1 .. n -> (Nat \ {0}) \cup {None}]
  BY DEF Coordinator_Typed
<1>2. coordinator_workers[g] + n \in Nat \ {0}
  BY <1>1
<1> HIDE DEF n
<1>3. coordinator_workers' \in [1 .. n -> (Nat \ {0}) \cup {None}]
  BY <1>1, <1>2 DEF n
<1>4. Len(coordinator_workers') = n
  BY <1>1, <1>3
<1> QED BY <1>3, <1>4 DEF n

LEMMA Coordinator_Answers ==
  ASSUME Coordinator_IInv, NEW g, NEW f \in BOOLEAN, Coordinator!Answers(g, f)
  PROVE  Coordinator_IInv'
<1>0. PICK i : i = Coordinator!Asked(g)
  OBVIOUS
<1>1. /\ coordinator_request # None /\ Coordinator!Running(g)
      /\ UNCHANGED <<coordinator_request, coordinator_noticed, coordinator_outcome, coordinator_poisoned>>
  BY DEF Coordinator!Answers, Coordinator!Running
<1>2. Coordinator_Typed /\ Coordinator_Covered
  BY <1>1 DEF Coordinator_IInv
<1>3. /\ g \in DOMAIN coordinator_workers /\ coordinator_workers[g] # None
      /\ coordinator_workers[g] \in DOMAIN coordinator_request.selected
      /\ i = coordinator_request.selected[coordinator_workers[g]]
      /\ i \in Nat /\ i \in Coordinator_Range(coordinator_request.selected)
  BY <1>0, <1>1, <1>2, Coordinator_Where
<1>4. Coordinator!CompleteIsAll'
  BY <1>1, Coordinator_Said DEF Coordinator_IInv
<1>5. CASE i \in DOMAIN coordinator_results
  <2>1. /\ coordinator_results' = [coordinator_results EXCEPT ![i] = i]
        /\ coordinator_workers' = [coordinator_workers EXCEPT ![g] = @ + Len(coordinator_workers)]
        /\ coordinator_errors \subseteq coordinator_errors'
    BY <1>0, <1>5 DEF Coordinator!Answers, Coordinator!Slot, Coordinator!Advance
  <2>2. /\ coordinator_results \in Seq(Nat \cup {None})
        /\ \A j \in DOMAIN coordinator_results :
              \/ coordinator_results[j] = None
              \/ coordinator_results[j] = j /\ j \in Coordinator_Range(coordinator_request.selected)
    BY <1>2 DEF Coordinator_Typed
  <2>3. /\ coordinator_results' \in Seq(Nat \cup {None})
        /\ DOMAIN coordinator_results' = DOMAIN coordinator_results
        /\ \A j \in DOMAIN coordinator_results :
              coordinator_results'[j] = IF j = i THEN i ELSE coordinator_results[j]
    BY <1>3, <1>5, <2>1, <2>2
  <2>4. \A j \in DOMAIN coordinator_results' :
              \/ coordinator_results'[j] = None
              \/ coordinator_results'[j] = j /\ j \in Coordinator_Range(coordinator_request.selected)
    BY <1>3, <2>2, <2>3
  <2>5. Coordinator_Typed'
    <3>1. /\ Len(coordinator_workers') = Len(coordinator_workers)
          /\ coordinator_workers' \in [1 .. Len(coordinator_workers) -> (Nat \ {0}) \cup {None}]
      BY <1>2, <1>3, <2>1, Coordinator_Advances
    <3> QED BY <1>1, <1>2, <2>3, <2>4, <3>1 DEF Coordinator_Typed, Coordinator_Range
  <2>6. \A j : Coordinator_Done(j) => Coordinator_Done(j)'
    BY <1>1, <2>1, <2>3 DEF Coordinator_Done
  <2>7. Coordinator_Done(i)'
    BY <1>5, <2>3 DEF Coordinator_Done
  <2>8. Coordinator_Covered'
    BY <1>1, <1>2, <1>3, <2>1, <2>6, <2>7, Coordinator_Moves
  <2> QED BY <1>4, <2>5, <2>8 DEF Coordinator_IInv
<1>6. CASE i \notin DOMAIN coordinator_results
  <2>1. /\ coordinator_workers' = [coordinator_workers EXCEPT ![g] = None]
        /\ UNCHANGED coordinator_results
    BY <1>0, <1>6 DEF Coordinator!Answers, Coordinator!Slot
  <2>2. /\ Len(coordinator_workers') = Len(coordinator_workers)
        /\ coordinator_workers' \in [1 .. Len(coordinator_workers) -> (Nat \ {0}) \cup {None}]
    BY <1>2, <1>3, <2>1, Coordinator_Advances
  <2>3. Coordinator_Typed'
    BY <1>1, <1>2, <2>1, <2>2 DEF Coordinator_Typed
  <2>4. g \in DOMAIN coordinator_workers' /\ coordinator_workers'[g] = None
    BY <1>3, <2>1
  <2>5. Coordinator_Covered'
    BY <2>4 DEF Coordinator_Covered
  <2> QED BY <1>4, <2>3, <2>5 DEF Coordinator_IInv
<1> QED BY <1>5, <1>6

LEMMA Coordinator_Panics ==
  ASSUME Coordinator_IInv, NEW g, Coordinator!Panics(g)
  PROVE  Coordinator_IInv'
<1>0. PICK i : i = Coordinator!Asked(g)
  OBVIOUS
<1>1. /\ coordinator_request # None /\ Coordinator!Running(g)
      /\ UNCHANGED <<coordinator_request, coordinator_noticed, coordinator_outcome, coordinator_results>>
      /\ coordinator_poisoned' = coordinator_poisoned \cup {i}
      /\ coordinator_errors' = coordinator_errors \cup {i}
      /\ coordinator_workers' = [coordinator_workers EXCEPT ![g] = @ + Len(coordinator_workers)]
  BY <1>0 DEF Coordinator!Panics, Coordinator!Running, Coordinator!Reported, Coordinator!Advance
<1>2. Coordinator_Typed /\ Coordinator_Covered
  BY <1>1 DEF Coordinator_IInv
<1>3. /\ g \in DOMAIN coordinator_workers /\ coordinator_workers[g] # None
      /\ coordinator_workers[g] \in DOMAIN coordinator_request.selected
      /\ i = coordinator_request.selected[coordinator_workers[g]]
  BY <1>0, <1>1, <1>2, Coordinator_Where
<1>4. Coordinator!CompleteIsAll'
  BY <1>1, Coordinator_Said DEF Coordinator_IInv
<1>5. Coordinator_Typed'
  <2>1. /\ Len(coordinator_workers') = Len(coordinator_workers)
        /\ coordinator_workers' \in [1 .. Len(coordinator_workers) -> (Nat \ {0}) \cup {None}]
    BY <1>1, <1>2, <1>3, Coordinator_Advances
  <2> QED BY <1>1, <1>2, <2>1 DEF Coordinator_Typed, Coordinator_Range
<1>6. (\A j : Coordinator_Done(j) => Coordinator_Done(j)') /\ Coordinator_Done(i)'
  BY <1>1 DEF Coordinator_Done
<1>7. Coordinator_Covered'
  BY <1>1, <1>2, <1>3, <1>6, Coordinator_Moves
<1> QED BY <1>4, <1>5, <1>7 DEF Coordinator_IInv

LEMMA Coordinator_Finishes ==
  ASSUME Coordinator_IInv, Coordinator!Finish
  PROVE  Coordinator_IInv'
<1> DEFINE sel == coordinator_request.selected
           kept == {slot \in DOMAIN coordinator_results : coordinator_results[slot] # None}
           at == Coordinator!Increasing(kept)
<1>1. /\ coordinator_request # None /\ coordinator_request' = None /\ UNCHANGED coordinator_poisoned
      /\ \A g \in DOMAIN coordinator_workers : ~Coordinator!Running(g)
      /\ coordinator_outcome' =
           [state |-> IF \E g \in DOMAIN coordinator_workers : coordinator_workers[g] = None
                        THEN "Panicked"
                      ELSE IF coordinator_noticed THEN "Cancelled"
                      ELSE IF coordinator_errors = {} THEN "Complete" ELSE "Partial",
            commands |-> Coordinator!Kept(coordinator_results, kept), of |-> sel]
  BY DEF Coordinator!Finish
<1>2. Coordinator_Typed /\ Coordinator_Covered
  BY <1>1 DEF Coordinator_IInv
<1>3. /\ sel \in Seq(Nat) /\ sel = Coordinator!Increasing(Coordinator_Range(sel))
      /\ coordinator_results \in Seq(Nat \cup {None})
      /\ \A i \in DOMAIN coordinator_results :
            \/ coordinator_results[i] = None
            \/ coordinator_results[i] = i /\ i \in Coordinator_Range(sel)
  BY <1>2 DEF Coordinator_Typed
<1>4. Len(coordinator_results) \in Nat /\ kept \in SUBSET (1 .. Len(coordinator_results))
      /\ kept \subseteq Coordinator_Range(sel) /\ \A i \in kept : coordinator_results[i] = i
  BY <1>3
<1>5. PICK m \in Nat : at \in [1 .. m -> kept]
  BY <1>4, Coordinator_Increasing
<1>6. {at[i] : i \in DOMAIN at} = kept /\ \A i, j \in DOMAIN at : i < j => at[i] < at[j]
  BY <1>4, Coordinator_Increasing DEF Lists
<1>7. Coordinator!Kept(coordinator_results, kept) = at
  <2>1. Coordinator!Kept(coordinator_results, kept) = [i \in DOMAIN at |-> coordinator_results[at[i]]]
    BY DEF Coordinator!Kept
  <2> HIDE DEF at, kept
  <2>2. \A i \in DOMAIN at : coordinator_results[at[i]] = at[i]
    BY <1>4, <1>5
  <2> QED BY <1>5, <2>1, <2>2
<1> HIDE DEF at, kept
<1>8. ASSUME coordinator_outcome'.state \in {"Complete", "Partial"}
      PROVE  /\ coordinator_outcome'.state = "Complete" => coordinator_errors = {}
             /\ \A k \in DOMAIN sel : Coordinator_Done(sel[k])
  <2>1. /\ coordinator_outcome'.state =
             IF \E g \in DOMAIN coordinator_workers : coordinator_workers[g] = None
                        THEN "Panicked"
                      ELSE IF coordinator_noticed THEN "Cancelled"
                      ELSE IF coordinator_errors = {} THEN "Complete" ELSE "Partial"
    BY <1>1
  <2>2. /\ \A g \in DOMAIN coordinator_workers : coordinator_workers[g] # None
        /\ ~coordinator_noticed
        /\ coordinator_outcome'.state = "Complete" => coordinator_errors = {}
    BY <1>8, <2>1
  <2>3. ASSUME NEW k \in DOMAIN sel, NEW g \in DOMAIN coordinator_workers,
               Coordinator_Ahead(k, coordinator_workers[g])
        PROVE  FALSE
    <3> DEFINE n == Len(coordinator_workers)
    <3>1. n \in Nat /\ coordinator_workers[g] \in Nat /\ k \in Nat /\ k <= Len(sel) /\ Len(sel) \in Nat
      BY <1>2, <1>3, <2>2 DEF Coordinator_Typed
    <3>2. PICK m2 \in Nat : k = coordinator_workers[g] + m2 * n
      BY <2>3 DEF Coordinator_Ahead
    <3>3. m2 * n \in Nat
      BY <3>1
    <3>4. ~(coordinator_workers[g] <= Len(sel))
      BY <1>1, <2>2 DEF Coordinator!Running
    <3> HIDE DEF n
    <3> QED BY <3>1, <3>2, <3>3, <3>4
  <2> QED BY <1>2, <2>2, <2>3 DEF Coordinator_Covered
<1>9. ASSUME NEW i \in Coordinator_Range(sel), Coordinator_Done(i), i \notin coordinator_errors \cap coordinator_poisoned
      PROVE  i \in kept
  <2>1. i \in DOMAIN coordinator_results /\ coordinator_results[i] = i /\ i \in Nat
    BY <1>3, <1>9 DEF Coordinator_Done
  <2>2. i # None
    BY <2>1, MarksAssumption
  <2> QED BY <2>1, <2>2 DEF kept
<1>10. coordinator_outcome'.commands = at /\ coordinator_outcome'.of = sel
  BY <1>1, <1>7
<1>11. coordinator_outcome'.state = "Complete" => coordinator_outcome'.commands = coordinator_outcome'.of
  <2>1. SUFFICES ASSUME coordinator_outcome'.state = "Complete" PROVE at = sel
    BY <1>10
  <2>2. \A i \in Coordinator_Range(sel) : Coordinator_Done(i) /\ i \notin coordinator_errors
    BY <1>8, <2>1 DEF Coordinator_Range
  <2>3. Coordinator_Range(sel) = kept
    BY <1>4, <1>9, <2>2
  <2> QED BY <2>3, <1>3 DEF at
<1>12. coordinator_outcome'.state = "Partial" =>
         \A i \in Coordinator_Range(sel) \ coordinator_poisoned : i \in kept
  BY <1>8, <1>9 DEF Coordinator_Range
<1>13. Coordinator!CompleteIsAll'
  BY <1>1, <1>6, <1>10, <1>11, <1>12 DEF Coordinator!CompleteIsAll, Coordinator!Range, Coordinator_Range
<1> QED BY <1>1, <1>13 DEF Coordinator_IInv

LEMMA Coordinator_Safety ==
  Coordinator!Spec => []Coordinator!CompleteIsAll
<1>1. Coordinator!Init => Coordinator_IInv
  BY DEF Coordinator!Init, Coordinator_IInv, Coordinator!CompleteIsAll
<1>2. Coordinator_IInv /\ [Coordinator!Next]_(Coordinator!vars) => Coordinator_IInv'
  <2>1. ASSUME Coordinator_IInv, Coordinator!Cancel \/ UNCHANGED Coordinator!vars PROVE Coordinator_IInv'
    <3>1. UNCHANGED <<coordinator_poisoned, coordinator_request, coordinator_workers,
                      coordinator_results, coordinator_errors, coordinator_noticed, coordinator_outcome>>
      BY <2>1 DEF Coordinator!Cancel, Coordinator!vars
    <3> QED BY <2>1, <3>1, Coordinator_Said DEF Coordinator_IInv, Coordinator_Typed, Coordinator_Covered,
               Coordinator_Done, Coordinator_Ahead
  <2> QED BY <2>1, Coordinator_Begins, Coordinator_Asks, Coordinator_Answers, Coordinator_Panics,
             Coordinator_Finishes DEF Coordinator!Next
<1>3. Coordinator_IInv => Coordinator!CompleteIsAll
  BY DEF Coordinator_IInv
<1> QED BY <1>1, <1>2, <1>3, PTL DEF Coordinator!Spec

LEMMA Coordinator_Unit ==
  ASSUME [Next]_vars
  PROVE  /\ (unit = "coordinator") = (unit = "coordinator")'
         /\ unit = "coordinator" => [Coordinator!Next]_(Coordinator!vars)
<1>1. CASE CoordinatorStep
  BY <1>1 DEF CoordinatorStep
<1>2. CASE UNCHANGED vars
  BY <1>2 DEF vars, coordinatorVars, Coordinator!vars
<1>3. CASE SearchStep \/ RankedStep \/ IconsStep \/ CatalogStep \/ StarsStep \/
      FilesStep \/ SettingsStep \/ EditorStep \/ TriggerStep \/ EffectsStep \/ AgentStep
  BY <1>3 DEF SearchStep, RankedStep, IconsStep, CatalogStep, StarsStep, FilesStep,
         SettingsStep, EditorStep, TriggerStep, EffectsStep, AgentStep
<1> QED BY <1>1, <1>2, <1>3 DEF Next

(* However the workers interleave, a search that says it is complete has the answer of every
   provider it asked, in order, and one that says it is partial misses only those whose panic
   poisoned them (search_coordinator.rs, AC-B02-2, INV-SEARCH-004). *)
THEOREM CompleteSearches == Spec => []CompleteIsAll
<1>1. Init => (unit = "coordinator" => Coordinator!Init)
  BY DEF Init
<1>2. [Next]_vars /\ unit = "coordinator" =>
         [Coordinator!Next]_(Coordinator!vars) /\ (unit = "coordinator")'
  BY Coordinator_Unit
<1>3. [Next]_vars /\ ~(unit = "coordinator") => ~(unit = "coordinator")'
  BY Coordinator_Unit
<1>4. Coordinator!Spec => []Coordinator!CompleteIsAll
  BY Coordinator_Safety
<1>5. (unit = "coordinator" => Coordinator!CompleteIsAll) => CompleteIsAll
  BY DEF CompleteIsAll
<1> QED BY <1>1, <1>2, <1>3, <1>4, <1>5, PTL DEF Spec, Coordinator!Spec

-----------------------------------------------------------------------------
(* The application catalog.                                                  *)

Catalog_Names == {"packaged", "portable", "start-menu", "uninstall"}

Catalog_Observed ==
  {Catalog!Observation(src, from, target) :
      src \in Catalog_Names, from \in catalog_Links \cup catalog_Exes,
      target \in catalog_Exes \cup {"broken", None}}

(* One row for each identity, made of an observation of it and of all who made one. *)
Catalog_OnePer(table, obs) ==
  \E pick \in [Catalog!Identities(obs) -> DOMAIN obs] :
     /\ \A id \in Catalog!Identities(obs) : pick[id] \in Catalog!Observers(obs, id)
     /\ table = {Catalog!Row(obs, pick[id], Catalog!Observers(obs, id)) : id \in Catalog!Identities(obs)}

Catalog_IInv ==
  /\ catalog_menu \in [catalog_Links -> catalog_Exes \cup {"broken", None}]
  /\ catalog_installed \in [{"packaged", "portable", "uninstall"} -> SUBSET catalog_Exes]
  /\ catalog_found \in Seq(Catalog_Observed)
  /\ catalog_shell = "committed" => Catalog_OnePer(catalog_rows, catalog_found)
  /\ Catalog!OneEntryPerApp

(* The library's operators, as the catalog's module has them. *)
LEMMA Catalog_Counts ==
  ASSUME NEW S
  PROVE  Catalog!Cardinality(S) = Cardinality(S)
BY DEF Catalog!Cardinality, Cardinality

LEMMA Catalog_Enumerates ==
  ASSUME NEW S, IsFiniteSet(S)
  PROVE  Catalog!SetToSeq(S) \in Seq(S)
<1> DEFINE n == Cardinality(S)
<1>1. n \in Nat /\ ExistsBijection(1 .. n, S)
  BY FS_CardinalityType
<1> HIDE DEF n
<1>2. PICK f \in Bijection(1 .. n, S) : TRUE
  BY <1>1 DEF ExistsBijection
<1>3. f \in [1 .. n -> S] /\ \A a, b \in 1 .. n : f[a] = f[b] => a = b
  BY <1>2 DEF Bijection, Injection, IsInjective
<1>4. Catalog!IsInjective(f)
  BY <1>3 DEF Catalog!IsInjective
<1>5. Catalog!SetToSeq(S) = CHOOSE g \in [1 .. n -> S] : Catalog!IsInjective(g)
  BY Catalog_Counts DEF Catalog!SetToSeq, n
<1>6. Catalog!SetToSeq(S) \in [1 .. n -> S]
  BY <1>3, <1>4, <1>5
<1> QED BY <1>1, <1>6

LEMMA Catalog_Discovers ==
  ASSUME Catalog_IInv, NEW readable
  PROVE  Catalog!collect_entries(readable) \in Seq(Catalog_Observed)
<1>1. Catalog!collect_lnk_dir \in Seq(Catalog_Observed)
  <2> DEFINE S == {l \in catalog_Links : catalog_menu[l] # None}
             seen == Catalog!SetToSeq(S)
  <2>1. IsFiniteSet(S) /\ S \subseteq catalog_Links
    BY InputsAssumption, FS_Subset
  <2>2. seen \in Seq(S)
    BY <2>1, Catalog_Enumerates
  <2>3. Catalog!collect_lnk_dir =
          [i \in DOMAIN seen |-> Catalog!Observation("start-menu", seen[i],
              IF catalog_menu[seen[i]] = "broken" THEN None ELSE catalog_menu[seen[i]])]
    BY DEF Catalog!collect_lnk_dir
  <2> HIDE DEF seen, S
  <2>4. DOMAIN seen = 1 .. Len(seen) /\ Len(seen) \in Nat /\ \A i \in DOMAIN seen : seen[i] \in catalog_Links
    BY <2>1, <2>2
  <2>5. \A i \in DOMAIN seen : Catalog!Observation("start-menu", seen[i],
              IF catalog_menu[seen[i]] = "broken" THEN None ELSE catalog_menu[seen[i]])
                 \in Catalog_Observed
    <3>1. TAKE i \in DOMAIN seen
    <3>2. catalog_menu[seen[i]] \in catalog_Exes \cup {"broken", None}
      BY <2>4 DEF Catalog_IInv
    <3>3. (IF catalog_menu[seen[i]] = "broken" THEN None ELSE catalog_menu[seen[i]])
             \in catalog_Exes \cup {"broken", None}
      BY <3>2
    <3>4. seen[i] \in catalog_Links \cup catalog_Exes /\ "start-menu" \in Catalog_Names
      BY <2>4 DEF Catalog_Names
    <3> QED BY <3>3, <3>4 DEF Catalog_Observed
  <2>6. Catalog!collect_lnk_dir \in [1 .. Len(seen) -> Catalog_Observed]
    BY <2>3, <2>4, <2>5
  <2> QED BY <2>4, <2>6
<1>2. ASSUME NEW src \in {"packaged", "portable", "uninstall"}
      PROVE  Catalog!Listed(src) \in Seq(Catalog_Observed)
  <2> DEFINE seen == Catalog!SetToSeq(catalog_installed[src])
  <2>1. catalog_installed[src] \subseteq catalog_Exes
    BY DEF Catalog_IInv
  <2>2. IsFiniteSet(catalog_installed[src])
    BY <2>1, InputsAssumption, FS_Subset
  <2>3. seen \in Seq(catalog_installed[src])
    BY <2>2, Catalog_Enumerates
  <2>4. Catalog!Listed(src) =
          [i \in DOMAIN seen |-> Catalog!Observation(src, seen[i], IF src = "packaged" THEN None ELSE seen[i])]
    BY DEF Catalog!Listed
  <2> HIDE DEF seen
  <2>5. DOMAIN seen = 1 .. Len(seen) /\ Len(seen) \in Nat /\ \A i \in DOMAIN seen : seen[i] \in catalog_Exes
    BY <2>1, <2>3
  <2>6. \A i \in DOMAIN seen :
           Catalog!Observation(src, seen[i], IF src = "packaged" THEN None ELSE seen[i]) \in Catalog_Observed
    <3>1. TAKE i \in DOMAIN seen
    <3>2. (IF src = "packaged" THEN None ELSE seen[i]) \in catalog_Exes \cup {"broken", None}
      BY <2>5
    <3>3. seen[i] \in catalog_Links \cup catalog_Exes /\ src \in Catalog_Names
      BY <2>5 DEF Catalog_Names
    <3> QED BY <3>2, <3>3 DEF Catalog_Observed
  <2>7. Catalog!Listed(src) \in [1 .. Len(seen) -> Catalog_Observed]
    BY <2>4, <2>5, <2>6
  <2> QED BY <2>5, <2>7
<1> DEFINE Of(src) == IF src \in readable THEN Catalog!Listed(src) ELSE Catalog!Unreadable
<1>3. \A src \in {"packaged", "portable", "uninstall"} : Of(src) \in Seq(Catalog_Observed)
  BY <1>2 DEF Catalog!Unreadable
<1>4. Catalog!collect_entries(readable)
        = Catalog!collect_lnk_dir \o Of("uninstall") \o Of("packaged") \o Of("portable")
  BY DEF Catalog!collect_entries
<1> HIDE DEF Of
<1>5. Of("uninstall") \in Seq(Catalog_Observed) /\ Of("packaged") \in Seq(Catalog_Observed)
      /\ Of("portable") \in Seq(Catalog_Observed)
  BY <1>3
<1>6. Catalog!collect_lnk_dir \o Of("uninstall") \in Seq(Catalog_Observed)
  BY <1>1, <1>5
<1>7. Catalog!collect_lnk_dir \o Of("uninstall") \o Of("packaged") \in Seq(Catalog_Observed)
  BY <1>5, <1>6
<1> QED BY <1>4, <1>5, <1>7

LEMMA Catalog_Sequence ==
  ASSUME NEW obs \in Seq(Catalog_Observed)
  PROVE  /\ DOMAIN obs \subseteq Nat /\ IsFiniteSet(DOMAIN obs)
         /\ \A i \in DOMAIN obs : obs[i].source \in Catalog_Names
<1>1. Len(obs) \in Nat /\ DOMAIN obs = 1 .. Len(obs)
  OBVIOUS
<1>2. IsFiniteSet(DOMAIN obs)
  BY <1>1, FS_Interval
<1>3. ASSUME NEW i \in DOMAIN obs PROVE obs[i].source \in Catalog_Names
  <2>1. obs[i] \in Catalog_Observed
    OBVIOUS
  <2>2. PICK src \in Catalog_Names, from \in catalog_Links \cup catalog_Exes,
             target \in catalog_Exes \cup {"broken", None} : obs[i] = Catalog!Observation(src, from, target)
    BY <2>1 DEF Catalog_Observed
  <2> QED BY <2>2 DEF Catalog!Observation
<1> QED BY <1>1, <1>2, <1>3

LEMMA Catalog_Ranks ==
  /\ \A src \in Catalog_Names : Catalog!Rank(src) \in Nat
  /\ \A s, t \in Catalog_Names : Catalog!Rank(s) = Catalog!Rank(t) => s = t
<1>1. ASSUME NEW src \in Catalog_Names
      PROVE  Catalog!Rank(src) \in DOMAIN Catalog!Sources /\ Catalog!Sources[Catalog!Rank(src)] = src
  <2>1. DOMAIN Catalog!Sources = 1 .. 4
    BY DEF Catalog!Sources
  <2>2. \E i \in DOMAIN Catalog!Sources : Catalog!Sources[i] = src
    <3>1. /\ Catalog!Sources[1] = "packaged" /\ Catalog!Sources[2] = "portable"
          /\ Catalog!Sources[3] = "start-menu" /\ Catalog!Sources[4] = "uninstall"
      BY DEF Catalog!Sources
    <3>2. 1 \in 1 .. 4 /\ 2 \in 1 .. 4 /\ 3 \in 1 .. 4 /\ 4 \in 1 .. 4
      OBVIOUS
    <3>3. src = "packaged" \/ src = "portable" \/ src = "start-menu" \/ src = "uninstall"
      BY DEF Catalog_Names
    <3> QED BY <2>1, <3>1, <3>2, <3>3, Zenon
  <2> QED BY <2>2, Zenon DEF Catalog!Rank
<1>2. DOMAIN Catalog!Sources = 1 .. 4
  BY DEF Catalog!Sources
<1>3. \A src \in Catalog_Names : Catalog!Rank(src) \in Nat
  BY <1>1, <1>2
<1>4. ASSUME NEW s \in Catalog_Names, NEW t \in Catalog_Names, Catalog!Rank(s) = Catalog!Rank(t)
      PROVE  s = t
  <2>1. Catalog!Sources[Catalog!Rank(s)] = s /\ Catalog!Sources[Catalog!Rank(t)] = t
    BY <1>1
  <2> QED BY <1>4, <2>1
<1> QED BY <1>3, <1>4

(* The observation that gives the row its path is one of its identity. *)
LEMMA Catalog_Picks ==
  ASSUME NEW obs \in Seq(Catalog_Observed), NEW id \in Catalog!Identities(obs)
  PROVE  /\ Catalog!Canonical(obs, id) \in Catalog!Observers(obs, id)
         /\ Catalog!Preferred(obs, id) \in Catalog!Observers(obs, id)
<1> DEFINE seen == Catalog!Observers(obs, id)
<1>1. seen # {} /\ seen \subseteq DOMAIN obs /\ seen \subseteq Nat
  BY Catalog_Sequence DEF Catalog!Observers, Catalog!Identities
<1>2. \A i \in seen : obs[i].source \in Catalog_Names
  BY <1>1, Catalog_Sequence
<1>3. Catalog!Canonical(obs, id) \in seen
  <2> DEFINE ranks == {Catalog!Rank(obs[i].source) : i \in seen}
  <2>1. ranks \subseteq Nat /\ ranks # {}
    BY <1>1, <1>2, Catalog_Ranks
  <2>2. PICK r \in ranks : \A q \in ranks : r <= q
    BY <2>1, LeastExists
  <2> DEFINE first == {i \in seen : Catalog!Rank(obs[i].source) = r}
  <2>3. first # {} /\ first \subseteq Nat
    BY <1>1
  <2>4. PICK i \in first : \A j \in first : i <= j
    BY <2>3, LeastExists
  <2>5. ASSUME NEW j \in seen
        PROVE  \/ Catalog!Rank(obs[i].source) < Catalog!Rank(obs[j].source)
               \/ obs[i].source = obs[j].source /\ i <= j
    <3>1. CASE j \in first
      <4>1. Catalog!Rank(obs[i].source) = Catalog!Rank(obs[j].source)
        BY <3>1
      <4>2. obs[i].source = obs[j].source
        BY <4>1, <1>2, Catalog_Ranks
      <4> QED BY <2>4, <3>1, <4>2
    <3>2. CASE j \notin first
      <4>1. Catalog!Rank(obs[i].source) = r /\ Catalog!Rank(obs[j].source) # r
        BY <3>2
      <4>2. r <= Catalog!Rank(obs[j].source)
        BY <2>2
      <4>3. r \in Nat /\ Catalog!Rank(obs[j].source) \in Nat
        BY <2>1
      <4> QED BY <4>1, <4>2, <4>3
    <3> QED BY <3>1, <3>2
  <2>6. i \in seen
    OBVIOUS
  <2> HIDE DEF first, ranks
  <2> QED BY <2>5, <2>6, Zenon DEF Catalog!Canonical
<1>4. ASSUME NEW S, S # {}, S \subseteq seen PROVE Catalog!Min(S) \in seen
  <2>1. \E x \in S : \A y \in S : x <= y
    BY <1>1, <1>4, LeastExists
  <2> QED BY <1>4, <2>1 DEF Catalog!Min
<1> DEFINE menus == {i \in seen : obs[i].source = "start-menu"}
<1>5. menus \subseteq seen
  OBVIOUS
<1>6. Catalog!Preferred(obs, id) = IF menus # {} THEN Catalog!Min(menus) ELSE Catalog!Min(seen)
  BY DEF Catalog!Preferred
<1> HIDE DEF seen, menus
<1>7. Catalog!Preferred(obs, id) \in seen
  BY <1>1, <1>4, <1>5, <1>6
<1> QED BY <1>3, <1>7 DEF seen

LEMMA Catalog_Tables ==
  ASSUME NEW obs \in Seq(Catalog_Observed)
  PROVE  /\ Catalog_OnePer(Catalog!reconcile_observations(obs), obs)
         /\ Catalog_OnePer(Catalog!merge_by_executable(obs), obs)
<1> DEFINE ids == Catalog!Identities(obs)
           c == [id \in ids |-> Catalog!Canonical(obs, id)]
           p == [id \in ids |-> Catalog!Preferred(obs, id)]
<1>1. \A id \in ids : Catalog!Observers(obs, id) \subseteq DOMAIN obs
  BY DEF Catalog!Observers
<1>2. \A id \in ids : c[id] \in Catalog!Observers(obs, id) /\ p[id] \in Catalog!Observers(obs, id)
  BY Catalog_Picks
<1>3. c \in [ids -> DOMAIN obs] /\ p \in [ids -> DOMAIN obs]
  BY <1>1, <1>2
<1>4. Catalog!reconcile_observations(obs) = {Catalog!Row(obs, c[id], Catalog!Observers(obs, id)) : id \in ids}
  BY DEF Catalog!reconcile_observations
<1>5. Catalog!merge_by_executable(obs) = {Catalog!Row(obs, p[id], Catalog!Observers(obs, id)) : id \in ids}
  BY DEF Catalog!merge_by_executable
<1> HIDE DEF c, p
<1> QED BY <1>2, <1>3, <1>4, <1>5 DEF Catalog_OnePer

(* The identities of a sequence are finitely many, and so are the rows made of them. *)
LEMMA Catalog_Finite ==
  ASSUME NEW obs \in Seq(Catalog_Observed), NEW table, Catalog_OnePer(table, obs)
  PROVE  /\ Cardinality(Catalog!Identities(obs)) \in Nat /\ Cardinality(table) \in Nat
         /\ Cardinality(table) <= Cardinality(Catalog!Identities(obs))
<1> DEFINE ids == Catalog!Identities(obs)
           name == [i \in DOMAIN obs |-> Catalog!canonical_identity(obs[i])]
<1>1. name \in Surjection(DOMAIN obs, ids)
  BY DEF Surjection, Catalog!Identities
<1>2. IsFiniteSet(DOMAIN obs)
  BY Catalog_Sequence
<1> HIDE DEF name
<1>3. IsFiniteSet(ids)
  BY <1>1, <1>2, FS_Surjection
<1>4. PICK pick \in [ids -> DOMAIN obs] :
         table = {Catalog!Row(obs, pick[id], Catalog!Observers(obs, id)) : id \in ids}
  BY DEF Catalog_OnePer
<1> DEFINE row == [id \in ids |-> Catalog!Row(obs, pick[id], Catalog!Observers(obs, id))]
<1>5. row \in Surjection(ids, table)
  BY <1>4 DEF Surjection
<1> HIDE DEF row, ids
<1>6. IsFiniteSet(table) /\ Cardinality(table) <= Cardinality(ids)
  BY <1>3, <1>5, FS_Surjection
<1> QED BY <1>3, <1>6, FS_CardinalityType DEF ids

(* What the provider keeps of such a table is as promised. *)
LEMMA Catalog_Provides ==
  ASSUME NEW obs \in Seq(Catalog_Observed), NEW table, Catalog_OnePer(table, obs),
         NEW kept \in Catalog!Truncated(table)
  PROVE  /\ \A e, f \in kept : e.identity = f.identity => e = f
         /\ \A e \in kept : e.sources = {obs[i].source : i \in Catalog!Observers(obs, e.identity)}
         /\ Catalog!Cardinality(Catalog!Identities(obs)) <= catalog_MaxApps =>
               {e.identity : e \in kept} = Catalog!Identities(obs)
<1> DEFINE ids == Catalog!Identities(obs)
<1>1. PICK pick \in [ids -> DOMAIN obs] :
         /\ \A id \in ids : pick[id] \in Catalog!Observers(obs, id)
         /\ table = {Catalog!Row(obs, pick[id], Catalog!Observers(obs, id)) : id \in ids}
  BY DEF Catalog_OnePer
<1> DEFINE row == [id \in ids |-> Catalog!Row(obs, pick[id], Catalog!Observers(obs, id))]
<1>2. table = {row[id] : id \in ids}
  BY <1>1
<1>3. \A id \in ids : /\ row[id].identity = id
                      /\ row[id].sources = {obs[i].source : i \in Catalog!Observers(obs, id)}
  BY <1>1 DEF Catalog!Row, Catalog!Observers
<1> HIDE DEF row
<1>4. kept \subseteq table /\ (Catalog!Cardinality(table) <= catalog_MaxApps => kept = table)
  BY DEF Catalog!Truncated, Catalog!kSubset
<1>5. \A e \in table : \E id \in ids : e = row[id]
  BY <1>2
<1>6. \A e, f \in kept : e.identity = f.identity => e = f
  BY <1>3, <1>4, <1>5
<1>7. \A e \in kept : e.sources = {obs[i].source : i \in Catalog!Observers(obs, e.identity)}
  <2>1. TAKE e \in kept
  <2>2. PICK id \in ids : e = row[id]
    BY <1>4, <1>5
  <2> QED BY <2>2, <1>3
<1>8. ASSUME Catalog!Cardinality(ids) <= catalog_MaxApps
      PROVE  {e.identity : e \in kept} = ids
  <2>1. Cardinality(ids) \in Nat /\ Cardinality(table) \in Nat /\ Cardinality(table) <= Cardinality(ids)
    BY Catalog_Finite
  <2>2. Cardinality(ids) <= catalog_MaxApps
    BY <1>8, Catalog_Counts
  <2> HIDE DEF ids
  <2>3. Cardinality(table) <= catalog_MaxApps
    BY <2>1, <2>2, InputsAssumption
  <2>4. Catalog!Cardinality(table) <= catalog_MaxApps
    BY <2>3, Catalog_Counts
  <2>5. kept = table
    BY <1>4, <2>4
  <2>6. \A id \in ids : row[id] \in kept /\ row[id].identity = id
    BY <1>2, <1>3, <2>5
  <2>7. \A e \in kept : e.identity \in ids
    BY <1>3, <1>5, <2>5
  <2> QED BY <2>6, <2>7
<1> QED BY <1>6, <1>7, <1>8

LEMMA Catalog_Builds ==
  ASSUME Catalog_IInv,
         \/ Catalog!from_catalog_records \/ Catalog!from_entries
  PROVE  Catalog_IInv'
<1>1. /\ UNCHANGED <<catalog_menu, catalog_installed, catalog_found>> /\ catalog_shell' = "up"
      /\ catalog_shell = "committed"
      /\ \/ catalog_entries' \in Catalog!Truncated(catalog_rows)
         \/ catalog_entries' \in Catalog!Truncated(Catalog!merge_by_executable(catalog_found))
  BY DEF Catalog!from_catalog_records, Catalog!from_entries, Catalog!machine
<1>2. PICK table : Catalog_OnePer(table, catalog_found) /\ catalog_entries' \in Catalog!Truncated(table)
  BY <1>1, Catalog_Tables DEF Catalog_IInv
<1>3. PICK obs \in Seq(Catalog_Observed) : obs = catalog_found
  BY DEF Catalog_IInv
<1>4. PICK kept : kept = catalog_entries'
  OBVIOUS
<1>5. /\ \A e, f \in kept : e.identity = f.identity => e = f
      /\ \A e \in kept : e.sources = {obs[i].source : i \in Catalog!Observers(obs, e.identity)}
      /\ Catalog!Cardinality(Catalog!Identities(obs)) <= catalog_MaxApps =>
               {e.identity : e \in kept} = Catalog!Identities(obs)
  BY <1>2, <1>3, <1>4, Catalog_Provides
<1>6. obs = catalog_found'
  BY <1>1, <1>3
<1>7. Catalog!OneEntryPerApp'
  BY <1>4, <1>5, <1>6 DEF Catalog!OneEntryPerApp
<1> QED BY <1>1, <1>7 DEF Catalog_IInv

LEMMA Catalog_Safety ==
  Catalog!Spec => []Catalog!OneEntryPerApp
<1>1. Catalog!Init => Catalog_IInv
  BY DEF Catalog!Init, Catalog_IInv, Catalog!OneEntryPerApp
<1>2. Catalog_IInv /\ [Catalog!Next]_(Catalog!vars) => Catalog_IInv'
  <2> SUFFICES ASSUME Catalog_IInv, [Catalog!Next]_(Catalog!vars) PROVE Catalog_IInv'
    OBVIOUS
  <2>1. CASE Catalog!Fails \/ Catalog!Quits
    <3>1. /\ UNCHANGED <<catalog_menu, catalog_installed>>
          /\ catalog_shell' = "down" /\ catalog_found' = <<>>
      BY <2>1 DEF Catalog!Fails, Catalog!Quits, Catalog!Ends, Catalog!machine
    <3>2. catalog_found' \in Seq(Catalog_Observed)
      BY <3>1
    <3> QED BY <3>1, <3>2 DEF Catalog_IInv, Catalog!OneEntryPerApp
  <2>2. ASSUME NEW corrupt \in BOOLEAN, Catalog!commit_merged(corrupt) PROVE Catalog_IInv'
    <3>1. /\ UNCHANGED <<catalog_menu, catalog_installed, catalog_found>> /\ catalog_shell' = "committed"
          /\ catalog_rows' = Catalog!reconcile_observations(catalog_found)
      BY <2>2 DEF Catalog!commit_merged, Catalog!machine
    <3>2. Catalog_OnePer(catalog_rows', catalog_found)
      BY <3>1, Catalog_Tables DEF Catalog_IInv
    <3>3. Catalog_OnePer(catalog_rows, catalog_found)'
      BY <3>1, <3>2 DEF Catalog_OnePer
    <3> QED BY <3>1, <3>3 DEF Catalog_IInv, Catalog!OneEntryPerApp
  <2>3. ASSUME NEW readable, Catalog!build_core(readable) PROVE Catalog_IInv'
    <3>1. /\ UNCHANGED <<catalog_menu, catalog_installed>> /\ catalog_shell' = "discovered"
          /\ catalog_found' = Catalog!collect_entries(readable)
      BY <2>3 DEF Catalog!build_core, Catalog!machine
    <3> QED BY <3>1, Catalog_Discovers DEF Catalog_IInv, Catalog!OneEntryPerApp
  <2>4. ASSUME NEW l \in catalog_Links, NEW t \in catalog_Exes \cup {"broken", None}, Catalog!Relinks(l, t)
        PROVE  Catalog_IInv'
    <3>1. /\ catalog_shell = "down" /\ catalog_menu' = [catalog_menu EXCEPT ![l] = t]
          /\ UNCHANGED <<catalog_installed, catalog_shell, catalog_found>>
      BY <2>4 DEF Catalog!Relinks
    <3> QED BY <3>1 DEF Catalog_IInv, Catalog!OneEntryPerApp
  <2>5. ASSUME NEW s, NEW xs \in {{}, catalog_Exes}, Catalog!Installs(s, xs)
        PROVE  Catalog_IInv'
    <3>1. /\ catalog_shell = "down" /\ catalog_installed' = [catalog_installed EXCEPT ![s] = xs]
          /\ UNCHANGED <<catalog_menu, catalog_shell, catalog_found>>
      BY <2>5 DEF Catalog!Installs
    <3>2. xs \in SUBSET catalog_Exes
      OBVIOUS
    <3>3. catalog_installed' \in [{"packaged", "portable", "uninstall"} -> SUBSET catalog_Exes]
      BY <3>1, <3>2 DEF Catalog_IInv
    <3> QED BY <3>1, <3>3 DEF Catalog_IInv, Catalog!OneEntryPerApp
  <2>6. CASE UNCHANGED Catalog!vars
    BY <2>6 DEF Catalog!vars, Catalog_IInv, Catalog!OneEntryPerApp, Catalog_OnePer
  <2> QED BY <2>1, <2>2, <2>3, <2>4, <2>5, <2>6, Catalog_Builds DEF Catalog!Next
<1>3. Catalog_IInv => Catalog!OneEntryPerApp
  BY DEF Catalog_IInv
<1> QED BY <1>1, <1>2, <1>3, PTL DEF Catalog!Spec

LEMMA Catalog_Unit ==
  ASSUME [Next]_vars
  PROVE  /\ (unit = "catalog") = (unit = "catalog")'
         /\ unit = "catalog" => [Catalog!Next]_(Catalog!vars)
<1>1. CASE CatalogStep
  BY <1>1 DEF CatalogStep
<1>2. CASE UNCHANGED vars
  BY <1>2 DEF vars, catalogVars, Catalog!vars
<1>3. CASE SearchStep \/ RankedStep \/ IconsStep \/ CoordinatorStep \/ StarsStep \/
      FilesStep \/ SettingsStep \/ EditorStep \/ TriggerStep \/ EffectsStep \/ AgentStep
  BY <1>3 DEF SearchStep, RankedStep, IconsStep, CoordinatorStep, StarsStep, FilesStep,
         SettingsStep, EditorStep, TriggerStep, EffectsStep, AgentStep
<1> QED BY <1>1, <1>2, <1>3 DEF Next

(* From whichever sources and in whatever order an application is seen, it is one entry with
   every source that saw it, and up to the bound none is missing (app_registry.rs,
   INV-IDENTITY-001). *)
THEOREM OneEntryEach == Spec => []OneEntryPerApp
<1>1. Init => (unit = "catalog" => Catalog!Init)
  BY DEF Init
<1>2. [Next]_vars /\ unit = "catalog" =>
         [Catalog!Next]_(Catalog!vars) /\ (unit = "catalog")'
  BY Catalog_Unit
<1>3. [Next]_vars /\ ~(unit = "catalog") => ~(unit = "catalog")'
  BY Catalog_Unit
<1>4. Catalog!Spec => []Catalog!OneEntryPerApp
  BY Catalog_Safety
<1>5. (unit = "catalog" => Catalog!OneEntryPerApp) => OneEntryPerApp
  BY DEF OneEntryPerApp
<1> QED BY <1>1, <1>2, <1>3, <1>4, <1>5, PTL DEF Spec, Catalog!Spec
-----------------------------------------------------------------------------
(* Ranking: the fuzzy matcher, then the list.                                *)

Ranking_Steps(n, S) == [(1 .. n) \X S -> S]
Ranking_Run(n, S, s0, step, f) ==
  f \in [0 .. n -> S] /\ f[0] = s0 /\ \A i \in 1 .. n : f[i] = step[<<i, f[i - 1]>>]

(* Whatever takes one step for each of n numbers has a value after each. *)
LEMMA Ranking_Recursion ==
  ASSUME NEW n, NEW S, NEW s0, NEW step, n \in Nat, s0 \in S, step \in Ranking_Steps(n, S)
  PROVE  \E f : Ranking_Run(n, S, s0, step, f)
<1> USE DEF Ranking_Steps, Ranking_Run
<1> DEFINE Done(m) == \E f \in [0 .. m -> S] :
                         f[0] = s0 /\ \A i \in 1 .. m : f[i] = step[<<i, f[i - 1]>>]
           Bad == {m \in 0 .. n : ~ Done(m)}
<1>1. SUFFICES ASSUME Bad # {} PROVE FALSE
  <2>1. n \in 0 .. n
    OBVIOUS
  <2>2. Done(n) => \E f : Ranking_Run(n, S, s0, step, f)
    OBVIOUS
  <2> HIDE DEF Done
  <2> QED BY <2>1, <2>2
<1>2. PICK b \in Bad : \A m \in Bad : b <= m
  <2>1. Bad \subseteq Nat
    OBVIOUS
  <2> QED BY <1>1, <2>1, LeastExists
<1>3. CASE b = 0
  <2> DEFINE f == [i \in 0 .. 0 |-> s0]
  <2>1. f \in [0 .. 0 -> S] /\ f[0] = s0 /\ \A i \in 1 .. 0 : f[i] = step[<<i, f[i - 1]>>]
    OBVIOUS
  <2>2. Done(0)
    BY <2>1
  <2> QED BY <1>3, <2>2
<1>4. CASE b # 0
  <2>1. b \in 1 .. n /\ b - 1 \in 0 .. n /\ b - 1 \notin Bad
    BY <1>2, <1>4
  <2>2. PICK g \in [0 .. b - 1 -> S] :
           g[0] = s0 /\ \A i \in 1 .. b - 1 : g[i] = step[<<i, g[i - 1]>>]
    BY <2>1
  <2> DEFINE f == [i \in 0 .. b |-> IF i = b THEN step[<<b, g[b - 1]>>] ELSE g[i]]
  <2>3. step[<<b, g[b - 1]>>] \in S
    BY <2>1, <2>2
  <2>4. f \in [0 .. b -> S]
    BY <2>1, <2>2, <2>3
  <2>5. f[0] = s0
    BY <2>1, <2>2
  <2>6. ASSUME NEW i \in 1 .. b PROVE f[i] = step[<<i, f[i - 1]>>]
    <3>1. f[i - 1] = g[i - 1]
      BY <2>1
    <3>2. CASE i = b
      <4>1. f[b] = step[<<b, g[b - 1]>>]
        BY <2>1
      <4> HIDE DEF f
      <4> QED BY <3>1, <3>2, <4>1
    <3>3. CASE i # b
      <4>1. i \in 1 .. b - 1
        BY <2>1, <3>3
      <4>2. f[i] = g[i]
        BY <2>1, <3>3
      <4> QED BY <2>2, <3>1, <4>1, <4>2
    <3> QED BY <3>2, <3>3
  <2> HIDE DEF f
  <2>7. Done(b)
    BY <2>4, <2>5, <2>6
  <2> QED BY <2>7
<1> QED BY <1>3, <1>4

Ranking_State ==
  [score : Int, gap : Int, qi : Nat \ {0}, prev : Int, run : Int, boundary : BOOLEAN, at : Seq(Nat)]

Ranking_Hit(c, q, s, i) == s.qi <= Len(q) /\ c[i] = q[s.qi]

(* One character: a hit moves the query on and is remembered, anything else changes neither. *)
LEMMA Ranking_Scan ==
  ASSUME NEW c, NEW q, NEW s, NEW i,
         q \in Seq(ranking_Chars), s \in Ranking_State, i \in Nat
  PROVE  /\ Ranked!Scan(c, q, s, i) \in Ranking_State
         /\ Ranking_Hit(c, q, s, i) => /\ Ranked!Scan(c, q, s, i).qi = s.qi + 1
                                       /\ Ranked!Scan(c, q, s, i).at = Append(s.at, i)
         /\ ~ Ranking_Hit(c, q, s, i) => /\ Ranked!Scan(c, q, s, i).qi = s.qi
                                         /\ Ranked!Scan(c, q, s, i).at = s.at
<1> DEFINE hit == Ranking_Hit(c, q, s, i)
           next_to == s.prev # 0 /\ i = s.prev + 1
           run0 == IF s.boundary THEN 0 ELSE s.run
           run == IF next_to THEN run0 + 1 ELSE 0
           skipped == IF s.prev = 0 \/ next_to THEN 0 ELSE i - s.prev - 1
           score == s.score + (IF s.boundary THEN 24 ELSE 0)
                      + (IF next_to THEN 12 + 2 * Ranked!BoundedMin(run, 5) ELSE 0)
           gap == Ranked!BoundedMin(s.gap + 3 * skipped, Ranked!GAP_CAP)
           t == Ranked!Scan(c, q, s, i)
           matched == [s EXCEPT !.score = score, !.gap = gap, !.qi = @ + 1, !.prev = i,
                                !.run = run, !.at = Append(@, i)]
<1>1. /\ s.score \in Int /\ s.gap \in Int /\ s.qi \in Nat \ {0} /\ s.prev \in Int /\ s.run \in Int
      /\ s.boundary \in BOOLEAN /\ s.at \in Seq(Nat)
  BY DEF Ranking_State
<1>2. run \in Int /\ skipped \in Int
  BY <1>1
<1>3. t = [(IF hit THEN matched ELSE s) EXCEPT !.boundary = c[i] = ranking_Separator]
  BY DEF Ranked!Scan, Ranking_Hit
<1> HIDE DEF run, skipped
<1>4. score \in Int
  BY <1>1, <1>2 DEF Ranked!BoundedMin
<1>5. gap \in Int
  BY <1>1, <1>2 DEF Ranked!BoundedMin, Ranked!GAP_CAP
<1>6. Append(s.at, i) \in Seq(Nat) /\ s.qi + 1 \in Nat \ {0}
  BY <1>1
<1> HIDE DEF score, gap, t
<1>7. CASE hit
  <2>1. t = [[s EXCEPT !.score = score, !.gap = gap, !.qi = s.qi + 1, !.prev = i,
                       !.run = run, !.at = Append(s.at, i)] EXCEPT !.boundary = c[i] = ranking_Separator]
    BY <1>3, <1>7
  <2> HIDE DEF hit
  <2>2. t \in Ranking_State
    <3> DEFINE at == Append(s.at, i)
               qi == s.qi + 1
               u == [s EXCEPT !.score = score, !.gap = gap, !.qi = qi, !.prev = i,
                              !.run = run, !.at = at]
               v == c[i] = ranking_Separator
    <3>1. u \in Ranking_State
      <4>1. at \in Seq(Nat) /\ qi \in Nat \ {0} /\ i \in Int
        BY <1>6
      <4> HIDE DEF at, qi
      <4> QED BY <1>2, <1>4, <1>5, <4>1 DEF Ranking_State
    <3>2. t = [u EXCEPT !.boundary = v] /\ v \in BOOLEAN
      BY <2>1
    <3> HIDE DEF u, v
    <3> QED BY <3>1, <3>2 DEF Ranking_State
  <2>3. t.qi = s.qi + 1 /\ t.at = Append(s.at, i)
    BY <2>1 DEF Ranking_State
  <2> QED BY <1>7, <2>2, <2>3 DEF t, hit
<1>8. CASE ~ hit
  <2>1. t = [s EXCEPT !.boundary = c[i] = ranking_Separator]
    BY <1>3, <1>8
  <2> HIDE DEF hit
  <2>2. t \in Ranking_State
    BY <1>1, <2>1 DEF Ranking_State
  <2>3. t.qi = s.qi /\ t.at = s.at
    BY <2>1 DEF Ranking_State
  <2> QED BY <1>8, <2>2, <2>3 DEF t, hit
<1> QED BY <1>7, <1>8

LEMMA Ranking_Scans ==
  ASSUME NEW c \in Seq(ranking_Chars), NEW q \in Seq(ranking_Chars)
  PROVE  LET scan == Ranked!Scanning(c, q)
         IN  /\ scan \in [0 .. Len(c) -> Ranking_State]
             /\ scan[0] = Ranked!Start
             /\ \A i \in 1 .. Len(c) : scan[i] = Ranked!Scan(c, q, scan[i - 1], i)
<1> DEFINE n == Len(c)
           step == [x \in (1 .. n) \X Ranking_State |-> Ranked!Scan(c, q, x[2], x[1])]
           Scans(f) == f = [i \in 0 .. n |-> IF i = 0 THEN Ranked!Start
                                             ELSE Ranked!Scan(c, q, f[i - 1], i)]
<1>1. n \in Nat
  OBVIOUS
<1>2. Ranked!Start \in Ranking_State
  <2>1. <<>> \in Seq(Nat)
    OBVIOUS
  <2> QED BY <2>1 DEF Ranked!Start, Ranking_State
<1>3. step \in [(1 .. n) \X Ranking_State -> Ranking_State]
  <2>1. ASSUME NEW i \in 1 .. n, NEW s \in Ranking_State
        PROVE  Ranked!Scan(c, q, s, i) \in Ranking_State
    <3>1. i \in Nat
      BY <1>1
    <3> QED BY <3>1, Ranking_Scan
  <2> QED BY <2>1
<1>4. PICK f : /\ f \in [0 .. n -> Ranking_State] /\ f[0] = Ranked!Start
               /\ \A i \in 1 .. n : f[i] = step[<<i, f[i - 1]>>]
  <2> HIDE DEF step, n, Scans
  <2>1. step \in Ranking_Steps(n, Ranking_State)
    BY <1>3 DEF Ranking_Steps
  <2>2. \E f : Ranking_Run(n, Ranking_State, Ranked!Start, step, f)
    BY <1>1, <1>2, <2>1, Ranking_Recursion
  <2> QED BY <2>2 DEF Ranking_Run
<1>5. \A i \in 1 .. n : f[i] = Ranked!Scan(c, q, f[i - 1], i)
  <2>1. ASSUME NEW i \in 1 .. n PROVE f[i] = Ranked!Scan(c, q, f[i - 1], i)
    <3>1. <<i, f[i - 1]>> \in (1 .. n) \X Ranking_State
      <4>1. i - 1 \in 0 .. n
        BY <1>1
      <4>2. f[i - 1] \in Ranking_State
        BY <1>4, <4>1
      <4> QED BY <4>2
    <3>2. step[<<i, f[i - 1]>>] = Ranked!Scan(c, q, f[i - 1], i)
      BY <3>1
    <3> QED BY <1>4, <3>2
  <2> QED BY <2>1
<1>6. Scans(f)
  BY <1>1, <1>4, <1>5
<1>7. Ranked!Scanning(c, q) = CHOOSE g : Scans(g)
  BY DEF Ranked!Scanning
<1>8. Scans(Ranked!Scanning(c, q))
  BY <1>6, <1>7
<1> DEFINE scan == Ranked!Scanning(c, q)
<1>9. scan = [i \in 0 .. n |-> IF i = 0 THEN Ranked!Start ELSE Ranked!Scan(c, q, scan[i - 1], i)]
  BY <1>8
<1> HIDE DEF scan, Scans
<1>10. scan[0] = Ranked!Start /\ \A i \in 1 .. n : scan[i] = Ranked!Scan(c, q, scan[i - 1], i)
  BY <1>1, <1>9
<1>11. \A i \in 0 .. n : scan[i] = f[i]
  <2> DEFINE Bad == {i \in 0 .. n : scan[i] # f[i]}
  <2>1. SUFFICES ASSUME Bad # {} PROVE FALSE
    OBVIOUS
  <2>2. PICK b \in Bad : \A i \in Bad : b <= i
    <3>1. Bad \subseteq Nat
      BY <1>1
    <3> QED BY <2>1, <3>1, LeastExists
  <2>3. b \in 1 .. n /\ b - 1 \in 0 .. n /\ b - 1 \notin Bad
    BY <1>1, <1>4, <1>10, <2>2
  <2>4. scan[b - 1] = f[b - 1]
    BY <2>3
  <2> QED BY <1>5, <1>10, <2>2, <2>3, <2>4
<1>12. scan \in [0 .. n -> Ranking_State]
  <2>1. DOMAIN scan = 0 .. n
    BY <1>9
  <2>2. scan = [i \in 0 .. n |-> scan[i]]
    BY <1>9
  <2> QED BY <1>4, <1>11, <2>1, <2>2
<1> QED BY <1>10, <1>12 DEF scan


Ranking_Embeds(f, q, c) ==
  /\ f \in [DOMAIN q -> DOMAIN c]
  /\ \A i, j \in DOMAIN q : c[f[i]] = q[i] /\ (i < j => f[i] < f[j])

(* After i characters: the characters found, in order, and no way to place the query has
   placed more of it by then. *)
Ranking_Found(c, q, s, i) ==
  /\ s.qi = Len(s.at) + 1 /\ s.qi <= Len(q) + 1
  /\ \A k \in 1 .. Len(s.at) : s.at[k] \in 1 .. i /\ c[s.at[k]] = q[k]
  /\ \A k, l \in 1 .. Len(s.at) : k < l => s.at[k] < s.at[l]
Ranking_Ahead(c, q, s, i) ==
  \A f : Ranking_Embeds(f, q, c) => \A j \in DOMAIN q : f[j] <= i => s.qi > j

LEMMA Ranking_FoundStep ==
  ASSUME NEW c \in Seq(ranking_Chars), NEW q \in Seq(ranking_Chars), NEW i \in 1 .. Len(c),
         NEW s \in Ranking_State, Ranking_Found(c, q, s, i - 1)
  PROVE  Ranking_Found(c, q, Ranked!Scan(c, q, s, i), i)
<1> DEFINE t == Ranked!Scan(c, q, s, i)
           hit == Ranking_Hit(c, q, s, i)
<1>1. /\ i \in Nat /\ i > 0 /\ s.at \in Seq(Nat) /\ s.qi \in Nat \ {0}
      /\ Len(q) \in Nat /\ Len(s.at) \in Nat
  BY DEF Ranking_State
<1>2. /\ hit => t.qi = s.qi + 1 /\ t.at = Append(s.at, i)
      /\ ~ hit => t.qi = s.qi /\ t.at = s.at
  BY <1>1, Ranking_Scan
<1> HIDE DEF hit
<1>3. CASE ~ hit
  <2> HIDE DEF t
  <2>1. t.qi = s.qi /\ t.at = s.at
    BY <1>2, <1>3
  <2>2. \A k \in 1 .. Len(s.at) : s.at[k] \in 1 .. i
    BY <1>1 DEF Ranking_Found
  <2>3. Ranking_Found(c, q, t, i)
    BY <1>1, <2>1, <2>2 DEF Ranking_Found
  <2> QED BY <2>3 DEF t
<1>4. CASE hit
  <2> DEFINE n == Len(s.at)
  <2>1. s.qi = n + 1 /\ n \in Nat
    BY <1>1 DEF Ranking_Found
  <2>2. t.qi = n + 2 /\ t.at = Append(s.at, i) /\ n + 1 <= Len(q) /\ c[i] = q[n + 1]
    BY <1>2, <1>4, <2>1 DEF hit, Ranking_Hit
  <2>3. Len(t.at) = n + 1 /\ t.at[n + 1] = i /\ \A k \in 1 .. n : t.at[k] = s.at[k]
    BY <1>1, <2>2
  <2>4. /\ \A k \in 1 .. n : s.at[k] \in 1 .. i - 1 /\ c[s.at[k]] = q[k]
        /\ \A k, l \in 1 .. n : k < l => s.at[k] < s.at[l]
    BY DEF Ranking_Found
  <2> HIDE DEF t, n
  <2>5. ASSUME NEW k \in 1 .. n + 1 PROVE t.at[k] \in 1 .. i /\ c[t.at[k]] = q[k]
    <3>1. CASE k = n + 1
      BY <1>1, <2>2, <2>3, <3>1
    <3>2. CASE k # n + 1
      <4>1. k \in 1 .. n
        BY <2>1, <3>2
      <4> QED BY <1>1, <2>3, <2>4, <4>1
    <3> QED BY <3>1, <3>2
  <2>6. ASSUME NEW k \in 1 .. n + 1, NEW l \in 1 .. n + 1, k < l PROVE t.at[k] < t.at[l]
    <3>1. k \in 1 .. n
      BY <2>1, <2>6
    <3>2. CASE l = n + 1
      BY <1>1, <2>3, <2>4, <3>1, <3>2
    <3>3. CASE l # n + 1
      <4>1. l \in 1 .. n
        BY <2>1, <3>3
      <4> QED BY <2>3, <2>4, <2>6, <3>1, <4>1
    <3> QED BY <3>2, <3>3
  <2>7. t.qi = Len(t.at) + 1 /\ t.qi <= Len(q) + 1
    BY <1>1, <2>1, <2>2, <2>3
  <2>8. Ranking_Found(c, q, t, i)
    BY <2>3, <2>5, <2>6, <2>7 DEF Ranking_Found
  <2> QED BY <2>8 DEF t
<1> QED BY <1>3, <1>4

LEMMA Ranking_AheadStep ==
  ASSUME NEW c \in Seq(ranking_Chars), NEW q \in Seq(ranking_Chars), NEW i \in 1 .. Len(c),
         NEW s \in Ranking_State, Ranking_Ahead(c, q, s, i - 1)
  PROVE  Ranking_Ahead(c, q, Ranked!Scan(c, q, s, i), i)
<1> DEFINE t == Ranked!Scan(c, q, s, i)
           hit == Ranking_Hit(c, q, s, i)
<1>1. /\ i \in Nat /\ i > 0 /\ s.qi \in Nat \ {0} /\ Len(q) \in Nat /\ Len(c) \in Nat
      /\ DOMAIN q = 1 .. Len(q) /\ DOMAIN c = 1 .. Len(c)
  BY DEF Ranking_State
<1>2. (hit => t.qi = s.qi + 1) /\ (~ hit => t.qi = s.qi)
  BY <1>1, Ranking_Scan
<1> HIDE DEF t, hit
<1>3. ASSUME NEW f, Ranking_Embeds(f, q, c), NEW j \in DOMAIN q, f[j] <= i
      PROVE  t.qi > j
  <2>1. /\ f[j] \in 1 .. Len(c) /\ c[f[j]] = q[j] /\ j \in 1 .. Len(q)
        /\ \A k \in DOMAIN q : f[k] \in 1 .. Len(c) /\ (k < j => f[k] < f[j])
    BY <1>1, <1>3 DEF Ranking_Embeds
  <2>2. \A k \in DOMAIN q : f[k] <= i - 1 => s.qi > k
    BY <1>3 DEF Ranking_Ahead
  <2>3. CASE f[j] <= i - 1
    BY <1>1, <1>2, <2>1, <2>2, <2>3
  <2>4. CASE ~ (f[j] <= i - 1)
    <3>1. f[j] = i
      BY <1>1, <1>3, <2>1, <2>4
    <3>2. s.qi >= j
      <4>1. CASE j = 1
        BY <1>1, <4>1
      <4>2. CASE j # 1
        <5>1. j - 1 \in DOMAIN q /\ j - 1 < j
          BY <1>1, <2>1, <4>2
        <5>2. f[j - 1] <= i - 1
          BY <1>1, <2>1, <3>1, <5>1
        <5>3. s.qi > j - 1
          BY <2>2, <5>1, <5>2
        <5> QED BY <1>1, <2>1, <5>3
      <4> QED BY <4>1, <4>2
    <3>3. s.qi = j => hit
      BY <1>1, <2>1, <3>1 DEF hit, Ranking_Hit
    <3> QED BY <1>1, <1>2, <2>1, <3>2, <3>3
  <2> QED BY <2>3, <2>4
<1>4. Ranking_Ahead(c, q, t, i)
  BY <1>3 DEF Ranking_Ahead
<1> QED BY <1>4 DEF t

LEMMA Ranking_Greedy ==
  ASSUME NEW c \in Seq(ranking_Chars), NEW q \in Seq(ranking_Chars)
  PROVE  LET s == Ranked!Scanned(c, q)
         IN  /\ s \in Ranking_State
             /\ Ranking_Found(c, q, s, Len(c)) /\ Ranking_Ahead(c, q, s, Len(c))
<1> DEFINE scan == Ranked!Scanning(c, q)
           n == Len(c)
           Good(i) == Ranking_Found(c, q, scan[i], i) /\ Ranking_Ahead(c, q, scan[i], i)
<1>1. /\ scan \in [0 .. n -> Ranking_State] /\ scan[0] = Ranked!Start
      /\ \A i \in 1 .. n : scan[i] = Ranked!Scan(c, q, scan[i - 1], i)
  BY Ranking_Scans
<1>2. n \in Nat /\ DOMAIN c = 1 .. n /\ DOMAIN q = 1 .. Len(q) /\ Len(q) \in Nat
  OBVIOUS
<1> HIDE DEF scan
<1>3. Good(0)
  <2>1. scan[0].qi = 1 /\ scan[0].at = <<>>
    BY <1>1 DEF Ranked!Start
  <2>2. Len(scan[0].at) = 0
    BY <2>1
  <2>3. Ranking_Found(c, q, scan[0], 0)
    BY <1>2, <2>1, <2>2 DEF Ranking_Found
  <2>4. ASSUME NEW f, Ranking_Embeds(f, q, c), NEW j \in DOMAIN q PROVE ~ (f[j] <= 0)
    <3>1. f[j] \in 1 .. n
      BY <1>2, <2>4 DEF Ranking_Embeds
    <3> QED BY <1>2, <3>1
  <2>5. Ranking_Ahead(c, q, scan[0], 0)
    BY <2>4 DEF Ranking_Ahead
  <2> QED BY <2>3, <2>5
<1>4. ASSUME NEW i \in 1 .. n, Good(i - 1) PROVE Good(i)
  <2>1. scan[i - 1] \in Ranking_State /\ scan[i] = Ranked!Scan(c, q, scan[i - 1], i)
    BY <1>1, <1>2
  <2>2. Ranking_Found(c, q, scan[i], i)
    BY <1>4, <2>1, Ranking_FoundStep
  <2>3. Ranking_Ahead(c, q, scan[i], i)
    BY <1>4, <2>1, Ranking_AheadStep
  <2> QED BY <2>2, <2>3
<1>5. Good(n)
  <2> DEFINE Bad == {i \in 0 .. n : ~ Good(i)}
  <2>1. CASE Bad = {}
    <3>1. n \in 0 .. n
      BY <1>2
    <3> QED BY <2>1, <3>1
  <2>2. CASE Bad # {}
    <3>1. Bad \subseteq Nat
      BY <1>2
    <3>2. PICK b \in Bad : \A i \in Bad : b <= i
      BY <2>2, <3>1, LeastExists
    <3> HIDE DEF Good
    <3>3. b \in 1 .. n /\ b - 1 \in 0 .. n /\ b - 1 \notin Bad /\ ~ Good(b)
      BY <1>2, <1>3, <3>2
    <3> QED BY <1>4, <3>3
  <2> QED BY <2>1, <2>2
<1>6. Ranked!Scanned(c, q) = scan[n] /\ scan[n] \in Ranking_State
  BY <1>1, <1>2 DEF Ranked!Scanned, scan
<1> QED BY <1>5, <1>6


(* Where the candidate is as long as the query, the matcher finds exactly the subsequences. *)
LEMMA Ranking_Matches ==
  ASSUME NEW c \in Seq(ranking_Chars), NEW q \in Seq(ranking_Chars), Len(c) >= Len(q), q # <<>>
  PROVE  Ranked!fuzzy_score(c, q) # None <=> Ranked!IsSubsequence(q, c)
<1> DEFINE s == Ranked!Scanned(c, q)
           x == Ranked!fuzzy_score(c, q)
<1>1. /\ Len(q) \in Nat /\ Len(c) \in Nat /\ DOMAIN q = 1 .. Len(q) /\ DOMAIN c = 1 .. Len(c)
  OBVIOUS
<1>2. Len(q) > 0 /\ c # <<>>
  <2>1. Len(q) > 0
    BY <1>1
  <2>2. c = <<>> => Len(c) = 0
    OBVIOUS
  <2> QED BY <1>1, <2>1, <2>2
<1>3. x = IF Ranked!Prefixed(c, q) THEN 200 ELSE Ranked!Scored(c, q)
  BY <1>2 DEF Ranked!fuzzy_score, Ranked!PREFIX_SCORE
<1>5. Ranked!IsSubsequence(q, c) <=> \E f : Ranking_Embeds(f, q, c)
  BY DEF Ranked!IsSubsequence, Ranking_Embeds
<1>6. s \in Ranking_State /\ Ranking_Found(c, q, s, Len(c)) /\ Ranking_Ahead(c, q, s, Len(c))
  BY Ranking_Greedy
<1>7. CASE Ranked!Prefixed(c, q)
  <2> DEFINE f == [i \in 1 .. Len(q) |-> i]
  <2>1. \A i \in 1 .. Len(q) : c[i] = q[i]
    BY <1>1, <1>7 DEF Ranked!Prefixed, Ranked!BoundedMin
  <2>2. Ranking_Embeds(f, q, c)
    BY <1>1, <2>1 DEF Ranking_Embeds
  <2>3. x # None
    BY <1>3, <1>7, MarksAssumption
  <2> QED BY <1>5, <2>2, <2>3
<1>8. CASE ~ Ranked!Prefixed(c, q)
  <2>1. x = IF s.qi <= Len(q) THEN None ELSE Ranked!BoundedMax(s.score - s.gap, 0)
    BY <1>3, <1>8 DEF Ranked!Scored
  <2>2. s.qi \in Nat /\ s.score \in Int /\ s.gap \in Int /\ s.at \in Seq(Nat)
    BY <1>6 DEF Ranking_State
  <2> HIDE DEF s, x
  <2>3. CASE s.qi <= Len(q)
    <3>1. ASSUME NEW f, Ranking_Embeds(f, q, c) PROVE FALSE
      <4>1. Len(q) \in DOMAIN q
        BY <1>1, <1>2
      <4>2. f[Len(q)] <= Len(c)
        BY <1>1, <3>1, <4>1 DEF Ranking_Embeds
      <4>3. s.qi > Len(q)
        BY <1>6, <3>1, <4>1, <4>2 DEF Ranking_Ahead
      <4> QED BY <1>1, <2>2, <2>3, <4>3
    <3>2. x = None
      BY <2>1, <2>3
    <3> QED BY <1>5, <3>1, <3>2 DEF x
  <2>4. CASE ~ (s.qi <= Len(q))
    <3>1. Ranked!BoundedMax(s.score - s.gap, 0) \in Nat
      BY <2>2 DEF Ranked!BoundedMax
    <3>2. x # None
      BY <2>1, <2>4, <3>1, MarksAssumption
    <3>3. Len(s.at) = Len(q)
      BY <1>1, <1>6, <2>2, <2>4 DEF Ranking_Found
    <3> DEFINE f == [k \in 1 .. Len(q) |-> s.at[k]]
    <3>4. Ranking_Embeds(f, q, c)
      BY <1>1, <1>6, <3>3 DEF Ranking_Found, Ranking_Embeds
    <3> QED BY <1>5, <3>2, <3>4 DEF x
  <2> QED BY <2>3, <2>4
<1> QED BY <1>7, <1>8

Ranking_Tiers == {"exact", "prefix", "contains", "none"}

(* Every score of a candidate is a number, and what matched stays matched with its boosts. *)
LEMMA Ranking_KeywordScore ==
  ASSUME NEW tiers \in Seq(Ranking_Tiers)
  PROVE  Ranked!KeywordScores(tiers)[Len(tiers)] \in Nat
<1> DEFINE n == Len(tiers)
           worth(i) == Ranked!keyword_score[tiers[i]]
           step == [x \in (1 .. n) \X Nat |-> x[2] + worth(x[1])]
           Sums(f) == f = [i \in 0 .. n |-> IF i = 0 THEN 0 ELSE f[i - 1] + worth(i)]
<1>1. n \in Nat
  OBVIOUS
<1>2. \A i \in 1 .. n : worth(i) \in Nat
  <2>1. ASSUME NEW i \in 1 .. n PROVE worth(i) \in Nat
    <3>1. tiers[i] \in Ranking_Tiers
      OBVIOUS
    <3>2. \A tier \in Ranking_Tiers : Ranked!keyword_score[tier] \in Nat
      BY DEF Ranking_Tiers, Ranked!keyword_score
    <3> QED BY <3>1, <3>2
  <2> QED BY <2>1
<1> HIDE DEF worth
<1>3. step \in Ranking_Steps(n, Nat)
  BY <1>1, <1>2 DEF Ranking_Steps
<1>4. PICK f : /\ f \in [0 .. n -> Nat] /\ f[0] = 0
               /\ \A i \in 1 .. n : f[i] = step[<<i, f[i - 1]>>]
  <2> HIDE DEF step, n, Sums
  <2>1. \E f : Ranking_Run(n, Nat, 0, step, f)
    BY <1>1, <1>3, Ranking_Recursion
  <2> QED BY <2>1 DEF Ranking_Run
<1>5. \A i \in 1 .. n : f[i] = f[i - 1] + worth(i)
  <2>1. ASSUME NEW i \in 1 .. n PROVE f[i] = f[i - 1] + worth(i)
    <3>1. <<i, f[i - 1]>> \in (1 .. n) \X Nat
      BY <1>1, <1>4
    <3> QED BY <1>4, <3>1
  <2> QED BY <2>1
<1> DEFINE g == Ranked!KeywordScores(tiers)
<1>6. g = [i \in 0 .. n |-> IF i = 0 THEN 0 ELSE g[i - 1] + worth(i)]
  <2>1. Sums(f)
    BY <1>1, <1>4, <1>5
  <2>2. g = CHOOSE h : Sums(h)
    BY DEF Ranked!KeywordScores, worth
  <2> QED BY <2>1, <2>2
<1> HIDE DEF g, step, Sums
<1>7. g[0] = 0 /\ \A i \in 1 .. n : g[i] = g[i - 1] + worth(i)
  BY <1>1, <1>6
<1>8. \A i \in 0 .. n : g[i] \in Nat
  <2> DEFINE Bad == {i \in 0 .. n : g[i] \notin Nat}
  <2>1. SUFFICES ASSUME Bad # {} PROVE FALSE
    OBVIOUS
  <2>2. PICK b \in Bad : \A i \in Bad : b <= i
    <3>1. Bad \subseteq Nat
      BY <1>1
    <3> QED BY <2>1, <3>1, LeastExists
  <2>3. b \in 1 .. n /\ b - 1 \in 0 .. n /\ b - 1 \notin Bad
    BY <1>1, <1>7, <2>2
  <2>4. g[b] = g[b - 1] + worth(b) /\ g[b - 1] \in Nat /\ worth(b) \in Nat
    BY <1>2, <1>7, <2>3
  <2> QED BY <2>2, <2>4
<1> QED BY <1>1, <1>8 DEF g

LEMMA Ranking_Total ==
  ASSUME NEW c \in ranking_Candidates
  PROVE  /\ Ranked!Total(c) \in Nat
         /\ Ranked!score(c) > 0 <=> Ranked!Total(c) > 0
         /\ c.provider \in Int /\ c.id \in Int
<1> DEFINE text == Ranked!TitleScore(c) + Ranked!KeywordScore(c)
           hint == c.hint * (IF text > 0 THEN 30 ELSE 90)
           multi == IF c.tokens > 1 /\ c.has_all THEN 60 ELSE 0
           boost == Ranked!favorite_and_context_boost(c)
<1>1. /\ c.provider \in Int /\ c.id \in Int
      /\ c.hint \in Nat /\ c.fuzzy \in Nat /\ c.uses \in Nat /\ c.recency \in Nat
      /\ c.favorite \in Nat /\ c.context \in Nat
  BY RankingAssumption
<1>2. Ranked!TitleScore(c) \in Nat
  <2>1. c.title \in Ranking_Tiers /\ c.word \in Ranking_Tiers
    BY RankingAssumption DEF Ranked!best_title_score, Ranking_Tiers
  <2>2. \A tier \in Ranking_Tiers : Ranked!best_title_score[tier] \in Nat
    BY DEF Ranking_Tiers, Ranked!best_title_score
  <2>3. Ranked!best_title_score[c.title] \in Nat /\ Ranked!best_title_score[c.word] \in Nat
    BY <2>1, <2>2
  <2> QED BY <2>3 DEF Ranked!TitleScore, Ranked!BoundedMax, Ranked!BoundedMin, Ranked!title_word
<1>3. Ranked!KeywordScore(c) \in Nat
  <2>1. DOMAIN Ranked!keyword_score = Ranking_Tiers
    BY DEF Ranked!keyword_score, Ranking_Tiers
  <2>2. c.keywords \in Seq(Ranking_Tiers)
    BY <2>1, RankingAssumption
  <2> QED BY <2>2, Ranking_KeywordScore DEF Ranked!KeywordScore
<1>4. Ranked!type_prior[c.category] \in Nat
  <2>1. c.category \in {"Application", "Folder", "Command", "Plugin", "File"}
    BY RankingAssumption DEF Ranked!type_prior
  <2> QED BY <2>1 DEF Ranked!type_prior
<1>5. boost \in Nat
  <2>1. 6 * Ranked!BoundedMin(c.uses, 10) \in Nat
    BY <1>1 DEF Ranked!BoundedMin
  <2> QED BY <1>1, <2>1 DEF Ranked!favorite_and_context_boost, Ranked!usage_boost
<1>6. text \in Nat
  BY <1>2, <1>3
<1> HIDE DEF text
<1>7. hint \in Nat
  BY <1>1, <1>6
<1>8. Ranked!score(c) \in Nat
  <2> DEFINE matched == text + hint + (IF text = 0 /\ c.hint = 0 THEN c.fuzzy ELSE 0) + multi
  <2>1. Ranked!score(c) = IF matched > 0 THEN matched + Ranked!type_prior[c.category] ELSE 0
    BY DEF Ranked!score, text, Ranked!plugin_hint, Ranked!plugin_hint_matched, Ranked!multi_token
  <2> HIDE DEF hint
  <2>2. matched \in Nat
    BY <1>1, <1>6, <1>7
  <2> HIDE DEF matched
  <2> QED BY <1>4, <2>1, <2>2
<1>9. Ranked!Total(c) = IF Ranked!score(c) > 0 THEN Ranked!score(c) + boost ELSE 0
  BY DEF Ranked!Total
<1> HIDE DEF boost
<1> QED BY <1>1, <1>5, <1>8, <1>9


LEMMA Ranking_Cardinality ==
  ASSUME NEW S
  PROVE  Ranked!Cardinality(S) = Cardinality(S)
BY DEF Ranked!Cardinality, Cardinality

LEMMA Ranking_Order ==
  ASSUME NEW a \in ranking_Candidates, NEW b \in ranking_Candidates
  PROVE  /\ Ranked!Before(a, b) \/ Ranked!Before(b, a)
         /\ Ranked!Before(a, b) => Ranked!Total(a) >= Ranked!Total(b)
         /\ Ranked!Before(a, b) /\ Ranked!Before(b, a) =>
              Ranked!Total(a) = Ranked!Total(b) /\ a.provider = b.provider /\ a.id = b.id
<1>1. ASSUME NEW x \in ranking_Candidates
      PROVE  Ranked!Total(x) \in Int /\ x.provider \in Int /\ x.id \in Int
  BY Ranking_Total
<1> QED BY <1>1 DEF Ranked!Before

LEMMA Ranking_Transitive ==
  ASSUME NEW a \in ranking_Candidates, NEW b \in ranking_Candidates,
         NEW c \in ranking_Candidates, Ranked!Before(a, b), Ranked!Before(b, c)
  PROVE  Ranked!Before(a, c)
<1>1. ASSUME NEW x \in ranking_Candidates
      PROVE  Ranked!Total(x) \in Int /\ x.provider \in Int /\ x.id \in Int
  BY Ranking_Total
<1> QED BY <1>1 DEF Ranked!Before

Ranking_Lists(list, cs) ==
  /\ list \in [1 .. Cardinality(cs) -> cs]
  /\ \A c \in cs : \E i \in DOMAIN list : list[i] = c
  /\ \A i, j \in DOMAIN list : i < j => list[i] # list[j] /\ Ranked!Before(list[i], list[j])

(* One command more goes where the first that is not before it stands. *)
LEMMA Ranking_Insert ==
  ASSUME NEW cs, cs \subseteq ranking_Candidates, IsFiniteSet(cs), NEW x \in cs,
         NEW old, Ranking_Lists(old, cs \ {x})
  PROVE  \E list : Ranking_Lists(list, cs)
<1> DEFINE n == Cardinality(cs \ {x})
           After == {i \in 1 .. n : Ranked!Before(x, old[i])} \cup {n + 1}
<1>1. n \in Nat /\ Cardinality(cs) = n + 1
  <2>1. IsFiniteSet(cs \ {x}) /\ Cardinality(cs \ {x}) = Cardinality(cs) - 1
    BY FS_RemoveElement
  <2> QED BY <2>1, FS_CardinalityType
<1>2. /\ \A i \in 1 .. n : old[i] \in cs /\ old[i] # x /\ old[i] \in ranking_Candidates
      /\ DOMAIN old = 1 .. n
      /\ \A i, j \in 1 .. n : i < j => old[i] # old[j] /\ Ranked!Before(old[i], old[j])
  BY DEF Ranking_Lists
<1>3. PICK k \in After : \A i \in After : k <= i
  <2>1. After \subseteq Nat /\ After # {}
    BY <1>1
  <2> QED BY <2>1, LeastExists
<1> HIDE DEF n
<1>4. k \in 1 .. n + 1
  BY <1>1, <1>3
<1>5. \A i \in 1 .. n : i < k => Ranked!Before(old[i], x)
  <2>1. ASSUME NEW i \in 1 .. n, i < k PROVE Ranked!Before(old[i], x)
    <3>1. i \notin After
      BY <1>1, <1>3, <1>4, <2>1
    <3>2. ~ Ranked!Before(x, old[i])
      BY <3>1
    <3> QED BY <1>2, <3>2, Ranking_Order
  <2> QED BY <2>1
<1>6. \A i \in 1 .. n : i >= k => Ranked!Before(x, old[i])
  <2>1. ASSUME NEW i \in 1 .. n, i >= k PROVE Ranked!Before(x, old[i])
    <3>1. k \in 1 .. n /\ Ranked!Before(x, old[k])
      BY <1>1, <1>3, <1>4, <2>1
    <3>2. CASE i = k
      BY <3>1, <3>2
    <3>3. CASE i # k
      <4>1. Ranked!Before(old[k], old[i])
        <5>1. k < i
          BY <1>1, <2>1, <3>1, <3>3
        <5> QED BY <1>2, <3>1, <5>1
      <4>2. x \in ranking_Candidates /\ old[k] \in ranking_Candidates /\ old[i] \in ranking_Candidates
        BY <1>2, <3>1
      <4> HIDE DEF After
      <4> QED BY <3>1, <4>1, <4>2, Ranking_Transitive
    <3> QED BY <3>2, <3>3
  <2> QED BY <2>1
<1> DEFINE from(i) == IF i < k THEN i ELSE i - 1
           list == [i \in 1 .. n + 1 |-> IF i = k THEN x ELSE old[from(i)]]
<1>7. \A i \in 1 .. n + 1 : i # k => /\ from(i) \in 1 .. n
                                     /\ list[i] = old[from(i)]
                                     /\ i < k => from(i) < k
                                     /\ i > k => from(i) >= k
  BY <1>1, <1>4
<1>8. list[k] = x
  BY <1>4
<1>9. list \in [1 .. n + 1 -> cs]
  BY <1>2, <1>7
<1>10. ASSUME NEW c \in cs PROVE \E i \in 1 .. n + 1 : list[i] = c
  <2>1. CASE c = x
    BY <1>4, <1>8, <2>1
  <2>2. CASE c # x
    <3>1. PICK i \in 1 .. n : old[i] = c
      BY <1>2, <2>2 DEF Ranking_Lists
    <3> DEFINE to == IF i < k THEN i ELSE i + 1
    <3>2. to \in 1 .. n + 1 /\ to # k /\ from(to) = i
      BY <1>1, <1>4
    <3> HIDE DEF to, from, list
    <3> QED BY <1>7, <3>1, <3>2
  <2> QED BY <2>1, <2>2
<1>11. ASSUME NEW i \in 1 .. n + 1, NEW j \in 1 .. n + 1, i < j
       PROVE  list[i] # list[j] /\ Ranked!Before(list[i], list[j])
  <2>1. CASE i = k
    <3>1. j # k /\ j > k
      BY <1>1, <1>4, <1>11, <2>1
    <3>2. from(j) \in 1 .. n /\ list[j] = old[from(j)] /\ from(j) >= k
      BY <1>7, <3>1
    <3> HIDE DEF list, from
    <3> QED BY <1>2, <1>6, <1>8, <2>1, <3>2
  <2>2. CASE j = k
    <3>1. i # k /\ i < k
      BY <1>1, <1>4, <1>11, <2>2
    <3>2. from(i) \in 1 .. n /\ list[i] = old[from(i)] /\ from(i) < k
      BY <1>7, <3>1
    <3> HIDE DEF list, from
    <3> QED BY <1>2, <1>5, <1>8, <2>2, <3>2
  <2>3. CASE i # k /\ j # k
    <3>1. /\ from(i) \in 1 .. n /\ list[i] = old[from(i)]
          /\ from(j) \in 1 .. n /\ list[j] = old[from(j)]
      BY <1>7, <2>3
    <3>2. from(i) < from(j)
      BY <1>1, <1>4, <1>11, <2>3
    <3> HIDE DEF list, from
    <3> QED BY <1>2, <3>1, <3>2
  <2> QED BY <2>1, <2>2, <2>3
<1> HIDE DEF list
<1>12. Ranking_Lists(list, cs)
  <2>1. DOMAIN list = 1 .. n + 1 /\ list \in [1 .. Cardinality(cs) -> cs]
    BY <1>1, <1>9
  <2> QED BY <1>10, <1>11, <2>1 DEF Ranking_Lists
<1> QED BY <1>12

LEMMA Ranking_Sorted ==
  ASSUME NEW cs, cs \subseteq ranking_Candidates, IsFiniteSet(cs)
  PROVE  Ranking_Lists(Ranked!Sorted(cs), cs)
<1> DEFINE Enumerable(t) == \E list : Ranking_Lists(list, t)
           Bad == {Cardinality(t) : t \in {u \in SUBSET cs : ~ Enumerable(u)}}
<1>1. Enumerable(cs)
  <2>1. CASE Bad = {}
    BY <2>1
  <2>2. CASE Bad # {}
    <3>1. \A t \in SUBSET cs : IsFiniteSet(t) /\ Cardinality(t) \in Nat
      BY FS_Subset, FS_CardinalityType
    <3>2. Bad \subseteq Nat
      BY <3>1
    <3>3. PICK b \in Bad : \A m \in Bad : b <= m
      BY <2>2, <3>2, LeastExists
    <3>4. PICK t \in SUBSET cs : b = Cardinality(t) /\ ~ Enumerable(t)
      BY <3>3
    <3>5. IsFiniteSet(t) /\ t \subseteq ranking_Candidates
      BY <3>1
    <3> HIDE DEF Enumerable
    <3>6. CASE t = {}
      <4>1. Cardinality(t) = 0
        BY <3>6, FS_EmptySet
      <4> DEFINE list == [i \in 1 .. 0 |-> i]
      <4>2. Ranking_Lists(list, t)
        BY <3>6, <4>1 DEF Ranking_Lists
      <4> QED BY <3>4, <4>2 DEF Enumerable
    <3>7. CASE t # {}
      <4>1. PICK x : x \in t
        BY <3>7
      <4>2. Cardinality(t \ {x}) = b - 1 /\ t \ {x} \in SUBSET cs
        BY <3>4, <3>5, <4>1, FS_RemoveElement
      <4>3. b - 1 \notin Bad
        <5> HIDE DEF Bad
        <5>1. b \in Nat /\ ~(b <= b - 1)
          BY <3>2
        <5> QED BY <3>3, <5>1
      <4>4. Enumerable(t \ {x})
        BY <4>2, <4>3
      <4>5. PICK old : Ranking_Lists(old, t \ {x})
        BY <4>4 DEF Enumerable
      <4>6. Enumerable(t)
        BY <3>5, <4>1, <4>5, Ranking_Insert DEF Enumerable
      <4> QED BY <3>4, <4>6
    <3> QED BY <3>6, <3>7
  <2> QED BY <2>1, <2>2
<1>2. Ranked!Sorted(cs) = CHOOSE list : Ranking_Lists(list, cs)
  <2>1. Ranked!Cardinality(cs) = Cardinality(cs)
    BY Ranking_Cardinality
  <2> QED BY <2>1 DEF Ranked!Sorted, Ranking_Lists
<1> QED BY <1>1, <1>2


LEMMA Ranking_Best ==
  ASSUME NEW cs, cs \subseteq ranking_Candidates, IsFiniteSet(cs), cs # {}
  PROVE  \E b \in cs : \A d \in cs : Ranked!Before(b, d)
<1> DEFINE list == Ranked!Sorted(cs)
           n == Cardinality(cs)
<1>1. Ranking_Lists(list, cs)
  BY Ranking_Sorted
<1>2. n \in Nat /\ n # 0
  BY FS_CardinalityType, FS_EmptySet
<1> HIDE DEF list, n
<1>3. /\ DOMAIN list = 1 .. n /\ list[1] \in cs
      /\ \A c \in cs : \E i \in 1 .. n : list[i] = c
      /\ \A i, j \in 1 .. n : i < j => Ranked!Before(list[i], list[j])
  BY <1>1, <1>2 DEF Ranking_Lists, n
<1>4. ASSUME NEW d \in cs PROVE Ranked!Before(list[1], d)
  <2>1. PICK i \in 1 .. n : list[i] = d
    BY <1>3
  <2>2. CASE i = 1
    BY <1>3, <2>1, <2>2, Ranking_Order
  <2>3. CASE i # 1
    <3>1. 1 \in 1 .. n /\ 1 < i
      BY <1>2, <2>3
    <3> QED BY <1>3, <2>1, <3>1
  <2> QED BY <2>2, <2>3
<1> QED BY <1>3, <1>4

(* Of what one provider answered under one id the best stays in the race. *)
LEMMA Ranking_OnceKeeps ==
  ASSUME NEW all, all \subseteq ranking_Candidates, IsFiniteSet(all),
         NEW c \in all, Ranked!Total(c) > 0
  PROVE  LET matched == {d \in all : Ranked!Total(d) > 0}
         IN  \E d \in Ranked!Once(matched) :
                /\ d.provider = c.provider /\ d.id = c.id
                /\ Ranked!Total(d) >= Ranked!Total(c)
                /\ c \in Ranked!Once(all) => d = c
<1> DEFINE matched == {d \in all : Ranked!Total(d) > 0}
           said == {d \in matched : d.provider = c.provider /\ d.id = c.id}
<1>1. \A d \in all : Ranked!Total(d) \in Int
  BY Ranking_Total
<1>2. CASE c \in Ranked!Once(all)
  <2>1. c \in Ranked!Once(matched)
    BY <1>2 DEF Ranked!Once
  <2> QED BY <1>1, <2>1
<1>3. CASE c \notin Ranked!Once(all)
  <2>1. said \subseteq ranking_Candidates /\ c \in said /\ IsFiniteSet(said)
    <3>1. said \subseteq all
      OBVIOUS
    <3> QED BY <3>1, FS_Subset
  <2>2. PICK b \in said : \A d \in said : Ranked!Before(b, d)
    <3> HIDE DEF said
    <3> QED BY <2>1, Ranking_Best
  <2>3. \A d \in said : Ranked!Total(b) >= Ranked!Total(d)
    <3> HIDE DEF said
    <3> QED BY <2>1, <2>2, Ranking_Order
  <2>4. b \in Ranked!Once(matched)
    BY <1>1, <2>3 DEF Ranked!Once
  <2> QED BY <1>3, <2>1, <2>3, <2>4
<1> QED BY <1>2, <1>3

LEMMA Ranking_KeptIs ==
  ASSUME NEW cs, cs \subseteq ranking_Candidates, IsFiniteSet(cs), NEW d \in cs
  PROVE  \E e \in Ranked!Kept(cs) : /\ Ranked!Before(e, d)
                                    /\ d \in Ranked!Same(cs, e)
<1> DEFINE same == Ranked!Same(cs, d)
<1>1. same \subseteq cs /\ d \in same /\ IsFiniteSet(same)
  <2>1. same \subseteq cs /\ d \in same
    BY DEF Ranked!Same
  <2> QED BY <2>1, FS_Subset
<1>2. PICK e \in same : \A x \in same : Ranked!Before(e, x)
  <2> HIDE DEF same
  <2> QED BY <1>1, Ranking_Best
<1>3. Ranked!Same(cs, e) = same
  BY DEF Ranked!Same
<1>4. e \in Ranked!Kept(cs)
  BY <1>1, <1>2, <1>3 DEF Ranked!Kept
<1> QED BY <1>1, <1>2, <1>3, <1>4

LEMMA Ranking_List ==
  ASSUME NEW all, all \subseteq ranking_Candidates, IsFiniteSet(all), Ranked!Told(all),
         ranking_input.kind = "rank", ranking_input.all = all,
         ranking_output = Ranked!rank_with_boost(all)
  PROVE  Ranked!RankKeepsBest
<1> DEFINE matched == {c \in all : Ranked!Total(c) > 0}
           cs == Ranked!Once(matched)
           kept == Ranked!Kept(cs)
           list == Ranked!Sorted(kept)
           n == Cardinality(kept)
           shown == Ranked!BoundedMin(ranking_Limit, n)
           out == ranking_output
<1>1. cs \subseteq all /\ kept \subseteq cs /\ IsFiniteSet(cs) /\ IsFiniteSet(kept)
  <2>1. cs \subseteq all
    BY DEF Ranked!Once
  <2>2. kept \subseteq cs
    BY DEF Ranked!Kept
  <2> QED BY <2>1, <2>2, FS_Subset
<1>2. n \in Nat /\ shown \in Nat /\ shown <= n /\ (shown = n \/ shown = ranking_Limit)
  <2>1. n \in Nat
    BY <1>1, FS_CardinalityType
  <2> QED BY <2>1, RankingAssumption DEF Ranked!BoundedMin
<1>3. out = [i \in 1 .. shown |-> Ranked!Merged(cs, list[i])]
  <2>1. Ranked!Cardinality(kept) = n
    BY Ranking_Cardinality
  <2> QED BY <2>1 DEF Ranked!rank_with_boost
<1>4. /\ \A i \in 1 .. n : list[i] \in kept
      /\ \A c \in kept : \E i \in 1 .. n : list[i] = c
      /\ \A i, j \in 1 .. n : i < j => list[i] # list[j] /\ Ranked!Before(list[i], list[j])
  <2> HIDE DEF kept
  <2>1. kept \subseteq ranking_Candidates
    BY <1>1
  <2>2. Ranking_Lists(list, kept)
    BY <1>1, <2>1, Ranking_Sorted
  <2> HIDE DEF list
  <2> QED BY <2>2 DEF Ranking_Lists
<1>5. ASSUME NEW a \in kept, NEW b \in kept,
             Ranked!search_identity_key(a) = Ranked!search_identity_key(b)
      PROVE  a = b
  <2>1. Ranked!Before(a, b) /\ Ranked!Before(b, a)
    BY <1>5 DEF Ranked!Kept, Ranked!Same
  <2> HIDE DEF kept, cs
  <2>2. a \in all /\ b \in all
    BY <1>1
  <2>3. Ranked!Total(a) = Ranked!Total(b) /\ a.provider = b.provider /\ a.id = b.id
    BY <2>1, <2>2, Ranking_Order
  <2> QED BY <2>2, <2>3 DEF Ranked!Told
<1>6. ASSUME NEW c \in all, Ranked!Total(c) > 0
      PROVE  \E d \in cs : /\ d.provider = c.provider /\ d.id = c.id
                           /\ Ranked!Total(d) >= Ranked!Total(c)
                           /\ c \in Ranked!Once(all) => d = c
  BY <1>6, Ranking_OnceKeeps
<1>7. ASSUME NEW d \in cs
      PROVE  \E k \in 1 .. n : /\ Ranked!Total(list[k]) >= Ranked!Total(d)
                               /\ d \in Ranked!Same(cs, list[k])
  <2> HIDE DEF cs
  <2>1. PICK e \in kept : Ranked!Before(e, d) /\ d \in Ranked!Same(cs, e)
    BY <1>1, Ranking_KeptIs
  <2> HIDE DEF kept
  <2>2. Ranked!Total(e) >= Ranked!Total(d)
    BY <1>1, <2>1, Ranking_Order
  <2> QED BY <1>4, <2>1, <2>2
<1>8. \A c \in all : Ranked!Total(c) \in Int /\ (Ranked!score(c) > 0 <=> Ranked!Total(c) > 0)
  BY Ranking_Total
<1> HIDE DEF matched, cs, kept, list, n, shown
<1>9. /\ DOMAIN out = 1 .. shown /\ Len(out) = shown
      /\ \A i \in 1 .. shown : /\ i \in 1 .. n /\ out[i].command = list[i]
                               /\ out[i].actions = UNION {d.actions : d \in Ranked!Same(cs, list[i])}
  <2>1. DOMAIN out = 1 .. shown /\ Len(out) = shown
    BY <1>2, <1>3
  <2>2. ASSUME NEW i \in 1 .. shown
        PROVE  /\ i \in 1 .. n /\ out[i].command = list[i]
               /\ out[i].actions = UNION {d.actions : d \in Ranked!Same(cs, list[i])}
    <3>1. out[i] = Ranked!Merged(cs, list[i])
      BY <1>3
    <3> QED BY <1>2, <3>1 DEF Ranked!Merged
  <2> QED BY <2>1, <2>2
<1>10. \A i, j \in 1 .. n : i < j => Ranked!Total(list[i]) >= Ranked!Total(list[j])
  <2>1. \A i \in 1 .. n : list[i] \in ranking_Candidates
    BY <1>1, <1>4
  <2> QED BY <1>4, <2>1, Ranking_Order
<1>11. \A i, j \in DOMAIN out : i < j =>
          /\ Ranked!Total(out[i].command) >= Ranked!Total(out[j].command)
          /\ Ranked!search_identity_key(out[i].command) # Ranked!search_identity_key(out[j].command)
  BY <1>4, <1>5, <1>9, <1>10
<1>12. ASSUME NEW c \in all, Ranked!score(c) > 0
       PROVE  \E d \in all :
          /\ d.provider = c.provider /\ d.id = c.id /\ Ranked!Total(d) >= Ranked!Total(c)
          /\ c \in Ranked!Once(all) => d = c
          /\ \/ \E i \in DOMAIN out :
                   /\ Ranked!search_identity_key(out[i].command) = Ranked!search_identity_key(d)
                   /\ Ranked!Total(out[i].command) >= Ranked!Total(d)
                   /\ d.actions \subseteq out[i].actions
             \/ /\ Len(out) = ranking_Limit
                /\ \A i \in DOMAIN out : Ranked!Total(out[i].command) >= Ranked!Total(d)
  <2>1. PICK d \in cs : /\ d.provider = c.provider /\ d.id = c.id
                        /\ Ranked!Total(d) >= Ranked!Total(c)
                        /\ c \in Ranked!Once(all) => d = c
    BY <1>6, <1>8, <1>12
  <2>2. d \in all
    BY <1>1
  <2>3. PICK k \in 1 .. n : /\ Ranked!Total(list[k]) >= Ranked!Total(d)
                            /\ d \in Ranked!Same(cs, list[k])
    BY <1>7
  <2>4. CASE k <= shown
    <3>1. /\ k \in DOMAIN out /\ out[k].command = list[k]
          /\ out[k].actions = UNION {x.actions : x \in Ranked!Same(cs, list[k])}
      BY <1>2, <1>9, <2>4
    <3>2. d.actions \subseteq out[k].actions
      BY <2>3, <3>1
    <3>3. Ranked!search_identity_key(d) = Ranked!search_identity_key(list[k])
      BY <2>3 DEF Ranked!Same
    <3> QED BY <2>1, <2>2, <2>3, <3>1, <3>2, <3>3
  <2>5. CASE ~ (k <= shown)
    <3>1. Len(out) = ranking_Limit
      BY <1>2, <1>9, <2>5
    <3>2. ASSUME NEW i \in DOMAIN out PROVE Ranked!Total(out[i].command) >= Ranked!Total(d)
      <4>1. i \in 1 .. n /\ i < k /\ out[i].command = list[i]
        BY <1>2, <1>9, <2>5
      <4>2. Ranked!Total(list[i]) >= Ranked!Total(list[k])
        BY <1>10, <4>1
      <4>3. /\ Ranked!Total(list[i]) \in Int /\ Ranked!Total(list[k]) \in Int
            /\ Ranked!Total(d) \in Int
        BY <1>1, <1>4, <1>8, <2>2, <4>1
      <4> QED BY <2>3, <4>1, <4>2, <4>3
    <3> QED BY <2>1, <2>2, <3>1, <3>2
  <2> QED BY <2>4, <2>5
<1> QED BY <1>11, <1>12 DEF Ranked!RankKeepsBest


Ranking_Given ==
  \/ /\ ranking_input.kind = "fuzzy"
     /\ ranking_input.text \in Seq(ranking_Chars) /\ ranking_input.query \in Seq(ranking_Chars)
  \/ /\ ranking_input.kind = "rank" /\ ranking_input.all \subseteq ranking_Candidates
     /\ IsFiniteSet(ranking_input.all) /\ Ranked!Told(ranking_input.all)

Ranking_IInv == Ranking_Given /\ ranking_output \in {None, Ranked!Answer}

LEMMA Ranking_Starts ==
  ASSUME Ranked!Init
  PROVE  Ranking_IInv
<1>1. CASE ranking_input \in [kind : {"fuzzy"}, text : Ranked!Texts(ranking_MaxText),
                              query : Ranked!Texts(ranking_MaxQuery)]
  <2>1. ASSUME NEW n \in Nat, NEW text \in Ranked!Texts(n) PROVE text \in Seq(ranking_Chars)
    <3>1. PICK k \in 0 .. n : text \in [1 .. k -> ranking_Chars]
      BY <2>1 DEF Ranked!Texts
    <3> QED BY <3>1
  <2>2. /\ ranking_input.kind = "fuzzy" /\ ranking_input.text \in Ranked!Texts(ranking_MaxText)
        /\ ranking_input.query \in Ranked!Texts(ranking_MaxQuery)
    BY <1>1
  <2>3. ranking_input.text \in Seq(ranking_Chars) /\ ranking_input.query \in Seq(ranking_Chars)
    BY <2>1, <2>2, RankingAssumption
  <2> QED BY <2>2, <2>3 DEF Ranked!Init, Ranking_IInv, Ranking_Given
<1>2. ASSUME NEW c \in ranking_Candidates, NEW d \in ranking_Candidates,
             NEW e \in ranking_Candidates, Ranked!Told({c, d, e}),
             ranking_input = [kind |-> "rank", all |-> {c, d, e}]
      PROVE  Ranking_IInv
  <2>1. IsFiniteSet({c, d, e})
    <3>1. IsFiniteSet({}) /\ {c, d, e} = (({} \cup {c}) \cup {d}) \cup {e}
      BY FS_EmptySet
    <3>2. IsFiniteSet({} \cup {c})
      BY <3>1, FS_AddElement
    <3>3. IsFiniteSet(({} \cup {c}) \cup {d})
      BY <3>2, FS_AddElement
    <3> QED BY <3>1, <3>3, FS_AddElement
  <2>2. ranking_input.kind = "rank" /\ ranking_input.all = {c, d, e}
    BY <1>2
  <2> QED BY <1>2, <2>1, <2>2 DEF Ranked!Init, Ranking_IInv, Ranking_Given
<1> QED BY <1>1, <1>2 DEF Ranked!Init

LEMMA Ranking_Step ==
  ASSUME Ranking_IInv, [Ranked!Next]_(Ranked!vars)
  PROVE  Ranking_IInv'
<1>1. UNCHANGED ranking_input /\ ranking_output' \in {ranking_output, Ranked!Answer}
  BY DEF Ranked!Next, Ranked!Compute, Ranked!vars
<1>2. Ranked!Answer' = Ranked!Answer
  BY <1>1 DEF Ranked!Answer
<1>3. Ranking_Given'
  BY <1>1 DEF Ranking_IInv, Ranking_Given
<1> QED BY <1>1, <1>2, <1>3 DEF Ranking_IInv

LEMMA Ranking_Holds ==
  ASSUME Ranking_IInv
  PROVE  Ranked!RankingSound
<1>1. CASE ranking_output = None
  BY <1>1 DEF Ranked!RankingSound, Ranked!RankKeepsBest, Ranked!FuzzyFinds
<1>2. CASE ranking_output = Ranked!Answer /\ ranking_input.kind = "rank"
  <2>1. ranking_output = Ranked!rank_with_boost(ranking_input.all)
    BY <1>2 DEF Ranked!Answer
  <2>2. /\ ranking_input.all \subseteq ranking_Candidates /\ IsFiniteSet(ranking_input.all)
        /\ Ranked!Told(ranking_input.all)
    BY <1>2 DEF Ranking_IInv, Ranking_Given
  <2>3. Ranked!RankKeepsBest
    BY <1>2, <2>1, <2>2, Ranking_List
  <2>4. Ranked!FuzzyFinds
    BY <1>2 DEF Ranked!FuzzyFinds
  <2> QED BY <2>3, <2>4 DEF Ranked!RankingSound
<1>3. CASE ranking_output = Ranked!Answer /\ ranking_input.kind # "rank"
  <2> DEFINE c == ranking_input.text
             q == ranking_input.query
  <2>1. c \in Seq(ranking_Chars) /\ q \in Seq(ranking_Chars)
    BY <1>3 DEF Ranking_IInv, Ranking_Given
  <2>2. ranking_output = <<Ranked!fuzzy_score(c, q)>>
    BY <1>3 DEF Ranked!Answer
  <2> HIDE DEF c, q
  <2>3. ranking_output[1] = Ranked!fuzzy_score(c, q)
    BY <2>2
  <2>4. Len(c) >= Len(q) /\ q # <<>> =>
          (ranking_output[1] # None <=> Ranked!IsSubsequence(q, c))
    BY <2>1, <2>3, Ranking_Matches
  <2>5. Ranked!FuzzyFinds
    BY <2>4 DEF Ranked!FuzzyFinds, c, q
  <2>6. Ranked!RankKeepsBest
    BY <1>3 DEF Ranked!RankKeepsBest
  <2> QED BY <2>5, <2>6 DEF Ranked!RankingSound
<1> QED BY <1>1, <1>2, <1>3 DEF Ranking_IInv

LEMMA Ranking_Safety == Ranked!Spec => []Ranked!RankingSound
<1>1. Ranked!Init => Ranking_IInv
  BY Ranking_Starts
<1>2. Ranking_IInv /\ [Ranked!Next]_(Ranked!vars) => Ranking_IInv'
  BY Ranking_Step
<1>3. Ranking_IInv => Ranked!RankingSound
  BY Ranking_Holds
<1> QED BY <1>1, <1>2, <1>3, PTL DEF Ranked!Spec


LEMMA Ranking_Unit ==
  ASSUME [Next]_vars
  PROVE  /\ (unit = "ranking") = (unit = "ranking")'
         /\ unit = "ranking" => [Ranked!Next]_(Ranked!vars)
<1>1. CASE RankedStep
  BY <1>1 DEF RankedStep
<1>2. CASE UNCHANGED vars
  BY <1>2 DEF vars, rankingVars, Ranked!vars
<1>3. CASE SearchStep \/ CatalogStep \/ IconsStep \/ CoordinatorStep \/ StarsStep \/
      FilesStep \/ SettingsStep \/ EditorStep \/ TriggerStep \/ EffectsStep \/ AgentStep
  BY <1>3 DEF SearchStep, CatalogStep, IconsStep, CoordinatorStep, StarsStep, FilesStep,
         SettingsStep, EditorStep, TriggerStep, EffectsStep, AgentStep
<1> QED BY <1>1, <1>2, <1>3 DEF Next

(* Whatever the candidates, the list has the best of each identity, in order, with the actions
   of what it replaced, and lacks nothing that matched unless it is full of better ones
   (rank_with_boost); and for candidates as long as the query the fuzzy matcher finds exactly
   the subsequences (fuzzy_score). *)
THEOREM RankedBest == Spec => []RankingSound
<1>1. Init => (unit = "ranking" => Ranked!Init)
  BY DEF Init
<1>2. [Next]_vars /\ unit = "ranking" =>
         [Ranked!Next]_(Ranked!vars) /\ (unit = "ranking")'
  BY Ranking_Unit
<1>3. [Next]_vars /\ ~(unit = "ranking") => ~(unit = "ranking")'
  BY Ranking_Unit
<1>4. Ranked!Spec => []Ranked!RankingSound
  BY Ranking_Safety
<1>5. (unit = "ranking" => Ranked!RankingSound) => RankingSound
  BY DEF RankingSound
<1> QED BY <1>1, <1>2, <1>3, <1>4, <1>5, PTL DEF Spec, Ranked!Spec
===============================================================================
