----------------------- MODULE IndexCoordinator_proofs -----------------------
(***************************************************************************)
(* Proofs about IndexCoordinator, for any roots and files, any capacities    *)
(* and any number of changes and faults: no update is lost.                  *)
(***************************************************************************)
EXTENDS IndexCoordinator, SequenceTheorems, TLAPS

Typed ==
  /\ there \subseteq Root /\ disk \in [File -> Version] /\ rows \in [File -> Version]
  /\ \A f \in File : RootOf[f] \notin there => disk[f] = 0
  /\ live \in [Root -> Nat] /\ dying \in [Root -> Nat]
  /\ notify \in [Root -> SUBSET SUBSET File] /\ chan \in Seq(CoordinatorMsg)
  /\ pc \in {"boot", "recv", "recover", "sweep", "batch", "commit"}
  /\ work \subseteq Root /\ dirty \subseteq Root
  /\ watched \subseteq Root /\ rewatch \subseteq Root
  /\ queue \in Seq(SUBSET File) /\ coalescer \subseteq File
  /\ DOMAIN batch \subseteq File /\ \A f \in DOMAIN batch : batch[f] \in Version
  /\ faults \in Seq(Faults)

Sent == {chan[i] : i \in DOMAIN chan}

(* The row that f has, or will have once the verified batch is written. *)
Expected(f) == IF f \in DOMAIN batch THEN batch[f] ELSE rows[f]

Noticed(f) ==
  \/ \E ids \in notify[RootOf[f]] : f \in ids
  \/ \E m \in Sent : m.kind = "Change" /\ f \in m.ids
  \/ f \in bridged

Covered(f) == Noticed(f) \/ RecoveryAhead(RootOf[f]) \/ f \in blind \/ Overflowed

Known == \A f \in File : Expected(f) # disk[f] => Covered(f)

(* An iteration begins with nothing left of the last one.  What recovery_pass
   finds dirty is scheduled for Sweep as well, which does rescan the root. *)
Passes ==
  /\ pc = "recover" => dirty = work /\ (work \subseteq rewatch \/ Overflowed)
  /\ pc # "recover" => dirty = {}
  /\ pc \notin {"boot", "recover"} => work = {}
  /\ pc \in {"boot", "recv", "commit"} => queue = <<>>
  /\ pc # "commit" => batch = <<>>
  /\ pc = "boot" => \A f \in File : RootOf[f] \in work => rows[f] = 0

OverflowIsTold == \A r \in Root : Overflow(r) \in Sent => Overflowed

IInv == Typed /\ Known /\ Passes /\ OverflowIsTold

-----------------------------------------------------------------------------

LEMMA RootType == \A f \in File : RootOf[f] \in Root
BY IndexAssumption

LEMMA InSent == \A m : InChannel(m) <=> m \in Sent
BY DEF InChannel, Sent

LEMMA Messages ==
  /\ \A ids \in SUBSET File : Change(ids) \in CoordinatorMsg /\ Change(ids).kind = "Change"
                              /\ Change(ids).ids = ids
  /\ \A r \in Root : /\ Overflow(r) \in CoordinatorMsg /\ WatcherExited(r) \in CoordinatorMsg
                     /\ Overflow(r).kind = "Overflow" /\ WatcherExited(r).kind = "WatcherExited"
                     /\ Overflow(r).root = r /\ WatcherExited(r).root = r
  /\ \A m \in CoordinatorMsg :
       \/ m.kind = "Change" /\ m.ids \in SUBSET File /\ m = Change(m.ids)
       \/ m.kind = "Overflow" /\ m.root \in Root /\ m = Overflow(m.root)
       \/ m.kind = "WatcherExited" /\ m.root \in Root /\ m = WatcherExited(m.root)
BY DEF CoordinatorMsg, Change, Overflow, WatcherExited

LEMMA SendOK ==
  ASSUME Typed, NEW m \in CoordinatorMsg, chan' = Append(chan, m)
  PROVE  chan' \in Seq(CoordinatorMsg) /\ Sent' = Sent \cup {m}
<1>1. /\ chan' \in Seq(CoordinatorMsg) /\ Len(chan') = Len(chan) + 1 /\ chan'[Len(chan) + 1] = m
      /\ \A i \in 1 .. Len(chan) : chan'[i] = chan[i]
      /\ Len(chan) \in Nat /\ DOMAIN chan = 1 .. Len(chan) /\ DOMAIN chan' = 1 .. Len(chan')
  BY AppendProperties, LenProperties DEF Typed
<1>2. DOMAIN chan' = DOMAIN chan \cup {Len(chan) + 1}
  BY <1>1
<1>3. Sent' = {chan'[i] : i \in DOMAIN chan'}
  BY DEF Sent
<1> QED BY <1>1, <1>2, <1>3 DEF Sent

LEMMA TakeOK ==
  ASSUME Typed, chan # <<>>, chan' = Tail(chan)
  PROVE  /\ chan' \in Seq(CoordinatorMsg) /\ Head(chan) \in CoordinatorMsg /\ Head(chan) \in Sent
         /\ Sent' \subseteq Sent /\ Sent \subseteq Sent' \cup {Head(chan)}
<1>1. /\ chan' \in Seq(CoordinatorMsg) /\ Len(chan') = Len(chan) - 1 /\ Head(chan) = chan[1]
      /\ \A i \in 1 .. Len(chan') : chan'[i] = chan[i + 1]
      /\ Len(chan) \in Nat \ {0} /\ DOMAIN chan = 1 .. Len(chan) /\ DOMAIN chan' = 1 .. Len(chan')
      /\ Head(chan) \in CoordinatorMsg
  BY HeadTailProperties, LenProperties, EmptySeq DEF Typed
<1>2. Sent' = {chan'[i] : i \in DOMAIN chan'}
  BY DEF Sent
<1>3. \A i \in DOMAIN chan : i = 1 \/ (i - 1 \in DOMAIN chan' /\ chan'[i - 1] = chan[i])
  BY <1>1
<1>4. \A i \in DOMAIN chan' : i + 1 \in DOMAIN chan /\ chan'[i] = chan[i + 1]
  BY <1>1
<1>5. Head(chan) \in Sent
  BY <1>1 DEF Sent
<1>6. Sent' \subseteq Sent
  BY <1>2, <1>4 DEF Sent
<1>7. Sent \subseteq Sent' \cup {Head(chan)}
  <2>1. SUFFICES ASSUME NEW i \in DOMAIN chan PROVE chan[i] \in Sent' \cup {Head(chan)}
    BY DEF Sent
  <2> QED BY <1>1, <1>2, <1>3
<1> QED BY <1>1, <1>5, <1>6, <1>7

LEMMA FaultOK ==
  ASSUME Typed, NEW kind, Fault(kind)
  PROVE  faults' \in Seq(Faults) /\ (Overflowed => Overflowed')
         /\ (kind = "overflow" => Overflowed')
<1>1. /\ kind \in Faults /\ faults' = Append(faults, kind)
  BY DEF Fault
<1>2. /\ faults' \in Seq(Faults) /\ Len(faults') = Len(faults) + 1 /\ faults'[Len(faults) + 1] = kind
      /\ \A i \in 1 .. Len(faults) : faults'[i] = faults[i]
      /\ Len(faults) \in Nat /\ DOMAIN faults = 1 .. Len(faults) /\ DOMAIN faults' = 1 .. Len(faults')
  BY <1>1, AppendProperties, LenProperties DEF Typed
<1>3. Overflowed => Overflowed'
  BY <1>2 DEF Overflowed
<1>4. kind = "overflow" => Overflowed'
  BY <1>2 DEF Overflowed
<1> QED BY <1>2, <1>3, <1>4

-----------------------------------------------------------------------------
(* The file system and the watchers. *)

LEMMA CoveredStays ==
  ASSUME NEW f \in File, Covered(f), UNCHANGED <<work, events, maint>>,
         Overflowed => Overflowed', Sent \subseteq Sent', blind \subseteq blind',
         (\E ids \in notify[RootOf[f]] : f \in ids) => Covered(f)',
         dying[RootOf[f]] > 0 => Covered(f)'
  PROVE  Covered(f)'
<1> USE DEF events, maint
<1>1. CASE \E m \in Sent : m.kind = "Change" /\ f \in m.ids
  BY <1>1 DEF Covered, Noticed
<1>2. CASE f \in bridged
  BY <1>2 DEF Covered, Noticed, bridged
<1>3. CASE RecoveryAhead(RootOf[f])
  BY <1>3, InSent DEF Covered, RecoveryAhead, InChannel, Sent
<1>4. CASE f \in blind \/ Overflowed
  BY <1>4 DEF Covered
<1> QED BY <1>1, <1>2, <1>3, <1>4 DEF Covered, Noticed

LEMMA Outside ==
  ASSUME IInv, UNCHANGED <<rows, pc, work, events, batch, maint>>, Typed', OverflowIsTold',
         \A f \in File : (disk'[f] = disk[f] /\ (Covered(f) => Covered(f)')) \/ Covered(f)',
         Overflowed => Overflowed'
  PROVE  IInv'
<1> USE DEF events, maint
<1>1. Known'
  <2>1. SUFFICES ASSUME NEW f \in File, Expected(f)' # disk'[f] PROVE Covered(f)'
    BY DEF Known
  <2>2. Expected(f)' = Expected(f)
    BY DEF Expected
  <2> QED BY <2>1, <2>2 DEF IInv, Known
<1>2. Passes'
  BY DEF IInv, Passes
<1> QED BY <1>1, <1>2 DEF IInv

LEMMA TouchOK ==
  ASSUME IInv, NEW r \in Root, NEW new \in [File -> Version], Touch(r, new),
         \A f \in File : RootOf[f] # r => new[f] = disk[f]
  PROVE  IInv'
<1> USE DEF fs, watchers, events, maint
<1> DEFINE ids == {f \in FilesOf(r) : new[f] # disk[f]}
<1>1. /\ r \in there /\ disk' = new /\ ids \in SUBSET File
      /\ notify' = IF live[r] > 0 THEN [notify EXCEPT ![r] = @ \cup {ids}] ELSE notify
      /\ blind' = IF live[r] > 0 THEN blind ELSE blind \cup ids
      /\ UNCHANGED <<there, rows, opening, live, dying, chan, pc, work, events, batch, maint, faults>>
  BY DEF Touch, FilesOf
<1> HIDE DEF ids
<1>2. notify' \in [Root -> SUBSET SUBSET File]
  BY <1>1 DEF IInv, Typed
<1>3. Typed'
  BY <1>1, <1>2 DEF IInv, Typed
<1>4. Sent' = Sent /\ (Overflowed => Overflowed')
  BY <1>1 DEF Sent, Overflowed
<1>5. OverflowIsTold'
  BY <1>4 DEF IInv, OverflowIsTold
<1>6. \A q \in Root : notify[q] \subseteq notify'[q]
  BY <1>1 DEF IInv, Typed
<1>7. ASSUME NEW f \in File
      PROVE  (disk'[f] = disk[f] /\ (Covered(f) => Covered(f)')) \/ Covered(f)'
  <2>1. CASE f \in ids
    <3>1. RootOf[f] = r
      BY <2>1 DEF ids, FilesOf
    <3>2. CASE live[r] > 0
      <4>1. ids \in notify'[RootOf[f]]
        BY <1>1, <3>1, <3>2 DEF IInv, Typed
      <4> QED BY <2>1, <4>1 DEF Covered, Noticed
    <3>3. CASE ~(live[r] > 0)
      BY <1>1, <2>1, <3>3 DEF Covered
    <3> QED BY <3>2, <3>3
  <2>2. CASE f \notin ids
    <3>1. disk'[f] = disk[f]
      BY <1>1, <2>2 DEF ids, FilesOf
    <3>2. (\E i \in notify[RootOf[f]] : f \in i) => Covered(f)'
      BY <1>6, RootType DEF Covered, Noticed
    <3>3. dying[RootOf[f]] > 0 => Covered(f)'
      BY <1>1 DEF Covered, RecoveryAhead
    <3>4. blind \subseteq blind'
      BY <1>1
    <3>5. Covered(f) => Covered(f)'
      BY <1>1, <1>4, <3>2, <3>3, <3>4, CoveredStays
    <3> QED BY <3>1, <3>5
  <2> QED BY <2>1, <2>2
<1> QED BY <1>1, <1>3, <1>4, <1>5, <1>7, Outside

LEMMA ChangeStep ==
  ASSUME IInv, (\E f \in File : Write(f)) \/ (\E f, g \in File : Rename(f, g))
  PROVE  IInv'
<1>1. ASSUME NEW f \in File, Write(f) PROVE IInv'
  <2>1. PICK v \in Version : Touch(RootOf[f], [disk EXCEPT ![f] = v])
    BY <1>1 DEF Write
  <2> DEFINE new == [disk EXCEPT ![f] = v]
  <2>2. new \in [File -> Version] /\ \A h \in File : RootOf[h] # RootOf[f] => new[h] = disk[h]
    BY DEF IInv, Typed
  <2> HIDE DEF new
  <2> QED BY <2>1, <2>2, TouchOK, RootType DEF new
<1>2. ASSUME NEW f \in File, NEW g \in File, Rename(f, g) PROVE IInv'
  <2> DEFINE new == [disk EXCEPT ![f] = 0, ![g] = disk[f]]
  <2>1. Touch(RootOf[f], new) /\ RootOf[g] = RootOf[f]
    BY <1>2 DEF Rename
  <2>2. 0 \in Version
    BY IndexAssumption DEF Version
  <2>3. new \in [File -> Version] /\ \A h \in File : RootOf[h] # RootOf[f] => new[h] = disk[h]
    BY <2>1, <2>2 DEF IInv, Typed
  <2> HIDE DEF new
  <2> QED BY <2>1, <2>3, TouchOK, RootType
<1> QED BY <1>1, <1>2

LEMMA RootStep ==
  ASSUME IInv, NEW r \in Root, RootVanishes(r) \/ RootReturns(r)
  PROVE  IInv'
<1> USE DEF fs, watchers, events, maint
<1>1. UNCHANGED <<rows, chan, pc, work, events, batch, maint>>
  BY DEF RootVanishes, RootReturns
<1>2. Sent' = Sent
  BY <1>1 DEF Sent
<1>3. 0 \in Version
  BY IndexAssumption DEF Version
<1>4. CASE RootVanishes(r)
  <2>1. /\ Fault("vanish") /\ there' = there \ {r}
        /\ disk' = [f \in File |-> IF RootOf[f] = r THEN 0 ELSE disk[f]]
        /\ dying' = [dying EXCEPT ![r] = @ + live[r]] /\ live' = [live EXCEPT ![r] = 0]
        /\ notify' = [notify EXCEPT ![r] = {}]
        /\ blind' = IF live[r] > 0 THEN blind ELSE blind \cup FilesOf(r)
    BY <1>4 DEF RootVanishes
  <2>2. faults' \in Seq(Faults) /\ (Overflowed => Overflowed')
    BY <2>1, FaultOK DEF IInv
  <2>3. /\ disk' \in [File -> Version]
        /\ \A f \in File : RootOf[f] \notin there' => disk'[f] = 0
    BY <1>3, <2>1 DEF IInv, Typed
  <2>4. /\ dying' \in [Root -> Nat] /\ live' \in [Root -> Nat]
        /\ \A q \in Root : dying[q] > 0 => dying'[q] > 0
        /\ live[r] > 0 => dying'[r] > 0
    BY <2>1 DEF IInv, Typed
  <2>5. notify' \in [Root -> SUBSET SUBSET File] /\ \A q \in Root \ {r} : notify'[q] = notify[q]
    BY <2>1 DEF IInv, Typed
  <2>6. Typed'
    BY <1>1, <2>1, <2>2, <2>3, <2>4, <2>5 DEF IInv, Typed
  <2>7. OverflowIsTold'
    BY <1>2, <2>2 DEF IInv, OverflowIsTold
  <2>8. ASSUME NEW f \in File
        PROVE  (disk'[f] = disk[f] /\ (Covered(f) => Covered(f)')) \/ Covered(f)'
    <3>1. CASE RootOf[f] = r
      <4>1. CASE live[r] > 0
        BY <2>4, <3>1, <4>1 DEF Covered, RecoveryAhead
      <4>2. CASE ~(live[r] > 0)
        BY <2>1, <3>1, <4>2 DEF Covered, FilesOf
      <4> QED BY <4>1, <4>2
    <3>2. CASE RootOf[f] # r
      <4>1. disk'[f] = disk[f]
        BY <2>1, <3>2
      <4>2. (\E ids \in notify[RootOf[f]] : f \in ids) => Covered(f)'
        BY <2>5, <3>2, RootType DEF Covered, Noticed
      <4>3. dying[RootOf[f]] > 0 => Covered(f)'
        BY <2>4, RootType DEF Covered, RecoveryAhead
      <4>4. blind \subseteq blind'
        BY <2>1
      <4>5. Covered(f) => Covered(f)'
        BY <1>1, <1>2, <2>2, <4>2, <4>3, <4>4, CoveredStays
      <4> QED BY <4>1, <4>5
    <3> QED BY <3>1, <3>2
  <2> QED BY <1>1, <2>2, <2>6, <2>7, <2>8, Outside
<1>5. CASE RootReturns(r)
  <2>1. PICK new \in [FilesOf(r) -> {0, 1}] :
            disk' = [f \in File |-> IF RootOf[f] = r THEN new[f] ELSE disk[f]]
    BY <1>5 DEF RootReturns
  <2>2. /\ there' = there \cup {r} /\ blind' = blind \cup FilesOf(r)
        /\ UNCHANGED <<watchers, faults>>
    BY <1>5 DEF RootReturns
  <2>3. Overflowed' = Overflowed
    BY <2>2 DEF Overflowed
  <2>4. \A f \in File : disk'[f] \in Version /\ (RootOf[f] # r => disk'[f] = disk[f])
    <3>1. TAKE f \in File
    <3>2. CASE RootOf[f] = r
      <4>1. disk'[f] \in {0, 1}
        BY <2>1, <3>2 DEF FilesOf
      <4> QED BY <3>2, <4>1, IndexAssumption DEF Version
    <3>3. CASE RootOf[f] # r
      BY <2>1, <3>3 DEF IInv, Typed
    <3> QED BY <3>2, <3>3
  <2>5. Typed'
    BY <1>1, <2>1, <2>2, <2>4 DEF IInv, Typed
  <2>6. OverflowIsTold'
    BY <1>2, <2>3 DEF IInv, OverflowIsTold
  <2>7. ASSUME NEW f \in File
        PROVE  (disk'[f] = disk[f] /\ (Covered(f) => Covered(f)')) \/ Covered(f)'
    <3>1. CASE RootOf[f] = r
      BY <2>2, <3>1 DEF Covered, FilesOf
    <3>2. CASE RootOf[f] # r
      <4>1. (\E ids \in notify[RootOf[f]] : f \in ids) => Covered(f)'
        BY <2>2 DEF Covered, Noticed
      <4>2. dying[RootOf[f]] > 0 => Covered(f)'
        BY <2>2 DEF Covered, RecoveryAhead
      <4>3. Covered(f) => Covered(f)'
        BY <1>1, <1>2, <2>2, <2>3, <4>1, <4>2, CoveredStays
      <4> QED BY <2>4, <3>2, <4>3
    <3> QED BY <3>1, <3>2
  <2> QED BY <1>1, <2>3, <2>5, <2>6, <2>7, Outside
<1> QED BY <1>4, <1>5

LEMMA WatcherStep ==
  ASSUME IInv, NEW r \in Root,
         \/ WatcherOpens(r) \/ WatcherSends(r) \/ WatcherReportsExit(r)
         \/ WatcherOverflows(r) \/ WatcherFails(r)
  PROVE  IInv'
<1> USE DEF fs, watchers, events, maint
<1>1. UNCHANGED <<there, disk, rows, pc, work, events, batch, maint, blind>>
  BY DEF WatcherOpens, WatcherSends, WatcherReportsExit, WatcherOverflows, WatcherFails
<1>2. SUFFICES /\ live' \in [Root -> Nat] /\ dying' \in [Root -> Nat]
               /\ notify' \in [Root -> SUBSET SUBSET File]
               /\ chan' \in Seq(CoordinatorMsg) /\ faults' \in Seq(Faults)
               /\ Overflowed => Overflowed'
               /\ Sent \subseteq Sent' /\ OverflowIsTold'
               /\ \A f \in File : (\E ids \in notify[RootOf[f]] : f \in ids) => Covered(f)'
               /\ \A f \in File : dying[RootOf[f]] > 0 => Covered(f)'
  <2>1. Typed'
    BY <1>1, <1>2 DEF IInv, Typed
  <2>2. ASSUME NEW f \in File PROVE Covered(f) => Covered(f)'
    BY <1>1, <1>2, CoveredStays
  <2> QED BY <1>1, <1>2, <2>1, <2>2, Outside
<1>3. CASE WatcherOpens(r)
  <2>1. UNCHANGED <<notify, chan, faults>> /\ Sent' = Sent /\ Overflowed' = Overflowed
    BY <1>3 DEF WatcherOpens, Sent, Overflowed
  <2>2. /\ live' \in [Root -> Nat] /\ dying' \in [Root -> Nat]
        /\ \A q \in Root : dying[q] > 0 => dying'[q] > 0
    <3>1. CASE live' = [live EXCEPT ![r] = @ + 1] /\ UNCHANGED dying
      BY <3>1 DEF IInv, Typed
    <3>2. CASE dying' = [dying EXCEPT ![r] = @ + 1] /\ UNCHANGED live
      BY <3>2 DEF IInv, Typed
    <3> QED BY <1>3, <3>1, <3>2 DEF WatcherOpens
  <2> QED BY <2>1, <2>2, RootType DEF IInv, Typed, OverflowIsTold, Covered, Noticed, RecoveryAhead
<1>4. CASE WatcherSends(r)
  <2>1. PICK ids \in notify[r] :
            notify' = [notify EXCEPT ![r] = @ \ {ids}] /\ chan' = Append(chan, Change(ids))
    BY <1>4 DEF WatcherSends
  <2>2. UNCHANGED <<live, dying, faults>> /\ Overflowed' = Overflowed
    BY <1>4 DEF WatcherSends, Overflowed
  <2>3. ids \in SUBSET File /\ Change(ids) \in CoordinatorMsg
    BY Messages DEF IInv, Typed
  <2>4. chan' \in Seq(CoordinatorMsg) /\ Sent' = Sent \cup {Change(ids)}
    BY <2>1, <2>3, SendOK DEF IInv
  <2>5. OverflowIsTold'
    <3>1. \A q \in Root : Overflow(q) # Change(ids)
      BY <2>3, Messages
    <3> QED BY <2>2, <2>4, <3>1 DEF IInv, OverflowIsTold
  <2>6. notify' \in [Root -> SUBSET SUBSET File]
    BY <2>1 DEF IInv, Typed
  <2>7. ASSUME NEW f \in File, NEW i \in notify[RootOf[f]], f \in i PROVE Covered(f)'
    <3>1. CASE i \in notify'[RootOf[f]]
      BY <2>7, <3>1 DEF Covered, Noticed
    <3>2. CASE i \notin notify'[RootOf[f]]
      <4>1. i = ids
        BY <2>1, <2>7, <3>2, RootType DEF IInv, Typed
      <4>2. Change(ids) \in Sent' /\ Change(ids).kind = "Change" /\ f \in Change(ids).ids
        BY <2>3, <2>4, <2>7, <4>1, Messages
      <4> QED BY <4>2 DEF Covered, Noticed
    <3> QED BY <3>1, <3>2
  <2>8. ASSUME NEW f \in File, dying[RootOf[f]] > 0 PROVE Covered(f)'
    BY <2>2, <2>8 DEF Covered, RecoveryAhead
  <2> QED BY <2>2, <2>4, <2>5, <2>6, <2>7, <2>8 DEF IInv, Typed
<1>5. CASE WatcherReportsExit(r)
  <2>1. /\ dying' = [dying EXCEPT ![r] = @ - 1] /\ dying[r] > 0
        /\ chan' = Append(chan, WatcherExited(r))
        /\ UNCHANGED <<live, notify, faults>> /\ Overflowed' = Overflowed
    BY <1>5 DEF WatcherReportsExit, Overflowed
  <2>2. chan' \in Seq(CoordinatorMsg) /\ Sent' = Sent \cup {WatcherExited(r)}
    BY <2>1, SendOK, Messages DEF IInv
  <2>3. OverflowIsTold'
    <3>1. \A q \in Root : Overflow(q) # WatcherExited(r)
      BY Messages
    <3> QED BY <2>1, <2>2, <3>1 DEF IInv, OverflowIsTold
  <2>4. /\ dying' \in [Root -> Nat]
        /\ \A q \in Root \ {r} : dying'[q] = dying[q]
    <3>1. dying[r] - 1 \in Nat
      BY <2>1 DEF IInv, Typed
    <3> QED BY <2>1, <3>1 DEF IInv, Typed
  <2>5. ASSUME NEW f \in File, dying[RootOf[f]] > 0 PROVE Covered(f)'
    <3>1. CASE RootOf[f] = r
      BY <2>2, <3>1 DEF Covered, RecoveryAhead, InChannel, Sent
    <3>2. CASE RootOf[f] # r
      BY <2>4, <2>5, <3>2, RootType DEF Covered, RecoveryAhead
    <3> QED BY <3>1, <3>2
  <2> QED BY <2>1, <2>2, <2>3, <2>4, <2>5 DEF IInv, Typed, Covered, Noticed
<1>6. CASE WatcherOverflows(r)
  <2>1. /\ Fault("overflow") /\ notify' = [notify EXCEPT ![r] = {}]
        /\ chan' = Append(chan, Overflow(r)) /\ UNCHANGED <<live, dying>>
    BY <1>6 DEF WatcherOverflows
  <2>2. faults' \in Seq(Faults) /\ Overflowed'
    BY <2>1, FaultOK DEF IInv
  <2>3. chan' \in Seq(CoordinatorMsg) /\ Sent \subseteq Sent'
    BY <2>1, SendOK, Messages DEF IInv
  <2>4. notify' \in [Root -> SUBSET SUBSET File]
    BY <2>1 DEF IInv, Typed
  <2> QED BY <2>1, <2>2, <2>3, <2>4 DEF IInv, Typed, OverflowIsTold, Covered
<1>7. CASE WatcherFails(r)
  <2>1. /\ Fault("exit") /\ live[r] > 0
        /\ live' = [live EXCEPT ![r] = @ - 1] /\ dying' = [dying EXCEPT ![r] = @ + 1]
        /\ notify' = IF live[r] = 1 THEN [notify EXCEPT ![r] = {}] ELSE notify
        /\ UNCHANGED chan
    BY <1>7 DEF WatcherFails
  <2>2. faults' \in Seq(Faults) /\ (Overflowed => Overflowed') /\ Sent' = Sent
    BY <2>1, FaultOK DEF IInv, Sent
  <2>3. /\ live' \in [Root -> Nat] /\ dying' \in [Root -> Nat] /\ dying'[r] > 0
        /\ \A q \in Root : dying[q] > 0 => dying'[q] > 0
    BY <2>1 DEF IInv, Typed
  <2>4. /\ notify' \in [Root -> SUBSET SUBSET File]
        /\ \A q \in Root \ {r} : notify'[q] = notify[q]
    BY <2>1 DEF IInv, Typed
  <2>5. ASSUME NEW f \in File, dying[RootOf[f]] > 0 \/ RootOf[f] = r PROVE Covered(f)'
    <3>1. dying'[RootOf[f]] > 0
      BY <2>3, <2>5, RootType
    <3> QED BY <3>1 DEF Covered, RecoveryAhead
  <2>6. ASSUME NEW f \in File, \E ids \in notify[RootOf[f]] : f \in ids PROVE Covered(f)'
    BY <2>4, <2>5, <2>6, RootType DEF Covered, Noticed
  <2> QED BY <2>1, <2>2, <2>3, <2>4, <2>5, <2>6 DEF IInv, Typed, OverflowIsTold
<1> QED BY <1>3, <1>4, <1>5, <1>6, <1>7

-----------------------------------------------------------------------------
(* The coordinator. *)

(* A step of the coordinator that writes no row loses nobody's change. *)
LEMMA NoWrite ==
  ASSUME IInv, UNCHANGED <<disk, rows, batch>>,
         \A f \in File : Covered(f) => Covered(f)'
  PROVE  Known'
<1>1. SUFFICES ASSUME NEW f \in File, Expected(f)' # disk'[f] PROVE Covered(f)'
  BY DEF Known
<1>2. Expected(f)' = Expected(f)
  BY DEF Expected
<1> QED BY <1>1, <1>2 DEF IInv, Known

LEMMA BridgedType == ASSUME Typed PROVE bridged \subseteq File
<1>1. \A i \in DOMAIN queue : queue[i] \in SUBSET File
  BY LenProperties, ElementOfSeq DEF Typed
<1> QED BY <1>1 DEF bridged, Typed

LEMMA ReceiveOK ==
  ASSUME IInv, Receive
  PROVE  IInv'
<1> USE DEF fs, watchers, maint
<1> DEFINE m == Head(chan)
<1>1. /\ pc = "recv" /\ pc' = "recover" /\ work' = dirty' /\ chan # <<>> /\ chan' = Tail(chan)
      /\ UNCHANGED <<fs, rows, batch, opening, live, dying, notify, faults, blind, watched>>
  BY DEF Receive, ToRecovery
<1>2. dirty = {} /\ work = {} /\ queue = <<>> /\ batch = <<>>
  BY <1>1 DEF IInv, Passes
<1>3. /\ chan' \in Seq(CoordinatorMsg) /\ m \in CoordinatorMsg /\ m \in Sent
      /\ Sent' \subseteq Sent /\ Sent \subseteq Sent' \cup {m}
  BY <1>1, TakeOK DEF IInv
<1>4. Overflowed' = Overflowed
  BY <1>1 DEF Overflowed
<1>5. OverflowIsTold'
  BY <1>3, <1>4 DEF IInv, OverflowIsTold
<1>6. ASSUME NEW f \in File PROVE (\E ids \in notify[RootOf[f]] : f \in ids) => Covered(f)'
  BY <1>1 DEF Covered, Noticed
<1>7. ASSUME NEW f \in File, dying[RootOf[f]] > 0 \/ f \in blind \/ Overflowed PROVE Covered(f)'
  BY <1>1, <1>4, <1>7 DEF Covered, RecoveryAhead
<1>8. ASSUME NEW f \in File, NEW x \in Sent, x # m
      PROVE  /\ x.kind = "Change" /\ f \in x.ids => Covered(f)'
             /\ x \in {WatcherExited(RootOf[f]), Overflow(RootOf[f])} => Covered(f)'
  <2>1. x \in Sent'
    BY <1>3, <1>8
  <2> QED BY <2>1, InSent DEF Covered, Noticed, RecoveryAhead, InChannel, Sent
<1> HIDE DEF m
<1>9. CASE m.kind = "Change" /\ PushChange(m.ids) /\ UNCHANGED rewatch
  <2>1. Len(queue) = 0 /\ 0 < QueueCapacity
    BY <1>2, EmptySeq, IndexAssumption
  <2>2. queue' = Append(queue, m.ids) /\ UNCHANGED <<coalescer, dirty>>
    BY <1>9, <2>1 DEF PushChange
  <2>3. m.ids \in SUBSET File /\ m = Change(m.ids)
    BY <1>3, <1>9, Messages
  <2>4. /\ queue' \in Seq(SUBSET File) /\ queue'[1] = m.ids /\ 1 \in DOMAIN queue'
    <3>1. queue \in Seq(SUBSET File)
      BY DEF IInv, Typed
    <3>2. /\ queue' \in Seq(SUBSET File) /\ Len(queue') = 1 /\ queue'[0 + 1] = m.ids
      BY <2>1, <2>2, <2>3, <3>1, AppendProperties
    <3>3. DOMAIN queue' = 1 .. 1
      BY <3>2, LenProperties
    <3> QED BY <3>2, <3>3
  <2>5. bridged = coalescer
    BY <1>2 DEF bridged
  <2>6. \A f \in m.ids \cup bridged : f \in bridged'
    BY <2>2, <2>4, <2>5 DEF bridged
  <2>7. ASSUME NEW f \in File, Covered(f) PROVE Covered(f)'
    <3>1. CASE f \in m.ids \cup bridged
      BY <2>6, <3>1 DEF Covered, Noticed
    <3>2. CASE \E x \in Sent : x.kind = "Change" /\ f \in x.ids
      BY <1>8, <2>6, <3>2 DEF Covered, Noticed
    <3>3. CASE RecoveryAhead(RootOf[f])
      <4>1. CASE InChannel(WatcherExited(RootOf[f])) \/ InChannel(Overflow(RootOf[f]))
        <5>1. WatcherExited(RootOf[f]) # m /\ Overflow(RootOf[f]) # m
          BY <2>3, RootType, Messages
        <5> QED BY <1>8, <4>1, <5>1, InSent
      <4>2. CASE RootOf[f] \in rewatch
        BY <1>9, <4>2 DEF Covered, RecoveryAhead
      <4> QED BY <1>2, <1>7, <3>3, <4>1, <4>2 DEF RecoveryAhead
    <3> QED BY <1>6, <1>7, <2>7, <3>1, <3>2, <3>3 DEF Covered, Noticed
  <2>8. Typed'
    BY <1>1, <1>2, <1>3, <1>9, <2>2, <2>4 DEF IInv, Typed
  <2>9. Passes'
    BY <1>1, <1>2, <2>2 DEF Passes
  <2> QED BY <1>1, <1>5, <2>7, <2>8, <2>9, NoWrite DEF IInv
<1>10. CASE m.kind = "Overflow" /\ DropEvents(m.root)
  <2>1. m.root \in Root /\ m = Overflow(m.root)
    BY <1>3, <1>10, Messages
  <2>2. Overflowed'
    BY <1>3, <1>4, <2>1 DEF IInv, OverflowIsTold
  <2>3. queue' = <<>> /\ coalescer' = {} /\ dirty' = dirty \cup {m.root} /\ UNCHANGED rewatch
    BY <1>10 DEF DropEvents
  <2>4. Typed'
    BY <1>1, <1>2, <1>3, <2>1, <2>3, EmptySeq DEF IInv, Typed
  <2>5. Passes'
    BY <1>1, <1>2, <2>2 DEF Passes
  <2>6. \A f \in File : Covered(f)'
    BY <2>2 DEF Covered
  <2> QED BY <1>1, <1>5, <2>4, <2>5, <2>6, NoWrite DEF IInv
<1>11. CASE m.kind = "WatcherExited" /\ ScheduleRewatch(m.root)
  <2>1. m.root \in Root /\ m = WatcherExited(m.root)
    BY <1>3, <1>11, Messages
  <2>2. /\ dirty' = dirty \cup {m.root} /\ rewatch' = rewatch \cup {m.root}
        /\ UNCHANGED <<queue, coalescer>>
    BY <1>11 DEF ScheduleRewatch
  <2>3. ASSUME NEW f \in File, Covered(f) PROVE Covered(f)'
    <3>1. CASE f \in bridged
      BY <2>2, <3>1 DEF Covered, Noticed, bridged
    <3>2. CASE \E x \in Sent : x.kind = "Change" /\ f \in x.ids
      BY <1>8, <1>11, <3>2
    <3>3. CASE RecoveryAhead(RootOf[f])
      <4>1. CASE RootOf[f] = m.root
        BY <2>2, <4>1 DEF Covered, RecoveryAhead
      <4>2. CASE /\ InChannel(WatcherExited(RootOf[f])) \/ InChannel(Overflow(RootOf[f]))
                 /\ RootOf[f] # m.root
        <5>1. WatcherExited(RootOf[f]) # m /\ Overflow(RootOf[f]) # m
          BY <1>11, <4>2, RootType, Messages
        <5> QED BY <1>8, <4>2, <5>1, InSent
      <4>3. CASE RootOf[f] \in rewatch
        BY <2>2, <4>3 DEF Covered, RecoveryAhead
      <4> QED BY <1>2, <1>7, <3>3, <4>1, <4>2, <4>3 DEF RecoveryAhead
    <3> QED BY <1>6, <1>7, <2>3, <3>1, <3>2, <3>3 DEF Covered, Noticed
  <2>4. Typed'
    BY <1>1, <1>2, <1>3, <2>1, <2>2 DEF IInv, Typed
  <2>5. Passes'
    BY <1>1, <1>2, <2>2 DEF Passes
  <2> QED BY <1>1, <1>5, <2>3, <2>4, <2>5, NoWrite DEF IInv
<1> QED BY <1>9, <1>10, <1>11 DEF Receive, m

(* What no step of the coordinator but Receive changes. *)
LEMMA Quiet ==
  ASSUME IInv, UNCHANGED <<there, disk, live, dying, notify, chan, faults>>
  PROVE  /\ OverflowIsTold' /\ Overflowed' = Overflowed /\ Sent' = Sent
         /\ there' \subseteq Root /\ disk' \in [File -> Version]
         /\ \A f \in File : RootOf[f] \notin there' => disk'[f] = 0
         /\ live' \in [Root -> Nat] /\ dying' \in [Root -> Nat]
         /\ notify' \in [Root -> SUBSET SUBSET File] /\ chan' \in Seq(CoordinatorMsg)
         /\ faults' \in Seq(Faults)
<1>1. Overflowed' = Overflowed /\ Sent' = Sent
  BY DEF Overflowed, Sent
<1> QED BY <1>1 DEF IInv, Typed, OverflowIsTold

(* The signs of an update that only a watcher or a message carries. *)
LEMMA QuietCover ==
  ASSUME IInv, UNCHANGED <<there, disk, live, dying, notify, chan, faults>>,
         NEW f \in File, Covered(f), f \in bridged => Covered(f)', f \in blind => Covered(f)',
         RootOf[f] \in dirty \cup work \cup rewatch => Covered(f)'
  PROVE  Covered(f)'
<1>1. Overflowed' = Overflowed /\ Sent' = Sent
  BY Quiet
<1>2. CASE Noticed(f)
  BY <1>1, <1>2 DEF Covered, Noticed
<1>3. CASE RecoveryAhead(RootOf[f])
  BY <1>3 DEF Covered, RecoveryAhead, InChannel
<1>4. CASE f \in blind \/ Overflowed
  BY <1>1, <1>4 DEF Covered
<1> QED BY <1>2, <1>3, <1>4 DEF Covered

LEMMA TurnOK ==
  ASSUME IInv, ReceiveTimesOut \/ EndRecovery
  PROVE  IInv'
<1> USE DEF fs, watchers, events, maint
<1>1. UNCHANGED <<there, disk, live, dying, notify, chan, faults, rows, batch, queue, coalescer,
                  dirty, watched, rewatch, blind>>
  BY DEF ReceiveTimesOut, ToRecovery, EndRecovery
<1>2. \/ pc = "recv" /\ pc' = "recover" /\ work' = dirty
      \/ /\ pc \in {"boot", "recover"} /\ work = {} /\ UNCHANGED work
         /\ pc' = IF pc = "boot" THEN "recv" ELSE "sweep"
  BY DEF ReceiveTimesOut, ToRecovery, EndRecovery
<1>3. work' = {} /\ work = {} /\ dirty = {} /\ pc' # "boot"
  BY <1>2 DEF IInv, Passes
<1>4. ASSUME NEW f \in File, Covered(f) PROVE Covered(f)'
  <2>1. f \in bridged => Covered(f)'
    BY <1>1 DEF Covered, Noticed, bridged
  <2>2. f \in blind => Covered(f)'
    BY <1>1 DEF Covered
  <2>3. RootOf[f] \in dirty \cup work \cup rewatch => Covered(f)'
    BY <1>1, <1>3 DEF Covered, RecoveryAhead
  <2> QED BY <1>1, <1>4, <2>1, <2>2, <2>3, QuietCover
<1>5. Typed'
  BY <1>1, <1>2, <1>3, Quiet DEF IInv, Typed
<1>6. Passes'
  BY <1>1, <1>2, <1>3 DEF IInv, Passes
<1>7. Known'
  BY <1>1, <1>4, NoWrite
<1> QED BY <1>1, <1>5, <1>6, <1>7, Quiet DEF IInv

LEMMA RecoverOK ==
  ASSUME IInv, NEW r \in Root, RecoverRoot(r)
  PROVE  IInv'
<1> USE DEF fs, watchers, events, maint
<1>1. /\ pc \in {"boot", "recover"} /\ r \in work /\ work' = work \ {r} /\ dirty' = dirty \ {r}
      /\ UNCHANGED <<there, disk, live, dying, notify, chan, faults, pc, queue, coalescer, batch,
                     watched, rewatch>>
  BY DEF RecoverRoot
<1>2. batch = <<>>
  BY <1>1 DEF IInv, Passes
<1>3. \/ \E f \in indexed(r) : rows' = [rows EXCEPT ![f] = 0] /\ UNCHANGED blind
      \/ indexed(r) = {} /\ r \in there /\ rows' = Rescanned({r}) /\ blind' = blind \ FilesOf(r)
      \/ indexed(r) = {} /\ r \notin there /\ UNCHANGED <<rows, blind>>
  BY DEF RecoverRoot
<1>4. /\ rows' \in [File -> Version]
      /\ \A f \in File : RootOf[f] # r => rows'[f] = rows[f] /\ (f \in blind => f \in blind')
      /\ indexed(r) = {} => \A f \in File : RootOf[f] = r => rows'[f] = disk[f]
      /\ indexed(r) # {} => UNCHANGED blind
  <2>1. ASSUME NEW g \in indexed(r), rows' = [rows EXCEPT ![g] = 0], UNCHANGED blind
        PROVE  /\ rows' \in [File -> Version]
               /\ \A f \in File : RootOf[f] # r => rows'[f] = rows[f]
    <3>1. g \in File /\ RootOf[g] = r /\ 0 \in Version
      BY IndexAssumption DEF indexed, FilesOf, Version
    <3> QED BY <2>1, <3>1 DEF IInv, Typed
  <2>2. CASE indexed(r) = {} /\ r \in there /\ rows' = Rescanned({r}) /\ blind' = blind \ FilesOf(r)
    <3>1. \A f \in File : rows'[f] = IF RootOf[f] = r THEN disk[f] ELSE rows[f]
      BY <2>2 DEF Rescanned, scan_into, FilesOf
    <3>2. rows' \in [File -> Version]
      <4>1. rows' = [f \in File |-> IF RootOf[f] \in {r} THEN scan_into(RootOf[f])[f] ELSE rows[f]]
        BY <2>2 DEF Rescanned
      <4> QED BY <3>1, <4>1 DEF IInv, Typed
    <3> QED BY <2>2, <3>1, <3>2 DEF FilesOf
  <2>3. CASE indexed(r) = {} /\ r \notin there /\ UNCHANGED <<rows, blind>>
    <3>1. \A f \in File : RootOf[f] = r => rows[f] = 0 /\ disk[f] = 0
      BY <2>3 DEF IInv, Typed, indexed, FilesOf
    <3> QED BY <2>3, <3>1 DEF IInv, Typed
  <2> QED BY <1>3, <2>1, <2>2, <2>3
<1>5. pc = "boot" => indexed(r) = {}
  BY <1>1 DEF IInv, Passes, indexed, FilesOf
<1>6. ASSUME NEW f \in File, Covered(f), RootOf[f] # r \/ indexed(r) # {} PROVE Covered(f)'
  <2>1. f \in bridged => Covered(f)'
    BY <1>1 DEF Covered, Noticed, bridged
  <2>2. f \in blind => Covered(f)'
    BY <1>4, <1>6 DEF Covered
  <2>3. RootOf[f] \in dirty \cup work \cup rewatch => Covered(f)'
    <3>1. CASE RootOf[f] # r
      BY <1>1, <3>1 DEF Covered, RecoveryAhead
    <3>2. CASE RootOf[f] = r
      <4>1. pc = "recover"
        BY <1>1, <1>5, <1>6, <3>2
      <4>2. r \in rewatch \/ Overflowed
        BY <1>1, <4>1 DEF IInv, Passes
      <4> QED BY <1>1, <3>2, <4>2, Quiet DEF Covered, RecoveryAhead
    <3> QED BY <3>1, <3>2
  <2> QED BY <1>1, <1>6, <2>1, <2>2, <2>3, QuietCover
<1>7. Known'
  <2>1. SUFFICES ASSUME NEW f \in File, Expected(f)' # disk'[f] PROVE Covered(f)'
    BY DEF Known
  <2>2. Expected(f) = rows[f] /\ Expected(f)' = rows'[f]
    BY <1>1, <1>2 DEF Expected
  <2>3. CASE RootOf[f] # r
    BY <1>1, <1>4, <1>6, <2>1, <2>2, <2>3 DEF IInv, Known
  <2>4. CASE RootOf[f] = r
    <3>1. indexed(r) # {} /\ pc = "recover"
      BY <1>1, <1>4, <1>5, <2>1, <2>2, <2>4
    <3>2. r \in rewatch \/ Overflowed
      BY <1>1, <3>1 DEF IInv, Passes
    <3> QED BY <1>1, <2>4, <3>2, Quiet DEF Covered, RecoveryAhead
  <2> QED BY <2>3, <2>4
<1>8. Typed'
  BY <1>1, <1>4, Quiet DEF IInv, Typed
<1>9. Passes'
  BY <1>1, <1>4, Quiet DEF IInv, Passes
<1> QED BY <1>1, <1>7, <1>8, <1>9, Quiet DEF IInv

LEMMA SweepOK ==
  ASSUME IInv, Sweep
  PROVE  IInv'
<1> USE DEF fs, watchers, events, maint
<1>1. PICK missing \in {{}, watched \ there} :
        \E due \in SUBSET ((rewatch \cup missing) \cap there) :
          /\ pc = "sweep" /\ pc' = "batch"
          /\ watched' = (watched \ missing) \cup due
          /\ rewatch' = (rewatch \cup missing) \ due
          /\ rows' = Rescanned(due) /\ blind' = {f \in blind : RootOf[f] \notin due}
          /\ UNCHANGED <<fs, live, dying, notify, chan, work, events, batch, faults>>
  BY DEF Sweep
<1>2. PICK due \in SUBSET ((rewatch \cup missing) \cap there) :
          /\ pc = "sweep" /\ pc' = "batch"
          /\ watched' = (watched \ missing) \cup due
          /\ rewatch' = (rewatch \cup missing) \ due
          /\ rows' = Rescanned(due) /\ blind' = {f \in blind : RootOf[f] \notin due}
          /\ UNCHANGED <<fs, live, dying, notify, chan, work, events, batch, faults>>
  BY <1>1
<1>3. batch = <<>> /\ dirty = {} /\ work = {}
  BY <1>2 DEF IInv, Passes
<1>4. \A f \in File : rows'[f] = IF RootOf[f] \in due THEN disk[f] ELSE rows[f]
  BY <1>2 DEF Rescanned, scan_into, FilesOf
<1>5. rows' \in [File -> Version]
  <2>1. rows' = [f \in File |-> IF RootOf[f] \in due THEN scan_into(RootOf[f])[f] ELSE rows[f]]
    BY <1>2 DEF Rescanned
  <2> QED BY <1>4, <2>1 DEF IInv, Typed
<1>6. ASSUME NEW f \in File, Covered(f), RootOf[f] \notin due PROVE Covered(f)'
  <2>1. f \in bridged => Covered(f)'
    BY <1>2 DEF Covered, Noticed, bridged
  <2>2. f \in blind => Covered(f)'
    BY <1>2, <1>6 DEF Covered
  <2>3. RootOf[f] \in dirty \cup work \cup rewatch => Covered(f)'
    BY <1>2, <1>3, <1>6 DEF Covered, RecoveryAhead
  <2> QED BY <1>2, <1>6, <2>1, <2>2, <2>3, QuietCover
<1>7. Known'
  <2>1. SUFFICES ASSUME NEW f \in File, Expected(f)' # disk'[f] PROVE Covered(f)'
    BY DEF Known
  <2>2. Expected(f) = rows[f] /\ Expected(f)' = rows'[f]
    BY <1>2, <1>3 DEF Expected
  <2> QED BY <1>2, <1>4, <1>6, <2>1, <2>2 DEF IInv, Known
<1>8. watched' \subseteq Root /\ rewatch' \subseteq Root
  <2>1. missing \subseteq watched
    BY <1>1
  <2>2. due \subseteq there
    OBVIOUS
  <2> QED BY <1>2, <2>1, <2>2 DEF IInv, Typed
<1>9. Typed'
  BY <1>2, <1>5, <1>8, Quiet DEF IInv, Typed
<1>10. Passes'
  BY <1>2, <1>3 DEF IInv, Passes
<1> QED BY <1>2, <1>7, <1>9, <1>10, Quiet DEF IInv

LEMMA BatchOK ==
  ASSUME IInv, NotDue \/ Verify \/ ApplyBatch
  PROVE  IInv'
<1> USE DEF fs, watchers, events, maint
<1>1. UNCHANGED <<there, disk, live, dying, notify, chan, faults, work, dirty, watched, rewatch,
                  blind>>
  BY DEF NotDue, Verify, ApplyBatch, Bridge
<1>2. \A i \in DOMAIN <<>> : FALSE
  OBVIOUS
<1>3. <<>> \in Seq(SUBSET File)
  BY EmptySeq
<1>4. ASSUME NEW f \in File, Covered(f), f \in bridged => Covered(f)' PROVE Covered(f)'
  BY <1>1, <1>4, QuietCover DEF Covered, RecoveryAhead
<1>5. CASE NotDue
  <2>1. /\ pc = "batch" /\ pc' = "recv" /\ queue' = <<>> /\ coalescer' = bridged
        /\ UNCHANGED <<rows, batch>>
    BY <1>5 DEF NotDue, Bridge
  <2>2. \A f \in bridged : f \in bridged'
    BY <2>1 DEF bridged
  <2>3. \A f \in File : Covered(f) => Covered(f)'
    BY <1>4, <2>2 DEF Covered, Noticed
  <2>4. Known'
    BY <1>1, <2>1, <2>3, NoWrite
  <2>5. Typed'
    BY <1>1, <1>3, <2>1, Quiet, BridgedType DEF IInv, Typed
  <2>6. Passes'
    BY <1>1, <2>1 DEF IInv, Passes
  <2> QED BY <1>1, <2>4, <2>5, <2>6, Quiet DEF IInv
<1>6. CASE Verify
  <2>1. /\ pc = "batch" /\ pc' = "commit" /\ queue' = <<>> /\ coalescer' = {}
        /\ batch' = [f \in bridged |-> disk[f]] /\ UNCHANGED rows
    BY <1>6 DEF Verify, Bridge
  <2>2. batch = <<>>
    BY <2>1 DEF IInv, Passes
  <2>3. Known'
    <3>1. SUFFICES ASSUME NEW f \in File, Expected(f)' # disk'[f] PROVE Covered(f)'
      BY DEF Known
    <3>2. f \notin bridged
      BY <1>1, <2>1, <3>1 DEF Expected
    <3>3. Expected(f)' = rows[f] /\ Expected(f) = rows[f]
      BY <2>1, <2>2, <3>2 DEF Expected
    <3> QED BY <1>1, <1>4, <3>1, <3>2, <3>3 DEF IInv, Known
  <2>4. DOMAIN batch' \subseteq File /\ \A f \in DOMAIN batch' : batch'[f] \in Version
    BY <2>1, BridgedType DEF IInv, Typed
  <2>5. Typed'
    BY <1>1, <1>3, <2>1, <2>4, Quiet DEF IInv, Typed
  <2>6. Passes'
    BY <1>1, <2>1 DEF IInv, Passes
  <2> QED BY <1>1, <2>3, <2>5, <2>6, Quiet DEF IInv
<1>7. CASE ApplyBatch
  <2>1. /\ pc = "commit" /\ pc' = "recv" /\ batch' = <<>> /\ UNCHANGED <<queue, coalescer>>
        /\ rows' = [f \in File |-> IF f \in DOMAIN batch THEN batch[f] ELSE rows[f]]
    BY <1>7 DEF ApplyBatch
  <2>2. rows' \in [File -> Version]
    BY <2>1 DEF IInv, Typed
  <2>3. Known'
    <3>1. SUFFICES ASSUME NEW f \in File, Expected(f)' # disk'[f] PROVE Covered(f)'
      BY DEF Known
    <3>2. Expected(f)' = Expected(f)
      BY <2>1 DEF Expected
    <3>3. f \in bridged => Covered(f)'
      BY <2>1 DEF Covered, Noticed, bridged
    <3> QED BY <1>1, <1>4, <3>1, <3>2, <3>3 DEF IInv, Known
  <2>4. DOMAIN batch' \subseteq File /\ \A f \in DOMAIN batch' : batch'[f] \in Version
    BY <2>1
  <2>5. Typed'
    BY <1>1, <2>1, <2>2, <2>4, Quiet DEF IInv, Typed
  <2>6. Passes'
    BY <1>1, <2>1 DEF IInv, Passes
  <2> QED BY <1>1, <2>3, <2>5, <2>6, Quiet DEF IInv
<1> QED BY <1>5, <1>6, <1>7

-----------------------------------------------------------------------------
LEMMA InitInv == Init => IInv
<1> SUFFICES ASSUME Init PROVE IInv
  OBVIOUS
<1>1. 0 \in Version /\ 1 \in Version
  BY IndexAssumption DEF Version
<1>2. /\ <<>> \in Seq(CoordinatorMsg) /\ <<>> \in Seq(SUBSET File) /\ <<>> \in Seq(Faults)
      /\ DOMAIN <<>> = {}
  BY EmptySeq
<1>3. disk \in [File -> Version] /\ rows \in [File -> Version]
  BY <1>1 DEF Init
<1>4. Typed
  BY <1>2, <1>3, RootType DEF Init, Typed
<1>5. Known
  BY RootType DEF Init, Known, Covered, RecoveryAhead
<1>6. Passes
  BY DEF Init, Passes
<1>7. OverflowIsTold
  BY <1>2 DEF Init, OverflowIsTold, Sent
<1> QED BY <1>4, <1>5, <1>6, <1>7 DEF IInv

LEMMA Stutter ==
  ASSUME IInv, UNCHANGED vars
  PROVE  IInv'
<1> USE DEF fs, watchers, events, maint
<1>1. UNCHANGED <<there, disk, rows, live, dying, notify, chan, pc, work, queue, coalescer, dirty,
                  batch, watched, rewatch, faults, blind>>
  BY DEF vars
<1>2. Typed'
  BY <1>1, Quiet DEF IInv, Typed
<1>3. \A f \in File : Covered(f) => Covered(f)'
  BY <1>1 DEF Covered, Noticed, RecoveryAhead, InChannel, Sent, Overflowed, bridged
<1>4. Known'
  BY <1>1, <1>3, NoWrite
<1>5. Passes'
  BY <1>1, Quiet DEF IInv, Passes
<1> QED BY <1>1, <1>2, <1>4, <1>5, Quiet DEF IInv

LEMMA StepInv == IInv /\ [Next]_vars => IInv'
<1> SUFFICES ASSUME IInv, [Next]_vars PROVE IInv'
  OBVIOUS
<1>1. CASE Coordinator
  BY <1>1, ReceiveOK, TurnOK, SweepOK, BatchOK, RecoverOK DEF Coordinator
<1>2. ASSUME NEW r \in Root,
             \/ WatcherOpens(r) \/ WatcherSends(r) \/ WatcherReportsExit(r)
             \/ WatcherOverflows(r) \/ WatcherFails(r)
      PROVE  IInv'
  BY <1>2, WatcherStep
<1>3. ASSUME NEW r \in Root, RootVanishes(r) \/ RootReturns(r) PROVE IInv'
  BY <1>3, RootStep
<1>4. CASE (\E f \in File : Write(f)) \/ (\E f, g \in File : Rename(f, g))
  BY <1>4, ChangeStep
<1>5. CASE UNCHANGED vars
  BY <1>5, Stutter
<1> QED BY <1>1, <1>2, <1>3, <1>4, <1>5 DEF Next

LEMMA Invariance == Spec => []IInv
<1> QED BY InitInv, StepInv, PTL DEF Spec

(* What the invariant says of the row to come, for the row there is: a row   *)
(* that a verified batch is about to correct is reported by the batch.       *)
LEMMA Consequence == IInv => NoLostUpdate
<1> SUFFICES ASSUME IInv, NEW f \in File, rows[f] # disk[f]
             PROVE  Reported(f) \/ RecoveryAhead(RootOf[f]) \/ f \in blind \/ Overflowed
  BY DEF NoLostUpdate
<1>1. CASE f \in DOMAIN batch /\ batch[f] = disk[f]
  BY <1>1 DEF Reported
<1>2. CASE ~(f \in DOMAIN batch /\ batch[f] = disk[f])
  <2>1. Covered(f)
    BY <1>2 DEF IInv, Known, Expected
  <2>2. Noticed(f) => Reported(f)
    BY DEF Noticed, Reported, Sent, bridged
  <2> QED BY <2>1, <2>2 DEF Covered
<1> QED BY <1>1, <1>2

(* No update is lost, for any number of roots, files, changes and faults:    *)
(* until a watcher's buffer overflows, a file whose row differs from the     *)
(* disk is known to a watcher, a message, the queue, the coalescer or the    *)
(* verified batch, or a rescan of its root is still to come, unless it       *)
(* changed while nothing watched its root.                                   *)
THEOREM NoUpdateLost == Spec => []NoLostUpdate
BY Invariance, Consequence, PTL

-----------------------------------------------------------------------------
(* A root is never without somebody who will watch it. *)
Attended(r) ==
  opening[r] + live[r] + dying[r] > 0 \/ WatcherExited(r) \in Sent \/ r \in rewatch

Kept == opening \in [Root -> Nat] /\ \A r \in Root : Attended(r)

LEMMA AttendedStays ==
  ASSUME IInv, Kept, NEW q \in Root, opening'[q] = opening[q], live'[q] = live[q],
         dying'[q] = dying[q], Sent \subseteq Sent', rewatch \subseteq rewatch'
  PROVE  Attended(q)'
BY DEF Kept, Attended

(* The threads of one root: a thread changes state, or leaves a message. *)
LEMMA ThreadKept ==
  ASSUME IInv, Kept, NEW r \in Root,
         \/ WatcherOpens(r) \/ WatcherSends(r) \/ WatcherReportsExit(r)
         \/ WatcherOverflows(r) \/ WatcherFails(r) \/ RootVanishes(r)
  PROVE  Kept'
<1> USE DEF fs, watchers, events, maint
<1>1. /\ opening \in [Root -> Nat] /\ live \in [Root -> Nat] /\ dying \in [Root -> Nat]
      /\ notify \in [Root -> SUBSET SUBSET File]
  BY DEF IInv, Typed, Kept
<1>2. UNCHANGED rewatch
  BY DEF WatcherOpens, WatcherSends, WatcherReportsExit, WatcherOverflows, WatcherFails, RootVanishes
<1>3. CASE WatcherOpens(r)
  <2>1. Sent' = Sent
    BY <1>3 DEF WatcherOpens, Sent
  <2>2. opening' \in [Root -> Nat] /\ \A q \in Root \ {r} : opening'[q] = opening[q]
    BY <1>1, <1>3 DEF WatcherOpens
  <2>3. \A q \in Root \ {r} : live'[q] = live[q] /\ dying'[q] = dying[q]
    BY <1>1, <1>3 DEF WatcherOpens
  <2>4. opening'[r] + live'[r] + dying'[r] > 0
    <3>1. CASE r \in there
      BY <1>1, <1>3, <3>1 DEF WatcherOpens
    <3>2. CASE r \notin there
      BY <1>1, <1>3, <3>2 DEF WatcherOpens
    <3> QED BY <3>1, <3>2
  <2> QED BY <1>2, <2>1, <2>2, <2>3, <2>4, AttendedStays DEF Kept, Attended
<1>4. CASE WatcherFails(r) \/ RootVanishes(r)
  <2>1. Sent' = Sent /\ UNCHANGED opening
    BY <1>4 DEF WatcherFails, RootVanishes, Sent
  <2>2. \A q \in Root : opening[q] + live[q] + dying[q] = opening'[q] + live'[q] + dying'[q]
    <3>1. CASE WatcherFails(r)
      BY <1>1, <3>1 DEF WatcherFails
    <3>2. CASE RootVanishes(r)
      BY <1>1, <3>2 DEF RootVanishes
    <3> QED BY <1>4, <3>1, <3>2
  <2> QED BY <1>1, <1>2, <2>1, <2>2 DEF Kept, Attended
<1>5. CASE WatcherReportsExit(r)
  <2>1. Sent' = Sent \cup {WatcherExited(r)}
    BY <1>5, Messages, SendOK DEF WatcherReportsExit, IInv
  <2>2. /\ UNCHANGED <<opening, live>>
        /\ \A q \in Root \ {r} : dying'[q] = dying[q]
    BY <1>1, <1>5 DEF WatcherReportsExit
  <2> QED BY <1>1, <1>2, <2>1, <2>2, AttendedStays DEF Kept, Attended
<1>6. CASE WatcherSends(r) \/ WatcherOverflows(r)
  <2>1. UNCHANGED <<opening, live, dying>>
    BY <1>6 DEF WatcherSends, WatcherOverflows
  <2>2. PICK m \in CoordinatorMsg : chan' = Append(chan, m)
    <3>1. CASE WatcherSends(r)
      <4>1. PICK ids \in notify[r] : chan' = Append(chan, Change(ids))
        BY <3>1 DEF WatcherSends
      <4> QED BY <1>1, <4>1, Messages
    <3>2. CASE WatcherOverflows(r)
      BY <3>2, Messages DEF WatcherOverflows
    <3> QED BY <1>6, <3>1, <3>2
  <2>3. Sent' = Sent \cup {m}
    BY <2>2, SendOK DEF IInv
  <2> QED BY <1>1, <1>2, <2>1, <2>3, AttendedStays DEF Kept
<1> QED BY <1>3, <1>4, <1>5, <1>6

(* The coordinator: it takes a report and schedules the root in one step, and
   starts a thread in the step that unschedules it. *)
LEMMA CoordinatorKept ==
  ASSUME IInv, Kept, Coordinator
  PROVE  Kept'
<1> USE DEF fs, watchers, events, maint
<1>1. opening \in [Root -> Nat] /\ live \in [Root -> Nat] /\ dying \in [Root -> Nat]
  BY DEF IInv, Typed, Kept
<1>2. CASE Receive
  <2>1. /\ chan # <<>> /\ chan' = Tail(chan) /\ UNCHANGED <<opening, live, dying>>
        /\ rewatch \subseteq rewatch'
        /\ Head(chan).kind = "WatcherExited" => Head(chan).root \in rewatch'
    BY <1>2 DEF Receive, ToRecovery, DropEvents, ScheduleRewatch
  <2>2. Head(chan) \in CoordinatorMsg /\ Sent \subseteq Sent' \cup {Head(chan)}
    BY <2>1, TakeOK DEF IInv
  <2>3. ASSUME NEW q \in Root PROVE Attended(q)'
    <3>1. CASE WatcherExited(q) = Head(chan)
      BY <2>1, <3>1, Messages DEF Attended
    <3>2. CASE WatcherExited(q) # Head(chan)
      BY <2>1, <2>2, <3>2 DEF Kept, Attended
    <3> QED BY <3>1, <3>2
  <2> QED BY <1>1, <2>1, <2>3 DEF Kept
<1>3. CASE Sweep
  <2>1. PICK missing \in {{}, watched \ there} :
          \E due \in SUBSET ((rewatch \cup missing) \cap there) :
            /\ rewatch' = (rewatch \cup missing) \ due
            /\ opening' = [r \in Root |-> IF r \in due THEN opening[r] + 1 ELSE opening[r]]
            /\ UNCHANGED <<live, dying, chan>>
    BY <1>3 DEF Sweep
  <2>2. PICK due \in SUBSET ((rewatch \cup missing) \cap there) :
          /\ rewatch' = (rewatch \cup missing) \ due
          /\ opening' = [r \in Root |-> IF r \in due THEN opening[r] + 1 ELSE opening[r]]
          /\ UNCHANGED <<live, dying, chan>>
    BY <2>1
  <2>3. Sent' = Sent
    BY <2>2 DEF Sent
  <2>4. opening' \in [Root -> Nat]
    BY <1>1, <2>2
  <2>5. ASSUME NEW q \in Root PROVE Attended(q)'
    <3>1. CASE q \in due
      BY <1>1, <2>2, <3>1 DEF Attended
    <3>2. CASE q \notin due
      BY <1>1, <2>2, <2>3, <3>2 DEF Kept, Attended
    <3> QED BY <3>1, <3>2
  <2> QED BY <2>4, <2>5 DEF Kept
<1>4. CASE \/ ReceiveTimesOut \/ EndRecovery \/ NotDue \/ Verify \/ ApplyBatch
           \/ \E r \in Root : RecoverRoot(r)
  <2>1. UNCHANGED <<opening, live, dying, chan, rewatch>>
    BY <1>4 DEF ReceiveTimesOut, ToRecovery, EndRecovery, NotDue, Verify, Bridge, ApplyBatch, RecoverRoot
  <2>2. Sent' = Sent
    BY <2>1 DEF Sent
  <2> QED BY <1>1, <2>1, <2>2, AttendedStays DEF Kept
<1> QED BY <1>2, <1>3, <1>4 DEF Coordinator

LEMMA StepKept == IInv /\ Kept /\ [Next]_vars => Kept'
<1> SUFFICES ASSUME IInv, Kept, [Next]_vars PROVE Kept'
  OBVIOUS
<1>1. CASE Coordinator
  BY <1>1, CoordinatorKept
<1>2. ASSUME NEW r \in Root,
             \/ WatcherOpens(r) \/ WatcherSends(r) \/ WatcherReportsExit(r)
             \/ WatcherOverflows(r) \/ WatcherFails(r) \/ RootVanishes(r)
      PROVE  Kept'
  BY <1>2, ThreadKept
<1>3. CASE \/ \E r \in Root : RootReturns(r)
           \/ \E f \in File : Write(f)
           \/ \E f, g \in File : Rename(f, g)
           \/ UNCHANGED vars
  <2>1. UNCHANGED <<opening, live, dying, chan, rewatch>>
    BY <1>3 DEF RootReturns, Write, Rename, Touch, watchers, maint, vars
  <2>2. Sent' = Sent
    BY <2>1 DEF Sent
  <2>3. opening' \in [Root -> Nat]
    BY <2>1 DEF Kept
  <2> QED BY <2>1, <2>2, <2>3, AttendedStays DEF Kept
<1> QED BY <1>1, <1>2, <1>3 DEF Next

(* "never abandoned (self-healing on reappearance)": whatever fails, vanishes
   and returns, a root that was there at start has a watcher thread, or an exit
   report or a schedule that leads to one. *)
THEOREM Attendance == Spec => []NeverAbandoned
<1>1. Init => Kept
  <2> SUFFICES ASSUME Init PROVE Kept
    OBVIOUS
  <2>1. \A r \in Root : opening[r] = 1 /\ live[r] = 0 /\ dying[r] = 0
    BY DEF Init
  <2>2. opening \in [Root -> Nat]
    BY DEF Init
  <2> QED BY <2>1, <2>2 DEF Kept, Attended
<1>2. Kept => NeverAbandoned
  BY InSent DEF Kept, Attended, NeverAbandoned
<1> QED BY <1>1, <1>2, StepKept, Invariance, PTL DEF Spec
=============================================================================
