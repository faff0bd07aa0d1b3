-------------------------------- MODULE IconCache --------------------------------
(***************************************************************************)
(* The icon service (launcher-providers/icons.rs): one call at a time looks  *)
(* in memory (least recently used first out, within a budget of bytes), then *)
(* on disk (one file per key, written beside and renamed), and extracts the   *)
(* icon from the executable only when both miss. Calls come from the icon     *)
(* pass over the results (spawn_icon_refresh in main.rs).                      *)
(***************************************************************************)
EXTENDS Naturals, Sequences, FiniteSets, Functions

CONSTANTS Exes, Bytes,   \* the executables and the bytes of their icons
          Budget, None, Torn,
          MaxFaults      \* bound on the files lost: see Fault

VARIABLES world,        \* exe -> the revision of its icon, or None (cannot be extracted)
          memory,       \* [exe, rev], the least recently used first
          used,         \* used_bytes
          disk,         \* exe -> a revision, Torn, or None
          litter,       \* temporary files left behind
          call,         \* the call under way: [exe, at, rev], or None
          answer,       \* of the last call: [exe, rev], or None
          extracted,    \* exe -> icons extracted
          faults        \* exe -> how often its file was not read, not written or damaged

vars == <<world, memory, used, disk, litter, call, answer, extracted, faults>>

SizeOf(m) == FoldFunction(LAMBDA e, n : Bytes[e.exe] + n, 0, m)
In(m, x) == {i \in DOMAIN m : m[i].exe = x}
Without(m, x) == SelectSeq(m, LAMBDA e : e.exe # x)

Init ==
    /\ world = [x \in Exes |-> 0] /\ memory = <<>> /\ used = 0 /\ disk = [x \in Exes |-> None]
    /\ litter = 0 /\ call = None /\ answer = None /\ extracted = [x \in Exes |-> 0]
    /\ faults = [x \in Exes |-> 0]

\* The budget holds, and the counter is the sum it stands for.
TypeOK ==
    /\ used = SizeOf(memory) /\ used <= Budget
    /\ \A x \in Exes : Cardinality(In(memory, x)) <= 1
    /\ call = None \/ call.at \in {"memory", "disk", "extract", "write", "rename", "keep"}

-----------------------------------------------------------------------------
\* IconMemoryCache::get moves the entry to the end, put evicts from the front.
Touched(m, x) == LET i == CHOOSE i \in In(m, x) : TRUE IN Append(Without(m, x), m[i])

Fits(m) == CHOOSE n \in 0 .. Len(m) :
    /\ SizeOf(SubSeq(m, n + 1, Len(m))) <= Budget
    /\ \A k \in 0 .. n - 1 : SizeOf(SubSeq(m, k + 1, Len(m))) > Budget
put(m, x, rev) ==
    IF Bytes[x] > Budget THEN Without(m, x)
    ELSE LET all == Append(Without(m, x), [exe |-> x, rev |-> rev]) IN
         SubSeq(all, Fits(all) + 1, Len(all))

Ends(rev) == answer' = [exe |-> call.exe, rev |-> rev] /\ call' = None
To(at, rev) == call' = [call EXCEPT !.at = at, !.rev = rev] /\ UNCHANGED answer

\* What may cost one executable, and no other, a new extraction.
Fault(x) ==
    /\ FoldFunction(+, 0, faults) < MaxFaults
    /\ faults' = [faults EXCEPT ![x] = @ + 1]

\* spawn_icon_refresh: an executable among the results; its key has the revision 0 whatever
\* becomes of the file.
get(x) ==
    /\ call = None /\ call' = [exe |-> x, at |-> "memory", rev |-> None]
    /\ UNCHANGED <<world, memory, used, disk, litter, answer, extracted, faults>>

LookInMemory ==
    /\ call # None /\ call.at = "memory"
    /\ IF In(memory, call.exe) # {}
         THEN /\ memory' = Touched(memory, call.exe) /\ Ends(memory'[Len(memory')].rev)
         ELSE UNCHANGED memory /\ To("disk", None)
    /\ UNCHANGED <<world, used, disk, litter, extracted, faults>>

\* A file that does not decode is removed, if that succeeds.
LookOnDisk ==
    /\ call # None /\ call.at = "disk"
    /\ IF disk[call.exe] \in {None, Torn}
         THEN disk' \in {disk, [disk EXCEPT ![call.exe] = None]} /\ To("extract", None)
         ELSE UNCHANGED disk /\ To("keep", disk[call.exe])
    /\ UNCHANGED <<world, memory, used, litter, extracted, faults>>
\* An intact file that cannot be read counts as no file, and stays.
ReadFails ==
    /\ call # None /\ call.at = "disk" /\ disk[call.exe] \notin {None, Torn}
    /\ Fault(call.exe) /\ To("extract", None)
    /\ UNCHANGED <<world, memory, used, disk, litter, extracted>>

extract_icon ==
    /\ call # None /\ call.at = "extract"
    /\ IF world[call.exe] = None
         THEN Ends(None) /\ UNCHANGED extracted
         ELSE To("write", world[call.exe]) /\ extracted' = [extracted EXCEPT ![call.exe] = @ + 1]
    /\ UNCHANGED <<world, memory, used, disk, litter, faults>>

\* IconDiskCache::put: the temporary file first, then the rename; its errors are benign.
WriteFails ==
    /\ call # None /\ call.at \in {"write", "rename"} /\ Fault(call.exe)
    /\ litter' \in {litter, litter + 1} /\ To("keep", call.rev)
    /\ UNCHANGED <<world, memory, used, disk, extracted>>
WriteTemp ==
    /\ call # None /\ call.at = "write" /\ To("rename", call.rev)
    /\ UNCHANGED <<world, memory, used, disk, litter, extracted, faults>>
\* Bug: the file is written and never given its name.
Named_never(d) == d
Named(d) == [d EXCEPT ![call.exe] = call.rev]
Rename ==
    /\ call # None /\ call.at = "rename" /\ disk' = Named(disk) /\ To("keep", call.rev)
    /\ UNCHANGED <<world, memory, used, litter, extracted, faults>>

Keep ==
    /\ call # None /\ call.at = "keep"
    /\ memory' = put(memory, call.exe, call.rev) /\ used' = SizeOf(memory') /\ Ends(call.rev)
    /\ UNCHANGED <<world, disk, litter, extracted, faults>>

\* The launcher is killed between two calls or in one: nothing is lost, unless the icon was
\* extracted and its file not yet named.
Dies ==
    /\ memory' = <<>> /\ used' = 0 /\ call' = None /\ answer' = None
    /\ IF call # None /\ call.at \in {"write", "rename"} THEN Fault(call.exe) ELSE UNCHANGED faults
    /\ litter' = IF call # None /\ call.at = "rename" THEN litter + 1 ELSE litter
    /\ UNCHANGED <<world, disk, extracted>>

\* A file is damaged from outside; an executable is updated, goes, or comes back.
Damaged(x) ==
    /\ Fault(x) /\ disk[x] \notin {None, Torn} /\ disk' = [disk EXCEPT ![x] = Torn]
    /\ UNCHANGED <<world, memory, used, litter, call, answer, extracted>>
Updated(x, rev) ==
    /\ world[x] # rev /\ world' = [world EXCEPT ![x] = rev]
    /\ UNCHANGED <<memory, used, disk, litter, call, answer, extracted, faults>>

Next ==
    \/ LookInMemory \/ LookOnDisk \/ ReadFails \/ extract_icon \/ WriteTemp \/ WriteFails \/ Rename
    \/ Keep \/ Dies
    \/ \E x \in Exes : get(x) \/ Damaged(x) \/ \E rev \in {None, 0, 1} : Updated(x, rev)

Spec == Init /\ [][Next]_vars

-----------------------------------------------------------------------------
\* icons.rs, L1 -> L2 -> extraction: whatever memory evicts, however often the launcher is
\* restarted or killed and whatever happens to the other icons, an icon is extracted once, and
\* once more for each time that its own file was not read, not written or damaged.
ExtractedOnce == \A x \in Exes : extracted[x] <= 1 + faults[x]

-----------------------------------------------------------------------------
\* What the source says of itself and does not keep: no run checks it, and the README lists it.

\* domain/icon.rs: the key includes provenance "so cache entries invalidate naturally when
\* identity/algorithm/source change": an icon that is shown is that of the executable.
IconsCurrent ==
    [][answer' # answer /\ answer' # None /\ answer'.rev # None => answer'.rev = world[answer'.exe]]_vars
=============================================================================
