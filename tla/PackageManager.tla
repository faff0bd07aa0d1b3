---------------------------- MODULE PackageManager ----------------------------
(***************************************************************************)
(* launcher-plugin: resolution of a request into an install plan             *)
(* (resolver.rs), its transactional execution over an installer              *)
(* (transactional.rs), the installation of one package by the command line    *)
(* (lib.rs), and the scan of the plugins directory when the launcher boots    *)
(* (build_core). A command may be killed between any two of its steps.        *)
(***************************************************************************)
EXTENDS Naturals, Sequences, FiniteSets, SequencesExt

CONSTANTS Packages, Requests,
          Indexes,             \* repository indexes: functions package -> its depends
          MaxCommands          \* bound on commands and boots

VARIABLES index,
          installed,           \* directories <root>/<id>: "absent", "old", "new", "torn"
          staging,             \* directories <root>/<id>.staging: "absent", "partial", "whole"
          command,             \* the command that runs: [name, ...]
          execution,           \* what it found installed, put in place and could not take back
                               \* (only the properties read it)
          loaded,              \* directories the launcher registered at its last boot
          commands

vars == <<index, installed, staging, command, execution, loaded, commands>>

NoCommand == [name |-> "none"]

TypeOK ==
    /\ index \in Indexes
    /\ installed \in [Packages -> {"absent", "old", "new", "torn"}]
    /\ staging \in [Packages -> {"absent", "partial", "whole"}]
    /\ command.name \in {"none", "write", "validate", "swap", "rename", "execute", "rollback"}
    /\ loaded \subseteq Packages \X {"target", "staging"}

Init ==
    /\ index \in Indexes
    /\ \E old \in SUBSET Packages : installed = [p \in Packages |-> IF p \in old THEN "old" ELSE "absent"]
    /\ staging = [p \in Packages |-> "absent"]
    /\ execution = [before |-> installed, put |-> {}, kept |-> {}]
    /\ command = NoCommand /\ loaded = {} /\ commands = 0

----------------------------------------------------------------------------
(* Resolution.                                                             *)

Ids == Packages \cup DOMAIN index \cup UNION {ToSet(index[p]) : p \in DOMAIN index}
Resolution == [plan : Seq(Ids), placed : SUBSET Ids, visiting : SUBSET Ids,
               error : {"none", "cycle", "missing"}]

Placed(id, r) == id \in r.placed

\* Each of ids in turn, by visit.
Each(visit, ids, r) ==
    LET after[k \in 0 .. Len(ids)] == IF k = 0 THEN r ELSE visit[<<ids[k], after[k - 1]>>]
    IN after[Len(ids)]

Visited(visit, id, r) ==
    IF r.error # "none" \/ Placed(id, r) THEN r
    ELSE IF id \in r.visiting THEN [r EXCEPT !.error = "cycle"]
    ELSE IF id \notin DOMAIN index THEN [r EXCEPT !.error = "missing"]
    ELSE LET inner == Each(visit, index[id], [r EXCEPT !.visiting = @ \cup {id}]) IN
         IF inner.error # "none" THEN inner
         ELSE [inner EXCEPT !.visiting = @ \ {id}, !.placed = @ \cup {id}, !.plan = Append(@, id)]

\* What is visited is not entered again, so calls nest no deeper than there are packages.
Depth == Cardinality(DOMAIN index) + 1
emit[n \in 0 .. Depth] ==
    [call \in Ids \X Resolution |->
        IF n = 0 THEN [call[2] EXCEPT !.error = "cycle"] ELSE Visited(emit[n - 1], call[1], call[2])]

resolve(requested) ==
    LET start == [plan |-> <<>>, placed |-> {}, visiting |-> {}, error |-> "none"]
    IN IF ToSet(requested) \subseteq DOMAIN index THEN Each(emit[Depth], requested, start)
       ELSE [start EXCEPT !.error = "missing"]

----------------------------------------------------------------------------
(* Commands.                                                               *)

Start(c) == /\ command = NoCommand /\ commands < MaxCommands /\ commands' = commands + 1
            /\ command' = c /\ execution' = [before |-> installed, put |-> {}, kept |-> {}]
            /\ UNCHANGED <<index, loaded>>

Does(c, done) == command' = c /\ execution' = done /\ UNCHANGED <<index, loaded, commands>>
Go(c) == Does(c, execution)

\* The envelope is valid: what an earlier command left in the staging area goes.
cmd_install(p) ==
    /\ Start([name |-> "write", id |-> p])
    /\ staging' = [staging EXCEPT ![p] = "partial"] /\ UNCHANGED installed

\* A file that cannot be written ends the command and leaves the staging area.
WriteFiles ==
    /\ command.name = "write" /\ UNCHANGED installed
    /\ \/ /\ Go([name |-> "validate", id |-> command.id])
          /\ staging' = [staging EXCEPT ![command.id] = "whole"]
       \/ Go(NoCommand) /\ UNCHANGED staging

\* A staged manifest of another id is removed; one that does not load stays.
ValidateStaged ==
    /\ command.name = "validate" /\ UNCHANGED installed
    /\ \/ Go([name |-> "swap", id |-> command.id]) /\ UNCHANGED staging
       \/ Go(NoCommand) /\ staging' = [staging EXCEPT ![command.id] = "absent"]
       \/ Go(NoCommand) /\ UNCHANGED staging

\* remove_dir_all of the target may fail half-way.
RemoveTarget ==
    /\ command.name = "swap" /\ UNCHANGED staging
    /\ \/ /\ Go([name |-> "rename", id |-> command.id])
          /\ installed' = [installed EXCEPT ![command.id] = "absent"]
       \/ /\ installed[command.id] # "absent" /\ Go(NoCommand)
          /\ installed' = [installed EXCEPT ![command.id] = "torn"]

RenameStaged ==
    /\ command.name = "rename"
    /\ \/ /\ Go(NoCommand)
          /\ installed' = [installed EXCEPT ![command.id] = "new"]
          /\ staging' = [staging EXCEPT ![command.id] = "absent"]
       \/ Go(NoCommand) /\ UNCHANGED <<installed, staging>>

cmd_uninstall(p) ==
    /\ installed[p] # "absent" /\ Start(NoCommand) /\ UNCHANGED staging
    /\ \E left \in {"absent", "torn"} : installed' = [installed EXCEPT ![p] = left]

\* The whole command is gone, whatever it had done.
Killed == command # NoCommand /\ Go(NoCommand) /\ UNCHANGED <<installed, staging>>

----------------------------------------------------------------------------
(* Execution of a plan, over an installer whose steps are atomic.          *)

execute_plan(requested) ==
    LET r == resolve(requested) IN
    /\ Start(IF r.error # "none" THEN NoCommand
             ELSE [name |-> "execute", plan |-> r.plan, next |-> 1])
    /\ UNCHANGED <<installed, staging>>

StepOk ==
    /\ command.name = "execute" /\ command.next <= Len(command.plan)
    /\ installed' = [installed EXCEPT ![command.plan[command.next]] = "new"]
    /\ Does([command EXCEPT !.next = @ + 1],
            [execution EXCEPT !.put = @ \cup {command.plan[command.next]}])
    /\ UNCHANGED staging

Done == /\ command.name = "execute" /\ command.next > Len(command.plan)
        /\ Go(NoCommand) /\ UNCHANGED <<installed, staging>>

\* Bug: the packages are removed in the order they were activated.
Rollback_forward(activated) == activated

Rollback(activated) == Reverse(activated)

\* stage or activate fails: the failing package itself is not cleaned up.
StepFails ==
    /\ command.name = "execute" /\ command.next <= Len(command.plan)
    /\ Go([name |-> "rollback", next |-> 1,
           plan |-> Rollback(SubSeq(command.plan, 1, command.next - 1))])
    /\ UNCHANGED <<installed, staging>>

\* A removal that fails is logged and the next one tried.
RollbackStep ==
    /\ command.name = "rollback" /\ UNCHANGED staging
    /\ IF command.next > Len(command.plan) THEN Go(NoCommand) /\ UNCHANGED installed
       ELSE \/ /\ installed' = [installed EXCEPT ![command.plan[command.next]] = "absent"]
               /\ Does([command EXCEPT !.next = @ + 1],
                       [execution EXCEPT !.put = @ \ {command.plan[command.next]}])
            \/ /\ Does([command EXCEPT !.next = @ + 1],
                       [execution EXCEPT !.kept = @ \cup {command.plan[command.next]}])
               /\ UNCHANGED installed

----------------------------------------------------------------------------

\* Every directory with a plugin.json is registered, whatever its name.
Boot ==
    /\ commands < MaxCommands /\ commands' = commands + 1
    /\ \E torn \in SUBSET {p \in Packages : installed[p] = "torn"},
          partial \in SUBSET {p \in Packages : staging[p] = "partial"} :
          loaded' = {p \in Packages : installed[p] \in {"old", "new"}} \X {"target"}
                    \cup {p \in Packages : staging[p] = "whole"} \X {"staging"}
                    \cup torn \X {"target"} \cup partial \X {"staging"}
    /\ UNCHANGED <<index, installed, staging, command, execution>>

Next ==
    \/ \E p \in Packages : cmd_install(p) \/ cmd_uninstall(p)
    \/ \E requested \in Requests : execute_plan(requested)
    \/ WriteFiles \/ ValidateStaged \/ RemoveTarget \/ RenameStaged \/ Killed
    \/ StepOk \/ Done \/ StepFails \/ RollbackStep \/ Boot

Spec == Init /\ [][Next]_vars

----------------------------------------------------------------------------

Fresh(p) == installed[p] = "new"

\* Every package the last plan put in place has all its dependencies in place, while the plan is
\* carried out or taken back and wherever that ends or is killed (deps come first, rollback in
\* reverse; resolver.rs, transactional.rs). Only the package whose own removal was refused may be
\* left without them: the rollback goes on to what it depends on.
DependenciesFirst ==
    \A p \in execution.put \ execution.kept : \A d \in DOMAIN index[p] : Fresh(index[p][d])

\* The ids, what they depend on, and so on.
Closed(ids) == \A i \in ids \cap DOMAIN index : ToSet(index[i]) \subseteq ids
Needed(ids) == {i \in Ids : \A all \in SUBSET Ids : ids \subseteq all /\ Closed(all) => i \in all}

Resolvable(requested) ==
    /\ Needed(ToSet(requested)) \subseteq DOMAIN index
    /\ \A p \in Needed(ToSet(requested)) : p \notin Needed(ToSet(index[p]))

\* resolve makes a plan of a request exactly when nothing it needs is missing or needs itself,
\* and the plan holds exactly what the request needs.
PlanExact ==
    \A requested \in Requests :
        LET r == resolve(requested) IN
        /\ r.error = "none" <=> Resolvable(requested)
        /\ r.error = "none" => ToSet(r.plan) = Needed(ToSet(requested))

\* Each package once, and after what it depends on.
InOrder(plan) ==
    \A i \in DOMAIN plan : \A d \in DOMAIN index[plan[i]] :
        \E j \in DOMAIN plan : j < i /\ plan[j] = index[plan[i]][d]
PlanOrdered ==
    \A requested \in Requests :
        LET r == resolve(requested) IN
        r.error = "none" => r.plan \in Seq(Packages) /\ IsInjective(r.plan) /\ InOrder(r.plan)

\* What is planned is what is needed, in order, and what is in place never lacks what it needs.
PackagesSound == PlanExact /\ PlanOrdered /\ DependenciesFirst

-----------------------------------------------------------------------------
\* What the source says of itself and does not keep: no run checks it, and the README lists it.

\* A failed execution leaves the system "as if the install never started" (transactional.rs:5).
AsIfNeverStarted ==
    [][command.name = "rollback" /\ command'.name = "none" /\ execution.kept = {}
       /\ command.next > Len(command.plan) => installed' = execution.before]_vars

\* The staged copy is validated "before it becomes visible to the host" (cmd_install).
StagedInvisible == \A p \in Packages : <<p, "staging">> \notin loaded
=============================================================================
