-------------------------- MODULE ComputerSnapshots --------------------------
(***************************************************************************)
(* Capturing and restoring one computer's home: the API's index of rows,   *)
(* the supervisor's snapshot store with its staging directory, retention   *)
(* and verification, and the Docker runtime's way of replacing a machine   *)
(* under a home volume that outlives it.  The two processes fail apart:    *)
(* the supervisor may die in the middle of a capture the API waits for.    *)
(***************************************************************************)
EXTENDS Integers, FiniteSets

CONSTANTS
  Captures, Restores,   \* operator requests, each made once
  SnapshotIds,          \* the random ids captures draw, ordered as keys are
  Files,                \* what a home may hold
  Retention,            \* archives kept per computer; 0 keeps everything
  MaxClock,             \* the storage's timestamps
  MaxCrashes, MaxFaults, MaxAlterations, MaxDays   \* bounds on the environment

ASSUME SnapshotAssumption ==
  /\ SnapshotIds \subseteq Nat \ {0}
  /\ {Retention, MaxClock, MaxCrashes, MaxFaults, MaxAlterations, MaxDays} \subseteq Nat

VARIABLES
  machine,    \* "gone", "stopped" or "running"
  home,       \* the files on the home volume
  archives,   \* the objects in storage
  rows,       \* the API's computer_snapshot rows
  staged,     \* staging files: who made them, and whether they are a day old
  op,         \* what each request is doing
  clock, budget

snapshotsVars == <<machine, home, archives, rows, staged, op, clock, budget>>

Ops == Captures \cup Restores
NoArchive == [id |-> 0, content |-> {}, at |-> 0]
Fresh == [pc |-> "new", shot |-> NoArchive, expired |-> {}, result |-> "none"]

(* The home the archive of an altered object no longer is. *)
Altered == {"altered"}

SnapshotsInit ==
  /\ machine = "running" /\ home \in SUBSET Files
  /\ archives = {} /\ rows = {} /\ staged = {}
  /\ op = [o \in Ops |-> Fresh]
  /\ clock = 0
  /\ budget = [crashes |-> MaxCrashes, faults |-> MaxFaults,
               alterations |-> MaxAlterations, days |-> MaxDays, pass |-> "made"]

-----------------------------------------------------------------------------
(* byNewest and prunePrefix: newest first, the key breaking a tie; what    *)
(* does not fit the retention expires.                                     *)
Newer(x, y) == x.at > y.at \/ (x.at = y.at /\ x.id > y.id)

Expired(objects) ==
  IF Retention = 0 THEN {}
  ELSE {x \in objects : Cardinality({y \in objects : Newer(y, x)}) >= Retention}

At(o, pc) == op[o].pc = pc
Fail(o) == op' = [op EXCEPT ![o].pc = "done", ![o].result = "failed", ![o].expired = {}]
Unstage(o) == staged' = {s \in staged : s.of # o}

(* The capture finds its machine, stages the home's archive ...            *)
Capture(o) ==
  /\ At(o, "new")
  /\ IF machine = "gone" THEN Fail(o)
     ELSE op' = [op EXCEPT ![o].pc = "produce"]
  /\ staged' = IF machine = "gone" THEN staged
               ELSE staged \cup {[of |-> o, old |-> FALSE]}
  /\ UNCHANGED <<machine, home, archives, rows, clock, budget>>

Produce(o) ==
  /\ At(o, "produce")
  /\ IF machine = "gone" THEN Fail(o) /\ Unstage(o)
     ELSE /\ op' = [op EXCEPT ![o].pc = "put", ![o].shot.content = home]
          /\ UNCHANGED staged
  /\ UNCHANGED <<machine, home, archives, rows, clock, budget>>

(* ... puts it under a fresh key, whole or not at all, ...                 *)
Put(o) ==
  /\ At(o, "put")
  /\ \E id \in SnapshotIds \ {x.id : x \in archives \cup rows \cup {op[q].shot : q \in Captures}} :
       LET shot == [op[o].shot EXCEPT !.id = id, !.at = clock] IN
       /\ archives' = archives \cup {shot}
       /\ op' = [op EXCEPT ![o].pc = "prune", ![o].shot = shot]
  /\ UNCHANGED <<machine, home, rows, staged, clock, budget>>

(* ... lists its scope, deletes what expired one object at a time, ...     *)
ListExpired(o) ==
  /\ At(o, "prune")
  /\ op' = [op EXCEPT ![o].pc = "delete", ![o].expired = Expired(archives)]
  /\ UNCHANGED <<machine, home, archives, rows, staged, clock, budget>>

Delete(o) ==
  /\ At(o, "delete") /\ op[o].expired # {}
  /\ \E x \in op[o].expired :
       /\ \A y \in op[o].expired : y = x \/ Newer(x, y)
       /\ archives' = {y \in archives : y.id # x.id}
       /\ op' = [op EXCEPT ![o].expired = @ \ {x}]
  /\ UNCHANGED <<machine, home, rows, staged, clock, budget>>

(* ... and answers the handle, its staging file gone on every path.        *)
Captured(o) ==
  /\ At(o, "delete") /\ op[o].expired = {}
  /\ op' = [op EXCEPT ![o].pc = "record"]
  /\ Unstage(o)
  /\ UNCHANGED <<machine, home, archives, rows, clock, budget>>

(* The API records the handle.                                             *)
Record(o) ==
  /\ At(o, "record")
  /\ rows' = rows \cup {op[o].shot}
  /\ op' = [op EXCEPT ![o].pc = "done", ![o].result = "ok"]
  /\ UNCHANGED <<machine, home, archives, staged, clock, budget>>

-----------------------------------------------------------------------------
(* A restore names a row; the supervisor fetches its archive, and refuses  *)
(* one that is missing or is not the one captured, before it touches the   *)
(* machine.                                                                *)
Restore(o, handle) ==
  /\ At(o, "new")
  /\ op' = [op EXCEPT ![o].pc = "read", ![o].shot = handle]
  /\ UNCHANGED <<machine, home, archives, rows, staged, clock, budget>>

(* The object a restore's row names, if it is there. *)
Named(o) == {x \in archives : x.id = op[o].shot.id}

(* Mutant: the archive's declared size is trusted, its bytes are not read. *)
ReadUnverified(o) ==
  /\ At(o, "read")
  /\ IF Named(o) # {}
     THEN /\ op' = [op EXCEPT ![o].pc = "remove", ![o].shot = CHOOSE x \in Named(o) : TRUE]
          /\ staged' = staged \cup {[of |-> o, old |-> FALSE]}
     ELSE Fail(o) /\ UNCHANGED staged
  /\ UNCHANGED <<machine, home, archives, rows, clock, budget>>

Read(o) ==
  /\ At(o, "read")
  /\ IF \E x \in Named(o) : x.content = op[o].shot.content
     THEN /\ op' = [op EXCEPT ![o].pc = "remove", ![o].shot = CHOOSE x \in Named(o) : TRUE]
          /\ staged' = staged \cup {[of |-> o, old |-> FALSE]}
     ELSE Fail(o) /\ UNCHANGED staged
  /\ UNCHANGED <<machine, home, archives, rows, clock, budget>>

(* The old container goes, a new one is created on the same home volume,   *)
(* the archive is unpacked over what the volume holds, and it is started.  *)
RemoveOld(o) ==
  /\ At(o, "remove")
  /\ machine' = "gone"
  /\ op' = [op EXCEPT ![o].pc = "create"]
  /\ UNCHANGED <<home, archives, rows, staged, clock, budget>>

CreateNew(o) ==
  /\ At(o, "create")
  /\ machine' = IF machine = "gone" THEN "stopped" ELSE machine
  /\ op' = [op EXCEPT ![o].pc = "write"]
  /\ UNCHANGED <<home, archives, rows, staged, clock, budget>>

WriteHome(o) ==
  /\ At(o, "write")
  /\ IF machine = "gone" THEN Fail(o) /\ Unstage(o) /\ UNCHANGED home
     ELSE /\ home' = home \cup op[o].shot.content
          /\ op' = [op EXCEPT ![o].pc = "start"]
          /\ UNCHANGED staged
  /\ UNCHANGED <<machine, archives, rows, clock, budget>>

StartNew(o) ==
  /\ At(o, "start")
  /\ IF machine = "gone" THEN Fail(o) /\ UNCHANGED machine
     ELSE /\ machine' = "running"
          /\ op' = [op EXCEPT ![o].pc = "done", ![o].result = "ok"]
  /\ Unstage(o)
  /\ UNCHANGED <<home, archives, rows, clock, budget>>

-----------------------------------------------------------------------------
(* A call of an operation is refused: the store's `finally` removes the    *)
(* staging file; a failure after the machine was replaced removes the      *)
(* fresh one; a row the database refuses is not written.                   *)
Refuse(o) ==
  /\ op[o].pc \notin {"new", "done"} /\ budget.faults > 0
  /\ budget' = [budget EXCEPT !.faults = @ - 1]
  /\ machine' = IF o \in Restores /\ op[o].pc \in {"write", "start"} THEN "gone" ELSE machine
  /\ Fail(o) /\ Unstage(o)
  /\ UNCHANGED <<home, archives, rows, clock>>

(* The supervisor dies and comes back: its operations fail, staging files  *)
(* stay.  The boot pass prunes every scope to retention and sweeps the     *)
(* staging files that are a day old.                                       *)
Crash ==
  /\ budget.crashes > 0
  /\ budget' = [budget EXCEPT !.crashes = @ - 1, !.pass = "due"]
  /\ op' = [o \in Ops |-> IF op[o].pc \in {"new", "done", "record"} THEN op[o]
                          ELSE [op[o] EXCEPT !.pc = "done", !.result = "failed",
                                             !.expired = {}]]
  /\ UNCHANGED <<machine, home, archives, rows, staged, clock>>

BootPass ==
  /\ budget.pass = "due"
  /\ archives' = archives \ Expired(archives)
  /\ staged' = {s \in staged : ~s.old}
  /\ budget' = [budget EXCEPT !.pass = "made"]
  /\ UNCHANGED <<machine, home, rows, op, clock>>

(* The bot works on its home, storage time passes, days pass, an object in *)
(* storage is altered, the machine is booted again by the next run.        *)
EditHome ==
  /\ machine = "running"
  /\ \E f \in Files : home' = (home \cup {f}) \/ home' = home \ {f}
  /\ home' # home
  /\ UNCHANGED <<machine, archives, rows, staged, op, clock, budget>>

StoreClock ==
  /\ clock < MaxClock /\ clock' = clock + 1
  /\ UNCHANGED <<machine, home, archives, rows, staged, op, budget>>

DayPasses ==
  /\ budget.days > 0 /\ staged # {}
  /\ budget' = [budget EXCEPT !.days = @ - 1]
  /\ staged' = {[s EXCEPT !.old = op[s.of].pc = "done"] : s \in staged}
  /\ UNCHANGED <<machine, home, archives, rows, op, clock>>

Alter ==
  /\ budget.alterations > 0
  /\ budget' = [budget EXCEPT !.alterations = @ - 1]
  /\ \E x \in archives :
       archives' = (archives \ {x}) \cup {[x EXCEPT !.content = Altered]}
  /\ UNCHANGED <<machine, home, rows, staged, op, clock>>

Boot ==
  /\ machine # "running"
  /\ machine' = "running"
  /\ UNCHANGED <<home, archives, rows, staged, op, clock, budget>>

SnapshotsNext ==
  \/ \E o \in Captures : \/ Capture(o) \/ Produce(o) \/ Put(o) \/ ListExpired(o)
                         \/ Delete(o) \/ Captured(o) \/ Record(o) \/ Refuse(o)
  \/ \E o \in Restores : \/ \E handle \in rows : Restore(o, handle)
                         \/ Read(o) \/ RemoveOld(o) \/ CreateNew(o) \/ WriteHome(o)
                         \/ StartNew(o) \/ Refuse(o)
  \/ Crash \/ BootPass \/ EditHome \/ StoreClock \/ DayPasses \/ Alter \/ Boot

SnapshotsSpec == SnapshotsInit /\ [][SnapshotsNext]_snapshotsVars

-----------------------------------------------------------------------------
Idle == \A o \in Ops : op[o].pc \in {"new", "done"}

(* Every variable stays in its range. *)
SnapshotsTypeOK ==
  /\ machine \in {"gone", "stopped", "running"}
  /\ home \subseteq Files
  /\ \A x \in archives : x.id \in SnapshotIds /\ x.at \in 0..MaxClock
  /\ \A o \in Ops : op[o].result \in {"none", "ok", "failed"}

(* Captures that overlap, and prunes that list what another is deleting,   *)
(* still leave at most Retention archives once no capture failed half way: *)
(* every capture lists its scope after its own object is there.            *)
ArchivesBounded ==
  Idle /\ budget.crashes = MaxCrashes /\ budget.faults = MaxFaults /\ Retention > 0
    => Cardinality(archives) <= Retention

(* What a restore puts on the home is what its row captured, although the  *)
(* object may have been altered, pruned or replaced by then; only then has *)
(* the old machine been touched.                                           *)
RestoresWhatWasCaptured ==
  \A o \in Restores :
    op[o].pc \in {"create", "write", "start"} => op[o].shot \in rows

(* No home in the clear stays behind: a staging file belongs to an         *)
(* operation in flight, or to one the supervisor died in.                  *)
NothingStaysStaged ==
  budget.crashes = MaxCrashes => \A s \in staged : op[s.of].pc \notin {"new", "done"}

(* Archives are bounded and trustworthy, and nothing is left in the clear.   *)
SnapshotsAreSound ==
  SnapshotsTypeOK /\ ArchivesBounded /\ RestoresWhatWasCaptured /\ NothingStaysStaged

-----------------------------------------------------------------------------
(* The inductive strengthening PlatformProofs uses. *)

Shots == [id : SnapshotIds \cup {0}, content : SUBSET Files, at : 0 .. MaxClock]
Objects == [id : SnapshotIds, content : (SUBSET Files) \cup {Altered}, at : 0 .. MaxClock]
Operations ==
  [pc : {"new", "produce", "put", "prune", "delete", "record", "read", "remove", "create",
         "write", "start", "done"},
   shot : Shots, expired : SUBSET Objects, result : {"none", "ok", "failed"}]
Budgets ==
  [crashes : 0 .. MaxCrashes, faults : 0 .. MaxFaults, alterations : 0 .. MaxAlterations,
   days : 0 .. MaxDays, pass : {"made", "due"}]
SnapshotsShapes ==
  /\ machine \in {"gone", "stopped", "running"} /\ home \in SUBSET Files
  /\ archives \in SUBSET Objects /\ IsFiniteSet(archives) /\ rows \in SUBSET Shots
  /\ staged \in SUBSET [of : Ops, old : BOOLEAN] /\ op \in [Ops -> Operations]
  /\ clock \in 0 .. MaxClock /\ budget \in Budgets

Restoring == {"read", "remove", "create", "write", "start"}

(* A key names one object, and the row or the capture that knows it knows when *)
(* it was written; a restore holds a row from its first step on.               *)
KeysAreKept ==
  /\ \A x, y \in archives : x.id = y.id => x = y
  /\ \A x \in archives, y \in rows \cup {op[o].shot : o \in Captures} : x.id = y.id => x.at = y.at
  /\ \A o \in Ops : op[o].pc \in Restoring => op[o].shot \in rows

(* Without a crash a staging file belongs to a step between its making and its *)
(* removal.                                                                    *)
InFlight == {"produce", "put", "prune", "delete", "remove", "create", "write", "start"}
StagedInFlight ==
  budget.crashes = MaxCrashes => \A s \in staged : op[s.of].pc \in InFlight

(* What no prune in progress will delete. Unless a capture has yet to list its *)
(* scope, at most Retention archives are left of them.                         *)
Kept ==
  {x \in archives : \A o \in Captures : op[o].pc = "delete" => \A y \in op[o].expired : y.id # x.id}
KeptIsBounded ==
  budget.crashes = MaxCrashes /\ budget.faults = MaxFaults /\ Retention > 0 =>
    (\E o \in Captures : op[o].pc = "prune") \/ Cardinality(Kept) <= Retention

SnapshotsInv == SnapshotsShapes /\ KeysAreKept /\ StagedInFlight /\ KeptIsBounded
=============================================================================
