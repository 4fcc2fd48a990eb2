------------------------------- MODULE FileLock -------------------------------
(***************************************************************************)
(* The lock directory and the atomic replacement by which processes of     *)
(* Mission Control change openclaw.json (src/lib/atomic-file.ts), as       *)
(* registerMcAsDashboard (src/lib/gateway-runtime.ts) and the fixes of the *)
(* security scan use them: lock, read, change, replace, unlock.            *)
(*                                                                         *)
(* All of it is synchronous, so requests of one process never interleave;  *)
(* processes do, between any two system calls. A step is a system call.    *)
(***************************************************************************)
EXTENDS Naturals, FiniteSets

CONSTANTS
  Procs,    \* the processes; each makes one change to the configuration
  Mortals,  \* those that may die
  Nobody

ASSUME ConstantsAssumption == Mortals \subseteq Procs /\ Nobody \notin Procs

VARIABLES
  dir,     \* who made the lock directory, Nobody if there is none
  owner,   \* its owner file: who created it, Nobody if there is none; is the pid in it
  pc,      \* what each process does next
  after,   \* what it does once a removal of the directory is through
  seen,    \* the configuration it read: the changes in it
  config,  \* the configuration: the changes in it
  done,    \* history: the changes that were reported as made
  stolen   \* history: a living process lost the lock it held to another

vars == <<dir, owner, pc, after, seen, config, done, stolen>>

Removing == {"unlink", "rmdir"}
Acquiring == {"make", "inspect", "remake"}
Locked == {"read", "replace"}
Holding == {"open", "write"} \cup Locked  \* the directory is theirs, or should be

NoFile == [by |-> Nobody, pid |-> FALSE]

TypeOK ==
  /\ dir \in Procs \cup {Nobody}
  /\ owner \in [by : Procs \cup {Nobody}, pid : BOOLEAN]
  /\ dir = Nobody => owner.by = Nobody
  /\ pc \in [Procs -> Acquiring \cup Holding \cup Removing \cup {"dead"}]
  /\ after \in [Procs -> {"make", "remake"}]
  /\ seen \in [Procs -> SUBSET Procs]
  /\ config \subseteq Procs
  /\ done \subseteq Procs
  /\ stolen \in BOOLEAN

Init ==
  /\ dir = Nobody
  /\ owner = NoFile
  /\ pc = [p \in Procs |-> "make"]
  /\ after = [p \in Procs |-> "make"]
  /\ seen = [p \in Procs |-> {}]
  /\ config = {}
  /\ done = {}
  /\ stolen = FALSE

-----------------------------------------------------------------------------
Goto(p, label) == pc' = [pc EXCEPT ![p] = label]

(* rmSync(lockDir), then on with label.                                    *)
Remove(p, label) == Goto(p, "unlink") /\ after' = [after EXCEPT ![p] = label]

Alive(p) == pc[p] # "dead"

(* acquireFileLockSync: mkdirSync of the lock directory.                   *)
MakeDir_Recursive(p) ==
  /\ pc[p] = "make"
  /\ dir' = IF dir = Nobody THEN p ELSE dir
  /\ Goto(p, "open")
  /\ UNCHANGED <<owner, after, seen, config, done, stolen>>

MakeDir(p) ==
  /\ pc[p] = "make"
  /\ IF dir = Nobody
     THEN dir' = p /\ Goto(p, "open")
     ELSE Goto(p, "inspect") /\ UNCHANGED dir
  /\ UNCHANGED <<owner, after, seen, config, done, stolen>>

(* processIsAlive: a file without a number in it names no living process.  *)
OwnerAlive_OnError == owner.pid
OwnerAlive == owner.pid /\ Alive(owner.by)

(* removeDeadLock. If there is nothing to read, the lock is busy.          *)
Inspect(p) ==
  /\ pc[p] = "inspect"
  /\ IF owner.by # Nobody /\ ~OwnerAlive
     THEN Remove(p, "remake")
     ELSE Goto(p, "make") /\ UNCHANGED after
  /\ UNCHANGED <<dir, owner, seen, config, done, stolen>>

(* The second mkdirSync; if it fails, so does the attempt.                 *)
RemakeDir(p) ==
  /\ pc[p] = "remake"
  /\ IF dir = Nobody
     THEN dir' = p /\ Goto(p, "open")
     ELSE Goto(p, "make") /\ UNCHANGED dir
  /\ UNCHANGED <<owner, after, seen, config, done, stolen>>

(* openSync(owner, 'wx'); if it fails, the directory is removed.           *)

OpenOwner(p) ==
  /\ pc[p] = "open"
  /\ IF dir # Nobody /\ owner.by = Nobody
     THEN owner' = [by |-> p, pid |-> FALSE] /\ Goto(p, "write") /\ UNCHANGED after
     ELSE Remove(p, "make") /\ UNCHANGED owner
  /\ UNCHANGED <<dir, seen, config, done, stolen>>

(* The pid goes to the file that was opened, wherever that is by now.      *)
WriteOwner(p) ==
  /\ pc[p] = "write"
  /\ owner' = IF owner.by = p THEN [owner EXCEPT !.pid = TRUE] ELSE owner
  /\ Goto(p, "read")
  /\ UNCHANGED <<dir, after, seen, config, done, stolen>>

-----------------------------------------------------------------------------
(* Under the lock: read the configuration; nothing to do if the change is  *)
(* in it.                                                                  *)

ReadConfig(p) ==
  /\ pc[p] = "read"
  /\ IF p \in config
     THEN Remove(p, "make") /\ UNCHANGED seen
     ELSE Goto(p, "replace") /\ seen' = [seen EXCEPT ![p] = config] /\ UNCHANGED after
  /\ UNCHANGED <<dir, owner, config, done, stolen>>

(* atomicReplaceFileSync. The temporary file has a name of its own: what   *)
(* others see of it is the rename.                                         *)
ReplaceConfig(p) ==
  /\ pc[p] = "replace"
  /\ config' = seen[p] \cup {p}
  /\ seen' = [seen EXCEPT ![p] = {}]
  /\ done' = done \cup {p}
  /\ Remove(p, "make")
  /\ UNCHANGED <<dir, owner, stolen>>

-----------------------------------------------------------------------------
(* rmSync(lockDir, { recursive, force }): what is in the directory, then   *)
(* the directory.                                                          *)
Steals(p) == dir \notin {Nobody, p} /\ pc[dir] \in Holding

UnlinkOwner(p) ==
  /\ pc[p] = "unlink"
  /\ owner' = NoFile
  /\ stolen' = (stolen \/ Steals(p))
  /\ Goto(p, "rmdir")
  /\ UNCHANGED <<dir, after, seen, config, done>>

(* A directory that is not empty again is an error.                        *)
RemoveDir(p) ==
  /\ pc[p] = "rmdir"
  /\ IF owner.by = Nobody
     THEN /\ dir' = Nobody
          /\ stolen' = (stolen \/ Steals(p))
          /\ Goto(p, after[p])
     ELSE Goto(p, "make") /\ UNCHANGED <<dir, stolen>>
  /\ after' = [after EXCEPT ![p] = "make"]
  /\ UNCHANGED <<owner, seen, config, done>>

Die(p) ==
  /\ p \in Mortals /\ Alive(p)
  /\ Goto(p, "dead")
  /\ after' = [after EXCEPT ![p] = "make"]
  /\ seen' = [seen EXCEPT ![p] = {}]
  /\ UNCHANGED <<dir, owner, config, done, stolen>>

Step(p) ==
  \/ MakeDir(p) \/ Inspect(p) \/ RemakeDir(p) \/ OpenOwner(p) \/ WriteOwner(p)
  \/ ReadConfig(p) \/ ReplaceConfig(p) \/ UnlinkOwner(p) \/ RemoveDir(p)

Next == \E p \in Procs : Step(p) \/ Die(p)

Spec == Init /\ [][Next]_vars

FairSpec == Spec /\ \A p \in Procs : WF_vars(Step(p))

-----------------------------------------------------------------------------
(* As long as no living process lost its lock, at most one process is      *)
(* between reading the configuration and replacing it.                     *)
MutualExclusion ==
  ~stolen => \A p, q \in Procs : {pc[p], pc[q]} \subseteq Locked => p = q

(* Nor is a change lost that was reported as made.                         *)
NoChangeLost == ~stolen => done \subseteq config

(* Of FairSpec. No lock is held for ever: a process gives up the directory *)
(* it made on every path out of its request, and if it dies with its owner *)
(* file in it, the next request of a living one removes that, with or      *)
(* without a pid in it.                                                    *)
LockIsFreed ==
  \A p \in Procs : dir = p ~> dir # p \/ stolen \/ (~Alive(p) /\ owner.by # p)

=============================================================================
