---------------------------- MODULE FileLockProofs ----------------------------
(***************************************************************************)
(* Theorems of FileLock, for any set of processes and any of them mortal.  *)
(***************************************************************************)
EXTENDS FileLock, TLAPS

(* Who holds the lock made its directory; who is about to replace the      *)
(* configuration has read what it is.                                      *)
HoldersMadeDir == ~stolen => \A p \in Procs : pc[p] \in Holding => dir = p
ReadersAreFresh == ~stolen => \A p \in Procs : pc[p] = "replace" => seen[p] = config

IInv == TypeOK /\ HoldersMadeDir /\ ReadersAreFresh /\ NoChangeLost

LEMMA InitIInv == Init => IInv
<1> SUFFICES ASSUME Init PROVE IInv
  OBVIOUS
<1> USE DEF Init, Acquiring, Holding, Locked, Removing, NoFile
<1>1. TypeOK
  BY DEF TypeOK
<1>2. HoldersMadeDir /\ ReadersAreFresh /\ NoChangeLost
  BY DEF HoldersMadeDir, ReadersAreFresh, NoChangeLost
<1> QED BY <1>1, <1>2 DEF IInv

LEMMA TypeNext == TypeOK /\ [Next]_vars => TypeOK'
<1> SUFFICES ASSUME TypeOK, [Next]_vars PROVE TypeOK'
  OBVIOUS
<1> USE DEF TypeOK, Acquiring, Holding, Locked, Removing, NoFile, Goto
<1>1. ASSUME NEW p \in Procs, MakeDir(p) PROVE TypeOK'
  BY <1>1, ConstantsAssumption DEF MakeDir
<1>2. ASSUME NEW p \in Procs, Inspect(p) PROVE TypeOK'
  BY <1>2 DEF Inspect, Remove
<1>3. ASSUME NEW p \in Procs, RemakeDir(p) PROVE TypeOK'
  BY <1>3, ConstantsAssumption DEF RemakeDir
<1>4. ASSUME NEW p \in Procs, OpenOwner(p) PROVE TypeOK'
  <2>1. CASE dir # Nobody /\ owner.by = Nobody
    <3>1. owner' = [by |-> p, pid |-> FALSE] /\ UNCHANGED <<dir, after, seen, config, done, stolen>>
      BY <1>4, <2>1 DEF OpenOwner
    <3>2. pc' = [pc EXCEPT ![p] = "write"]
      BY <1>4, <2>1 DEF OpenOwner
    <3>3. owner' \in [by : Procs \cup {Nobody}, pid : BOOLEAN]
      BY <3>1
    <3> QED BY <2>1, <3>1, <3>2, <3>3
  <2>2. CASE ~(dir # Nobody /\ owner.by = Nobody)
    BY <1>4, <2>2 DEF OpenOwner, Remove
  <2> QED BY <2>1, <2>2
<1>5. ASSUME NEW p \in Procs, WriteOwner(p) PROVE TypeOK'
  <2>1. owner' \in [by : Procs \cup {Nobody}, pid : BOOLEAN]
    BY <1>5 DEF WriteOwner
  <2>2. dir' = Nobody => owner'.by = Nobody
    <3>1. ASSUME dir = Nobody PROVE owner.by # p
      BY <3>1, ConstantsAssumption
    <3>2. dir' = dir /\ (owner.by # p => owner' = owner)
      BY <1>5 DEF WriteOwner
    <3> QED BY <3>1, <3>2
  <2> QED BY <1>5, <2>1, <2>2 DEF WriteOwner
<1>6. ASSUME NEW p \in Procs, ReadConfig(p) PROVE TypeOK'
  BY <1>6 DEF ReadConfig, Remove
<1>7. ASSUME NEW p \in Procs, ReplaceConfig(p) PROVE TypeOK'
  BY <1>7 DEF ReplaceConfig, Remove
<1>8. ASSUME NEW p \in Procs, UnlinkOwner(p) PROVE TypeOK'
  <2>1. owner' \in [by : Procs \cup {Nobody}, pid : BOOLEAN]
    BY <1>8 DEF UnlinkOwner
  <2>2. stolen' \in BOOLEAN
    BY <1>8 DEF UnlinkOwner, Steals
  <2> QED BY <1>8, <2>1, <2>2 DEF UnlinkOwner
<1>9. ASSUME NEW p \in Procs, RemoveDir(p) PROVE TypeOK'
  <2>1. stolen' \in BOOLEAN
    BY <1>9 DEF RemoveDir, Steals
  <2>2. dir' = Nobody => owner'.by = Nobody
    BY <1>9 DEF RemoveDir
  <2>3. pc' \in [Procs -> Acquiring \cup Holding \cup Removing \cup {"dead"}]
    <3>1. after[p] \in {"make", "remake"}
      OBVIOUS
    <3>2. \/ pc' = [pc EXCEPT ![p] = "make"]
          \/ pc' = [pc EXCEPT ![p] = "remake"]
      BY <1>9, <3>1 DEF RemoveDir
    <3> QED BY <3>2
  <2>4. dir' \in Procs \cup {Nobody}
    BY <1>9 DEF RemoveDir
  <2> QED BY <1>9, <2>1, <2>2, <2>3, <2>4 DEF RemoveDir
<1>10. ASSUME NEW p \in Procs, Die(p) PROVE TypeOK'
  BY <1>10 DEF Die
<1>11. CASE UNCHANGED vars
  BY <1>11 DEF vars
<1> QED
  BY <1>1, <1>2, <1>3, <1>4, <1>5, <1>6, <1>7, <1>8, <1>9, <1>10, <1>11 DEF Next, Step

(* Every reachable state is well typed; an owner file has a directory.     *)
THEOREM TypeCorrect == Spec => []TypeOK
<1>1. Init => TypeOK
  BY InitIInv DEF IInv
<1> QED BY <1>1, TypeNext, PTL DEF Spec

-----------------------------------------------------------------------------
LEMMA HoldersNext == IInv /\ [Next]_vars => HoldersMadeDir'
<1> SUFFICES ASSUME IInv, [Next]_vars, ~stolen', NEW q \in Procs, pc'[q] \in Holding
             PROVE  dir' = q
  BY DEF HoldersMadeDir
<1> USE DEF IInv, TypeOK, HoldersMadeDir, Goto, Holding, Locked
<1>1. ASSUME NEW p \in Procs, MakeDir(p) \/ RemakeDir(p) PROVE dir' = q
  BY <1>1, ConstantsAssumption DEF MakeDir, RemakeDir
<1>2. ASSUME NEW p \in Procs, Inspect(p) \/ OpenOwner(p) PROVE dir' = q
  BY <1>2 DEF Inspect, OpenOwner, Remove
<1>3. ASSUME NEW p \in Procs, WriteOwner(p) \/ ReadConfig(p) \/ ReplaceConfig(p)
      PROVE  dir' = q
  BY <1>3 DEF WriteOwner, ReadConfig, ReplaceConfig, Remove
<1>4. ASSUME NEW p \in Procs, UnlinkOwner(p) PROVE dir' = q
  BY <1>4 DEF UnlinkOwner
<1>5. ASSUME NEW p \in Procs, RemoveDir(p) PROVE dir' = q
  <2>1. ~stolen /\ pc[p] = "rmdir"
    BY <1>5 DEF RemoveDir
  <2>2. pc'[p] \notin Holding
    BY <1>5 DEF RemoveDir
  <2>3. q # p /\ pc[q] \in Holding
    BY <1>5, <2>2 DEF RemoveDir
  <2>4. dir = q /\ q # Nobody
    BY <2>1, <2>3, ConstantsAssumption
  <2>5. Steals(p)
    BY <2>3, <2>4 DEF Steals
  <2> QED BY <1>5, <2>4, <2>5 DEF RemoveDir
<1>6. ASSUME NEW p \in Procs, Die(p) PROVE dir' = q
  BY <1>6 DEF Die
<1>7. CASE UNCHANGED vars
  BY <1>7 DEF vars
<1> QED BY <1>1, <1>2, <1>3, <1>4, <1>5, <1>6, <1>7 DEF Next, Step

LEMMA FreshNext ==
  IInv /\ [Next]_vars => ReadersAreFresh' /\ NoChangeLost'
<1> SUFFICES ASSUME IInv, [Next]_vars PROVE ReadersAreFresh' /\ NoChangeLost'
  OBVIOUS
<1> USE DEF IInv, TypeOK, ReadersAreFresh, NoChangeLost, Goto
<1>1. ASSUME NEW p \in Procs, MakeDir(p) \/ RemakeDir(p)
      PROVE  ReadersAreFresh' /\ NoChangeLost'
  BY <1>1 DEF MakeDir, RemakeDir
<1>2. ASSUME NEW p \in Procs, Inspect(p) \/ OpenOwner(p) \/ WriteOwner(p)
      PROVE  ReadersAreFresh' /\ NoChangeLost'
  BY <1>2 DEF Inspect, OpenOwner, WriteOwner, Remove
<1>3. ASSUME NEW p \in Procs, ReadConfig(p) PROVE ReadersAreFresh' /\ NoChangeLost'
  BY <1>3 DEF ReadConfig, Remove
<1>4. ASSUME NEW p \in Procs, ReplaceConfig(p) PROVE ReadersAreFresh' /\ NoChangeLost'
  <2>1. ~stolen' => seen[p] = config
    BY <1>4 DEF ReplaceConfig
  <2>2. NoChangeLost'
    BY <1>4, <2>1 DEF ReplaceConfig
  <2>3. ASSUME ~stolen', NEW q \in Procs, pc'[q] = "replace" PROVE FALSE
    <3>1. q # p /\ pc[q] = "replace" /\ pc[p] = "replace" /\ ~stolen
      BY <1>4, <2>3 DEF ReplaceConfig, Remove
    <3> QED BY <3>1 DEF HoldersMadeDir, Holding, Locked
  <2> QED BY <2>2, <2>3
<1>5. ASSUME NEW p \in Procs, UnlinkOwner(p) \/ RemoveDir(p)
      PROVE  ReadersAreFresh' /\ NoChangeLost'
  <2>1. ASSUME ~stolen', NEW q \in Procs, pc'[q] = "replace"
        PROVE  ~stolen /\ pc[q] = "replace"
    BY <1>5, <2>1 DEF UnlinkOwner, RemoveDir
  <2>2. UNCHANGED <<seen, config, done>> /\ (~stolen' => ~stolen)
    BY <1>5 DEF UnlinkOwner, RemoveDir
  <2> QED BY <2>1, <2>2
<1>6. ASSUME NEW p \in Procs, Die(p) PROVE ReadersAreFresh' /\ NoChangeLost'
  BY <1>6 DEF Die
<1>7. CASE UNCHANGED vars
  BY <1>7 DEF vars
<1> QED BY <1>1, <1>2, <1>3, <1>4, <1>5, <1>6, <1>7 DEF Next, Step

LEMMA Invariance == Spec => []IInv
<1>1. IInv /\ [Next]_vars => IInv'
  BY TypeNext, HoldersNext, FreshNext DEF IInv
<1> QED BY InitIInv, <1>1, PTL DEF Spec

(* As long as no living process lost its lock to another, at most one is   *)
(* between reading the configuration and replacing it.                     *)
THEOREM AtMostOneWriter == Spec => []MutualExclusion
<1>1. IInv => MutualExclusion
  BY DEF IInv, HoldersMadeDir, MutualExclusion, Holding
<1> QED BY <1>1, Invariance, PTL

(* Nor is a change lost that was reported as made, whoever dies when.      *)
THEOREM ChangesAreKept == Spec => []NoChangeLost
<1>1. IInv => NoChangeLost
  BY DEF IInv
<1> QED BY <1>1, Invariance, PTL

=============================================================================
