---------------------------- MODULE HandoutLedger ----------------------------
(***************************************************************************)
(* What the task loop promises, without its jobs: a ledger of every task.  *)
(* A task is open while it may be given to an agent. Giving it away closes *)
(* it; only a counted failure below the limit or a write from outside      *)
(* opens it again. TaskDispatch implements this (TaskDispatch!Contract).     *)
(***************************************************************************)
EXTENDS Naturals

CONSTANTS
  Tasks,      \* the ids tasks may get
  MaxFailures \* failures after which a task is not opened again

VARIABLES
  open,     \* whether the task may be given to an agent
  granted,  \* how often it was given to one
  failed,   \* counted failures
  written   \* writes from outside

ledgerVars == <<open, granted, failed, written>>

Init ==
  /\ open = [t \in Tasks |-> TRUE]
  /\ granted = [t \in Tasks |-> 0]
  /\ failed = [t \in Tasks |-> 0]
  /\ written = [t \in Tasks |-> 0]

(* The task is closed, or left as it is.                                   *)
Settle(t) ==
  /\ open'[t] => open[t]
  /\ granted'[t] = granted[t] /\ failed'[t] = failed[t] /\ written'[t] = written[t]

Grant(t) ==
  /\ open[t] /\ ~open'[t]
  /\ granted'[t] = granted[t] + 1
  /\ failed'[t] = failed[t] /\ written'[t] = written[t]

Fail(t) ==
  /\ failed'[t] = failed[t] + 1
  /\ open'[t] => failed'[t] < MaxFailures
  /\ granted'[t] = granted[t] /\ written'[t] = written[t]

Change(t) ==
  /\ written'[t] = written[t] + 1
  /\ granted'[t] = granted[t] /\ failed'[t] = failed[t]

(* A query may write the rows of many tasks at once.                       *)
Next == \A t \in Tasks : Settle(t) \/ Grant(t) \/ Fail(t) \/ Change(t)

Spec == Init /\ [][Next]_ledgerVars

=============================================================================
