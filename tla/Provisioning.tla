----------------------------- MODULE Provisioning -----------------------------
(***************************************************************************)
(* Tenants and the jobs that set them up and take them down                *)
(* (src/lib/super-admin.ts): an administrator queues a job, another        *)
(* approves it, and a request executes it, awaiting one command after the  *)
(* other. The row of the job is read and marked running in one step; the   *)
(* tenant's status is remembered there and written again after the awaits. *)
(***************************************************************************)
EXTENDS Naturals

CONSTANTS
  ProvisionJobs,  \* the ids provisioning jobs may get
  Tenants,        \* the ids tenants may get
  Admins,         \* the administrators who send requests
  Unapproved,     \* approved_by IS NULL
  PlanSteps,      \* the number of commands of a plan
  ExecModes,      \* whether MC_SUPER_PROVISION_EXEC may be 'true'
  Restarts        \* whether the process may be restarted

ASSUME ProvisioningAssumption ==
  /\ Unapproved \notin Admins
  /\ PlanSteps \in Nat \ {0}
  /\ ExecModes \subseteq BOOLEAN /\ Restarts \in BOOLEAN

VARIABLES
  provision,   \* provision_jobs, by id
  tenant,      \* tenants.status, or that there is no such row
  executions,  \* the calls of executeProvisionJob that await a command
  overlapped,  \* history: the tenants of which a job was started while another one ran
  forgotten    \* history: the jobs whose execution a restart cut off

provisioningVars == <<provision, tenant, executions, overlapped, forgotten>>

Kinds == {"bootstrap", "decommission"}
JobStatus == {"absent", "queued", "approved", "running", "completed", "failed",
              "rejected", "cancelled"}
TenantStatus == {"absent", "pending", "provisioning", "decommissioning", "active",
                 "suspended", "error"}

(* runnable: the plan is not empty and request_json agrees with dry_run.   *)
ProvisionJob == [status : JobStatus, kind : Kinds, dry : BOOLEAN, runnable : BOOLEAN,
                 tenant : Tenants, requester : Admins, approver : Admins \cup {Unapproved}]

Execution == [job : ProvisionJobs, runner : Admins, previous : TenantStatus, step : 1..PlanSteps]

ProvisioningTypeOK ==
  /\ provision \in [ProvisionJobs -> ProvisionJob]
  /\ tenant \in [Tenants -> TenantStatus]
  /\ executions \subseteq Execution
  /\ overlapped \subseteq Tenants
  /\ forgotten \subseteq ProvisionJobs

ProvisioningInit ==
  /\ provision \in [ProvisionJobs -> {q \in ProvisionJob :
                      /\ q.status = "absent" /\ q.approver = Unapproved
                      /\ q.kind = "bootstrap" /\ q.dry /\ ~q.runnable
                      /\ q.tenant = CHOOSE t \in Tenants : TRUE
                      /\ q.requester = CHOOSE a \in Admins : TRUE}]
  /\ tenant = [t \in Tenants |-> "absent"]
  /\ executions = {}
  /\ overlapped = {}
  /\ forgotten = {}

ExecutionsOf(t) == {x \in executions : provision[x.job].tenant = t}
Live(j) == ~provision[j].dry

-----------------------------------------------------------------------------
(* Requests that queue a job and those that decide about it.               *)

Queue(j, t, kind, dry, runnable, a) ==
  /\ provision[j].status = "absent"
  /\ provision' = [provision EXCEPT ![j] =
       [status |-> "queued", kind |-> kind, dry |-> dry, runnable |-> runnable,
        tenant |-> t, requester |-> a, approver |-> Unapproved]]
  /\ UNCHANGED <<executions, overlapped, forgotten>>

(* createTenantAndBootstrapJob: one transaction over both tables.          *)
CreateTenantAndBootstrapJob(j, t, dry, a) ==
  /\ tenant[t] = "absent"
  /\ tenant' = [tenant EXCEPT ![t] = "pending"]
  /\ Queue(j, t, "bootstrap", dry, TRUE, a)

(* POST /api/super/os-users in local mode registers an active tenant.      *)
RegisterLocalTenant(t) ==
  /\ tenant[t] = "absent"
  /\ tenant' = [tenant EXCEPT ![t] = "active"]
  /\ UNCHANGED <<provision, executions, overlapped, forgotten>>

(* POST /api/super/provision-jobs takes any plan and request_json, so the  *)
(* job may be one that is never executed; decommissioning fills them in.   *)
QueueJob(j, t, kind, dry, runnable, a) ==
  /\ tenant[t] # "absent"
  /\ Queue(j, t, kind, dry, runnable, a)
  /\ UNCHANGED tenant

(* transitionProvisionJobStatus.                                           *)
Decide(j, from, status, approver) ==
  /\ provision[j].status \in from
  /\ provision' = [provision EXCEPT ![j].status = status, ![j].approver = approver]
  /\ UNCHANGED <<tenant, executions, overlapped, forgotten>>

ApproveJob_WhileRunning(j, a) == Decide(j, {"queued", "rejected", "failed", "running"}, "approved", a)
ApproveJob(j, a) == Decide(j, {"queued", "rejected", "failed"}, "approved", a)

RejectJob(j) == Decide(j, {"queued", "approved", "failed"}, "rejected", provision[j].approver)

CancelJob(j) ==
  Decide(j, {"queued", "approved", "failed", "rejected"}, "cancelled", provision[j].approver)

-----------------------------------------------------------------------------
(* executeProvisionJob.                                                    *)

(* The two-person rule of jobs that are not dry runs.                      *)
TwoPersons_AnyRunner(j, a) == Live(j) => provision[j].approver # provision[j].requester
TwoPersons(j, a) == Live(j) => provision[j].approver \notin {provision[j].requester, a}

MayExecute(j, a) ==
  /\ provision[j].status = "approved"
  /\ provision[j].runnable
  /\ provision[j].approver # Unapproved
  /\ TwoPersons(j, a)

StartedStatus(j) ==
  CASE provision[j].dry -> tenant[provision[j].tenant]
    [] Live(j) /\ provision[j].kind = "decommission" -> "decommissioning"
    [] OTHER -> "provisioning"

CompletedStatus(x) ==
  CASE provision[x.job].kind = "bootstrap" -> "active"
    [] provision[x.job].kind = "decommission" /\ Live(x.job) -> "suspended"
    [] OTHER -> x.previous

SetStatus(j, jobStatus, tenantStatus) ==
  /\ provision' = [provision EXCEPT ![j].status = jobStatus]
  /\ tenant' = [tenant EXCEPT ![provision[j].tenant] = tenantStatus]

(* Up to the await of the first command: without MC_SUPER_PROVISION_EXEC a *)
(* live job fails before it.                                               *)
StartExecution(j, a, allowed) ==
  /\ MayExecute(j, a)
  /\ IF Live(j) /\ ~allowed
     THEN SetStatus(j, "failed", "error") /\ UNCHANGED executions
     ELSE /\ SetStatus(j, "running", StartedStatus(j))
          /\ executions' = executions \cup
               {[job |-> j, runner |-> a, previous |-> tenant[provision[j].tenant], step |-> 1]}
  /\ overlapped' = IF ExecutionsOf(provision[j].tenant) = {} THEN overlapped
                   ELSE overlapped \cup {provision[j].tenant}
  /\ UNCHANGED forgotten

(* The awaited command ended, and the next is started.                     *)
FinishStep_PastLast(x) ==
  /\ x.step <= PlanSteps
  /\ executions' = (executions \ {x}) \cup {[x EXCEPT !.step = @ + 1]}
  /\ UNCHANGED <<provision, tenant, overlapped, forgotten>>
FinishStep(x) ==
  /\ x.step < PlanSteps
  /\ executions' = (executions \ {x}) \cup {[x EXCEPT !.step = @ + 1]}
  /\ UNCHANGED <<provision, tenant, overlapped, forgotten>>

FinishExecution_TenantLeft(x) ==
  /\ x.step = PlanSteps
  /\ provision' = [provision EXCEPT ![x.job].status = "completed"]
  /\ executions' = executions \ {x}
  /\ UNCHANGED <<tenant, overlapped, forgotten>>

FinishExecution(x) ==
  /\ x.step = PlanSteps
  /\ SetStatus(x.job, "completed", CompletedStatus(x))
  /\ executions' = executions \ {x}
  /\ UNCHANGED <<overlapped, forgotten>>

(* The command failed, was refused or timed out: a dry run, too, leaves    *)
(* its tenant in error.                                                    *)
FailExecution(x) ==
  /\ SetStatus(x.job, "failed", "error")
  /\ executions' = executions \ {x}
  /\ UNCHANGED <<overlapped, forgotten>>

(* The process restarts: nothing takes up what was being executed.         *)
RestartProvisioning ==
  /\ Restarts
  /\ executions' = {}
  /\ forgotten' = forgotten \cup {x.job : x \in executions}
  /\ UNCHANGED <<provision, tenant, overlapped>>

-----------------------------------------------------------------------------
ExecutionStep(j) ==
  \E x \in executions : x.job = j /\ (FinishStep(x) \/ FinishExecution(x) \/ FailExecution(x))

ProvisioningNext ==
  \/ \E j \in ProvisionJobs, t \in Tenants, dry \in BOOLEAN, a \in Admins :
       \/ CreateTenantAndBootstrapJob(j, t, dry, a)
       \/ \E kind \in Kinds, runnable \in BOOLEAN : QueueJob(j, t, kind, dry, runnable, a)
  \/ \E t \in Tenants : RegisterLocalTenant(t)
  \/ \E j \in ProvisionJobs : RejectJob(j) \/ CancelJob(j) \/ ExecutionStep(j)
  \/ \E j \in ProvisionJobs, a \in Admins :
       ApproveJob(j, a) \/ \E allowed \in ExecModes : StartExecution(j, a, allowed)
  \/ RestartProvisioning

ProvisioningSpec == ProvisioningInit /\ [][ProvisioningNext]_provisioningVars

-----------------------------------------------------------------------------
(* A command of a job that is not a dry run is executed only while its     *)
(* approver is neither who asked for the job nor who runs it: the rule is  *)
(* checked once, before the first command, and no decision may change the  *)
(* approver under the commands that follow.                                *)
TwoPersonRule ==
  \A x \in executions :
    Live(x.job) => provision[x.job].approver \notin
                     {Unapproved, provision[x.job].requester, x.runner}

(* A job is executed by one request at a time and is 'running' meanwhile,  *)
(* so that it can be neither cancelled nor approved anew under its own     *)
(* commands; and it is 'running' without a request only after a restart.   *)
RunningIsExecuted ==
  \A j \in ProvisionJobs :
    /\ \A x, y \in executions : x.job = j /\ y.job = j => x = y
    /\ (\E x \in executions : x.job = j) => provision[j].status = "running"
    /\ provision[j].status = "running" => j \in forgotten \/ \E x \in executions : x.job = j

(* As long as the jobs of a tenant are executed one at a time, the tenant  *)
(* is being provisioned or decommissioned only while a live job of it is   *)
(* executed or was cut off: the status that was remembered before the      *)
(* awaits is still the right one to write after them.                      *)
TransientWhileExecuted ==
  \A t \in Tenants \ overlapped :
    tenant[t] \in {"provisioning", "decommissioning"} =>
      \E j \in ProvisionJobs :
        /\ provision[j].tenant = t /\ Live(j)
        /\ j \in forgotten \/ \E x \in executions : x.job = j

(* A dry run of a decommission takes no tenant down: a tenant becomes      *)
(* suspended only by the last command of a live one.                       *)
SuspendedByLiveJobs ==
  [][\A t \in Tenants \ overlapped :
       tenant'[t] = "suspended" /\ tenant[t] # "suspended" =>
         \E x \in executions \ executions' :
           /\ provision[x.job].tenant = t /\ Live(x.job)
           /\ provision[x.job].kind = "decommission" /\ x.step = PlanSteps]_provisioningVars

=============================================================================
