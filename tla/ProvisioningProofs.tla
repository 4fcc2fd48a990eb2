-------------------------- MODULE ProvisioningProofs --------------------------
(* The jobs that provision tenants, for any jobs, tenants, administrators  *)
(* and plans: who may run a command, what a job's status says of its       *)
(* execution, and what a tenant's status says of its jobs.                 *)
EXTENDS Provisioning, TLAPS

(* A job that is executed or was cut off is 'running'; no other is.        *)
JobsMatch ==
  /\ \A x, y \in executions : x.job = y.job => x = y
  /\ \A x \in executions : provision[x.job].status = "running" /\ x.job \notin forgotten
  /\ \A j \in forgotten : provision[j].status = "running"
  /\ \A j \in ProvisionJobs :
       provision[j].status = "running" => j \in forgotten \/ \E x \in executions : x.job = j

(* Whoever has a job exists.                                               *)
TenantsExist ==
  /\ \A j \in ProvisionJobs :
       provision[j].status # "absent" => tenant[provision[j].tenant] # "absent"
  /\ \A x \in executions : x.previous # "absent"

(* A live job of the tenant is executed or was cut off.                    *)
CutOff(t) == \E j \in forgotten : provision[j].tenant = t /\ Live(j)
Executed(t) == \E x \in executions : provision[x.job].tenant = t /\ Live(x.job)
Transient(status) == status \in {"provisioning", "decommissioning"}

(* Unless jobs of a tenant overlapped, at most one is executed, a dry run  *)
(* finds the tenant as it remembers it, and a status that says of work     *)
(* under way, held by the tenant or remembered, comes from a live job.     *)
StatusRemembered ==
  \A t \in Tenants \ overlapped :
    /\ \A x, y \in ExecutionsOf(t) : x = y
    /\ \A x \in ExecutionsOf(t) :
         /\ ~Live(x.job) => tenant[t] = x.previous
         /\ Transient(x.previous) => CutOff(t)
    /\ Transient(tenant[t]) => CutOff(t) \/ Executed(t)

ProvisioningInv ==
  ProvisioningTypeOK /\ JobsMatch /\ TenantsExist /\ TwoPersonRule /\ StatusRemembered

-----------------------------------------------------------------------------
(* The rows keep their types.                                              *)
LEMMA TypeOfSteps ==
  ASSUME ProvisioningTypeOK, ProvisioningNext
  PROVE  ProvisioningTypeOK'
  <1> USE DEF ProvisioningTypeOK
  <1>1. ASSUME NEW j \in ProvisionJobs, NEW t \in Tenants, NEW dry \in BOOLEAN, NEW a \in Admins,
               NEW kind \in Kinds, NEW runnable \in BOOLEAN, Queue(j, t, kind, dry, runnable, a)
        PROVE  /\ provision' \in [ProvisionJobs -> ProvisionJob]
               /\ executions' \subseteq Execution /\ overlapped' \subseteq Tenants
               /\ forgotten' \subseteq ProvisionJobs
    BY <1>1 DEF Queue, ProvisionJob, JobStatus
  <1>2. ASSUME NEW j \in ProvisionJobs, NEW t \in Tenants, NEW dry \in BOOLEAN, NEW a \in Admins,
               CreateTenantAndBootstrapJob(j, t, dry, a)
        PROVE  ProvisioningTypeOK'
    <2>1. tenant' \in [Tenants -> TenantStatus]
      BY <1>2 DEF CreateTenantAndBootstrapJob, TenantStatus
    <2>2. Queue(j, t, "bootstrap", dry, TRUE, a) /\ "bootstrap" \in Kinds
      BY <1>2 DEF CreateTenantAndBootstrapJob, Kinds
    <2> QED BY <1>1, <2>1, <2>2
  <1>3. ASSUME NEW j \in ProvisionJobs, NEW t \in Tenants, NEW dry \in BOOLEAN, NEW a \in Admins,
               NEW kind \in Kinds, NEW runnable \in BOOLEAN, QueueJob(j, t, kind, dry, runnable, a)
        PROVE  ProvisioningTypeOK'
    <2>1. Queue(j, t, kind, dry, runnable, a) /\ tenant' = tenant
      BY <1>3 DEF QueueJob
    <2> QED BY <1>1, <2>1
  <1>4. ASSUME NEW t \in Tenants, RegisterLocalTenant(t)
        PROVE  ProvisioningTypeOK'
    BY <1>4 DEF RegisterLocalTenant, TenantStatus
  <1>5. ASSUME NEW j \in ProvisionJobs, NEW from, NEW status \in JobStatus,
               NEW approver \in Admins \cup {Unapproved}, Decide(j, from, status, approver)
        PROVE  ProvisioningTypeOK'
    BY <1>5 DEF Decide, ProvisionJob
  <1>6. ASSUME NEW j \in ProvisionJobs, RejectJob(j) \/ CancelJob(j)
        PROVE  ProvisioningTypeOK'
    <2>1. provision[j].approver \in Admins \cup {Unapproved}
      BY DEF ProvisionJob
    <2> QED BY <1>5, <1>6, <2>1 DEF RejectJob, CancelJob, JobStatus
  <1>7. ASSUME NEW j \in ProvisionJobs, NEW a \in Admins, ApproveJob(j, a)
        PROVE  ProvisioningTypeOK'
    BY <1>5, <1>7 DEF ApproveJob, JobStatus
  <1>8. ASSUME NEW j \in ProvisionJobs, NEW status \in JobStatus, NEW of \in TenantStatus,
               SetStatus(j, status, of)
        PROVE  provision' \in [ProvisionJobs -> ProvisionJob] /\ tenant' \in [Tenants -> TenantStatus]
    BY <1>8 DEF SetStatus, ProvisionJob
  <1>9. ASSUME NEW j \in ProvisionJobs, NEW a \in Admins, NEW allowed \in BOOLEAN,
               StartExecution(j, a, allowed)
        PROVE  ProvisioningTypeOK'
    <2>1. provision[j].tenant \in Tenants
      BY DEF ProvisionJob
    <2>2. StartedStatus(j) \in TenantStatus /\ tenant[provision[j].tenant] \in TenantStatus
      BY <2>1 DEF StartedStatus, TenantStatus
    <2>3. provision' \in [ProvisionJobs -> ProvisionJob] /\ tenant' \in [Tenants -> TenantStatus]
      <3>1. "failed" \in JobStatus /\ "running" \in JobStatus /\ "error" \in TenantStatus
        BY DEF JobStatus, TenantStatus
      <3>2. CASE Live(j) /\ ~allowed
        <4>1. SetStatus(j, "failed", "error")
          BY <1>9, <3>2 DEF StartExecution
        <4> QED BY <1>8, <3>1, <4>1
      <3>3. CASE ~(Live(j) /\ ~allowed)
        <4>1. SetStatus(j, "running", StartedStatus(j))
          BY <1>9, <3>3 DEF StartExecution
        <4> QED BY <1>8, <2>2, <3>1, <4>1
      <3> QED BY <3>2, <3>3
    <2>4. executions' \subseteq Execution
      <3>1. [job |-> j, runner |-> a, previous |-> tenant[provision[j].tenant], step |-> 1] \in Execution
        BY <2>2, ProvisioningAssumption DEF Execution
      <3> QED BY <1>9, <3>1 DEF StartExecution
    <2>5. overlapped' \subseteq Tenants /\ forgotten' \subseteq ProvisionJobs
      BY <1>9, <2>1 DEF StartExecution
    <2> QED BY <2>3, <2>4, <2>5
  <1>10. ASSUME NEW x \in executions, FinishStep(x) \/ FinishExecution(x) \/ FailExecution(x)
         PROVE  ProvisioningTypeOK'
    <2>1. /\ x.job \in ProvisionJobs /\ x.previous \in TenantStatus /\ x.runner \in Admins
          /\ x.step \in 1..PlanSteps
      BY DEF Execution
    <2>2. CASE FinishStep(x)
      <3>1. [x EXCEPT !.step = @ + 1] \in Execution
        BY <2>1, <2>2, ProvisioningAssumption DEF FinishStep, Execution
      <3> QED BY <2>2, <3>1 DEF FinishStep
    <2>3. CASE FinishExecution(x)
      <3>1. CompletedStatus(x) \in TenantStatus /\ "completed" \in JobStatus
        BY <2>1 DEF CompletedStatus, TenantStatus, JobStatus
      <3>2. provision' \in [ProvisionJobs -> ProvisionJob] /\ tenant' \in [Tenants -> TenantStatus]
        BY <1>8, <2>1, <2>3, <3>1 DEF FinishExecution
      <3> QED BY <2>3, <3>2 DEF FinishExecution
    <2>4. CASE FailExecution(x)
      <3>1. "error" \in TenantStatus /\ "failed" \in JobStatus
        BY DEF TenantStatus, JobStatus
      <3>2. provision' \in [ProvisionJobs -> ProvisionJob] /\ tenant' \in [Tenants -> TenantStatus]
        BY <1>8, <2>1, <2>4, <3>1 DEF FailExecution
      <3> QED BY <2>4, <3>2 DEF FailExecution
    <2> QED BY <1>10, <2>2, <2>3, <2>4
  <1>11. CASE RestartProvisioning
    <2>1. \A x \in executions : x.job \in ProvisionJobs
      BY DEF Execution
    <2> QED BY <1>11, <2>1 DEF RestartProvisioning
  <1>12. ExecModes \subseteq BOOLEAN
    BY ProvisioningAssumption
  <1> QED BY <1>2, <1>3, <1>4, <1>6, <1>7, <1>9, <1>10, <1>11, <1>12
          DEF ProvisioningNext, ExecutionStep

-----------------------------------------------------------------------------
(* The parts of the invariant that are no types.                           *)
Rest == JobsMatch /\ TenantsExist /\ TwoPersonRule /\ StatusRemembered

(* An executed job is neither absent nor its tenant.                       *)
LEMMA ExecutedFacts ==
  ASSUME ProvisioningInv, NEW x \in executions
  PROVE  /\ x.job \in ProvisionJobs /\ provision[x.job] \in ProvisionJob
         /\ provision[x.job].tenant \in Tenants
         /\ provision[x.job].status = "running"
         /\ tenant[provision[x.job].tenant] # "absent"
  <1>1. x.job \in ProvisionJobs
    BY DEF ProvisioningInv, ProvisioningTypeOK, Execution
  <1>2. provision[x.job] \in ProvisionJob
    BY <1>1 DEF ProvisioningInv, ProvisioningTypeOK
  <1>3. provision[x.job].status = "running"
    BY DEF ProvisioningInv, JobsMatch
  <1>4. tenant[provision[x.job].tenant] # "absent"
    BY <1>1, <1>3 DEF ProvisioningInv, TenantsExist
  <1> QED BY <1>1, <1>2, <1>3, <1>4 DEF ProvisionJob

(* A step that touches jobs at rest and tenants that did not exist.        *)
LEMMA QuietStep ==
  ASSUME ProvisioningInv,
         executions' = executions, forgotten' = forgotten, overlapped' = overlapped,
         \A t \in Tenants : tenant'[t] = tenant[t] \/
                            (tenant[t] = "absent" /\ tenant'[t] \in {"pending", "active"}),
         \A k \in ProvisionJobs :
           \/ provision'[k] = provision[k]
           \/ /\ provision[k].status # "running" /\ provision'[k].status # "running"
              /\ tenant'[provision'[k].tenant] # "absent"
  PROVE  Rest'
  <1>1. \A x \in executions : provision'[x.job] = provision[x.job]
    BY ExecutedFacts
  <1>2. \A j \in forgotten : j \in ProvisionJobs /\ provision'[j] = provision[j]
    BY DEF ProvisioningInv, JobsMatch, ProvisioningTypeOK
  <1>3. JobsMatch'
    BY <1>1, <1>2 DEF ProvisioningInv, JobsMatch
  <1>4. TenantsExist'
    <2>1. ASSUME NEW j \in ProvisionJobs, provision'[j].status # "absent"
          PROVE  tenant'[provision'[j].tenant] # "absent"
      <3>1. CASE provision'[j] = provision[j]
        <4>1. tenant[provision[j].tenant] # "absent"
          BY <2>1, <3>1 DEF ProvisioningInv, TenantsExist
        <4>2. provision[j].tenant \in Tenants
          BY DEF ProvisioningInv, ProvisioningTypeOK, ProvisionJob
        <4> QED BY <3>1, <4>1, <4>2
      <3> QED BY <3>1
    <2> QED BY <2>1 DEF ProvisioningInv, TenantsExist
  <1>5. TwoPersonRule'
    BY <1>1 DEF ProvisioningInv, TwoPersonRule, Live
  <1>6. StatusRemembered'
    <2> SUFFICES ASSUME NEW t \in Tenants, t \notin overlapped
                 PROVE  /\ \A x, y \in ExecutionsOf(t)' : x = y
                        /\ \A x \in ExecutionsOf(t)' :
                             /\ ~Live(x.job)' => tenant'[t] = x.previous
                             /\ Transient(x.previous) => CutOff(t)'
                        /\ Transient(tenant'[t]) => CutOff(t)' \/ Executed(t)'
      BY DEF StatusRemembered, Transient
    <2>1. ExecutionsOf(t)' = ExecutionsOf(t)
      BY <1>1 DEF ExecutionsOf
    <2>2. \A x \in ExecutionsOf(t) : Live(x.job)' = Live(x.job)
      BY <1>1 DEF ExecutionsOf, Live
    <2>3. CutOff(t)' <=> CutOff(t)
      BY <1>2 DEF CutOff, Live
    <2>4. Executed(t)' <=> Executed(t)
      BY <1>1 DEF Executed, Live
    <2>5. \A x \in ExecutionsOf(t) : tenant'[t] = tenant[t]
      BY ExecutedFacts DEF ExecutionsOf
    <2>6. Transient(tenant'[t]) => tenant'[t] = tenant[t]
      BY DEF Transient
    <2> QED BY <2>1, <2>2, <2>3, <2>4, <2>5, <2>6 DEF ProvisioningInv, StatusRemembered
  <1> QED BY <1>3, <1>4, <1>5, <1>6 DEF Rest

LEMMA QueueStep ==
  ASSUME ProvisioningInv, NEW j \in ProvisionJobs, NEW t \in Tenants, NEW dry \in BOOLEAN,
         NEW a \in Admins, NEW kind, NEW runnable, Queue(j, t, kind, dry, runnable, a),
         tenant'[t] # "absent",
         \A u \in Tenants : tenant'[u] = tenant[u] \/
                            (tenant[u] = "absent" /\ tenant'[u] \in {"pending", "active"})
  PROVE  Rest'
  <1>1. provision \in [ProvisionJobs -> ProvisionJob]
    BY DEF ProvisioningInv, ProvisioningTypeOK
  <1>2. /\ provision[j].status = "absent"
        /\ provision'[j] = [status |-> "queued", kind |-> kind, dry |-> dry, runnable |-> runnable,
                            tenant |-> t, requester |-> a, approver |-> Unapproved]
        /\ \A k \in ProvisionJobs \ {j} : provision'[k] = provision[k]
        /\ executions' = executions /\ forgotten' = forgotten /\ overlapped' = overlapped
    BY <1>1 DEF Queue
  <1> QED BY <1>2, QuietStep

LEMMA DecideStep ==
  ASSUME ProvisioningInv, NEW j \in ProvisionJobs, NEW from, NEW status, NEW approver,
         from \cap {"absent", "running"} = {}, status # "running",
         Decide(j, from, status, approver)
  PROVE  Rest'
  <1>1. provision \in [ProvisionJobs -> ProvisionJob]
    BY DEF ProvisioningInv, ProvisioningTypeOK
  <1>2. /\ provision[j].status \notin {"absent", "running"}
        /\ provision'[j].status = status /\ provision'[j].tenant = provision[j].tenant
        /\ \A k \in ProvisionJobs \ {j} : provision'[k] = provision[k]
        /\ executions' = executions /\ forgotten' = forgotten /\ overlapped' = overlapped
        /\ tenant' = tenant
    BY <1>1 DEF Decide, ProvisionJob
  <1>3. tenant[provision[j].tenant] # "absent"
    BY <1>2 DEF ProvisioningInv, TenantsExist
  <1> QED BY <1>2, <1>3, QuietStep

(* What starting and ending have in common: one job changes its status and *)
(* its tenant's, and nothing else of any job.                              *)
LEMMA StatusFacts ==
  ASSUME ProvisioningInv, NEW j \in ProvisionJobs, NEW status, NEW of, SetStatus(j, status, of)
  PROVE  /\ provision'[j].status = status
         /\ \A k \in ProvisionJobs \ {j} : provision'[k] = provision[k]
         /\ \A k \in ProvisionJobs : /\ provision'[k].tenant = provision[k].tenant
                                     /\ provision'[k].dry = provision[k].dry
                                     /\ provision'[k].approver = provision[k].approver
                                     /\ provision'[k].requester = provision[k].requester
         /\ provision[j].tenant \in Tenants
         /\ tenant'[provision[j].tenant] = of
         /\ \A t \in Tenants \ {provision[j].tenant} : tenant'[t] = tenant[t]
  <1>1. provision \in [ProvisionJobs -> ProvisionJob] /\ tenant \in [Tenants -> TenantStatus]
    BY DEF ProvisioningInv, ProvisioningTypeOK
  <1>2. provision[j].tenant \in Tenants
    BY <1>1 DEF ProvisionJob
  <1>3. provision' = [provision EXCEPT ![j].status = status]
    BY DEF SetStatus
  <1>4. tenant' = [tenant EXCEPT ![provision[j].tenant] = of]
    BY DEF SetStatus
  <1>5. provision'[j] = [provision[j] EXCEPT !.status = status]
    BY <1>1, <1>3
  <1>6. \A k \in ProvisionJobs \ {j} : provision'[k] = provision[k]
    BY <1>1, <1>3
  <1>7. /\ provision'[j].status = status /\ provision'[j].tenant = provision[j].tenant
        /\ provision'[j].dry = provision[j].dry /\ provision'[j].approver = provision[j].approver
        /\ provision'[j].requester = provision[j].requester
    BY <1>1, <1>5 DEF ProvisionJob
  <1> QED BY <1>1, <1>2, <1>4, <1>6, <1>7

LEMMA StartStep ==
  ASSUME ProvisioningInv, NEW j \in ProvisionJobs, NEW a \in Admins, NEW allowed \in BOOLEAN,
         StartExecution(j, a, allowed)
  PROVE  Rest'
  <1> DEFINE home == provision[j].tenant
             fails == Live(j) /\ ~allowed
             x0 == [job |-> j, runner |-> a, previous |-> tenant[home], step |-> 1]
  <1>1. /\ provision[j].status = "approved" /\ j \notin forgotten
        /\ \A x \in executions : x.job # j
    BY DEF StartExecution, MayExecute, ProvisioningInv, JobsMatch
  <1>2. tenant[home] # "absent"
    BY <1>1 DEF ProvisioningInv, TenantsExist
  <1>3. /\ forgotten' = forgotten
        /\ overlapped' = IF ExecutionsOf(home) = {} THEN overlapped ELSE overlapped \cup {home}
    BY DEF StartExecution
  <1>4. \A x \in executions : x.job \in ProvisionJobs /\ x.job # j
    BY <1>1, ExecutedFacts
  <1>5. forgotten \subseteq ProvisionJobs \ {j}
    BY <1>1 DEF ProvisioningInv, ProvisioningTypeOK
  <1>6. CASE fails
    <2>1. SetStatus(j, "failed", "error") /\ executions' = executions
      BY <1>6 DEF StartExecution
    <2>2. /\ provision'[j].status = "failed"
          /\ \A k \in ProvisionJobs \ {j} : provision'[k] = provision[k]
          /\ \A k \in ProvisionJobs : /\ provision'[k].tenant = provision[k].tenant
                                      /\ provision'[k].dry = provision[k].dry
          /\ home \in Tenants /\ tenant'[home] = "error"
          /\ \A t \in Tenants \ {home} : tenant'[t] = tenant[t]
      BY <2>1, StatusFacts
    <2>3. JobsMatch'
      BY <1>3, <1>4, <1>5, <2>1, <2>2 DEF ProvisioningInv, JobsMatch
    <2>4. TenantsExist'
      <3>1. \A k \in ProvisionJobs : provision[k].tenant \in Tenants
        BY DEF ProvisioningInv, ProvisioningTypeOK, ProvisionJob
      <3>2. \A k \in ProvisionJobs : provision'[k].status # "absent" => tenant'[provision'[k].tenant] # "absent"
        BY <1>1, <2>2, <3>1 DEF ProvisioningInv, TenantsExist
      <3> QED BY <2>1, <3>2 DEF ProvisioningInv, TenantsExist
    <2>5. TwoPersonRule'
      BY <1>4, <2>1, <2>2 DEF ProvisioningInv, TwoPersonRule, Live
    <2>6. StatusRemembered'
      <3> SUFFICES ASSUME NEW t \in Tenants, t \notin overlapped'
                   PROVE  /\ \A x, y \in ExecutionsOf(t)' : x = y
                          /\ \A x \in ExecutionsOf(t)' :
                               /\ ~Live(x.job)' => tenant'[t] = x.previous
                               /\ Transient(x.previous) => CutOff(t)'
                          /\ Transient(tenant'[t]) => CutOff(t)' \/ Executed(t)'
        BY DEF StatusRemembered, Transient
      <3>1. ExecutionsOf(t)' = ExecutionsOf(t) /\ t \notin overlapped
        BY <1>3, <1>4, <2>1, <2>2 DEF ExecutionsOf
      <3>2. CASE t = home
        <4>1. ExecutionsOf(t) = {}
          BY <1>3, <3>2
        <4> QED BY <2>2, <3>1, <3>2, <4>1 DEF Transient
      <3>3. CASE t # home
        <4>1. CutOff(t)' <=> CutOff(t)
          BY <1>3, <1>5, <2>2 DEF CutOff, Live
        <4>2. Executed(t)' <=> Executed(t)
          BY <1>4, <2>1, <2>2 DEF Executed, Live
        <4>3. \A x \in ExecutionsOf(t) : Live(x.job)' = Live(x.job)
          BY <1>4, <2>2 DEF ExecutionsOf, Live
        <4>4. tenant'[t] = tenant[t]
          BY <2>2, <3>3
        <4> QED BY <3>1, <4>1, <4>2, <4>3, <4>4 DEF ProvisioningInv, StatusRemembered
      <3> QED BY <3>2, <3>3
    <2> QED BY <2>3, <2>4, <2>5, <2>6 DEF Rest
  <1>7. CASE ~fails
    <2>1. SetStatus(j, "running", StartedStatus(j)) /\ executions' = executions \cup {x0}
      BY <1>7 DEF StartExecution
    <2>2. /\ provision'[j].status = "running"
          /\ \A k \in ProvisionJobs \ {j} : provision'[k] = provision[k]
          /\ \A k \in ProvisionJobs : /\ provision'[k].tenant = provision[k].tenant
                                      /\ provision'[k].dry = provision[k].dry
                                      /\ provision'[k].approver = provision[k].approver
                                      /\ provision'[k].requester = provision[k].requester
          /\ home \in Tenants /\ tenant'[home] = StartedStatus(j)
          /\ \A t \in Tenants \ {home} : tenant'[t] = tenant[t]
      BY <2>1, StatusFacts
    <2>3. x0.job = j /\ x0.runner = a /\ x0.previous = tenant[home]
      OBVIOUS
    <2>4. /\ ~Live(j) => StartedStatus(j) = tenant[home]
          /\ StartedStatus(j) # "absent"
      BY <1>2 DEF StartedStatus, Live
    <2> HIDE DEF x0
    <2>5. JobsMatch'
      BY <1>1, <1>3, <1>4, <1>5, <2>1, <2>2, <2>3 DEF ProvisioningInv, JobsMatch
    <2>6. TenantsExist'
      <3>1. \A k \in ProvisionJobs : provision[k].tenant \in Tenants
        BY DEF ProvisioningInv, ProvisioningTypeOK, ProvisionJob
      <3>2. \A k \in ProvisionJobs : provision'[k].status # "absent" => tenant'[provision'[k].tenant] # "absent"
        BY <1>1, <2>2, <2>4, <3>1 DEF ProvisioningInv, TenantsExist
      <3> QED BY <1>2, <2>1, <2>3, <3>2 DEF ProvisioningInv, TenantsExist
    <2>7. TwoPersonRule'
      <3> SUFFICES ASSUME NEW x \in executions', ~provision'[x.job].dry
                   PROVE  provision'[x.job].approver \notin
                            {Unapproved, provision'[x.job].requester, x.runner}
        BY DEF TwoPersonRule, Live
      <3>1. CASE x \in executions
        BY <1>4, <2>2, <3>1 DEF ProvisioningInv, TwoPersonRule, Live
      <3>2. CASE x = x0
        <4>1. ~provision[j].dry
          BY <2>2, <2>3, <3>2
        <4>2. provision[j].approver \notin {Unapproved, provision[j].requester, a}
          BY <4>1 DEF StartExecution, MayExecute, TwoPersons, Live
        <4> QED BY <2>2, <2>3, <3>2, <4>2
      <3> QED BY <2>1, <3>1, <3>2
    <2>8. StatusRemembered'
      <3> SUFFICES ASSUME NEW t \in Tenants, t \notin overlapped'
                   PROVE  /\ \A x, y \in ExecutionsOf(t)' : x = y
                          /\ \A x \in ExecutionsOf(t)' :
                               /\ ~Live(x.job)' => tenant'[t] = x.previous
                               /\ Transient(x.previous) => CutOff(t)'
                          /\ Transient(tenant'[t]) => CutOff(t)' \/ Executed(t)'
        BY DEF StatusRemembered, Transient
      <3>1. t \notin overlapped
        BY <1>3
      <3>2. CutOff(t)' <=> CutOff(t)
        BY <1>3, <1>5, <2>2 DEF CutOff, Live
      <3>3. CASE t = home
        <4>1. ExecutionsOf(t) = {}
          BY <1>3, <3>3
        <4>2. ExecutionsOf(t)' = {x0}
          BY <1>4, <2>1, <2>2, <2>3, <3>3, <4>1 DEF ExecutionsOf
        <4>3. ~Executed(t)
          BY <4>1 DEF Executed, ExecutionsOf
        <4>4. Transient(tenant[t]) => CutOff(t)
          BY <3>1, <4>3 DEF ProvisioningInv, StatusRemembered
        <4>5. Live(j) => Executed(t)'
          BY <2>1, <2>2, <2>3, <3>3 DEF Executed, Live
        <4>6. ASSUME NEW x \in ExecutionsOf(t)'
              PROVE  /\ ~Live(x.job)' => tenant'[t] = x.previous
                     /\ Transient(x.previous) => CutOff(t)'
          <5>1. x.job = j /\ x.previous = tenant[home]
            BY <2>3, <4>2
          <5>2. ~Live(x.job)' => ~Live(j)
            BY <2>2, <5>1 DEF Live
          <5> QED BY <2>2, <2>4, <3>2, <3>3, <4>4, <5>1, <5>2
        <4>7. Transient(tenant'[t]) => CutOff(t)' \/ Executed(t)'
          BY <2>2, <2>4, <3>2, <3>3, <4>4, <4>5
        <4>8. \A x, y \in ExecutionsOf(t)' : x = y
          BY <4>2
        <4> QED BY <4>6, <4>7, <4>8
      <3>4. CASE t # home
        <4>1. ExecutionsOf(t)' = ExecutionsOf(t)
          BY <1>4, <2>1, <2>2, <2>3, <3>4 DEF ExecutionsOf
        <4>2. Executed(t)' <=> Executed(t)
          BY <1>4, <2>1, <2>2, <2>3, <3>4 DEF Executed, Live
        <4>3. \A x \in ExecutionsOf(t) : Live(x.job)' = Live(x.job)
          BY <1>4, <2>2 DEF ExecutionsOf, Live
        <4>4. tenant'[t] = tenant[t]
          BY <2>2, <3>4
        <4> QED BY <3>1, <3>2, <4>1, <4>2, <4>3, <4>4 DEF ProvisioningInv, StatusRemembered
      <3> QED BY <3>3, <3>4
    <2> QED BY <2>5, <2>6, <2>7, <2>8 DEF Rest
  <1> QED BY <1>6, <1>7

(* The awaited command ended, and the next is started.                     *)
LEMMA FinishStepStep ==
  ASSUME ProvisioningInv, NEW x \in executions, FinishStep(x)
  PROVE  Rest'
  <1> DEFINE x1 == [x EXCEPT !.step = @ + 1]
  <1>1. /\ executions' = (executions \ {x}) \cup {x1}
        /\ provision' = provision /\ tenant' = tenant
        /\ overlapped' = overlapped /\ forgotten' = forgotten
    BY DEF FinishStep
  <1>2. x \in Execution
    BY DEF ProvisioningInv, ProvisioningTypeOK
  <1>3. x1.job = x.job /\ x1.runner = x.runner /\ x1.previous = x.previous
    BY <1>2 DEF Execution
  <1> HIDE DEF x1
  <1>4. JobsMatch'
    BY <1>1, <1>3 DEF ProvisioningInv, JobsMatch
  <1>5. TenantsExist'
    BY <1>1, <1>3 DEF ProvisioningInv, TenantsExist
  <1>6. TwoPersonRule'
    <2> SUFFICES ASSUME NEW y \in executions', Live(y.job)
                 PROVE  provision[y.job].approver \notin
                          {Unapproved, provision[y.job].requester, y.runner}
      BY <1>1 DEF TwoPersonRule, Live
    <2> QED BY <1>1, <1>3 DEF ProvisioningInv, TwoPersonRule
  <1>7. StatusRemembered'
    <2> SUFFICES ASSUME NEW t \in Tenants, t \notin overlapped
                 PROVE  /\ \A y, z \in ExecutionsOf(t)' : y = z
                        /\ \A y \in ExecutionsOf(t)' :
                             /\ ~Live(y.job)' => tenant'[t] = y.previous
                             /\ Transient(y.previous) => CutOff(t)'
                        /\ Transient(tenant'[t]) => CutOff(t)' \/ Executed(t)'
      BY <1>1 DEF StatusRemembered, Transient
    <2>1. ExecutionsOf(t)' = IF provision[x.job].tenant = t THEN (ExecutionsOf(t) \ {x}) \cup {x1}
                             ELSE ExecutionsOf(t)
      BY <1>1, <1>3 DEF ExecutionsOf
    <2>2. provision[x.job].tenant = t => x \in ExecutionsOf(t)
      BY DEF ExecutionsOf
    <2>3. CutOff(t)' <=> CutOff(t)
      BY <1>1 DEF CutOff, Live
    <2>4. Executed(t)' <=> Executed(t)
      BY <1>1, <1>3 DEF Executed, Live
    <2>5. \A y \in executions : Live(y.job)' <=> Live(y.job)
      BY <1>1 DEF Live
    <2>6. /\ \A y, z \in ExecutionsOf(t) : y = z
          /\ \A y \in ExecutionsOf(t) : /\ ~Live(y.job) => tenant[t] = y.previous
                                        /\ Transient(y.previous) => CutOff(t)
          /\ Transient(tenant[t]) => CutOff(t) \/ Executed(t)
      BY DEF ProvisioningInv, StatusRemembered
    <2>7. \A y, z \in ExecutionsOf(t)' : y = z
      BY <2>1, <2>2, <2>6
    <2>8. ASSUME NEW y \in ExecutionsOf(t)'
          PROVE  /\ ~Live(y.job)' => tenant'[t] = y.previous
                 /\ Transient(y.previous) => CutOff(t)'
      <3>1. \E z \in ExecutionsOf(t) : y.job = z.job /\ y.previous = z.previous
        BY <1>3, <2>1, <2>2
      <3>2. Live(y.job)' <=> Live(y.job)
        BY <1>1 DEF Live
      <3>3. ~Live(y.job) => tenant[t] = y.previous
        BY <2>6, <3>1 DEF Live
      <3>4. Transient(y.previous) => CutOff(t)
        BY <2>6, <3>1
      <3> QED BY <1>1, <2>3, <3>2, <3>3, <3>4
    <2>9. Transient(tenant'[t]) => CutOff(t)' \/ Executed(t)'
      BY <1>1, <2>3, <2>4, <2>6
    <2> QED BY <2>7, <2>8, <2>9
  <1> QED BY <1>4, <1>5, <1>6, <1>7 DEF Rest

(* The last command ended, or one failed.                                  *)
LEMMA ExecutionEnds ==
  ASSUME ProvisioningInv, NEW x \in executions, NEW status, NEW of,
         status \in {"completed", "failed"}, of \in {"active", "suspended", "error", x.previous},
         SetStatus(x.job, status, of), executions' = executions \ {x},
         overlapped' = overlapped, forgotten' = forgotten
  PROVE  Rest'
  <1> DEFINE j == x.job
             home == provision[j].tenant
  <1>1. j \in ProvisionJobs /\ j \notin forgotten
    BY ExecutedFacts DEF ProvisioningInv, JobsMatch
  <1>2. /\ provision'[j].status = status
        /\ \A k \in ProvisionJobs \ {j} : provision'[k] = provision[k]
        /\ \A k \in ProvisionJobs : /\ provision'[k].tenant = provision[k].tenant
                                    /\ provision'[k].dry = provision[k].dry
        /\ home \in Tenants /\ tenant'[home] = of
        /\ \A t \in Tenants \ {home} : tenant'[t] = tenant[t]
    BY <1>1, StatusFacts
  <1>3. \A y \in executions' : y \in executions /\ y.job \in ProvisionJobs /\ y.job # j
    BY ExecutedFacts DEF ProvisioningInv, JobsMatch
  <1>4. forgotten \subseteq ProvisionJobs \ {j}
    BY <1>1 DEF ProvisioningInv, ProvisioningTypeOK
  <1>5. x.previous # "absent"
    BY DEF ProvisioningInv, TenantsExist
  <1>6. JobsMatch'
    BY <1>2, <1>3, <1>4 DEF ProvisioningInv, JobsMatch
  <1>7. TenantsExist'
    <2>1. \A k \in ProvisionJobs : provision[k].tenant \in Tenants
      BY DEF ProvisioningInv, ProvisioningTypeOK, ProvisionJob
    <2>2. provision[j].status # "absent"
      BY ExecutedFacts
    <2>3. \A k \in ProvisionJobs : provision'[k].status # "absent" => tenant'[provision'[k].tenant] # "absent"
      BY <1>2, <1>5, <2>1, <2>2 DEF ProvisioningInv, TenantsExist
    <2> QED BY <1>3, <2>3 DEF ProvisioningInv, TenantsExist
  <1>8. TwoPersonRule'
    BY <1>2, <1>3 DEF ProvisioningInv, TwoPersonRule, Live
  <1>9. StatusRemembered'
    <2> SUFFICES ASSUME NEW t \in Tenants, t \notin overlapped
                 PROVE  /\ \A y, z \in ExecutionsOf(t)' : y = z
                        /\ \A y \in ExecutionsOf(t)' :
                             /\ ~Live(y.job)' => tenant'[t] = y.previous
                             /\ Transient(y.previous) => CutOff(t)'
                        /\ Transient(tenant'[t]) => CutOff(t)' \/ Executed(t)'
      BY DEF StatusRemembered, Transient
    <2>1. CutOff(t)' <=> CutOff(t)
      BY <1>2, <1>4 DEF CutOff, Live
    <2>2. ExecutionsOf(t)' = ExecutionsOf(t) \ {x}
      BY <1>2, <1>3 DEF ExecutionsOf
    <2>3. /\ \A y, z \in ExecutionsOf(t) : y = z
          /\ \A y \in ExecutionsOf(t) : /\ ~Live(y.job) => tenant[t] = y.previous
                                        /\ Transient(y.previous) => CutOff(t)
          /\ Transient(tenant[t]) => CutOff(t) \/ Executed(t)
      BY DEF ProvisioningInv, StatusRemembered
    <2>4. CASE t = home
      <3>1. x \in ExecutionsOf(t)
        BY <2>4 DEF ExecutionsOf
      <3>2. ExecutionsOf(t)' = {}
        BY <2>2, <2>3, <3>1
      <3>3. Transient(of) => of = x.previous
        BY DEF Transient
      <3>4. Transient(tenant'[t]) => CutOff(t)'
        <4> SUFFICES ASSUME Transient(of) PROVE CutOff(t)
          BY <1>2, <2>1, <2>4
        <4>1. Transient(x.previous)
          BY <3>3
        <4> QED BY <2>3, <3>1, <4>1
      <3> QED BY <3>2, <3>4
    <2>5. CASE t # home
      <3>1. ExecutionsOf(t)' = ExecutionsOf(t)
        BY <2>2, <2>5 DEF ExecutionsOf
      <3>2. Executed(t)' <=> Executed(t)
        BY <1>2, <1>3, <2>5 DEF Executed, Live
      <3>3. tenant'[t] = tenant[t]
        BY <1>2, <2>5
      <3>4. ASSUME NEW y \in ExecutionsOf(t) PROVE Live(y.job)' <=> Live(y.job)
        <4>1. y.job \in ProvisionJobs
          BY ExecutedFacts DEF ExecutionsOf
        <4> QED BY <1>2, <4>1 DEF Live
      <3>5. Transient(tenant'[t]) => CutOff(t)' \/ Executed(t)'
        BY <2>1, <2>3, <3>2, <3>3
      <3>6. ASSUME NEW y \in ExecutionsOf(t)
            PROVE  /\ ~Live(y.job)' => tenant'[t] = y.previous
                   /\ Transient(y.previous) => CutOff(t)'
        <4>1. ~Live(y.job) => tenant[t] = y.previous
          BY <2>3
        <4>2. Transient(y.previous) => CutOff(t)
          BY <2>3
        <4> QED BY <2>1, <3>3, <3>4, <4>1, <4>2
      <3> QED BY <2>3, <3>1, <3>5, <3>6
    <2> QED BY <2>4, <2>5
  <1> QED BY <1>6, <1>7, <1>8, <1>9 DEF Rest

LEMMA RestartStep ==
  ASSUME ProvisioningInv, RestartProvisioning
  PROVE  Rest'
  <1>1. /\ executions' = {} /\ forgotten' = forgotten \cup {x.job : x \in executions}
        /\ provision' = provision /\ tenant' = tenant /\ overlapped' = overlapped
    BY DEF RestartProvisioning
  <1>2. JobsMatch'
    BY <1>1 DEF ProvisioningInv, JobsMatch
  <1>3. TenantsExist' /\ TwoPersonRule'
    BY <1>1 DEF ProvisioningInv, TenantsExist, TwoPersonRule
  <1>4. \A t \in Tenants : ExecutionsOf(t)' = {}
    BY <1>1 DEF ExecutionsOf
  <1>5. \A t \in Tenants : CutOff(t) \/ Executed(t) => CutOff(t)'
    BY <1>1 DEF CutOff, Executed, Live
  <1>6. StatusRemembered'
    BY <1>1, <1>4, <1>5 DEF ProvisioningInv, StatusRemembered, Transient
  <1> QED BY <1>2, <1>3, <1>6 DEF Rest

(* What the end of an execution writes.                                    *)
LEMMA EndSteps ==
  ASSUME ProvisioningInv, NEW x \in executions, FinishExecution(x) \/ FailExecution(x)
  PROVE  Rest'
  <1>1. CompletedStatus(x) \in {"active", "suspended", "error", x.previous}
    BY DEF CompletedStatus
  <1>2. CASE FinishExecution(x)
    BY <1>1, <1>2, ExecutionEnds DEF FinishExecution
  <1>3. CASE FailExecution(x)
    BY <1>3, ExecutionEnds DEF FailExecution
  <1> QED BY <1>2, <1>3

LEMMA InitHolds == ProvisioningInit => ProvisioningInv
  <1> SUFFICES ASSUME ProvisioningInit PROVE ProvisioningInv
    OBVIOUS
  <1>1. /\ provision \in [ProvisionJobs -> ProvisionJob] /\ tenant \in [Tenants -> TenantStatus]
        /\ \A j \in ProvisionJobs : provision[j].status = "absent"
        /\ executions = {} /\ overlapped = {} /\ forgotten = {}
    BY DEF ProvisioningInit, TenantStatus
  <1>2. ProvisioningTypeOK
    BY <1>1 DEF ProvisioningTypeOK
  <1>3. JobsMatch /\ TenantsExist /\ TwoPersonRule
    BY <1>1 DEF JobsMatch, TenantsExist, TwoPersonRule
  <1>4. \A t \in Tenants : ExecutionsOf(t) = {} /\ tenant[t] = "absent"
    BY <1>1 DEF ProvisioningInit, ExecutionsOf
  <1>5. StatusRemembered
    BY <1>4 DEF StatusRemembered, Transient
  <1> QED BY <1>2, <1>3, <1>5 DEF ProvisioningInv

LEMMA StepKeeps == ProvisioningInv /\ [ProvisioningNext]_provisioningVars => ProvisioningInv'
  <1> SUFFICES ASSUME ProvisioningInv, [ProvisioningNext]_provisioningVars PROVE ProvisioningInv'
    OBVIOUS
  <1>1. CASE UNCHANGED provisioningVars
    BY <1>1 DEF provisioningVars, ProvisioningInv, ProvisioningTypeOK, JobsMatch, TenantsExist,
                TwoPersonRule, Live, StatusRemembered, ExecutionsOf, CutOff, Executed
  <1>2. CASE ProvisioningNext
    <2>1. ProvisioningTypeOK'
      BY <1>2, TypeOfSteps DEF ProvisioningInv
    <2>2. ASSUME NEW j \in ProvisionJobs, NEW t \in Tenants, NEW dry \in BOOLEAN, NEW a \in Admins,
                 CreateTenantAndBootstrapJob(j, t, dry, a)
          PROVE  Rest'
      <3>1. tenant[t] = "absent" /\ tenant' = [tenant EXCEPT ![t] = "pending"]
        BY <2>2 DEF CreateTenantAndBootstrapJob
      <3>2. tenant \in [Tenants -> TenantStatus]
        BY DEF ProvisioningInv, ProvisioningTypeOK
      <3>3. /\ tenant'[t] = "pending"
            /\ \A u \in Tenants : tenant'[u] = tenant[u] \/
                                  (tenant[u] = "absent" /\ tenant'[u] \in {"pending", "active"})
        BY <3>1, <3>2
      <3> QED BY <2>2, <3>3, QueueStep DEF CreateTenantAndBootstrapJob
    <2>3. ASSUME NEW j \in ProvisionJobs, NEW t \in Tenants, NEW dry \in BOOLEAN, NEW a \in Admins,
                 NEW kind \in Kinds, NEW runnable \in BOOLEAN, QueueJob(j, t, kind, dry, runnable, a)
          PROVE  Rest'
      <3>1. tenant[t] # "absent" /\ tenant' = tenant /\ Queue(j, t, kind, dry, runnable, a)
        BY <2>3 DEF QueueJob
      <3> QED BY <3>1, QueueStep
    <2>4. ASSUME NEW t \in Tenants, RegisterLocalTenant(t)
          PROVE  Rest'
      <3>1. tenant \in [Tenants -> TenantStatus]
        BY DEF ProvisioningInv, ProvisioningTypeOK
      <3>2. \A u \in Tenants : tenant'[u] = tenant[u] \/
                               (tenant[u] = "absent" /\ tenant'[u] \in {"pending", "active"})
        BY <2>4, <3>1 DEF RegisterLocalTenant
      <3> QED BY <2>4, <3>2, QuietStep DEF RegisterLocalTenant
    <2>5. ASSUME NEW j \in ProvisionJobs, RejectJob(j) \/ CancelJob(j)
          PROVE  Rest'
      <3>1. CASE RejectJob(j)
        BY <3>1, DecideStep DEF RejectJob
      <3>2. CASE CancelJob(j)
        BY <3>2, DecideStep DEF CancelJob
      <3> QED BY <2>5, <3>1, <3>2
    <2>6. ASSUME NEW j \in ProvisionJobs, NEW a \in Admins, ApproveJob(j, a)
          PROVE  Rest'
      BY <2>6, DecideStep DEF ApproveJob
    <2>7. ASSUME NEW j \in ProvisionJobs, NEW a \in Admins, NEW allowed \in ExecModes,
                 StartExecution(j, a, allowed)
          PROVE  Rest'
      BY <2>7, StartStep, ProvisioningAssumption
    <2>8. ASSUME NEW x \in executions, FinishStep(x) \/ FinishExecution(x) \/ FailExecution(x)
          PROVE  Rest'
      BY <2>8, FinishStepStep, EndSteps
    <2>9. ASSUME RestartProvisioning PROVE Rest'
      BY <2>9, RestartStep
    <2>10. Rest'
      BY <1>2, <2>2, <2>3, <2>4, <2>5, <2>6, <2>7, <2>8, <2>9
         DEF ProvisioningNext, ExecutionStep
    <2> QED BY <2>1, <2>10 DEF Rest, ProvisioningInv
  <1> QED BY <1>1, <1>2

THEOREM Inductive == ProvisioningSpec => []ProvisioningInv
  BY InitHolds, StepKeeps, PTL DEF ProvisioningSpec

(* Every reachable state of the jobs and tenants is well typed: no command *)
(* beyond the plan is executed, and only for jobs and tenants that exist.  *)
THEOREM ProvisioningTypeCorrect == ProvisioningSpec => []ProvisioningTypeOK
  BY Inductive, PTL DEF ProvisioningInv

(* No command of a live job is executed without the consent of a second    *)
(* person, for any number of jobs, administrators, commands and restarts.  *)
THEOREM TwoPersonsAlways == ProvisioningSpec => []TwoPersonRule
  BY Inductive, PTL DEF ProvisioningInv

(* A job is executed once at a time, and what its status says of that is   *)
(* true unless a restart cut it off.                                       *)
THEOREM StatusIsTrue == ProvisioningSpec => []RunningIsExecuted
  <1>1. ProvisioningInv => RunningIsExecuted
    BY DEF ProvisioningInv, JobsMatch, RunningIsExecuted
  <1> QED BY <1>1, Inductive, PTL

(* A tenant that is said to be under work has a live job that is executed  *)
(* or was cut off, unless its jobs overlapped.                             *)
THEOREM TransientIsTrue == ProvisioningSpec => []TransientWhileExecuted
  <1>1. ProvisioningInv => TransientWhileExecuted
    <2> SUFFICES ASSUME ProvisioningInv, NEW t \in Tenants \ overlapped,
                        tenant[t] \in {"provisioning", "decommissioning"}
                 PROVE  \E j \in ProvisionJobs :
                          /\ provision[j].tenant = t /\ Live(j)
                          /\ j \in forgotten \/ \E x \in executions : x.job = j
      BY DEF TransientWhileExecuted
    <2>1. CutOff(t) \/ Executed(t)
      BY DEF ProvisioningInv, StatusRemembered, Transient
    <2>2. forgotten \subseteq ProvisionJobs /\ \A x \in executions : x.job \in ProvisionJobs
      BY ExecutedFacts DEF ProvisioningInv, ProvisioningTypeOK
    <2> QED BY <2>1, <2>2 DEF CutOff, Executed
  <1> QED BY <1>1, Inductive, PTL

-----------------------------------------------------------------------------
(* A step after which a tenant is suspended that was not.                  *)
Suspends(t) == tenant'[t] = "suspended" /\ tenant[t] # "suspended"

TakenDown(t) ==
  \E x \in executions \ executions' :
    /\ provision[x.job].tenant = t /\ Live(x.job)
    /\ provision[x.job].kind = "decommission" /\ x.step = PlanSteps

LEMMA SuspendingStep ==
  ASSUME ProvisioningInv, ProvisioningNext, NEW t \in Tenants \ overlapped, Suspends(t)
  PROVE  TakenDown(t)
  <1>1. tenant \in [Tenants -> TenantStatus]
    BY DEF ProvisioningInv, ProvisioningTypeOK
  <1>2. ASSUME NEW j \in ProvisionJobs, NEW u \in Tenants, NEW dry \in BOOLEAN, NEW a \in Admins,
               CreateTenantAndBootstrapJob(j, u, dry, a)
        PROVE  FALSE
    BY <1>1, <1>2 DEF CreateTenantAndBootstrapJob, Suspends
  <1>3. ASSUME NEW u \in Tenants, RegisterLocalTenant(u)
        PROVE  FALSE
    BY <1>1, <1>3 DEF RegisterLocalTenant, Suspends
  <1>4. ASSUME tenant' = tenant
        PROVE  FALSE
    BY <1>4 DEF Suspends
  <1>5. ASSUME NEW j \in ProvisionJobs, NEW a \in Admins, NEW allowed \in ExecModes,
               StartExecution(j, a, allowed)
        PROVE  FALSE
    <2>1. provision[j].tenant \in Tenants
      BY DEF ProvisioningInv, ProvisioningTypeOK, ProvisionJob
    <2>2. \/ tenant' = [tenant EXCEPT ![provision[j].tenant] = "error"]
          \/ tenant' = [tenant EXCEPT ![provision[j].tenant] = StartedStatus(j)]
      BY <1>5 DEF StartExecution, SetStatus
    <2>3. StartedStatus(j) \in {tenant[provision[j].tenant], "decommissioning", "provisioning"}
      BY DEF StartedStatus
    <2> QED BY <1>1, <2>1, <2>2, <2>3 DEF Suspends
  <1>6. ASSUME NEW x \in executions, FailExecution(x)
        PROVE  FALSE
    <2>1. tenant' = [tenant EXCEPT ![provision[x.job].tenant] = "error"]
      BY <1>6 DEF FailExecution, SetStatus
    <2> QED BY <1>1, <2>1 DEF Suspends
  <1>7. ASSUME NEW x \in executions, FinishExecution(x)
        PROVE  TakenDown(t)
    <2>1. /\ x.step = PlanSteps /\ executions' = executions \ {x}
          /\ tenant' = [tenant EXCEPT ![provision[x.job].tenant] = CompletedStatus(x)]
      BY <1>7 DEF FinishExecution, SetStatus
    <2>2. provision[x.job].tenant = t /\ CompletedStatus(x) = "suspended"
      BY <1>1, <2>1 DEF Suspends
    <2>3. x \in ExecutionsOf(t)
      BY <2>2 DEF ExecutionsOf
    <2>4. ~Live(x.job) => tenant[t] = x.previous
      BY <2>3 DEF ProvisioningInv, StatusRemembered
    <2>5. provision[x.job].kind \in {"bootstrap", "decommission"}
      BY ExecutedFacts DEF ProvisionJob, Kinds
    <2>6. provision[x.job].kind = "decommission"
      BY <2>2, <2>5 DEF CompletedStatus
    <2>7. Live(x.job)
      BY <2>2, <2>4, <2>6 DEF CompletedStatus, Suspends
    <2> QED BY <2>1, <2>2, <2>6, <2>7 DEF TakenDown
  <1>8. ASSUME NEW x \in executions, FinishStep(x) PROVE tenant' = tenant
    BY <1>8 DEF FinishStep
  <1>9. RestartProvisioning => tenant' = tenant
    BY DEF RestartProvisioning
  <1>10. ASSUME NEW j \in ProvisionJobs, NEW a \in Admins, ApproveJob(j, a)
         PROVE  tenant' = tenant
    BY <1>10 DEF ApproveJob, Decide
  <1>11. ASSUME NEW j \in ProvisionJobs, RejectJob(j) \/ CancelJob(j)
         PROVE  tenant' = tenant
    BY <1>11 DEF RejectJob, CancelJob, Decide
  <1>12. ASSUME NEW j, NEW u, NEW dry, NEW a, NEW kind, NEW runnable, QueueJob(j, u, kind, dry, runnable, a)
         PROVE  tenant' = tenant
    BY <1>12 DEF QueueJob
  <1> QED BY <1>2, <1>3, <1>4, <1>5, <1>6, <1>7, <1>8, <1>9, <1>10, <1>11, <1>12
          DEF ProvisioningNext, ExecutionStep

(* Only the last command of a live decommission suspends a tenant, however *)
(* dry runs, failures and restarts come between, unless jobs overlapped.   *)
THEOREM OnlyLiveJobsSuspend == ProvisioningSpec => SuspendedByLiveJobs
  <1>1. ProvisioningInv /\ [ProvisioningNext]_provisioningVars =>
          [\A t \in Tenants \ overlapped : Suspends(t) => TakenDown(t)]_provisioningVars
    BY SuspendingStep
  <1>2. ProvisioningSpec => [][\A t \in Tenants \ overlapped : Suspends(t) => TakenDown(t)]_provisioningVars
    BY <1>1, Inductive, PTL DEF ProvisioningSpec
  <1> QED BY <1>2 DEF SuspendedByLiveJobs, Suspends, TakenDown

=============================================================================
