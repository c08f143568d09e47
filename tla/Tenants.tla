------------------------------- MODULE Tenants --------------------------------
(***************************************************************************)
(* The life of one store: TenantProvisioningService.provision and its      *)
(* steps, TenantsService.updateStatus, TenantDeletionService.deleteTenant, *)
(* and the registry, lock, database server and pooled clients they share.  *)
(*                                                                         *)
(* A runner is a caller of provision: the queue's worker, which BullMQ     *)
(* retries a bounded number of times, or the console.  Every statement     *)
(* committed on its own is a step, and a runner may die between any two.   *)
(***************************************************************************)
EXTENDS Naturals, FiniteSets, Sequences

CONSTANTS
  Worker, Console,    \* the two callers of provision
  StaffTargets,       \* statuses staff may set
  FaultySteps,        \* provisioning steps that may throw
  Attempts,           \* how often BullMQ runs the job
  MaxFaults, MaxCrashes,
  MaxPassword,        \* bound on the passwords generated
  SlowRuns,           \* a run may outlast the TTL of its lock
  DeleteAnytime,      \* a deletion may start before provisioning is over
  LateUploads,        \* presigned uploads may land after the store was closed
  None

Runners == {Worker, Console}
Sides == {"worker", "api"}          \* the processes that pool connections
SideOf(r) == IF r = Worker THEN "worker" ELSE "api"

ProvisionSteps ==
  <<"CREATE_DATABASE", "RUN_MIGRATIONS", "SEED_DEFAULTS", "CONFIGURE_BRANDING", "ACTIVATE">>
DeletionSteps ==
  <<"REVOKE_ACCESS", "PURGE_STORAGE", "DROP_DATABASE", "PURGE_MASTER_RECORDS", "FINALISE">>
StepSet == {ProvisionSteps[i] : i \in 1..5}
DeletionSet == {DeletionSteps[i] : i \in 1..5}

ASSUME TenantsAssumption ==
  /\ Worker # Console /\ None \notin Runners
  /\ StaffTargets \subseteq {"ACTIVE", "SUSPENDED", "DELETED"}
  /\ FaultySteps \subseteq StepSet
  /\ Attempts \in Nat /\ MaxFaults \in Nat /\ MaxCrashes \in Nat /\ MaxPassword \in Nat
  /\ SlowRuns \in BOOLEAN /\ DeleteAnytime \in BOOLEAN /\ LateUploads \in BOOLEAN

VARIABLES
  tenant,    \* tenants.status
  deletedAt, \* tenants.deleted_at is set
  registry,  \* the tenant_databases row
  job,       \* the tenant_provisioning_jobs row
  lock,      \* the Redis lock provision:<tenant>
  server,    \* the database server: database, role password, contents
  pooled,    \* the password the pooled client of each process was opened with
  run,       \* the calls of provision
  attempts,  \* runs of the queue's job BullMQ has left
  staff,     \* a call of updateStatus: what it will write
  deletion,  \* the tenant_deletion_jobs row
  deleter,   \* the call of deleteTenant
  residue,   \* objects in storage, and accounts that only run this store
  faults, crashes, refused

storeVars == <<tenant, registry, server, pooled>>
runVars == <<job, lock, run, attempts, faults, crashes, refused>>
deleteVars == <<deletion, deleter, residue, deletedAt>>
vars == <<tenant, registry, job, lock, server, pooled, run, attempts, staff,
          deletion, deleter, residue, deletedAt, faults, crashes, refused>>

Password == 0..MaxPassword          \* 0: there is none
RegistryStatus == {"none", "CREATING", "MIGRATING", "READY", "FAILED"}
NoRegistry == [status |-> "none", password |-> 0]
NoServer == [exists |-> FALSE, password |-> 0, has |-> {}]
RunStep == {"createDdl", "createRow", "migrateStart", "migrateRun", "migrateEnd",
            "seed", "brand", "activate"}
RunPc == RunStep \cup {"idle", "load", "next", "record", "over"}
Run == [pc: RunPc, done: SUBSET StepSet, step: StepSet \cup {"none"}, password: Password]
NoRun == [pc |-> "idle", done |-> {}, step |-> "none", password |-> 0]
DeletePc == {"idle", "next", "work", "orphans", "record"}
Deleter == [pc: DeletePc, done: SUBSET DeletionSet, step: DeletionSet \cup {"none"}]
NoDeleter == [pc |-> "idle", done |-> {}, step |-> "none"]

TypeOK ==
  /\ tenant \in {"PROVISIONING", "ACTIVE", "SUSPENDED", "DELETING", "DELETED", "gone"}
  /\ deletedAt \in BOOLEAN
  /\ registry \in [status: RegistryStatus, password: Password]
  /\ job \in [status: {"PENDING", "RUNNING", "COMPLETED", "FAILED", "gone"}, steps: SUBSET StepSet]
  /\ lock \in Runners \cup {None}
  /\ server \in [exists: BOOLEAN, password: Password, has: SUBSET {"schema", "settings", "branding"}]
  /\ pooled \in [Sides -> Password]
  /\ run \in [Runners -> Run]
  /\ attempts \in 0..Attempts
  /\ staff \in StaffTargets \cup {"none"}
  /\ deletion \in [status: {"none", "RUNNING", "FAILED", "COMPLETED"}, steps: SUBSET DeletionSet]
  /\ deleter \in Deleter
  /\ residue \in SUBSET {"objects", "accounts"}
  /\ faults \in 0..MaxFaults /\ crashes \in 0..MaxCrashes /\ refused \in BOOLEAN

\* After createTenant: the row, the owner's account and the queued job.
Init ==
  /\ tenant = "PROVISIONING" /\ deletedAt = FALSE
  /\ registry = NoRegistry
  /\ job = [status |-> "PENDING", steps |-> {}]
  /\ lock = None
  /\ server = NoServer
  /\ pooled = [s \in Sides |-> 0]
  /\ run = [r \in Runners |-> NoRun]
  /\ attempts = Attempts
  /\ staff = "none"
  /\ deletion = [status |-> "none", steps |-> {}]
  /\ deleter = NoDeleter
  /\ residue = {"accounts"}
  /\ faults = 0 /\ crashes = 0 /\ refused = FALSE

-------------------------------------------------------------------------------
\* Helpers

At(r, pc) == run[r].pc = pc
Go(r, pc) == run' = [run EXCEPT ![r].pc = pc]

\* The first step not in done, in the order of steps.
FirstLeft(steps, done) ==
  steps[CHOOSE i \in 1..5 : steps[i] \notin done /\ \A j \in 1..(i - 1) : steps[j] \in done]

Entry(step) == CASE step = "CREATE_DATABASE" -> "createDdl"
                 [] step = "RUN_MIGRATIONS" -> "migrateStart"
                 [] step = "SEED_DEFAULTS" -> "seed"
                 [] step = "CONFIGURE_BRANDING" -> "brand"
                 [] OTHER -> "activate"

\* TenantConnectionManager: a pooled client is used as it is; a new one is
\* opened only for a READY registry row, with the password of that row.
CanConnect == registry.status = "READY" /\ server.exists /\ registry.password = server.password
Reaches(side) == IF pooled[side] # 0 THEN server.exists /\ pooled[side] = server.password
                                     ELSE CanConnect
Pooling(side) == pooled' = [pooled EXCEPT ![side] = IF @ # 0 THEN @ ELSE registry.password]
Evict(side) == pooled' = [pooled EXCEPT ![side] = 0]

\* The resolver and the memberships look for a row that is not deleted, and the
\* tenant guard for one that is ACTIVE.
Serves == tenant = "ACTIVE" /\ ~deletedAt

\* Compare-and-delete.
Unlock(r) == lock' = IF lock = r THEN None ELSE lock

\* What the call leaves behind when it ends: BullMQ has done with a job that
\* succeeded.
Leave(r, pc) == run' = [run EXCEPT ![r] = [NoRun EXCEPT !.pc = pc]]
Finished(r) == IF r = Worker THEN "over" ELSE "idle"

\* Mutant of AttemptsLeft: the processor swallows the exception, so nothing is
\* retried.
AttemptsSpent(r) == IF r = Worker THEN 0 ELSE attempts

AttemptsLeft(r) == IF r = Worker THEN attempts - 1 ELSE attempts

-------------------------------------------------------------------------------
\* TenantProvisioningService.provision

\* Mutant of Lockable: SET without NX.
LockableAlways == TRUE

Lockable == lock = None

Acquire(r) ==
  /\ At(r, "idle") /\ Lockable
  /\ r = Worker => attempts > 0
  /\ lock' = r
  /\ Go(r, "load")
  /\ UNCHANGED <<storeVars, job, attempts, staff, deleteVars, faults, crashes, refused>>

\* "Already in progress": the call fails, and costs the worker an attempt.
Conflict ==
  /\ At(Worker, "idle") /\ attempts > 0 /\ ~Lockable
  /\ attempts' = attempts - 1
  /\ refused' = TRUE
  /\ UNCHANGED <<storeVars, job, lock, run, staff, deleteVars, faults, crashes>>

\* Reads the job and the store.
Load(r) ==
  /\ At(r, "load") /\ job.status # "gone"
  /\ ~(tenant = "ACTIVE" /\ "ACTIVATE" \in job.steps)
  /\ job' = [job EXCEPT !.status = "RUNNING"]
  /\ run' = [run EXCEPT ![r].done = job.steps, ![r].pc = "next"]
  /\ UNCHANGED <<storeVars, lock, attempts, staff, deleteVars, faults, crashes, refused>>

AlreadyDone(r) ==
  /\ At(r, "load") /\ job.status # "gone"
  /\ tenant = "ACTIVE" /\ "ACTIVATE" \in job.steps
  /\ Unlock(r)
  /\ Leave(r, Finished(r))
  /\ UNCHANGED <<storeVars, job, attempts, staff, deleteVars, faults, crashes, refused>>

\* The store is gone: no job can be created, and the exception leaves before
\* the try, so the lock stays until it expires.
LoadFails(r) ==
  /\ At(r, "load") /\ job.status = "gone"
  /\ attempts' = AttemptsLeft(r)
  /\ Leave(r, "idle")
  /\ UNCHANGED <<storeVars, job, lock, staff, deleteVars, faults, crashes, refused>>

NextStep(r) ==
  /\ At(r, "next") /\ run[r].done # StepSet /\ job.status # "gone"
  /\ LET s == FirstLeft(ProvisionSteps, run[r].done)
     IN  run' = [run EXCEPT ![r].step = s, ![r].pc = Entry(s)]
  /\ UNCHANGED <<storeVars, job, lock, attempts, staff, deleteVars, faults, crashes, refused>>

\* createDatabase: the server first, then the registry, then the pool of this
\* process.  An existing role gets a new password.
CreateDdl(r) ==
  LET p == server.password + 1
  IN  /\ At(r, "createDdl") /\ p \in Password
      /\ server' = [server EXCEPT !.exists = TRUE, !.password = p]
      /\ run' = [run EXCEPT ![r].password = p, ![r].pc = "createRow"]
      /\ UNCHANGED <<tenant, registry, pooled, job, lock, attempts, staff, deleteVars,
                     faults, crashes, refused>>

CreateRow(r) ==
  /\ At(r, "createRow") /\ tenant # "gone"
  /\ registry' = [status |-> "CREATING", password |-> run[r].password]
  /\ Evict(SideOf(r))
  /\ Go(r, "record")
  /\ UNCHANGED <<tenant, server, job, lock, attempts, staff, deleteVars, faults, crashes, refused>>

\* runMigrations
MigrateStart(r) ==
  /\ At(r, "migrateStart") /\ registry.status # "none"
  /\ registry' = [registry EXCEPT !.status = "MIGRATING"]
  /\ Go(r, "migrateRun")
  /\ UNCHANGED <<tenant, server, pooled, job, lock, attempts, staff, deleteVars,
                 faults, crashes, refused>>

MigrateRun(r) ==
  /\ At(r, "migrateRun") /\ server.exists
  /\ server' = [server EXCEPT !.has = @ \cup {"schema"}]
  /\ Go(r, "migrateEnd")
  /\ UNCHANGED <<tenant, registry, pooled, job, lock, attempts, staff, deleteVars,
                 faults, crashes, refused>>

MigrateEnd(r) ==
  /\ At(r, "migrateEnd") /\ registry.status # "none"
  /\ registry' = [registry EXCEPT !.status = "READY"]
  /\ Go(r, "record")
  /\ UNCHANGED <<tenant, server, pooled, job, lock, attempts, staff, deleteVars,
                 faults, crashes, refused>>

\* seedDefaults and configureBranding write through a tenant connection;
\* branding updates the settings row seeding made.
Fill(r, pc, needs, adds) ==
  /\ At(r, pc) /\ Reaches(SideOf(r)) /\ needs \in server.has
  /\ server' = [server EXCEPT !.has = @ \cup {adds}]
  /\ Pooling(SideOf(r))
  /\ Go(r, "record")
  /\ UNCHANGED <<tenant, registry, job, lock, attempts, staff, deleteVars, faults, crashes, refused>>

Seed(r) == Fill(r, "seed", "schema", "settings")
Brand(r) == Fill(r, "brand", "settings", "branding")

\* activate: whatever the status is by now.
Activate(r) ==
  /\ At(r, "activate") /\ tenant # "gone"
  /\ tenant' = "ACTIVE"
  /\ Go(r, "record")
  /\ UNCHANGED <<registry, server, pooled, job, lock, attempts, staff, deleteVars,
                 faults, crashes, refused>>

\* completedSteps is written from the runner's own set.
Record(r) ==
  LET done == run[r].done \cup {run[r].step}
  IN  /\ At(r, "record") /\ job.status # "gone"
      /\ job' = [job EXCEPT !.steps = done]
      /\ run' = [run EXCEPT ![r].done = done, ![r].pc = "next", ![r].step = "none"]
      /\ UNCHANGED <<storeVars, lock, attempts, staff, deleteVars, faults, crashes, refused>>

Complete(r) ==
  /\ At(r, "next") /\ run[r].done = StepSet /\ job.status # "gone"
  /\ job' = [job EXCEPT !.status = "COMPLETED"]
  /\ Unlock(r)
  /\ Leave(r, Finished(r))
  /\ UNCHANGED <<storeVars, attempts, staff, deleteVars, faults, crashes, refused>>

\* Where a runner cannot but throw.
Impossible(r) ==
  \/ At(r, "createRow") /\ tenant = "gone"
  \/ run[r].pc \in {"migrateStart", "migrateEnd"} /\ registry.status = "none"
  \/ At(r, "migrateRun") /\ ~server.exists
  \/ At(r, "seed") /\ ~(Reaches(SideOf(r)) /\ "schema" \in server.has)
  \/ At(r, "brand") /\ ~(Reaches(SideOf(r)) /\ "settings" \in server.has)
  \/ At(r, "activate") /\ tenant = "gone"
  \/ run[r].pc \in {"next", "record"} /\ job.status = "gone"

\* Mutant of FailedJob: the step counts as completed before it has run.
FailedJobEarly(r) == [status |-> "FAILED", steps |-> job.steps \cup {run[r].step}]

FailedJob(r) == [job EXCEPT !.status = "FAILED"]

\* The catch and the finally of provision.
Throw(r) ==
  /\ job' = IF job.status = "gone" THEN job ELSE FailedJob(r)
  /\ registry' = IF registry.status = "none" THEN registry
                 ELSE [registry EXCEPT !.status = "FAILED"]
  /\ attempts' = AttemptsLeft(r)
  /\ Unlock(r)
  /\ Leave(r, "idle")
  /\ UNCHANGED <<tenant, server, pooled, staff, deleteVars, crashes, refused>>

Stuck(r) == Impossible(r) /\ Throw(r) /\ UNCHANGED faults

Fault(r) ==
  /\ run[r].step \in FaultySteps /\ faults < MaxFaults
  /\ faults' = faults + 1
  /\ Throw(r)

\* The process dies.  The lock stays; BullMQ hands a stalled job out again.
\* The pool of the process goes with it.
Crash(r) ==
  /\ run[r].pc \notin {"idle", "over"} /\ crashes < MaxCrashes
  /\ crashes' = crashes + 1
  /\ Leave(r, "idle")
  /\ Evict(SideOf(r))
  /\ UNCHANGED <<tenant, registry, server, job, lock, attempts, staff, deleteVars, faults, refused>>

\* Mutant of LockExpires: SET without a TTL.
LockStays == FALSE /\ UNCHANGED vars

\* The TTL of 300 seconds.
LockExpires ==
  /\ lock # None
  /\ SlowRuns \/ run[lock].pc \in {"idle", "over"}
  /\ lock' = None
  /\ UNCHANGED <<storeVars, job, run, attempts, staff, deleteVars, faults, crashes, refused>>

-------------------------------------------------------------------------------
\* PlatformService.updateTenantStatus: read, then write, whatever the status is
\* by then; any status but ACTIVE evicts the client of this process.

StatusRead(to) ==
  /\ staff = "none" /\ tenant \notin {"gone", to}
  /\ staff' = to
  /\ UNCHANGED <<storeVars, runVars, deleteVars>>

StatusWrite ==
  /\ staff # "none"
  /\ IF tenant = "gone" THEN UNCHANGED <<tenant, deletedAt, pooled>>
     ELSE /\ tenant' = staff
          /\ deletedAt' = (deletedAt \/ staff = "DELETED")
          /\ IF staff # "ACTIVE" THEN Evict("api") ELSE UNCHANGED pooled
  /\ staff' = "none"
  /\ UNCHANGED <<registry, server, runVars, deletion, deleter, residue>>

\* A request that was let in before the store was closed connects, and the
\* sweeper drops a client nobody uses.
Connect(side) ==
  /\ pooled[side] = 0 /\ CanConnect
  /\ Pooling(side)
  /\ UNCHANGED <<tenant, registry, server, runVars, staff, deleteVars>>

Sweep(side) ==
  /\ pooled[side] # 0
  /\ Evict(side)
  /\ UNCHANGED <<tenant, registry, server, runVars, staff, deleteVars>>

\* A merchant uploads to the store's prefix.  A presigned URL outlives the
\* store's access, and its row.
Upload ==
  /\ Serves \/ (LateUploads /\ tenant # "PROVISIONING")
  /\ "objects" \notin residue
  /\ residue' = residue \cup {"objects"}
  /\ UNCHANGED <<storeVars, runVars, staff, deletion, deleter, deletedAt>>

-------------------------------------------------------------------------------
\* TenantDeletionService.deleteTenant

MayDelete == DeleteAnytime \/ /\ "ACTIVATE" \in job.steps
                              /\ \A r \in Runners : run[r].pc \in {"idle", "over"}

Doing(step) == deleter.pc = "work" /\ deleter.step = step
DeleteGo(pc) == deleter' = [deleter EXCEPT !.pc = pc]

DeleteStart ==
  /\ deleter.pc = "idle" /\ tenant # "gone"
  /\ deletion.status = "none" => MayDelete
  /\ deletion' = [deletion EXCEPT !.status = "RUNNING"]
  /\ deleter' = [NoDeleter EXCEPT !.pc = "next", !.done = deletion.steps]
  /\ UNCHANGED <<storeVars, runVars, staff, residue, deletedAt>>

DeleteNext ==
  /\ deleter.pc = "next" /\ deleter.done # DeletionSet
  /\ deleter' = [deleter EXCEPT !.pc = "work",
                   !.step = FirstLeft(DeletionSteps, deleter.done)]
  /\ UNCHANGED <<storeVars, runVars, staff, deletion, residue, deletedAt>>

\* Mutant of Marked: the status alone says that the store is closed.
MarkedByStatus == deletedAt

Marked == TRUE

RevokeAccess ==
  /\ Doing("REVOKE_ACCESS") /\ tenant # "gone"
  /\ tenant' = "DELETING" /\ deletedAt' = Marked
  /\ Evict("api")
  /\ DeleteGo("record")
  /\ UNCHANGED <<registry, server, runVars, staff, deletion, residue>>

PurgeStorage ==
  /\ Doing("PURGE_STORAGE")
  /\ residue' = residue \ {"objects"}
  /\ DeleteGo("record")
  /\ UNCHANGED <<storeVars, runVars, staff, deletion, deletedAt>>

\* The clients of other processes are terminated, and may be back before the
\* DROP, which then fails.
DropDatabase ==
  /\ Doing("DROP_DATABASE")
  /\ Evict("api")
  /\ server' = NoServer
  /\ DeleteGo("record")
  /\ UNCHANGED <<tenant, registry, runVars, staff, deletion, residue, deletedAt>>

\* One transaction deletes the row and all that cascades; the accounts follow
\* outside it.
PurgeMaster ==
  /\ Doing("PURGE_MASTER_RECORDS") /\ tenant # "gone"
  /\ tenant' = "gone"
  /\ registry' = NoRegistry
  /\ job' = [status |-> "gone", steps |-> {}]
  /\ DeleteGo("orphans")
  /\ UNCHANGED <<server, pooled, lock, run, attempts, faults, crashes, refused, staff,
                 deletion, residue, deletedAt>>

RemoveOrphans ==
  /\ deleter.pc = "orphans"
  /\ residue' = residue \ {"accounts"}
  /\ DeleteGo("record")
  /\ UNCHANGED <<storeVars, runVars, staff, deletion, deletedAt>>

Finalises == tenant = "gone" /\ registry.status = "none" /\ "objects" \notin residue

Finalise ==
  /\ Doing("FINALISE") /\ Finalises
  /\ DeleteGo("record")
  /\ UNCHANGED <<storeVars, runVars, staff, deletion, residue, deletedAt>>

DeleteRecord ==
  LET done == deleter.done \cup {deleter.step}
  IN  /\ deleter.pc = "record"
      /\ deletion' = [deletion EXCEPT !.steps = done]
      /\ deleter' = [pc |-> "next", done |-> done, step |-> "none"]
      /\ UNCHANGED <<storeVars, runVars, staff, residue, deletedAt>>

DeleteComplete ==
  /\ deleter.pc = "next" /\ deleter.done = DeletionSet
  /\ deletion' = [deletion EXCEPT !.status = "COMPLETED"]
  /\ deleter' = NoDeleter
  /\ UNCHANGED <<storeVars, runVars, staff, residue, deletedAt>>

\* Mutant of FailedDeletion: the step counts as completed before it has run.
FailedDeletionEarly ==
  [status |-> "FAILED", steps |-> deletion.steps \cup ({deleter.step} \ {"none"})]

FailedDeletion == [deletion EXCEPT !.status = "FAILED"]

\* A step throws: the job is FAILED and the call returns.
DeleteFails ==
  /\ \/ Doing("DROP_DATABASE") /\ \E s \in Sides : pooled[s] # 0
     \/ Doing("FINALISE") /\ ~Finalises
     \/ faults < MaxFaults /\ deleter.pc \in {"work", "orphans"}
  /\ faults' = IF faults < MaxFaults THEN faults + 1 ELSE faults
  /\ deletion' = FailedDeletion
  /\ deleter' = NoDeleter
  /\ UNCHANGED <<storeVars, job, lock, run, attempts, crashes, refused, staff, residue, deletedAt>>

DeleteCrash ==
  /\ deleter.pc # "idle" /\ crashes < MaxCrashes
  /\ crashes' = crashes + 1
  /\ deleter' = NoDeleter
  /\ Evict("api")
  /\ UNCHANGED <<tenant, registry, server, job, lock, run, attempts, faults, refused, staff,
                 deletion, residue, deletedAt>>

-------------------------------------------------------------------------------

RunnerStep(r) ==
  \/ Load(r) \/ AlreadyDone(r) \/ LoadFails(r) \/ NextStep(r)
  \/ CreateDdl(r) \/ CreateRow(r)
  \/ MigrateStart(r) \/ MigrateRun(r) \/ MigrateEnd(r)
  \/ Seed(r) \/ Brand(r) \/ Activate(r) \/ Record(r) \/ Complete(r) \/ Stuck(r)

RunnerNext(r) == Acquire(r) \/ RunnerStep(r) \/ Fault(r) \/ Crash(r)

StoreNext ==
  \/ \E to \in StaffTargets : StatusRead(to)
  \/ StatusWrite
  \/ \E side \in Sides : Connect(side) \/ Sweep(side)
  \/ Upload

DeleterNext ==
  \/ DeleteStart \/ DeleteNext \/ RevokeAccess \/ PurgeStorage \/ DropDatabase
  \/ PurgeMaster \/ RemoveOrphans \/ Finalise \/ DeleteRecord \/ DeleteComplete
  \/ DeleteFails \/ DeleteCrash

Next ==
  \/ \E r \in Runners : RunnerNext(r)
  \/ Conflict \/ LockExpires
  \/ StoreNext
  \/ DeleterNext

Spec == Init /\ [][Next]_vars

\* A call that runs goes on; BullMQ runs the job again while attempts are left;
\* Redis expires the lock.  Nobody has to press a button.
Fairness ==
  /\ \A r \in Runners : WF_vars(RunnerStep(r))
  /\ WF_vars(Acquire(Worker) \/ Conflict)
  /\ WF_vars(LockExpires)

FairSpec == Spec /\ Fairness

-------------------------------------------------------------------------------
\* Properties

Provisioned == "ACTIVATE" \in job.steps

\* What the job records was done and still holds, so a resumed run never skips
\* something that is missing: through crashes, faults and two callers.
Holds(step) ==
  CASE step = "CREATE_DATABASE" -> server.exists /\ registry.status # "none"
    [] step = "RUN_MIGRATIONS" -> "schema" \in server.has
    [] step = "SEED_DEFAULTS" -> "settings" \in server.has
    [] step = "CONFIGURE_BRANDING" -> "branding" \in server.has
    [] OTHER -> tenant # "PROVISIONING"

RecordedStepsHold ==
  deletion.status = "none" => \A step \in job.steps : Holds(step)

\* The registry never hands out a password the server does not know: a READY
\* row and every pooled client have the role's current one.
PasswordsAgree ==
  server.exists =>
    /\ registry.status = "READY" => registry.password = server.password
    /\ \A side \in Sides : pooled[side] \in {0, server.password}

\* A deletion that reports COMPLETED left nothing: no row, no registry entry,
\* no database, no account, and no object but one a presigned URL put there.
CompletedIsGone ==
  deletion.status = "COMPLETED" =>
    /\ tenant = "gone" /\ registry = NoRegistry /\ ~server.exists
    /\ "accounts" \notin residue /\ ("objects" \in residue => LateUploads)

\* Data is destroyed only behind closed doors: once the deletion recorded that
\* access was revoked, the store never serves again, whatever fails later, and
\* although staff and a late activate may well set its status to ACTIVE again.
StaysInert == "REVOKE_ACCESS" \in deletion.steps => ~Serves

\* A crash or an early exception never blocks provisioning for ever.
LockFreed == \A r \in Runners : lock = r ~> lock # r

\* A fault after the migrations marks the registry FAILED, and no run can
\* connect to the store again.
Unreachable == registry.status = "FAILED" /\ "RUN_MIGRATIONS" \in job.steps

\* As long as no attempt of the worker met the lock and the store can be
\* reached, the attempts suffice for a crash and the faults.
GetsProvisioned == []~(refused \/ Unreachable) => <>Provisioned
===============================================================================
