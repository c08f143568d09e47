----------------------------- MODULE TenantsProofs -----------------------------
(***************************************************************************)
(* What the run of Tenants checks with few faults and passwords, proved    *)
(* for any number of attempts, faults, crashes and passwords, whichever    *)
(* steps may throw.                                                        *)
(***************************************************************************)
EXTENDS Tenants, TLAPS

-------------------------------------------------------------------------------
\* Types.

Resting == {"idle", "over"}
Working == RunStep \cup {"record"}

\* A runner at work has a step, the worker at work has an attempt, and the
\* deletion at work has a step.
Named ==
  /\ \A r \in Runners : run[r].step \in StepSet <=> run[r].pc \in Working
  /\ run[Worker].pc \notin Resting => attempts > 0
  /\ deleter.pc \in {"work", "orphans", "record"} => deleter.step \in DeletionSet

TypeInv == TypeOK /\ Named

LEMMA StepNames ==
  /\ StepSet = {"CREATE_DATABASE", "RUN_MIGRATIONS", "SEED_DEFAULTS", "CONFIGURE_BRANDING", "ACTIVATE"}
  /\ DeletionSet = {"REVOKE_ACCESS", "PURGE_STORAGE", "DROP_DATABASE", "PURGE_MASTER_RECORDS", "FINALISE"}
  /\ "none" \notin StepSet /\ "none" \notin DeletionSet
<1>1. 1..5 = {1, 2, 3, 4, 5}
  OBVIOUS
<1>2. StepSet = {ProvisionSteps[1], ProvisionSteps[2], ProvisionSteps[3], ProvisionSteps[4], ProvisionSteps[5]}
  BY <1>1 DEF StepSet
<1>3. DeletionSet = {DeletionSteps[1], DeletionSteps[2], DeletionSteps[3], DeletionSteps[4], DeletionSteps[5]}
  BY <1>1 DEF DeletionSet
<1> QED
  BY <1>2, <1>3 DEF ProvisionSteps, DeletionSteps

\* The loop of a job finds a step that is left.
LEMMA FirstLeftIs ==
  ASSUME NEW steps, NEW done, \E i \in 1..5 : steps[i] \notin done
  PROVE  \E i \in 1..5 : /\ FirstLeft(steps, done) = steps[i] /\ steps[i] \notin done
                         /\ \A j \in 1..(i - 1) : steps[j] \in done
<1> DEFINE First(i) == steps[i] \notin done /\ \A j \in 1..(i - 1) : steps[j] \in done
<1>1. \E i \in 1..5 : First(i)
  <2>1. CASE steps[1] \notin done
    BY <2>1
  <2>2. CASE steps[1] \in done /\ steps[2] \notin done
    <3>1. 1..(2 - 1) = {1}
      OBVIOUS
    <3> QED
      BY <2>2, <3>1
  <2>3. CASE steps[1] \in done /\ steps[2] \in done /\ steps[3] \notin done
    <3>1. 1..(3 - 1) = {1, 2}
      OBVIOUS
    <3> QED
      BY <2>3, <3>1
  <2>4. CASE steps[1] \in done /\ steps[2] \in done /\ steps[3] \in done /\ steps[4] \notin done
    <3>1. 1..(4 - 1) = {1, 2, 3}
      OBVIOUS
    <3> QED
      BY <2>4, <3>1
  <2>5. CASE steps[1] \in done /\ steps[2] \in done /\ steps[3] \in done /\ steps[4] \in done
    <3>1. 1..(5 - 1) = {1, 2, 3, 4} /\ 1..5 = {1, 2, 3, 4, 5}
      OBVIOUS
    <3> QED
      BY <2>5, <3>1
  <2> QED
    BY <2>1, <2>2, <2>3, <2>4, <2>5
<1>2. First(CHOOSE i \in 1..5 : First(i)) /\ (CHOOSE i \in 1..5 : First(i)) \in 1..5
  BY <1>1
<1> QED
  BY <1>2 DEF FirstLeft

LEMMA NextTyped ==
  /\ \A done \in SUBSET StepSet : done # StepSet =>
       FirstLeft(ProvisionSteps, done) \in StepSet /\ FirstLeft(ProvisionSteps, done) \notin done
  /\ \A done \in SUBSET DeletionSet : done # DeletionSet =>
       FirstLeft(DeletionSteps, done) \in DeletionSet /\ FirstLeft(DeletionSteps, done) \notin done
<1>1. ASSUME NEW done \in SUBSET StepSet, done # StepSet
      PROVE  FirstLeft(ProvisionSteps, done) \in StepSet /\ FirstLeft(ProvisionSteps, done) \notin done
  <2>1. \E i \in 1..5 : ProvisionSteps[i] \notin done
    BY <1>1 DEF StepSet
  <2>2. PICK i \in 1..5 : FirstLeft(ProvisionSteps, done) = ProvisionSteps[i] /\ ProvisionSteps[i] \notin done
    BY <2>1, FirstLeftIs
  <2> QED
    BY <2>2 DEF StepSet
<1>2. ASSUME NEW done \in SUBSET DeletionSet, done # DeletionSet
      PROVE  FirstLeft(DeletionSteps, done) \in DeletionSet /\ FirstLeft(DeletionSteps, done) \notin done
  <2>1. \E i \in 1..5 : DeletionSteps[i] \notin done
    BY <1>2 DEF DeletionSet
  <2>2. PICK i \in 1..5 : FirstLeft(DeletionSteps, done) = DeletionSteps[i] /\ DeletionSteps[i] \notin done
    BY <2>1, FirstLeftIs
  <2> QED
    BY <2>2 DEF DeletionSet
<1> QED
  BY <1>1, <1>2

\* One call of provision changes, and the others do not.
LEMMA RunTyped ==
  ASSUME TypeInv, NEW r \in Runners, NEW new \in Run, run' = [run EXCEPT ![r] = new]
  PROVE  /\ run' \in [Runners -> Run]
         /\ run'[r] = new
         /\ \A q \in Runners \ {r} : run'[q] = run[q]
<1>1. run \in [Runners -> Run]
  BY DEF TypeInv, TypeOK
<1> QED
  BY <1>1

LEMMA GoTyped ==
  ASSUME TypeInv, NEW r \in Runners, NEW p \in RunPc, Go(r, p)
  PROVE  /\ run' \in [Runners -> Run]
         /\ run'[r] = [run[r] EXCEPT !.pc = p]
         /\ \A q \in Runners \ {r} : run'[q] = run[q]
<1>1. run[r] \in Run
  BY DEF TypeInv, TypeOK
<1>2. [run[r] EXCEPT !.pc = p] \in Run
  BY <1>1 DEF Run
<1>3. run' = [run EXCEPT ![r] = [run[r] EXCEPT !.pc = p]]
  BY DEF Go, TypeInv, TypeOK
<1> QED
  BY <1>2, <1>3, RunTyped

\* Two fields at once.
LEMMA FieldsTyped ==
  ASSUME TypeInv, NEW r \in Runners, NEW p \in RunPc, NEW d \in SUBSET StepSet,
         NEW s \in StepSet \cup {"none"}, NEW w \in Password, NEW new,
         \/ new = [run[r] EXCEPT !.done = d, !.pc = p]
         \/ new = [run[r] EXCEPT !.step = s, !.pc = p]
         \/ new = [run[r] EXCEPT !.password = w, !.pc = p]
         \/ new = [run[r] EXCEPT !.done = d, !.pc = p, !.step = s],
         run' = [run EXCEPT ![r] = new]
  PROVE  /\ run' \in [Runners -> Run]
         /\ run'[r] = new
         /\ \A q \in Runners \ {r} : run'[q] = run[q]
<1>1. run[r] \in Run
  BY DEF TypeInv, TypeOK
<1>2. new \in Run
  BY <1>1 DEF Run
<1> QED
  BY <1>2, RunTyped

LEMMA LeaveTyped ==
  ASSUME TenantsAssumption, TypeInv, NEW r \in Runners, NEW p \in RunPc, Leave(r, p)
  PROVE  /\ run' \in [Runners -> Run]
         /\ run'[r] = [pc |-> p, done |-> {}, step |-> "none", password |-> 0]
         /\ \A q \in Runners \ {r} : run'[q] = run[q]
<1>1. 0 \in Password
  BY TenantsAssumption DEF Password
<1>2. NoRun \in Run
  BY <1>1 DEF NoRun, Run, RunPc
<1> QED
  BY <1>1, <1>2 DEF TypeInv, TypeOK, Leave, Run, NoRun

LEMMA PoolTyped ==
  ASSUME TenantsAssumption, TypeInv, NEW s \in Sides
  PROVE  /\ Evict(s) => pooled' \in [Sides -> Password]
         /\ Pooling(s) => pooled' \in [Sides -> Password]
<1>1. 0 \in Password /\ registry.password \in Password
  BY TenantsAssumption DEF Password, TypeInv, TypeOK
<1> QED
  BY <1>1 DEF TypeInv, TypeOK, Evict, Pooling

LEMMA TypeInvInit == ASSUME TenantsAssumption, Init PROVE TypeInv
<1>1. 0 \in Password /\ 0 \in 0..MaxFaults /\ 0 \in 0..MaxCrashes /\ Attempts \in 0..Attempts
  BY TenantsAssumption DEF Password
<1>2. NoRun \in Run /\ NoDeleter \in Deleter
  BY <1>1 DEF NoRun, Run, RunPc, NoDeleter, Deleter, DeletePc
<1>3. run \in [Runners -> Run] /\ pooled \in [Sides -> Password]
  BY <1>1, <1>2 DEF Init
<1>4. Named
  BY StepNames DEF Init, Named, Working, RunStep, Resting, NoRun, NoDeleter, Runners
<1> QED
  BY <1>1, <1>2, <1>3, <1>4 DEF Init, TypeInv, TypeOK, NoRegistry, NoServer, RegistryStatus

\* Steps of a runner.
LEMMA ThrowTyped ==
  ASSUME TenantsAssumption, TypeInv, NEW r \in Runners, run[r].pc \notin Resting, Throw(r),
         faults' \in 0..MaxFaults
  PROVE  TypeInv'
<1>1. /\ run' \in [Runners -> Run]
      /\ run'[r] = [pc |-> "idle", done |-> {}, step |-> "none", password |-> 0]
      /\ \A q \in Runners \ {r} : run'[q] = run[q]
  BY LeaveTyped DEF Throw, RunPc
<1>2. attempts' \in 0..Attempts /\ (r # Worker => attempts' = attempts)
  BY TenantsAssumption DEF Throw, AttemptsLeft, TypeInv, TypeOK, Named
<1>3. job' \in [status: {"PENDING", "RUNNING", "COMPLETED", "FAILED", "gone"}, steps: SUBSET StepSet]
  BY DEF Throw, FailedJob, TypeInv, TypeOK
<1>4. registry' \in [status: RegistryStatus, password: Password]
  BY DEF Throw, TypeInv, TypeOK, RegistryStatus
<1>5. lock' \in Runners \cup {None}
  BY DEF Throw, Unlock, TypeInv, TypeOK
<1>6. Named'
  BY <1>1, <1>2, StepNames DEF Throw, TypeInv, Named, Working, RunStep, Resting, deleteVars, Runners
<1> QED
  BY <1>1, <1>2, <1>3, <1>4, <1>5, <1>6 DEF Throw, TypeInv, TypeOK, deleteVars

LEMMA RunnerTyped ==
  ASSUME TenantsAssumption, TypeInv, NEW r \in Runners, RunnerNext(r)
  PROVE  TypeInv'
<1>z. 0 \in Password
  BY TenantsAssumption DEF Password
<1> USE DEF Working, RunStep, Resting, Runners
<1>1. CASE Acquire(r)
  <2>1. Go(r, "load")
    BY <1>1 DEF Acquire
  <2>2. Named'
    <3>1. /\ run'[r].pc = "load" /\ run'[r].step = run[r].step
          /\ \A q \in Runners \ {r} : run'[q] = run[q]
      BY <2>1, GoTyped DEF RunPc, TypeInv, TypeOK, Run
    <3> QED
      BY <1>1, <3>1, StepNames DEF Acquire, At, TypeInv, Named, deleteVars
  <2> QED
    BY <1>1, <2>1, <2>2, GoTyped DEF Acquire, TypeInv, TypeOK, RunPc, storeVars, deleteVars
<1>2. CASE Load(r)
  <2>1. /\ run' \in [Runners -> Run]
        /\ run'[r] = [run[r] EXCEPT !.done = job.steps, !.pc = "next"]
        /\ \A q \in Runners \ {r} : run'[q] = run[q]
    <3>1. run' = [run EXCEPT ![r] = [run[r] EXCEPT !.done = job.steps, !.pc = "next"]]
      BY <1>2 DEF Load, TypeInv, TypeOK
    <3>2. job.steps \in SUBSET StepSet /\ "next" \in RunPc
      BY DEF TypeInv, TypeOK, RunPc
    <3> QED
      BY <3>1, <3>2, FieldsTyped, <1>z
  <2>2. Named'
    BY <1>2, <2>1, StepNames DEF Load, At, TypeInv, TypeOK, Run, Named, deleteVars
  <2> QED
    BY <1>2, <2>1, <2>2 DEF Load, TypeInv, TypeOK, storeVars, deleteVars
<1>3. CASE AlreadyDone(r) \/ Complete(r)
  <2>p. Finished(r) \in {"idle", "over"} /\ Finished(r) \in RunPc /\ Leave(r, Finished(r))
    BY <1>3 DEF AlreadyDone, Complete, Finished, RunPc
  <2>1. /\ run' \in [Runners -> Run]
        /\ run'[r] = [pc |-> Finished(r), done |-> {}, step |-> "none", password |-> 0]
        /\ \A q \in Runners \ {r} : run'[q] = run[q]
    BY <2>p, LeaveTyped
  <2>2. Named'
    BY <1>3, <2>p, <2>1, StepNames DEF AlreadyDone, Complete, TypeInv, Named, deleteVars
  <2>3. lock' \in Runners \cup {None}
    BY <1>3 DEF AlreadyDone, Complete, Unlock, TypeInv, TypeOK
  <2>4. job' \in [status: {"PENDING", "RUNNING", "COMPLETED", "FAILED", "gone"}, steps: SUBSET StepSet]
    BY <1>3 DEF AlreadyDone, Complete, TypeInv, TypeOK
  <2> QED
    BY <1>3, <2>1, <2>2, <2>3, <2>4 DEF AlreadyDone, Complete, TypeInv, TypeOK, storeVars, deleteVars
<1>4. CASE LoadFails(r)
  <2>1. /\ run' \in [Runners -> Run]
        /\ run'[r] = [pc |-> "idle", done |-> {}, step |-> "none", password |-> 0]
        /\ \A q \in Runners \ {r} : run'[q] = run[q]
    BY <1>4, LeaveTyped DEF LoadFails, RunPc
  <2>2. attempts' \in 0..Attempts /\ (r # Worker => attempts' = attempts)
    BY <1>4, TenantsAssumption DEF LoadFails, At, AttemptsLeft, TypeInv, TypeOK, Named
  <2>3. Named'
    BY <1>4, <2>1, <2>2, StepNames DEF LoadFails, TypeInv, Named, deleteVars
  <2> QED
    BY <1>4, <2>1, <2>2, <2>3 DEF LoadFails, TypeInv, TypeOK, storeVars, deleteVars
<1>5. CASE NextStep(r)
  <2> DEFINE s == FirstLeft(ProvisionSteps, run[r].done)
  <2>1. s \in StepSet
    BY <1>5, NextTyped DEF NextStep, TypeInv, TypeOK, Run
  <2>2. Entry(s) \in RunStep
    BY <2>1, StepNames DEF Entry
  <2>3. run' = [run EXCEPT ![r].step = s, ![r].pc = Entry(s)]
    BY <1>5 DEF NextStep
  <2> HIDE DEF s
  <2>4. /\ run' \in [Runners -> Run]
        /\ run'[r] = [run[r] EXCEPT !.step = s, !.pc = Entry(s)]
        /\ \A q \in Runners \ {r} : run'[q] = run[q]
    <3>1. run' = [run EXCEPT ![r] = [run[r] EXCEPT !.step = s, !.pc = Entry(s)]]
      BY <2>3 DEF TypeInv, TypeOK
    <3>2. Entry(s) \in RunPc /\ {} \in SUBSET StepSet
      BY <2>2 DEF RunPc
    <3> QED
      BY <2>1, <3>1, <3>2, FieldsTyped, <1>z
  <2>5. run'[r].step \in StepSet /\ run'[r].pc \in RunStep
    BY <2>1, <2>2, <2>4 DEF TypeInv, TypeOK, Run
  <2>6. Named'
    BY <1>5, <2>4, <2>5 DEF NextStep, At, TypeInv, Named, deleteVars
  <2> QED
    BY <1>5, <2>4, <2>6 DEF NextStep, TypeInv, TypeOK, storeVars, deleteVars
<1>6. CASE CreateDdl(r)
  <2> PICK p \in Password : p = server.password + 1
    BY <1>6 DEF CreateDdl
  <2>1. /\ run' \in [Runners -> Run]
        /\ run'[r] = [run[r] EXCEPT !.password = p, !.pc = "createRow"]
        /\ \A q \in Runners \ {r} : run'[q] = run[q]
    <3>1. run' = [run EXCEPT ![r] = [run[r] EXCEPT !.password = p, !.pc = "createRow"]]
      BY <1>6 DEF CreateDdl, TypeInv, TypeOK
    <3>2. "createRow" \in RunPc /\ {} \in SUBSET StepSet
      BY DEF RunPc
    <3> QED
      BY <3>1, <3>2, FieldsTyped
  <2>2. Named'
    BY <1>6, <2>1 DEF CreateDdl, At, TypeInv, TypeOK, Run, Named, deleteVars
  <2>3. server' \in [exists: BOOLEAN, password: Password,
                     has: SUBSET {"schema", "settings", "branding"}]
    BY <1>6 DEF CreateDdl, TypeInv, TypeOK
  <2>4. UNCHANGED <<tenant, registry, pooled, job, lock, attempts, staff, deleteVars,
                    faults, crashes, refused>>
    BY <1>6 DEF CreateDdl
  <2>5. TypeOK'
    BY <2>1, <2>3, <2>4 DEF TypeInv, TypeOK, deleteVars
  <2> QED
    BY <2>2, <2>5 DEF TypeInv
<1>7. CASE CreateRow(r) \/ MigrateStart(r) \/ MigrateRun(r) \/ MigrateEnd(r) \/ Activate(r)
  <2> PICK p \in Working : Go(r, p) /\ run[r].pc \in Working
    BY <1>7 DEF CreateRow, MigrateStart, MigrateRun, MigrateEnd, Activate, At
  <2>1. /\ run' \in [Runners -> Run]
        /\ run'[r] = [run[r] EXCEPT !.pc = p]
        /\ \A q \in Runners \ {r} : run'[q] = run[q]
    BY GoTyped DEF RunPc
  <2>2. Named'
    BY <1>7, <2>1 DEF CreateRow, MigrateStart, MigrateRun, MigrateEnd, Activate,
                      TypeInv, TypeOK, Run, Named, deleteVars
  <2>3. pooled' \in [Sides -> Password]
    BY <1>7, PoolTyped DEF CreateRow, MigrateStart, MigrateRun, MigrateEnd, Activate,
                           TypeInv, TypeOK, SideOf, Sides
  <2>4. registry' \in [status: RegistryStatus, password: Password]
    BY <1>7 DEF CreateRow, MigrateStart, MigrateRun, MigrateEnd, Activate,
                TypeInv, TypeOK, Run, RegistryStatus
  <2>5. server' \in [exists: BOOLEAN, password: Password,
                     has: SUBSET {"schema", "settings", "branding"}]
    BY <1>7 DEF CreateRow, MigrateStart, MigrateRun, MigrateEnd, Activate, TypeInv, TypeOK
  <2> QED
    BY <1>7, <2>1, <2>2, <2>3, <2>4, <2>5
       DEF CreateRow, MigrateStart, MigrateRun, MigrateEnd, Activate, TypeInv, TypeOK, deleteVars
<1>8. CASE Seed(r) \/ Brand(r)
  <2>1. Go(r, "record") /\ run[r].pc \in Working /\ Pooling(SideOf(r))
    BY <1>8 DEF Seed, Brand, Fill, At
  <2>2. /\ run' \in [Runners -> Run]
        /\ run'[r] = [run[r] EXCEPT !.pc = "record"]
        /\ \A q \in Runners \ {r} : run'[q] = run[q]
    BY <2>1, GoTyped DEF RunPc
  <2>3. Named'
    BY <1>8, <2>1, <2>2 DEF Seed, Brand, Fill, TypeInv, TypeOK, Run, Named, deleteVars
  <2>4. pooled' \in [Sides -> Password]
    BY <2>1, PoolTyped DEF SideOf, Sides
  <2>5. server' \in [exists: BOOLEAN, password: Password,
                     has: SUBSET {"schema", "settings", "branding"}]
    BY <1>8 DEF Seed, Brand, Fill, TypeInv, TypeOK
  <2> QED
    BY <1>8, <2>2, <2>3, <2>4, <2>5 DEF Seed, Brand, Fill, TypeInv, TypeOK, deleteVars
<1>9. CASE Record(r)
  <2> PICK d \in SUBSET StepSet : d = run[r].done \cup {run[r].step}
    BY <1>9 DEF Record, At, TypeInv, TypeOK, Run, Named
  <2>1. /\ run' \in [Runners -> Run]
        /\ run'[r] = [run[r] EXCEPT !.done = d, !.pc = "next", !.step = "none"]
        /\ \A q \in Runners \ {r} : run'[q] = run[q]
    <3>1. run' = [run EXCEPT ![r] = [run[r] EXCEPT !.done = d, !.pc = "next", !.step = "none"]]
      BY <1>9 DEF Record, TypeInv, TypeOK
    <3>2. run[r] \in Run
      BY DEF TypeInv, TypeOK
    <3>3. [run[r] EXCEPT !.done = d, !.pc = "next", !.step = "none"] \in Run
      BY <3>2 DEF Run, RunPc
    <3> QED
      BY <3>1, <3>3, RunTyped
  <2>2. Named'
    BY <1>9, <2>1, StepNames DEF Record, At, TypeInv, TypeOK, Run, Named, deleteVars
  <2> QED
    BY <1>9, <2>1, <2>2 DEF Record, TypeInv, TypeOK, storeVars, deleteVars
<1>10. CASE Stuck(r)
  <2>1. run[r].pc \notin Resting
    BY <1>10 DEF Stuck, Impossible, At
  <2> QED
    BY <1>10, <2>1, ThrowTyped DEF Stuck, TypeInv, TypeOK
<1>11. CASE Fault(r)
  <2>1. run[r].pc \notin Resting
    BY <1>11, TenantsAssumption DEF Fault, TypeInv, Named
  <2>2. faults' \in 0..MaxFaults
    BY <1>11, TenantsAssumption DEF Fault, TypeInv, TypeOK
  <2> QED
    BY <1>11, <2>1, <2>2, ThrowTyped DEF Fault
<1>12. CASE Crash(r)
  <2>1. /\ run' \in [Runners -> Run]
        /\ run'[r] = [pc |-> "idle", done |-> {}, step |-> "none", password |-> 0]
        /\ \A q \in Runners \ {r} : run'[q] = run[q]
    BY <1>12, LeaveTyped DEF Crash, RunPc
  <2>2. Named'
    BY <1>12, <2>1, StepNames DEF Crash, TypeInv, Named, deleteVars
  <2>3. pooled' \in [Sides -> Password]
    BY <1>12, PoolTyped DEF Crash, SideOf, Sides
  <2>4. crashes' \in 0..MaxCrashes
    BY <1>12, TenantsAssumption DEF Crash, TypeInv, TypeOK
  <2> QED
    BY <1>12, <2>1, <2>2, <2>3, <2>4 DEF Crash, TypeInv, TypeOK, deleteVars
<1> QED
  BY <1>1, <1>2, <1>3, <1>4, <1>5, <1>6, <1>7, <1>8, <1>9, <1>10, <1>11, <1>12
     DEF RunnerNext, RunnerStep

LEMMA DeleterTyped ==
  ASSUME TenantsAssumption, TypeInv, DeleterNext
  PROVE  TypeInv'
<1> USE DEF deleteVars, storeVars, runVars
<1>1. CASE DeleteStart
  <2>1. deleter' \in Deleter /\ deleter'.pc = "next"
    BY <1>1 DEF DeleteStart, TypeInv, TypeOK, Deleter, DeletePc, NoDeleter
  <2>2. deletion' \in [status: {"none", "RUNNING", "FAILED", "COMPLETED"}, steps: SUBSET DeletionSet]
    BY <1>1 DEF DeleteStart, TypeInv, TypeOK
  <2>3. Named'
    BY <1>1, <2>1 DEF DeleteStart, TypeInv, Named
  <2> QED
    BY <1>1, <2>1, <2>2, <2>3 DEF DeleteStart, TypeInv, TypeOK
<1>2. CASE DeleteNext
  <2> PICK s \in DeletionSet : s = FirstLeft(DeletionSteps, deleter.done)
    BY <1>2, NextTyped DEF DeleteNext, TypeInv, TypeOK, Deleter
  <2>1. deleter' = [pc |-> "work", done |-> deleter.done, step |-> s]
    BY <1>2 DEF DeleteNext, TypeInv, TypeOK, Deleter
  <2> QED
    BY <1>2, <2>1 DEF DeleteNext, TypeInv, TypeOK, Named, Deleter, DeletePc
<1>3. CASE RevokeAccess \/ PurgeStorage \/ DropDatabase \/ RemoveOrphans \/ Finalise
  <2>1. pooled' \in [Sides -> Password]
    BY <1>3, PoolTyped DEF RevokeAccess, PurgeStorage, DropDatabase, RemoveOrphans, Finalise,
                           TypeInv, TypeOK, Sides
  <2>2. deleter' = [deleter EXCEPT !.pc = "record"] /\ deleter.step \in DeletionSet
    BY <1>3 DEF RevokeAccess, PurgeStorage, DropDatabase, RemoveOrphans, Finalise, DeleteGo,
                Doing, TypeInv, Named
  <2>3. server' \in [exists: BOOLEAN, password: Password,
                     has: SUBSET {"schema", "settings", "branding"}]
    <3>1. NoServer \in [exists: BOOLEAN, password: Password,
                        has: SUBSET {"schema", "settings", "branding"}]
      BY TenantsAssumption DEF NoServer, Password
    <3>2. server' = server \/ server' = NoServer
      BY <1>3 DEF RevokeAccess, PurgeStorage, DropDatabase, RemoveOrphans, Finalise
    <3> QED
      BY <3>1, <3>2 DEF TypeInv, TypeOK
  <2>4. Named' /\ deleter' \in Deleter
    BY <1>3, <2>2 DEF RevokeAccess, PurgeStorage, DropDatabase, RemoveOrphans, Finalise,
                TypeInv, TypeOK, Named, Deleter, DeletePc
  <2> QED
    BY <1>3, <2>1, <2>3, <2>4 DEF RevokeAccess, Marked, PurgeStorage, DropDatabase, RemoveOrphans,
                Finalise, TypeInv, TypeOK
<1>4. CASE PurgeMaster
  <2>1. registry' \in [status: RegistryStatus, password: Password]
    BY <1>4, TenantsAssumption DEF PurgeMaster, NoRegistry, RegistryStatus, Password
  <2>2. Named' /\ deleter' \in Deleter
    BY <1>4 DEF PurgeMaster, DeleteGo, Doing, TypeInv, TypeOK, Named, Deleter, DeletePc
  <2> QED
    BY <1>4, <2>1, <2>2 DEF PurgeMaster, TypeInv, TypeOK
<1>5. CASE DeleteRecord
  BY <1>5 DEF DeleteRecord, TypeInv, TypeOK, Named, Deleter, DeletePc
<1>6. CASE DeleteComplete
  BY <1>6 DEF DeleteComplete, TypeInv, TypeOK, Named, Deleter, DeletePc, NoDeleter
<1>7. CASE DeleteFails
  <2>1. faults' \in 0..MaxFaults
    BY <1>7, TenantsAssumption DEF DeleteFails, TypeInv, TypeOK
  <2> QED
    BY <1>7, <2>1 DEF DeleteFails, FailedDeletion, TypeInv, TypeOK, Named, Deleter, DeletePc, NoDeleter
<1>8. CASE DeleteCrash
  <2>1. crashes' \in 0..MaxCrashes
    BY <1>8, TenantsAssumption DEF DeleteCrash, TypeInv, TypeOK
  <2>2. pooled' \in [Sides -> Password]
    BY <1>8, PoolTyped DEF DeleteCrash, Sides
  <2> QED
    BY <1>8, <2>1, <2>2 DEF DeleteCrash, TypeInv, TypeOK, Named, Deleter, DeletePc, NoDeleter
<1> QED
  BY <1>1, <1>2, <1>3, <1>4, <1>5, <1>6, <1>7, <1>8 DEF DeleterNext

LEMMA TypeInvStep ==
  ASSUME TenantsAssumption, TypeInv, [Next]_vars
  PROVE  TypeInv'
<1> USE DEF deleteVars, storeVars, runVars
<1>0. CASE UNCHANGED vars
  BY <1>0 DEF vars, TypeInv, TypeOK, Named
<1>1. CASE \E r \in Runners : RunnerNext(r)
  BY <1>1, RunnerTyped
<1>2. CASE Conflict
  BY <1>2, TenantsAssumption DEF Conflict, At, TypeInv, TypeOK, Named, Resting
<1>3. CASE LockExpires
  BY <1>3 DEF LockExpires, TypeInv, TypeOK, Named
<1>4. CASE StoreNext
  <2>1. pooled' \in [Sides -> Password]
    BY <1>4, PoolTyped DEF StoreNext, StatusRead, StatusWrite, Connect, Sweep, Upload,
                           TypeInv, TypeOK, Sides
  <2>2. tenant' \in {"PROVISIONING", "ACTIVE", "SUSPENDED", "DELETING", "DELETED", "gone"}
        /\ staff' \in StaffTargets \cup {"none"} /\ deletedAt' \in BOOLEAN
    BY <1>4, TenantsAssumption DEF StoreNext, StatusRead, StatusWrite, Connect, Sweep, Upload,
                           TypeInv, TypeOK
  <2> QED
    BY <1>4, <2>1, <2>2 DEF StoreNext, StatusRead, StatusWrite, Connect, Sweep, Upload,
                           TypeInv, TypeOK, Named
<1>5. CASE DeleterNext
  BY <1>5, DeleterTyped
<1> QED
  BY <1>0, <1>1, <1>2, <1>3, <1>4, <1>5 DEF Next

\* Every variable keeps its type, a runner at work (runStep of the provisioning
\* service) has a step, and the worker at work has an attempt left.
THEOREM TypeCorrect == ASSUME TenantsAssumption PROVE Spec => []TypeInv
BY TenantsAssumption, TypeInvInit, TypeInvStep, PTL DEF Spec

-------------------------------------------------------------------------------
\* The lock, and the order of steps.

\* A run ends before its lock expires, and a deletion starts when provisioning is
\* over: without either, passwords differ and databases are orphaned.
Environment == ~SlowRuns /\ ~DeleteAnytime

\* Who works holds the lock.
LockInv == \A r \in Runners : run[r].pc \notin Resting => lock = r

LEMMA OneMoves ==
  ASSUME TypeInv, NEW r \in Runners, RunnerNext(r)
  PROVE  \A q \in Runners \ {r} : run'[q] = run[q]
<1>1. \E new : run' = [run EXCEPT ![r] = new]
  <2>1. CASE Acquire(r) \/ CreateRow(r) \/ MigrateStart(r) \/ MigrateRun(r) \/ MigrateEnd(r)
             \/ Activate(r) \/ Seed(r) \/ Brand(r)
    BY <2>1 DEF Acquire, CreateRow, MigrateStart, MigrateRun, MigrateEnd, Activate, Seed, Brand,
                Fill, Go, TypeInv, TypeOK
  <2>2. CASE Load(r) \/ NextStep(r) \/ CreateDdl(r) \/ Record(r)
    BY <2>2 DEF Load, NextStep, CreateDdl, Record, TypeInv, TypeOK
  <2>3. CASE AlreadyDone(r) \/ LoadFails(r) \/ Complete(r) \/ Stuck(r) \/ Fault(r) \/ Crash(r)
    BY <2>3 DEF AlreadyDone, LoadFails, Complete, Stuck, Fault, Crash, Throw, Leave
  <2> QED
    BY <2>1, <2>2, <2>3 DEF RunnerNext, RunnerStep
<1> QED
  BY <1>1 DEF TypeInv, TypeOK

\* Where a step of a runner leaves it.
LEMMA RunnerAt ==
  ASSUME TypeInv, NEW r \in Runners, RunnerNext(r)
  PROVE  \/ lock = None /\ lock' = r /\ run'[r].pc = "load"
         \/ lock' \in {lock, IF lock = r THEN None ELSE lock} /\ run'[r].pc \in Resting
         \/ lock' = lock /\ run[r].pc \notin Resting
<1> USE DEF Resting
<1>1. CASE Acquire(r)
  BY <1>1 DEF Acquire, Lockable, Go, TypeInv, TypeOK, Run
<1>2. CASE AlreadyDone(r) \/ Complete(r)
  BY <1>2 DEF AlreadyDone, Complete, Leave, NoRun, Finished, Unlock, TypeInv, TypeOK
<1>3. CASE LoadFails(r) \/ Crash(r)
  BY <1>3 DEF LoadFails, Crash, Leave, NoRun, TypeInv, TypeOK
<1>4. CASE Stuck(r) \/ Fault(r)
  BY <1>4 DEF Stuck, Fault, Throw, Leave, NoRun, Unlock, TypeInv, TypeOK
<1>5. CASE Load(r) \/ NextStep(r) \/ CreateDdl(r) \/ CreateRow(r) \/ MigrateStart(r) \/ MigrateRun(r)
           \/ MigrateEnd(r) \/ Seed(r) \/ Brand(r) \/ Activate(r) \/ Record(r)
  BY <1>5 DEF Load, NextStep, CreateDdl, CreateRow, MigrateStart, MigrateRun, MigrateEnd,
              Seed, Brand, Fill, Activate, Record, At
<1> QED
  BY <1>1, <1>2, <1>3, <1>4, <1>5 DEF RunnerNext, RunnerStep

LEMMA LockInvStep ==
  ASSUME TenantsAssumption, Environment, TypeInv, LockInv, [Next]_vars
  PROVE  LockInv'
<1>1. CASE \E r \in Runners : RunnerNext(r)
  <2> PICK r \in Runners : RunnerNext(r)
    BY <1>1
  <2> QED
    BY OneMoves, RunnerAt, TenantsAssumption DEF LockInv, Resting
<1>2. CASE LockExpires
  BY <1>2, TenantsAssumption DEF LockExpires, LockInv, Resting, Environment, TypeInv, TypeOK
<1>3. CASE UNCHANGED <<run, lock>>
  BY <1>3 DEF LockInv
<1>4. CASE Conflict \/ StoreNext \/ DeleterNext \/ UNCHANGED vars
  <2>1. UNCHANGED <<run, lock>>
    BY <1>4 DEF Conflict, StoreNext, StatusRead, StatusWrite, Connect, Sweep, Upload, DeleterNext,
       DeleteStart, DeleteNext, RevokeAccess, PurgeStorage, DropDatabase, PurgeMaster, RemoveOrphans,
       Finalise, DeleteRecord, DeleteComplete, DeleteFails, DeleteCrash, runVars, vars
  <2> QED
    BY <1>3, <2>1
<1> QED
  BY <1>1, <1>2, <1>4 DEF Next

\* The steps before one, and where a runner is while it does it.
Before(step) ==
  CASE step = "CREATE_DATABASE" -> {}
    [] step = "RUN_MIGRATIONS" -> {"CREATE_DATABASE"}
    [] step = "SEED_DEFAULTS" -> {"CREATE_DATABASE", "RUN_MIGRATIONS"}
    [] step = "CONFIGURE_BRANDING" -> {"CREATE_DATABASE", "RUN_MIGRATIONS", "SEED_DEFAULTS"}
    [] OTHER -> {"CREATE_DATABASE", "RUN_MIGRATIONS", "SEED_DEFAULTS", "CONFIGURE_BRANDING"}

Parts(step) ==
  CASE step = "CREATE_DATABASE" -> {"createDdl", "createRow", "record"}
    [] step = "RUN_MIGRATIONS" -> {"migrateStart", "migrateRun", "migrateEnd", "record"}
    [] step = "SEED_DEFAULTS" -> {"seed", "record"}
    [] step = "CONFIGURE_BRANDING" -> {"brand", "record"}
    [] OTHER -> {"activate", "record"}

Prefixes == {Before(step) : step \in StepSet} \cup {StepSet}

LEMMA PrefixNames ==
  Prefixes = {{}, {"CREATE_DATABASE"}, {"CREATE_DATABASE", "RUN_MIGRATIONS"},
              {"CREATE_DATABASE", "RUN_MIGRATIONS", "SEED_DEFAULTS"},
              {"CREATE_DATABASE", "RUN_MIGRATIONS", "SEED_DEFAULTS", "CONFIGURE_BRANDING"}, StepSet}
<1>1. /\ Before("CREATE_DATABASE") = {}
      /\ Before("RUN_MIGRATIONS") = {"CREATE_DATABASE"}
      /\ Before("SEED_DEFAULTS") = {"CREATE_DATABASE", "RUN_MIGRATIONS"}
      /\ Before("CONFIGURE_BRANDING") = {"CREATE_DATABASE", "RUN_MIGRATIONS", "SEED_DEFAULTS"}
      /\ Before("ACTIVATE") = {"CREATE_DATABASE", "RUN_MIGRATIONS", "SEED_DEFAULTS", "CONFIGURE_BRANDING"}
  BY DEF Before
<1>2. {Before(step) : step \in StepSet}
        = {Before("CREATE_DATABASE"), Before("RUN_MIGRATIONS"), Before("SEED_DEFAULTS"),
           Before("CONFIGURE_BRANDING"), Before("ACTIVATE")}
  BY StepNames
<1> QED
  BY <1>1, <1>2 DEF Prefixes

\* The first step left of a prefix is the one it is before; done, it makes a prefix.
LEMMA PrefixNext ==
  ASSUME NEW d \in Prefixes
  PROVE  /\ d \subseteq StepSet
         /\ d # StepSet => Before(FirstLeft(ProvisionSteps, d)) = d
         /\ "ACTIVATE" \in d => d = StepSet
<1>1. d \subseteq StepSet /\ ("ACTIVATE" \in d => d = StepSet)
  BY PrefixNames, StepNames
<1>2. ASSUME d # StepSet PROVE Before(FirstLeft(ProvisionSteps, d)) = d
  <2>p. /\ ProvisionSteps[1] = "CREATE_DATABASE" /\ ProvisionSteps[2] = "RUN_MIGRATIONS"
        /\ ProvisionSteps[3] = "SEED_DEFAULTS" /\ ProvisionSteps[4] = "CONFIGURE_BRANDING"
        /\ ProvisionSteps[5] = "ACTIVATE"
    BY DEF ProvisionSteps
  <2>1. \E i \in 1..5 : ProvisionSteps[i] \notin d
    BY <1>1, <1>2, StepNames, <2>p
  <2>2. PICK i \in 1..5 : /\ FirstLeft(ProvisionSteps, d) = ProvisionSteps[i]
                          /\ ProvisionSteps[i] \notin d
                          /\ \A j \in 1..(i - 1) : ProvisionSteps[j] \in d
    BY <2>1, FirstLeftIs
  <2>3. CASE i = 1
    BY <2>2, <2>3, <2>p, <1>2, PrefixNames DEF Before
  <2>4. CASE i = 2
    <3>1. 1 \in 1..(i - 1)
      BY <2>4
    <3> QED
      BY <2>2, <2>4, <2>p, <3>1, <1>2, PrefixNames DEF Before
  <2>5. CASE i = 3
    <3>1. 2 \in 1..(i - 1)
      BY <2>5
    <3> QED
      BY <2>2, <2>5, <2>p, <3>1, <1>2, PrefixNames DEF Before
  <2>6. CASE i = 4
    <3>1. 3 \in 1..(i - 1)
      BY <2>6
    <3> QED
      BY <2>2, <2>6, <2>p, <3>1, <1>2, PrefixNames DEF Before
  <2>7. CASE i = 5
    <3>1. 4 \in 1..(i - 1)
      BY <2>7
    <3> QED
      BY <2>2, <2>7, <2>p, <3>1, <1>2, PrefixNames DEF Before
  <2> QED
    BY <2>3, <2>4, <2>5, <2>6, <2>7
<1> QED
  BY <1>1, <1>2

LEMMA PrefixGrows ==
  ASSUME NEW step \in StepSet
  PROVE  Before(step) \cup {step} \in Prefixes /\ Before(step) # StepSet
BY PrefixNames, StepNames DEF Before

\* A runner past its load has done what the job says, and is where its step is.
Past(r) == run[r].pc \notin Resting \cup {"load"}
Ordered(r) ==
  /\ Past(r) => run[r].done \in Prefixes /\ (job.status # "gone" => run[r].done = job.steps)
  /\ run[r].pc \in Working => /\ deletion.status = "none"
                             /\ run[r].done = Before(run[r].step)
                             /\ run[r].pc \in Parts(run[r].step)

OrderInv ==
  /\ job.steps \in Prefixes
  /\ job.status = "gone" => job.steps = {}
  /\ deletion.status = "none" => /\ job.status # "gone" /\ tenant # "gone"
                                 /\ deletion.steps = {} /\ deleter = NoDeleter
  /\ deletion.status # "none" => job.status = "gone" \/ job.steps = StepSet
  /\ \A r \in Runners : Ordered(r)

LEMMA OrderInvInit == ASSUME TenantsAssumption, Init PROVE LockInv /\ OrderInv
BY PrefixNames DEF Init, LockInv, OrderInv, Ordered, Past, NoRun, Working, RunStep, Resting

\* A runner that works: the tenant is there, and it is the only one.
LEMMA Alone ==
  ASSUME TenantsAssumption, LockInv, NEW r \in Runners, run[r].pc \notin Resting
  PROVE  \A q \in Runners \ {r} : run[q].pc \in Resting
BY DEF LockInv

\* A step of a runner leaves the others at rest, and what they are about.
LEMMA OrderedOthers ==
  ASSUME TenantsAssumption, TypeInv, LockInv, OrderInv, NEW r \in Runners, RunnerNext(r),
         NEW q \in Runners \ {r}, deletion' = deletion,
         \/ run[r].pc \notin Resting
         \/ job' = job
  PROVE  Ordered(q)'
<1>1. run'[q] = run[q]
  BY OneMoves
<1>2. CASE job' = job
  BY <1>1, <1>2 DEF OrderInv, Ordered, Past
<1>3. CASE run[r].pc \notin Resting
  <2>1. run'[q].pc \in Resting
    BY <1>1, <1>3, Alone
  <2> QED
    BY <2>1 DEF Ordered, Past, Resting, Working, RunStep
<1> QED
  BY <1>2, <1>3

LEMMA OrderRunner ==
  ASSUME TenantsAssumption, TypeInv, LockInv, OrderInv, NEW r \in Runners, RunnerNext(r)
  PROVE  OrderInv'
<1>d. deletion' = deletion /\ deleter' = deleter
  BY DEF RunnerNext, RunnerStep, Acquire, Load, AlreadyDone, LoadFails, NextStep, CreateDdl, CreateRow,
         MigrateStart, MigrateRun, MigrateEnd, Seed, Brand, Fill, Activate, Record, Complete,
         Stuck, Fault, Throw, Crash, deleteVars
<1>f. run[r] \in Run /\ run \in [Runners -> Run]
  BY DEF TypeInv, TypeOK
<1> USE DEF Working, RunStep, Resting
<1>1. CASE Acquire(r)
  <2>1. run'[r].pc = "load"
    BY <1>1, <1>f DEF Acquire, Go, Run
  <2>2. Ordered(r)'
    BY <2>1 DEF Ordered, Past
  <2>3. job' = job /\ tenant' = tenant
    BY <1>1 DEF Acquire, storeVars
  <2> QED
    BY <1>d, <2>2, <2>3, OrderedOthers DEF OrderInv
<1>2. CASE Load(r)
  <2>1. run'[r].pc = "next" /\ run'[r].done = job.steps
    BY <1>2, <1>f DEF Load, Run
  <2>2. job'.steps = job.steps /\ job'.status # "gone" /\ job.status # "gone" /\ tenant' = tenant
    BY <1>2 DEF Load, TypeInv, TypeOK, storeVars
  <2>3. Ordered(r)'
    BY <2>1, <2>2 DEF Ordered, Past, OrderInv
  <2>4. run[r].pc \notin Resting
    BY <1>2 DEF Load, At
  <2> QED
    BY <1>d, <2>2, <2>3, <2>4, OrderedOthers DEF OrderInv
<1>3. CASE AlreadyDone(r) \/ LoadFails(r) \/ Crash(r) \/ Complete(r) \/ Stuck(r) \/ Fault(r)
  <2>1. run'[r].pc \in Resting
    BY <1>3, <1>f DEF AlreadyDone, LoadFails, Crash, Complete, Stuck, Fault, Throw, Leave, NoRun, Finished
  <2>2. Ordered(r)'
    BY <2>1 DEF Ordered, Past
  <2>3. job'.steps = job.steps /\ (job'.status = "gone" <=> job.status = "gone") /\ tenant' = tenant
    BY <1>3 DEF AlreadyDone, LoadFails, Crash, Complete, Stuck, Fault, Throw, FailedJob,
                TypeInv, TypeOK, storeVars
  <2>4. run[r].pc \notin Resting
    <3>1. CASE Fault(r)
      BY <3>1, TenantsAssumption DEF Fault, TypeInv, Named
    <3> QED
      BY <1>3, <3>1 DEF AlreadyDone, LoadFails, Crash, Complete, Stuck, Impossible, At
  <2> QED
    BY <1>d, <2>2, <2>3, <2>4, OrderedOthers DEF OrderInv
<1>4. CASE NextStep(r)
  <2> DEFINE s == FirstLeft(ProvisionSteps, run[r].done)
  <2>1. run' = [run EXCEPT ![r].step = s, ![r].pc = Entry(s)]
    BY <1>4 DEF NextStep
  <2>2. /\ run[r].done \in Prefixes /\ run[r].done # StepSet /\ job.status # "gone"
        /\ run[r].done = job.steps
    BY <1>4 DEF NextStep, At, OrderInv, Ordered, Past
  <2>3. s \in StepSet /\ Before(s) = run[r].done
    BY <2>2, PrefixNext, NextTyped
  <2>4. Entry(s) \in Parts(s) /\ Entry(s) \in RunStep
    BY <2>3, StepNames DEF Entry, Parts
  <2> HIDE DEF s
  <2>5. run'[r].pc = Entry(s) /\ run'[r].step = s /\ run'[r].done = run[r].done
    BY <2>1, <1>f DEF Run
  <2>6. deletion.status = "none"
    BY <2>2 DEF OrderInv
  <2>7. job' = job /\ tenant' = tenant
    BY <1>4 DEF NextStep, storeVars
  <2>8. Ordered(r)'
    BY <1>d, <2>2, <2>3, <2>4, <2>5, <2>6, <2>7 DEF Ordered, Past
  <2> QED
    BY <1>d, <2>7, <2>8, OrderedOthers DEF OrderInv
<1>5. CASE CreateDdl(r) \/ CreateRow(r) \/ MigrateStart(r) \/ MigrateRun(r) \/ MigrateEnd(r)
           \/ Seed(r) \/ Brand(r) \/ Activate(r)
  <2>1. run'[r].done = run[r].done /\ run'[r].step = run[r].step
    BY <1>5, <1>f DEF CreateDdl, CreateRow, MigrateStart, MigrateRun, MigrateEnd, Seed, Brand, Fill,
                Activate, Go, Run
  <2>2. run[r].pc \in RunStep /\ run[r].step \in StepSet
    BY <1>5 DEF CreateDdl, CreateRow, MigrateStart, MigrateRun, MigrateEnd, Seed, Brand, Fill,
                Activate, At, TypeInv, Named
  <2>3. run'[r].pc \in Parts(run[r].step) /\ run'[r].pc \in Working
    <3>1. run[r].pc \in Parts(run[r].step)
      BY <2>2 DEF OrderInv, Ordered
    <3>2. \/ run[r].pc = "createDdl" /\ run'[r].pc = "createRow"
          \/ run[r].pc = "migrateStart" /\ run'[r].pc = "migrateRun"
          \/ run[r].pc = "migrateRun" /\ run'[r].pc = "migrateEnd"
          \/ run[r].pc \in RunStep /\ run'[r].pc = "record"
      BY <1>5, <1>f DEF CreateDdl, CreateRow, MigrateStart, MigrateRun, MigrateEnd, Seed, Brand, Fill,
                Activate, At, Go, Run
    <3> QED
      BY <2>2, <3>1, <3>2, StepNames DEF Parts
  <2>4. job' = job /\ (tenant' = "gone" => tenant = "gone")
    BY <1>5 DEF CreateDdl, CreateRow, MigrateStart, MigrateRun, MigrateEnd, Seed, Brand, Fill, Activate
  <2>5. Ordered(r)'
    BY <1>d, <2>1, <2>2, <2>3, <2>4 DEF Ordered, Past, OrderInv
  <2> QED
    BY <1>d, <2>4, <2>5, OrderedOthers DEF OrderInv
<1>6. CASE Record(r)
  <2>1. /\ run[r].step \in StepSet /\ run[r].done = Before(run[r].step) /\ deletion.status = "none"
        /\ run[r].pc \notin Resting /\ job.status # "gone" /\ tenant' = tenant
    BY <1>6 DEF Record, At, TypeInv, Named, OrderInv, Ordered, storeVars
  <2> PICK d \in Prefixes : d = run[r].done \cup {run[r].step}
    BY <2>1, PrefixGrows
  <2>2. run'[r].pc = "next" /\ run'[r].done = d
    BY <1>6, <1>f DEF Record, Run
  <2>3. job'.steps = d /\ job'.status = job.status
    BY <1>6 DEF Record, TypeInv, TypeOK
  <2>4. Ordered(r)'
    BY <2>2, <2>3 DEF Ordered, Past
  <2> QED
    BY <1>d, <2>1, <2>3, <2>4, OrderedOthers DEF OrderInv
<1> QED
  BY <1>1, <1>2, <1>3, <1>4, <1>5, <1>6 DEF RunnerNext, RunnerStep

LEMMA OrderDeleter ==
  ASSUME TenantsAssumption, Environment, TypeInv, LockInv, OrderInv, DeleterNext
  PROVE  OrderInv'
<1> USE DEF runVars, storeVars
<1>1. CASE DeleteStart /\ deletion.status = "none"
  <2>1. "ACTIVATE" \in job.steps /\ \A r \in Runners : run[r].pc \in Resting
    BY <1>1 DEF DeleteStart, MayDelete, Environment, Resting
  <2>2. job.steps = StepSet
    BY <2>1, PrefixNext DEF OrderInv
  <2>3. deletion'.status = "RUNNING" /\ UNCHANGED <<job, run>>
    BY <1>1 DEF DeleteStart, TypeInv, TypeOK
  <2> QED
    BY <2>1, <2>2, <2>3 DEF OrderInv, Ordered, Past, Resting, Working, RunStep
<1>2. CASE deletion.status # "none" /\ ~PurgeMaster
  <2>1. deletion'.status # "none" /\ UNCHANGED <<job, run>>
    BY <1>2 DEF DeleterNext, DeleteStart, DeleteNext, RevokeAccess, PurgeStorage, DropDatabase,
                RemoveOrphans, Finalise, DeleteRecord, DeleteComplete, DeleteFails, FailedDeletion,
                DeleteCrash, TypeInv, TypeOK
  <2> QED
    BY <1>2, <2>1 DEF OrderInv, Ordered, Past
<1>3. CASE deletion.status # "none" /\ PurgeMaster
  <2>1. /\ job'.status = "gone" /\ job'.steps = {} /\ UNCHANGED <<run, deletion>>
    BY <1>3 DEF PurgeMaster
  <2> QED
    BY <1>3, <2>1, PrefixNames DEF OrderInv, Ordered, Past
<1>4. CASE deletion.status = "none" /\ ~DeleteStart
  <2>1. deleter = NoDeleter
    BY <1>4 DEF OrderInv
  <2> QED
    BY <1>4, <2>1 DEF DeleterNext, DeleteNext, RevokeAccess, PurgeStorage, DropDatabase, PurgeMaster,
                RemoveOrphans, Finalise, DeleteRecord, DeleteComplete, DeleteFails, DeleteCrash,
                Doing, NoDeleter
<1> QED
  BY <1>1, <1>2, <1>3, <1>4

LEMMA OrderInvStep ==
  ASSUME TenantsAssumption, Environment, TypeInv, LockInv, OrderInv, [Next]_vars
  PROVE  OrderInv'
<1>1. CASE \E r \in Runners : RunnerNext(r)
  BY <1>1, OrderRunner
<1>2. CASE DeleterNext
  BY <1>2, OrderDeleter
<1>3. CASE Conflict \/ LockExpires \/ StoreNext \/ UNCHANGED vars
  <2>1. UNCHANGED <<job, run, deletion, deleter>> /\ (tenant' = "gone" => tenant = "gone")
    BY <1>3, TenantsAssumption DEF Conflict, LockExpires, StoreNext, StatusRead, StatusWrite, Connect, Sweep,
                Upload, storeVars, runVars, deleteVars, vars, TypeInv, TypeOK
  <2> QED
    BY <2>1 DEF OrderInv, Ordered, Past
<1> QED
  BY <1>1, <1>2, <1>3 DEF Next

\* What a runner at work knows of the job, by where it is.
LEMMA AtWork ==
  ASSUME TypeInv, OrderInv, NEW r \in Runners, run[r].pc \in Working
  PROVE  /\ deletion.status = "none" /\ deletion.steps = {} /\ deleter = NoDeleter
         /\ job.status # "gone" /\ tenant # "gone"
         /\ run[r].step \in StepSet /\ job.steps = Before(run[r].step)
         /\ run[r].pc \in {"createDdl", "createRow"} => run[r].step = "CREATE_DATABASE"
         /\ run[r].pc \in {"migrateStart", "migrateRun", "migrateEnd"} => run[r].step = "RUN_MIGRATIONS"
         /\ run[r].pc = "seed" => run[r].step = "SEED_DEFAULTS"
         /\ run[r].pc = "brand" => run[r].step = "CONFIGURE_BRANDING"
         /\ run[r].pc = "activate" => run[r].step = "ACTIVATE"
<1>1. run[r].step \in StepSet /\ run[r].pc \in Parts(run[r].step) /\ run[r].done = Before(run[r].step)
  BY DEF TypeInv, Named, OrderInv, Ordered
<1>2. deletion.status = "none" /\ deletion.steps = {} /\ deleter = NoDeleter
      /\ job.status # "gone" /\ tenant # "gone"
  BY DEF OrderInv, Ordered
<1>3. job.steps = run[r].done
  BY <1>2 DEF OrderInv, Ordered, Past, Working, RunStep, Resting
<1> QED
  BY <1>1, <1>2, <1>3, StepNames DEF Parts

LEMMA BeforeNames ==
  ASSUME NEW step \in StepSet
  PROVE  /\ "CREATE_DATABASE" \in Before(step) <=> step # "CREATE_DATABASE"
         /\ "RUN_MIGRATIONS" \in Before(step) <=> step \notin {"CREATE_DATABASE", "RUN_MIGRATIONS"}
         /\ "SEED_DEFAULTS" \in Before(step) <=> step \in {"CONFIGURE_BRANDING", "ACTIVATE"}
BY StepNames DEF Before

-------------------------------------------------------------------------------
\* Passwords.

\* Until the first step is recorded nobody can connect; from then on the row and
\* the clients have the password of the role.  In between, the runner has it.
Created == "CREATE_DATABASE" \in job.steps
Knows(r) ==
  /\ run[r].pc = "createRow" => run[r].password = server.password
  /\ run[r].pc = "record" /\ run[r].step = "CREATE_DATABASE" => registry.password = server.password

PwInv ==
  /\ job.status = "gone" => registry.status = "none"
  /\ job.status # "gone" /\ ~Created => registry.status # "READY" /\ \A s \in Sides : pooled[s] = 0
  /\ server.exists => /\ Created => registry.password = server.password
                      /\ \A s \in Sides : pooled[s] \in {0, server.password}
  /\ \A r \in Runners : Knows(r)

LEMMA PwInvInit == ASSUME Init PROVE PwInv
BY DEF Init, PwInv, Created, Knows, NoServer, NoRegistry, NoRun

\* A client is opened with the password of a READY row the server knows.
LEMMA PoolAgrees ==
  ASSUME TypeInv, PwInv, NEW s \in Sides,
         \/ Evict(s)
         \/ Pooling(s) /\ Reaches(s)
         \/ UNCHANGED pooled
  PROVE  /\ server.exists => \A t \in Sides : pooled'[t] \in {0, server.password}
         /\ job.status # "gone" /\ ~Created => \A t \in Sides : pooled'[t] = 0
<1>1. pooled \in [Sides -> Password]
  BY DEF TypeInv, TypeOK
<1>2. CASE Evict(s)
  BY <1>1, <1>2 DEF Evict, PwInv
<1>3. CASE UNCHANGED pooled
  BY <1>3 DEF PwInv
<1>4. CASE Pooling(s) /\ Reaches(s)
  BY <1>1, <1>4 DEF Pooling, Reaches, CanConnect, PwInv
<1> QED
  BY <1>2, <1>3, <1>4

LEMMA PwRunner ==
  ASSUME TenantsAssumption, TypeInv, LockInv, OrderInv, PwInv, NEW r \in Runners, RunnerNext(r)
  PROVE  PwInv'
<1>f. run[r] \in Run /\ run \in [Runners -> Run] /\ SideOf(r) \in Sides
  BY DEF TypeInv, TypeOK, SideOf, Sides
<1>o. /\ \A q \in Runners \ {r} : run'[q] = run[q]
      /\ run[r].pc \notin Resting => \A q \in Runners \ {r} : run'[q].pc \in Resting
  BY OneMoves, Alone
<1>k. ASSUME run[r].pc \notin Resting \/ UNCHANGED <<server, registry>>, Knows(r)'
      PROVE  \A q \in Runners : Knows(q)'
  BY <1>o, <1>k DEF PwInv, Knows, Resting
<1> USE DEF Working, RunStep, Resting
<1>1. CASE Acquire(r) \/ Load(r) \/ AlreadyDone(r) \/ LoadFails(r) \/ NextStep(r) \/ Complete(r)
  <2>1. UNCHANGED <<registry, server, pooled>>
    BY <1>1 DEF Acquire, Load, AlreadyDone, LoadFails, NextStep, Complete, storeVars
  <2>2. job'.steps = job.steps /\ (job'.status = "gone" <=> job.status = "gone")
    BY <1>1 DEF Acquire, Load, AlreadyDone, LoadFails, NextStep, Complete, TypeInv, TypeOK
  <2>3. run'[r].pc \notin {"createRow", "record"}
    <3>1. CASE NextStep(r)
      <4>1. run'[r].pc = Entry(FirstLeft(ProvisionSteps, run[r].done))
        BY <3>1, <1>f DEF NextStep, Run
      <4> QED
        BY <4>1 DEF Entry
    <3> QED
      BY <1>1, <3>1, <1>f DEF Acquire, Load, AlreadyDone, LoadFails, Complete, Leave, NoRun, Finished, Go, Run
  <2>4. \A q \in Runners : Knows(q)'
    BY <2>1, <2>3, <1>k DEF Knows
  <2> QED
    BY <2>1, <2>2, <2>4 DEF PwInv, Created
<1>2. CASE Stuck(r) \/ Fault(r) \/ Crash(r)
  <2>1. /\ server' = server
        /\ pooled' = pooled \/ Evict(SideOf(r))
        /\ registry' = registry \/ (registry.status # "none" /\ registry' = [registry EXCEPT !.status = "FAILED"])
    BY <1>2 DEF Stuck, Fault, Crash, Throw
  <2>2. job'.steps = job.steps /\ (job'.status = "gone" <=> job.status = "gone")
    BY <1>2 DEF Stuck, Fault, Crash, Throw, FailedJob, TypeInv, TypeOK
  <2>3. run'[r].pc = "idle"
    BY <1>2, <1>f DEF Stuck, Fault, Crash, Throw, Leave, NoRun
  <2>4. run[r].pc \notin Resting
    <3>1. CASE Fault(r)
      BY <3>1, TenantsAssumption DEF Fault, TypeInv, Named
    <3> QED
      BY <1>2, <3>1 DEF Crash, Stuck, Impossible, At
  <2>5. \A q \in Runners : Knows(q)'
    BY <2>3, <2>4, <1>k DEF Knows
  <2>6. /\ server.exists => \A t \in Sides : pooled'[t] \in {0, server.password}
        /\ job.status # "gone" /\ ~Created => \A t \in Sides : pooled'[t] = 0
    BY <2>1, <1>f, PoolAgrees
  <2>7. registry'.password = registry.password /\ registry'.status \in {registry.status, "FAILED"}
        /\ (registry.status = "none" => registry'.status = "none")
    BY <2>1 DEF TypeInv, TypeOK
  <2> QED
    BY <2>1, <2>2, <2>5, <2>6, <2>7 DEF PwInv, Created
<1>3. CASE CreateDdl(r)
  <2>1. run[r].pc = "createDdl"
    BY <1>3 DEF CreateDdl, At
  <2>2. job.status # "gone" /\ ~Created
    BY <2>1, AtWork, BeforeNames DEF Created
  <2>3. UNCHANGED <<registry, pooled, job>> /\ server'.password = server.password + 1
        /\ run'[r].pc = "createRow" /\ run'[r].password = server.password + 1
    BY <1>3, <1>f DEF CreateDdl, Run, TypeInv, TypeOK
  <2>4. \A q \in Runners : Knows(q)'
    BY <2>1, <2>3, <1>k DEF Knows
  <2> QED
    BY <2>2, <2>3, <2>4 DEF PwInv, Created
<1>4. CASE CreateRow(r)
  <2>1. run[r].pc = "createRow"
    BY <1>4 DEF CreateRow, At
  <2>2. job.status # "gone" /\ ~Created /\ run[r].step = "CREATE_DATABASE"
    BY <2>1, AtWork, BeforeNames DEF Created
  <2>3. /\ UNCHANGED <<server, job>> /\ registry' = [status |-> "CREATING", password |-> run[r].password]
        /\ run'[r].pc = "record" /\ run'[r].step = run[r].step /\ Evict(SideOf(r))
    BY <1>4, <1>f DEF CreateRow, Go, Run
  <2>4. \A q \in Runners : Knows(q)'
    BY <2>1, <2>3, <1>k DEF Knows, PwInv
  <2>5. \A t \in Sides : pooled'[t] = 0
    BY <2>2, <2>3, <1>f, PoolAgrees
  <2> QED
    BY <2>2, <2>3, <2>4, <2>5 DEF PwInv, Created
<1>5. CASE MigrateStart(r) \/ MigrateRun(r) \/ MigrateEnd(r) \/ Seed(r) \/ Brand(r) \/ Activate(r)
  <2>1. run[r].pc \in RunStep \ {"createDdl", "createRow"}
    BY <1>5 DEF MigrateStart, MigrateRun, MigrateEnd, Seed, Brand, Fill, Activate, At
  <2>2. job.status # "gone" /\ Created /\ run[r].step # "CREATE_DATABASE"
    BY <2>1, AtWork, BeforeNames, StepNames DEF Created
  <2>3. /\ job' = job /\ server'.exists = server.exists /\ server'.password = server.password
        /\ registry'.password = registry.password
        /\ run'[r].step = run[r].step /\ run'[r].pc # "createRow"
    BY <1>5, <1>f DEF MigrateStart, MigrateRun, MigrateEnd, Seed, Brand, Fill, Activate, Go, Run,
                TypeInv, TypeOK
  <2>4. \A q \in Runners : Knows(q)'
    BY <2>1, <2>2, <2>3, <1>k DEF Knows
  <2>5. pooled' = pooled \/ (Pooling(SideOf(r)) /\ Reaches(SideOf(r)))
    BY <1>5 DEF MigrateStart, MigrateRun, MigrateEnd, Seed, Brand, Fill, Activate
  <2>6. server.exists => \A t \in Sides : pooled'[t] \in {0, server.password}
    BY <2>5, <1>f, PoolAgrees
  <2> QED
    BY <2>2, <2>3, <2>4, <2>6 DEF PwInv, Created
<1>6. CASE Record(r)
  <2>1. run[r].pc = "record"
    BY <1>6 DEF Record, At
  <2>2. job.status # "gone" /\ run[r].step \in StepSet /\ job.steps = Before(run[r].step)
    BY <2>1, AtWork
  <2>3. /\ UNCHANGED <<registry, server, pooled>> /\ job'.status = job.status
        /\ job'.steps = run[r].done \cup {run[r].step} /\ run'[r].pc = "next"
    BY <1>6, <1>f DEF Record, Run, storeVars, TypeInv, TypeOK
  <2>4. run[r].done = job.steps
    BY <2>1, <2>2 DEF OrderInv, Ordered, Past
  <2>5. Created' /\ (~Created => run[r].step = "CREATE_DATABASE")
    BY <2>2, <2>3, <2>4, BeforeNames DEF Created
  <2>6. \A q \in Runners : Knows(q)'
    BY <2>1, <2>3, <1>k DEF Knows
  <2>7. registry.password = server.password \/ ~server.exists
    BY <2>1, <2>5 DEF PwInv, Knows
  <2> QED
    BY <2>2, <2>3, <2>5, <2>6, <2>7 DEF PwInv, Created
<1> QED
  BY <1>1, <1>2, <1>3, <1>4, <1>5, <1>6 DEF RunnerNext, RunnerStep

LEMMA PwInvStep ==
  ASSUME TenantsAssumption, TypeInv, LockInv, OrderInv, PwInv, [Next]_vars
  PROVE  PwInv'
<1> USE DEF runVars, storeVars, deleteVars
<1>1. CASE \E r \in Runners : RunnerNext(r)
  BY <1>1, PwRunner
<1>2. CASE Conflict \/ LockExpires \/ UNCHANGED vars
  <2>1. UNCHANGED <<job, run, registry, server, pooled>>
    BY <1>2 DEF Conflict, LockExpires, vars
  <2> QED
    BY <2>1 DEF PwInv, Created, Knows
<1>3. CASE StoreNext
  <2>1. UNCHANGED <<job, run, registry, server>>
        /\ \E s \in Sides : Evict(s) \/ (Pooling(s) /\ Reaches(s)) \/ UNCHANGED pooled
    BY <1>3 DEF StoreNext, StatusRead, StatusWrite, Connect, Sweep, Upload, Reaches, Sides
  <2> PICK s \in Sides : Evict(s) \/ (Pooling(s) /\ Reaches(s)) \/ UNCHANGED pooled
    BY <2>1
  <2> QED
    BY <2>1, PoolAgrees DEF PwInv, Created, Knows
<1>4. CASE DeleterNext
  <2>1. CASE PurgeMaster
    <3>1. \A r \in Runners : run[r].pc \notin Working
      <4>1. deleter # NoDeleter
        BY <2>1 DEF PurgeMaster, Doing, NoDeleter
      <4> QED
        BY <4>1, AtWork
    <3> QED
      BY <2>1, <3>1 DEF PurgeMaster, PwInv, Created, Knows, NoRegistry, Working, RunStep
  <2>2. CASE DropDatabase
    <3>1. \A r \in Runners : run[r].pc \notin Working
      <4>1. deleter # NoDeleter
        BY <2>2 DEF DropDatabase, Doing, NoDeleter
      <4> QED
        BY <4>1, AtWork
    <3>2. "api" \in Sides /\ Evict("api")
      BY <2>2 DEF DropDatabase, Sides
    <3>3. job.status # "gone" /\ ~Created => \A t \in Sides : pooled'[t] = 0
      BY <3>2, PoolAgrees
    <3>4. UNCHANGED <<job, run, registry>> /\ ~server'.exists
      BY <2>2 DEF DropDatabase, NoServer
    <3> QED
      BY <3>1, <3>3, <3>4 DEF PwInv, Created, Knows, Working, RunStep
  <2>3. CASE ~PurgeMaster /\ ~DropDatabase
    <3>1. UNCHANGED <<job, run, registry, server>> /\ (Evict("api") \/ UNCHANGED pooled)
      BY <1>4, <2>3 DEF DeleterNext, DeleteStart, DeleteNext, RevokeAccess, PurgeStorage,
                RemoveOrphans, Finalise, DeleteRecord, DeleteComplete, DeleteFails, DeleteCrash
    <3>2. "api" \in Sides
      BY DEF Sides
    <3> QED
      BY <3>1, <3>2, PoolAgrees DEF PwInv, Created, Knows
  <2> QED
    BY <2>1, <2>2, <2>3
<1> QED
  BY <1>1, <1>2, <1>3, <1>4 DEF Next

\* While a run ends before its lock expires, createDatabase never leaves a READY
\* row or a pooled client with a password the role does not have: two callers,
\* crashes and retries between the DDL, the row and the eviction included.
THEOREM PasswordsAlwaysAgree ==
  ASSUME TenantsAssumption, Environment PROVE Spec => []PasswordsAgree
<1> DEFINE Inv == TypeInv /\ LockInv /\ OrderInv /\ PwInv
<1>1. Init => Inv
  BY TenantsAssumption, TypeInvInit, OrderInvInit, PwInvInit
<1>2. Inv /\ [Next]_vars => Inv'
  BY TenantsAssumption, Environment, TypeInvStep, LockInvStep, OrderInvStep, PwInvStep
<1>3. Inv => PasswordsAgree
  <2> SUFFICES ASSUME Inv PROVE PasswordsAgree
    OBVIOUS
  <2>1. registry.status = "READY" => Created
    BY DEF PwInv
  <2> QED
    BY <2>1 DEF PwInv, PasswordsAgree
<1> HIDE DEF Inv
<1> QED
  BY <1>1, <1>2, <1>3, PTL DEF Spec

-------------------------------------------------------------------------------
\* What the job records.

HoldInv ==
  deletion.status = "none" =>
    /\ \A step \in job.steps : Holds(step)
    /\ \A r \in Runners : /\ run[r].pc = "record" => Holds(run[r].step)
                          /\ run[r].pc = "createRow" => server.exists
                          /\ run[r].pc = "migrateEnd" => "schema" \in server.has

LEMMA HoldInvInit == ASSUME Init PROVE HoldInv
BY DEF Init, HoldInv, NoRun

\* Until a deletion starts, the deletion does nothing and nothing is undone.
LEMMA NothingUndone ==
  ASSUME TenantsAssumption, TypeInv, OrderInv, [Next]_vars, deletion'.status = "none"
  PROVE  /\ deletion.status = "none"
         /\ server.exists => server'.exists
         /\ server.has \subseteq server'.has
         /\ registry.status # "none" => registry'.status # "none"
         /\ tenant # "PROVISIONING" => tenant' # "PROVISIONING"
         /\ \A step \in StepSet : Holds(step) => Holds(step)'
<1> USE DEF runVars, storeVars, deleteVars
<1>1. ~DeleterNext /\ deletion' = deletion
  <2>1. CASE DeleterNext
    <3>1. CASE DeleteStart
      BY <3>1 DEF DeleteStart, TypeInv, TypeOK
    <3>2. CASE deletion.status = "none" /\ ~DeleteStart
      <4>1. deleter = NoDeleter
        BY <3>2 DEF OrderInv
      <4> QED
        BY <2>1, <3>2, <4>1 DEF DeleterNext, DeleteNext, RevokeAccess, PurgeStorage, DropDatabase,
            PurgeMaster, RemoveOrphans, Finalise, DeleteRecord, DeleteComplete, DeleteFails,
            DeleteCrash, Doing, NoDeleter
    <3>3. CASE deletion.status # "none"
      BY <2>1, <3>3 DEF DeleterNext, DeleteStart, DeleteNext, RevokeAccess, PurgeStorage, DropDatabase,
                PurgeMaster, RemoveOrphans, Finalise, DeleteRecord, DeleteComplete, DeleteFails,
                FailedDeletion, DeleteCrash, TypeInv, TypeOK
    <3> QED
      BY <3>1, <3>2, <3>3
  <2>2. CASE ~DeleterNext
    <3>1. ASSUME NEW r \in Runners, RunnerNext(r) PROVE deletion' = deletion
      BY <3>1 DEF RunnerNext, RunnerStep, Acquire, Load, AlreadyDone, LoadFails, NextStep, CreateDdl,
            CreateRow, MigrateStart, MigrateRun, MigrateEnd, Seed, Brand, Fill, Activate, Record,
            Complete, Stuck, Fault, Throw, Crash
    <3> QED
      BY <2>2, <3>1 DEF Next, Conflict, LockExpires, StoreNext, StatusRead, StatusWrite, Connect, Sweep,
            Upload, vars
  <2> QED
    BY <2>1, <2>2
<1>2. /\ server.exists => server'.exists
      /\ server.has \subseteq server'.has
      /\ registry.status # "none" => registry'.status # "none"
      /\ tenant # "PROVISIONING" => tenant' # "PROVISIONING"
  <2>1. CASE \E r \in Runners : RunnerNext(r)
    <3> PICK r \in Runners : RunnerNext(r)
      BY <2>1
    <3>1. CASE CreateDdl(r) \/ CreateRow(r) \/ MigrateStart(r) \/ MigrateRun(r) \/ MigrateEnd(r)
               \/ Seed(r) \/ Brand(r) \/ Activate(r)
      <4>1. /\ server.exists => server'.exists
            /\ server.has \subseteq server'.has
        <5>1. CASE CreateDdl(r)
          BY <5>1 DEF CreateDdl, TypeInv, TypeOK
        <5>2. CASE MigrateRun(r) \/ Seed(r) \/ Brand(r)
          BY <5>2 DEF MigrateRun, Seed, Brand, Fill, TypeInv, TypeOK
        <5> QED
          BY <3>1, <5>1, <5>2 DEF CreateRow, MigrateStart, MigrateEnd, Activate
      <4>2. registry.status # "none" => registry'.status # "none"
        BY <3>1 DEF CreateDdl, CreateRow, MigrateStart, MigrateRun, MigrateEnd, Seed, Brand, Fill,
                Activate, TypeInv, TypeOK
      <4>3. tenant' \in {tenant, "ACTIVE"}
        BY <3>1 DEF CreateDdl, CreateRow, MigrateStart, MigrateRun, MigrateEnd, Seed, Brand, Fill, Activate
      <4> QED
        BY <4>1, <4>2, <4>3
    <3>2. CASE Acquire(r) \/ Load(r) \/ AlreadyDone(r) \/ LoadFails(r) \/ NextStep(r) \/ Record(r)
               \/ Complete(r) \/ Crash(r)
      BY <3>2 DEF Acquire, Load, AlreadyDone, LoadFails, NextStep, Record, Complete, Crash
    <3>3. CASE Stuck(r) \/ Fault(r)
      BY <3>3 DEF Stuck, Fault, Throw, TypeInv, TypeOK
    <3> QED
      BY <3>1, <3>2, <3>3 DEF RunnerNext, RunnerStep
  <2>2. CASE Conflict \/ LockExpires \/ UNCHANGED vars
    BY <2>2 DEF Conflict, LockExpires, vars
  <2>3. CASE StoreNext
    BY <2>3, TenantsAssumption DEF StoreNext, StatusRead, StatusWrite, Connect, Sweep, Upload,
            TypeInv, TypeOK
  <2> QED
    BY <1>1, <2>1, <2>2, <2>3 DEF Next
<1> QED
  BY <1>1, <1>2 DEF Holds

LEMMA HoldRunner ==
  ASSUME TenantsAssumption, TypeInv, LockInv, OrderInv, HoldInv, NEW r \in Runners, RunnerNext(r),
         deletion'.status = "none"
  PROVE  HoldInv'
<1>s. /\ deletion.status = "none"
      /\ server.exists => server'.exists
      /\ server.has \subseteq server'.has
      /\ registry.status # "none" => registry'.status # "none"
      /\ \A step \in StepSet : Holds(step) => Holds(step)'
  BY NothingUndone DEF Next
<1>f. run[r] \in Run /\ run \in [Runners -> Run]
  BY DEF TypeInv, TypeOK
<1>t. job.steps \subseteq StepSet /\ job'.steps \subseteq StepSet
  BY RunnerTyped DEF TypeInv, TypeOK
<1>o. /\ \A q \in Runners \ {r} : run'[q] = run[q]
      /\ \A q \in Runners : run[q].pc = "record" => run[q].step \in StepSet
  BY OneMoves DEF TypeInv, Named, Working
<1> DEFINE Kept(q) == /\ run[q].pc = "record" => Holds(run[q].step)
                      /\ run[q].pc = "createRow" => server.exists
                      /\ run[q].pc = "migrateEnd" => "schema" \in server.has
<1>k. ASSUME Kept(r)' PROVE \A q \in Runners : Kept(q)'
  <2> SUFFICES ASSUME NEW q \in Runners \ {r} PROVE Kept(q)'
    BY <1>k
  <2>1. Kept(q) /\ run'[q] = run[q]
    BY <1>o, <1>s DEF HoldInv
  <2>2. run[q].pc = "record" => Holds(run[q].step)'
    BY <1>o, <1>s, <2>1
  <2>3. CASE run[q].pc = "record"
    <3>1. PICK s \in StepSet : s = run[q].step
      BY <1>o, <2>3
    <3>2. Holds(s)'
      BY <1>s, <2>1, <2>3, <3>1
    <3>3. s = run'[q].step
      BY <2>1, <3>1
    <3> QED
      BY <2>1, <2>3, <3>2, <3>3
  <2>4. CASE run[q].pc # "record"
    BY <1>s, <2>1, <2>4
  <2> QED
    BY <2>3, <2>4
<1>j. ASSUME job'.steps = job.steps, \A q \in Runners : Kept(q)' PROVE HoldInv'
  BY <1>j, <1>s, <1>t DEF HoldInv
<1> USE DEF Working, RunStep, Resting
<1>1. CASE ~(CreateDdl(r) \/ CreateRow(r) \/ MigrateStart(r) \/ MigrateRun(r) \/ MigrateEnd(r)
             \/ Seed(r) \/ Brand(r) \/ Activate(r) \/ Record(r))
  <2>1. job'.steps = job.steps
    BY <1>1 DEF RunnerNext, RunnerStep, Acquire, Load, AlreadyDone, LoadFails, NextStep, Complete,
                Stuck, Fault, Throw, FailedJob, Crash, TypeInv, TypeOK
  <2>2. run'[r].pc \notin {"createRow", "migrateEnd", "record"}
    <3>1. CASE NextStep(r)
      <4>1. run'[r].pc = Entry(FirstLeft(ProvisionSteps, run[r].done))
        BY <3>1, <1>f DEF NextStep, Run
      <4> QED
        BY <4>1 DEF Entry
    <3> QED
      BY <1>1, <3>1, <1>f DEF RunnerNext, RunnerStep, Acquire, Load, AlreadyDone, LoadFails, Complete,
            Stuck, Fault, Throw, Crash, Leave, NoRun, Finished, Go, Run
  <2>3. Kept(r)'
    BY <2>2
  <2> QED
    BY <2>1, <2>3, <1>k, <1>j
<1>2. CASE CreateDdl(r) \/ MigrateStart(r) \/ MigrateRun(r)
  <2>1. /\ job' = job /\ run'[r].pc \in {"createRow", "migrateRun", "migrateEnd"}
        /\ run'[r].pc = "createRow" => server'.exists
        /\ run'[r].pc = "migrateEnd" => "schema" \in server'.has
    <3>1. CASE CreateDdl(r)
      BY <3>1, <1>f DEF CreateDdl, Run, TypeInv, TypeOK
    <3>2. CASE MigrateStart(r)
      BY <3>2, <1>f DEF MigrateStart, Go, Run
    <3>3. CASE MigrateRun(r)
      BY <3>3, <1>f DEF MigrateRun, Go, Run, TypeInv, TypeOK
    <3> QED
      BY <1>2, <3>1, <3>2, <3>3
  <2>2. Kept(r)'
    BY <2>1
  <2> QED
    BY <2>1, <2>2, <1>k, <1>j
<1>3. CASE CreateRow(r) \/ MigrateEnd(r) \/ Seed(r) \/ Brand(r) \/ Activate(r)
  <2>1. job' = job /\ run'[r].pc = "record" /\ run'[r].step = run[r].step
    BY <1>3, <1>f DEF CreateRow, MigrateEnd, Seed, Brand, Fill, Activate, Go, Run
  <2> PICK s \in StepSet : s = run[r].step
    BY <1>3 DEF CreateRow, MigrateEnd, Seed, Brand, Fill, Activate, At, TypeInv, Named
  <2>2. Holds(s)'
    <3>1. CASE CreateRow(r)
      <4>1. run[r].pc = "createRow" /\ registry'.status = "CREATING" /\ server' = server
        BY <3>1 DEF CreateRow, At
      <4> QED
        BY <4>1, <1>s, AtWork DEF Holds, HoldInv
    <3>2. CASE MigrateEnd(r)
      <4>1. run[r].pc = "migrateEnd" /\ server' = server
        BY <3>2 DEF MigrateEnd, At
      <4> QED
        BY <4>1, <1>s, AtWork DEF Holds, HoldInv
    <3>3. CASE Seed(r) \/ Brand(r)
      <4>1. \/ run[r].pc = "seed" /\ "settings" \in server'.has
            \/ run[r].pc = "brand" /\ "branding" \in server'.has
        BY <3>3 DEF Seed, Brand, Fill, At, TypeInv, TypeOK
      <4> QED
        BY <4>1, AtWork DEF Holds
    <3>4. CASE Activate(r)
      <4>1. run[r].pc = "activate" /\ tenant' = "ACTIVE"
        BY <3>4 DEF Activate, At
      <4> QED
        BY <4>1, AtWork DEF Holds
    <3> QED
      BY <1>3, <3>1, <3>2, <3>3, <3>4
  <2>3. s = run'[r].step
    BY <2>1
  <2>4. Kept(r)'
    BY <2>1, <2>2, <2>3
  <2> QED
    BY <2>1, <2>4, <1>k, <1>j
<1>4. CASE Record(r)
  <2>1. /\ run[r].pc = "record" /\ run'[r].pc = "next" /\ job'.steps = run[r].done \cup {run[r].step}
    BY <1>4, <1>f DEF Record, At, Run, TypeInv, TypeOK
  <2>2. run[r].step \in StepSet /\ job.steps = run[r].done
    <3>1. job.status # "gone" /\ run[r].step \in StepSet
      BY <2>1, AtWork
    <3> QED
      BY <2>1, <3>1 DEF OrderInv, Ordered, Past
  <2>3. \A step \in job'.steps : step \in StepSet /\ Holds(step)
    BY <1>s, <1>t, <2>1, <2>2 DEF HoldInv
  <2>4. \A step \in job'.steps : Holds(step)'
    BY <1>s, <2>3
  <2>5. Kept(r)'
    BY <2>1
  <2>6. \A q \in Runners : Kept(q)'
    BY <2>5, <1>k
  <2> QED
    BY <2>4, <2>6 DEF HoldInv
<1> QED
  BY <1>1, <1>2, <1>3, <1>4

LEMMA HoldInvStep ==
  ASSUME TenantsAssumption, TypeInv, LockInv, OrderInv, HoldInv, [Next]_vars
  PROVE  HoldInv'
<1>1. CASE deletion'.status # "none"
  BY <1>1 DEF HoldInv
<1>2. CASE deletion'.status = "none" /\ \E r \in Runners : RunnerNext(r)
  BY <1>2, HoldRunner
<1>3. CASE deletion'.status = "none" /\ ~\E r \in Runners : RunnerNext(r)
  <2>1. /\ deletion.status = "none"
        /\ server.exists => server'.exists
        /\ server.has \subseteq server'.has
        /\ \A step \in StepSet : Holds(step) => Holds(step)'
    BY <1>3, NothingUndone
  <2>2. UNCHANGED <<job, run>>
    <3>1. CASE DeleterNext
      BY <1>3, <2>1, <3>1 DEF DeleterNext, DeleteStart, DeleteNext, RevokeAccess, PurgeStorage,
            DropDatabase, PurgeMaster, RemoveOrphans, Finalise, DeleteRecord, DeleteComplete,
            DeleteFails, DeleteCrash, OrderInv, Doing, NoDeleter, runVars
    <3> QED
      BY <1>3, <3>1 DEF Next, Conflict, LockExpires, StoreNext, StatusRead, StatusWrite, Connect, Sweep,
            Upload, runVars, storeVars, deleteVars, vars
  <2>3. job.steps \subseteq StepSet /\ \A q \in Runners : run[q].pc = "record" => run[q].step \in StepSet
    BY DEF TypeInv, TypeOK, Named, Working
  <2>4. \A step \in job.steps : Holds(step)'
    BY <2>1, <2>3 DEF HoldInv
  <2>5. ASSUME NEW q \in Runners, run[q].pc = "record" PROVE Holds(run[q].step)'
    <3>1. PICK s \in StepSet : s = run[q].step
      BY <2>3, <2>5
    <3>2. Holds(s)'
      BY <2>1, <2>5, <3>1 DEF HoldInv
    <3> QED
      BY <2>2, <3>1, <3>2
  <2> QED
    BY <2>1, <2>2, <2>4, <2>5 DEF HoldInv
<1> QED
  BY <1>1, <1>2, <1>3

\* Until the store is deleted, a step in completedSteps was done and is not
\* undone, so a resumed run may skip it: through crashes, faults and two callers.
THEOREM RecordedStepsAlwaysHold ==
  ASSUME TenantsAssumption, Environment PROVE Spec => []RecordedStepsHold
<1> DEFINE Inv == TypeInv /\ LockInv /\ OrderInv /\ HoldInv
<1>1. Init => Inv
  BY TenantsAssumption, TypeInvInit, OrderInvInit, HoldInvInit
<1>2. Inv /\ [Next]_vars => Inv'
  BY TenantsAssumption, Environment, TypeInvStep, LockInvStep, OrderInvStep, HoldInvStep
<1>3. Inv => RecordedStepsHold
  BY DEF HoldInv, RecordedStepsHold
<1> HIDE DEF Inv
<1> QED
  BY <1>1, <1>2, <1>3, PTL DEF Spec

-------------------------------------------------------------------------------
\* The deletion.

\* A step the deletion has done, recorded or about to be.
Reached(step) ==
  \/ step \in deletion.steps \cup deleter.done
  \/ deleter.pc = "record" /\ deleter.step = step

GoneInv ==
  /\ Reached("DROP_DATABASE") => ~server.exists
  /\ deleter.pc = "orphans" => /\ tenant = "gone" /\ registry = NoRegistry
                               /\ deleter.step = "PURGE_MASTER_RECORDS"
  /\ Reached("PURGE_MASTER_RECORDS") => tenant = "gone" /\ registry = NoRegistry /\ "accounts" \notin residue
  /\ Reached("FINALISE") => tenant = "gone" /\ ("objects" \in residue => LateUploads)
  /\ CompletedIsGone

\* deletedAt is what keeps a closed store closed: nobody clears it.
InertInv ==
  /\ Reached("REVOKE_ACCESS") => deletedAt
  /\ deleter.pc = "orphans" => deleter.step = "PURGE_MASTER_RECORDS"

LEMMA GoneInvInit == ASSUME Init PROVE GoneInv /\ InertInv
BY DEF Init, GoneInv, InertInv, Reached, CompletedIsGone, NoDeleter

\* Once the deletion has begun no runner works, and what it did stays done.
LEMMA Begun ==
  ASSUME TypeInv, OrderInv,
         deletion.status # "none" \/ deletion.steps # {} \/ deleter # NoDeleter
  PROVE  \A r \in Runners : run[r].pc \notin Working
BY AtWork

LEMMA StaysGone ==
  ASSUME TenantsAssumption, TypeInv, OrderInv, [Next]_vars,
         deletion.status # "none" \/ deletion.steps # {} \/ deleter # NoDeleter
  PROVE  /\ server'.exists => server.exists
         /\ tenant = "gone" => tenant' = "gone"
         /\ tenant = "gone" /\ ~LateUploads => residue' \subseteq residue
         /\ tenant = "gone" /\ registry = NoRegistry => registry' = NoRegistry
         /\ residue' \subseteq residue \cup {"objects"}
<1> USE DEF runVars, storeVars, deleteVars
<1>1. CASE \E r \in Runners : RunnerNext(r)
  <2> PICK r \in Runners : RunnerNext(r)
    BY <1>1
  <2>1. run[r].pc \notin Working
    BY Begun
  <2>2. UNCHANGED <<tenant, server, residue>> /\ (registry = NoRegistry => registry' = registry)
    <3>1. CASE Stuck(r) \/ Fault(r)
      BY <3>1 DEF Stuck, Fault, Throw, NoRegistry
    <3>2. CASE Acquire(r) \/ Load(r) \/ AlreadyDone(r) \/ LoadFails(r) \/ NextStep(r) \/ Complete(r) \/ Crash(r)
      BY <3>2 DEF Acquire, Load, AlreadyDone, LoadFails, NextStep, Complete, Crash
    <3>3. CASE CreateDdl(r) \/ CreateRow(r) \/ MigrateStart(r) \/ MigrateRun(r) \/ MigrateEnd(r)
               \/ Seed(r) \/ Brand(r) \/ Activate(r) \/ Record(r)
      BY <2>1, <3>3 DEF CreateDdl, CreateRow, MigrateStart, MigrateRun, MigrateEnd, Seed, Brand, Fill,
                Activate, Record, At, Working, RunStep
    <3> QED
      BY <3>1, <3>2, <3>3 DEF RunnerNext, RunnerStep
  <2> QED
    BY <2>2
<1>2. CASE Conflict \/ LockExpires \/ UNCHANGED vars
  BY <1>2 DEF Conflict, LockExpires, vars
<1>3. CASE StoreNext
  <2>1. UNCHANGED <<server, registry>>
    BY <1>3 DEF StoreNext, StatusRead, StatusWrite, Connect, Sweep, Upload
  <2>2. /\ tenant = "gone" => tenant' = "gone"
        /\ tenant = "gone" /\ ~LateUploads => residue' = residue
        /\ residue' \in {residue, residue \cup {"objects"}}
    BY <1>3 DEF StoreNext, StatusRead, StatusWrite, Connect, Sweep, Upload, Serves
  <2> QED
    BY <2>1, <2>2
<1>4. CASE DeleterNext
  <2>1. /\ tenant' = tenant \/ (tenant # "gone" /\ tenant' \in {"DELETING", "gone"})
        /\ server' \in {server, NoServer} /\ registry' \in {registry, NoRegistry}
        /\ residue' \subseteq residue
    BY <1>4 DEF DeleterNext, DeleteStart, DeleteNext, RevokeAccess, PurgeStorage, DropDatabase, PurgeMaster,
            RemoveOrphans, Finalise, DeleteRecord, DeleteComplete, DeleteFails, DeleteCrash
  <2> QED
    BY <2>1 DEF NoServer
<1> QED
  BY <1>1, <1>2, <1>3, <1>4 DEF Next

LEMMA StartedDeleter ==
  DeleteStart => deleter'.done = deletion.steps /\ deleter'.pc = "next"
BY DEF DeleteStart, NoDeleter

\* A step is reached by the action that does it.
LEMMA ReachedBy ==
  ASSUME TypeInv, [Next]_vars, NEW step \in DeletionSet, Reached(step)'
  PROVE  \/ Reached(step)
         \/ step = "REVOKE_ACCESS" /\ RevokeAccess
         \/ step = "PURGE_STORAGE" /\ PurgeStorage
         \/ step = "DROP_DATABASE" /\ DropDatabase
         \/ step = deleter.step /\ RemoveOrphans
         \/ step = "FINALISE" /\ Finalise
<1> USE DEF runVars, storeVars, deleteVars
<1>1. CASE UNCHANGED <<deletion, deleter>>
  BY <1>1 DEF Reached
<1>2. CASE RevokeAccess \/ PurgeStorage \/ DropDatabase \/ RemoveOrphans \/ Finalise
  BY <1>2 DEF RevokeAccess, PurgeStorage, DropDatabase, RemoveOrphans, Finalise, Doing, DeleteGo, Reached,
              TypeInv, TypeOK, Deleter
<1>3. CASE DeleteStart \/ DeleteComplete \/ DeleteFails \/ DeleteCrash
  <2>1. deletion'.steps = deletion.steps /\ deleter'.done \subseteq deletion.steps
        /\ deleter'.pc # "record"
    <3>1. deletion'.steps = deletion.steps
      BY <1>3 DEF DeleteStart, DeleteComplete, DeleteFails, DeleteCrash, FailedDeletion, TypeInv, TypeOK
    <3>2. deleter'.done \subseteq deletion.steps /\ deleter'.pc # "record"
      <4>1. CASE DeleteStart
        BY <4>1, StartedDeleter
      <4>2. CASE DeleteComplete \/ DeleteFails \/ DeleteCrash
        BY <4>2 DEF DeleteComplete, DeleteFails, DeleteCrash, NoDeleter
      <4> QED
        BY <1>3, <4>1, <4>2
    <3> QED
      BY <3>1, <3>2
  <2> QED
    BY <2>1 DEF Reached
<1>4. CASE DeleteNext \/ PurgeMaster
  <2>1. deletion' = deletion /\ deleter'.done = deleter.done /\ deleter'.pc # "record"
    BY <1>4 DEF DeleteNext, PurgeMaster, DeleteGo, TypeInv, TypeOK, Deleter
  <2> QED
    BY <2>1 DEF Reached
<1>5. CASE DeleteRecord
  <2>1. deletion'.steps = deleter.done \cup {deleter.step} /\ deleter'.pc # "record"
        /\ deleter'.done = deleter.done \cup {deleter.step} /\ deleter.pc = "record"
    BY <1>5 DEF DeleteRecord, TypeInv, TypeOK
  <2> QED
    BY <2>1 DEF Reached
<1>6. CASE \E r \in Runners : RunnerNext(r)
  <2>1. UNCHANGED <<deletion, deleter>>
    <3> PICK r \in Runners : RunnerNext(r)
      BY <1>6
    <3> QED
      BY DEF RunnerNext, RunnerStep, Acquire, Load, AlreadyDone, LoadFails, NextStep, CreateDdl,
            CreateRow, MigrateStart, MigrateRun, MigrateEnd, Seed, Brand, Fill, Activate, Record,
            Complete, Stuck, Fault, Throw, Crash
  <2> QED
    BY <1>1, <2>1
<1>7. CASE Conflict \/ LockExpires \/ StoreNext \/ UNCHANGED vars
  <2>1. UNCHANGED <<deletion, deleter>>
    BY <1>7 DEF Conflict, LockExpires, StoreNext, StatusRead, StatusWrite, Connect, Sweep, Upload, vars
  <2> QED
    BY <1>1, <2>1
<1> QED
  BY <1>2, <1>3, <1>4, <1>5, <1>6, <1>7 DEF Next, DeleterNext

\* Who has reached a step has begun.
LEMMA ReachedBegun ==
  ASSUME NEW step, Reached(step)
  PROVE  deletion.steps # {} \/ deleter # NoDeleter
BY DEF Reached, NoDeleter

LEMMA OrphansBy ==
  ASSUME TypeInv, [Next]_vars
  PROVE  /\ deleter'.pc = "orphans" => deleter' = deleter \/ PurgeMaster
         /\ deletion'.status = "COMPLETED" => deletion.status = "COMPLETED" \/ DeleteComplete
<1> USE DEF runVars, storeVars, deleteVars
<1>1. CASE UNCHANGED <<deletion, deleter>>
  BY <1>1
<1>2. CASE DeleterNext
  <2>1. CASE DeleteComplete \/ PurgeMaster
    BY <2>1 DEF DeleteComplete, PurgeMaster, NoDeleter
  <2>2. CASE DeleteStart \/ DeleteFails \/ DeleteCrash
    <3>1. deleter'.pc # "orphans"
      BY <2>2, StartedDeleter DEF DeleteFails, DeleteCrash, NoDeleter
    <3>2. deletion'.status \in {deletion.status, "RUNNING", "FAILED"}
      <4>1. CASE DeleteStart
        BY <4>1 DEF DeleteStart, TypeInv, TypeOK
      <4>2. CASE DeleteFails
        BY <4>2 DEF DeleteFails, FailedDeletion, TypeInv, TypeOK
      <4>3. CASE DeleteCrash
        BY <4>3 DEF DeleteCrash
      <4> QED
        BY <2>2, <4>1, <4>2, <4>3
    <3> QED
      BY <3>1, <3>2
  <2>3. CASE DeleteNext \/ RevokeAccess \/ PurgeStorage \/ DropDatabase \/ RemoveOrphans \/ Finalise
             \/ DeleteRecord
    <3>1. deletion'.status = deletion.status
      <4>1. CASE DeleteRecord
        BY <4>1 DEF DeleteRecord, TypeInv, TypeOK
      <4> QED
        BY <2>3, <4>1 DEF DeleteNext, RevokeAccess, PurgeStorage, DropDatabase, RemoveOrphans, Finalise
    <3>2. deleter'.pc # "orphans"
      <4>1. CASE DeleteRecord
        BY <4>1 DEF DeleteRecord
      <4>2. CASE DeleteNext
        BY <4>2 DEF DeleteNext, TypeInv, TypeOK, Deleter
      <4>3. CASE RevokeAccess \/ PurgeStorage \/ DropDatabase \/ RemoveOrphans \/ Finalise
        <5>1. DeleteGo("record")
          BY <4>3 DEF RevokeAccess, PurgeStorage, DropDatabase, RemoveOrphans, Finalise
        <5> QED
          BY <5>1 DEF DeleteGo, TypeInv, TypeOK, Deleter
      <4> QED
        BY <2>3, <4>1, <4>2, <4>3
    <3> QED
      BY <3>1, <3>2
  <2> QED
    BY <1>2, <2>1, <2>2, <2>3 DEF DeleterNext
<1>3. CASE \E r \in Runners : RunnerNext(r)
  <2>1. UNCHANGED <<deletion, deleter>>
    <3> PICK r \in Runners : RunnerNext(r)
      BY <1>3
    <3> QED
      BY DEF RunnerNext, RunnerStep, Acquire, Load, AlreadyDone, LoadFails, NextStep, CreateDdl,
            CreateRow, MigrateStart, MigrateRun, MigrateEnd, Seed, Brand, Fill, Activate, Record,
            Complete, Stuck, Fault, Throw, Crash
  <2> QED
    BY <1>1, <2>1
<1>4. CASE Conflict \/ LockExpires \/ StoreNext \/ UNCHANGED vars
  <2>1. UNCHANGED <<deletion, deleter>>
    BY <1>4 DEF Conflict, LockExpires, StoreNext, StatusRead, StatusWrite, Connect, Sweep, Upload, vars
  <2> QED
    BY <1>1, <2>1
<1> QED
  BY <1>2, <1>3, <1>4 DEF Next

LEMMA GoneInvStep ==
  ASSUME TenantsAssumption, TypeInv, OrderInv, GoneInv, [Next]_vars
  PROVE  GoneInv'
<1> DEFINE Began == deletion.status # "none" \/ deletion.steps # {} \/ deleter # NoDeleter
<1>s. Began => /\ server'.exists => server.exists
               /\ tenant = "gone" => tenant' = "gone"
               /\ tenant = "gone" /\ ~LateUploads => residue' \subseteq residue
               /\ residue' \subseteq residue \cup {"objects"}
               /\ tenant = "gone" /\ registry = NoRegistry => registry' = NoRegistry
  BY StaysGone
<1>o. RemoveOrphans => /\ tenant = "gone" /\ registry = NoRegistry
                       /\ deleter.step = "PURGE_MASTER_RECORDS"
                       /\ UNCHANGED <<tenant, registry>> /\ residue' = residue \ {"accounts"}
  BY DEF RemoveOrphans, GoneInv, storeVars
<1>1. ASSUME Reached("DROP_DATABASE")' PROVE ~server'.exists
  <2>1. Reached("DROP_DATABASE") \/ DropDatabase
    BY <1>1, <1>o, ReachedBy, StepNames
  <2>2. CASE DropDatabase
    BY <2>2 DEF DropDatabase, NoServer
  <2>3. CASE Reached("DROP_DATABASE")
    BY <2>3, <1>s, ReachedBegun DEF GoneInv
  <2> QED
    BY <2>1, <2>2, <2>3
<1>2. ASSUME deleter'.pc = "orphans"
      PROVE  tenant' = "gone" /\ registry' = NoRegistry /\ deleter'.step = "PURGE_MASTER_RECORDS"
  <2>1. CASE PurgeMaster
    BY <2>1 DEF PurgeMaster, Doing, DeleteGo, TypeInv, TypeOK, Deleter
  <2>2. CASE deleter' = deleter
    BY <1>2, <2>2, <1>s DEF GoneInv, NoDeleter
  <2> QED
    BY <1>2, <2>1, <2>2, OrphansBy
<1>3. ASSUME Reached("PURGE_MASTER_RECORDS")'
      PROVE  tenant' = "gone" /\ registry' = NoRegistry /\ "accounts" \notin residue'
  <2>1. Reached("PURGE_MASTER_RECORDS") \/ RemoveOrphans
    BY <1>3, ReachedBy, StepNames
  <2>2. CASE RemoveOrphans
    BY <2>2, <1>o
  <2>3. CASE Reached("PURGE_MASTER_RECORDS")
    BY <2>3, <1>s, ReachedBegun DEF GoneInv
  <2> QED
    BY <2>1, <2>2, <2>3
<1>4. ASSUME Reached("FINALISE")'
      PROVE  tenant' = "gone" /\ ("objects" \in residue' => LateUploads)
  <2>1. Reached("FINALISE") \/ Finalise
    BY <1>4, <1>o, ReachedBy, StepNames
  <2>2. CASE Finalise
    BY <2>2 DEF Finalise, Finalises, storeVars
  <2>3. CASE Reached("FINALISE")
    BY <2>3, <1>s, ReachedBegun DEF GoneInv
  <2> QED
    BY <2>1, <2>2, <2>3
<1>5. CompletedIsGone'
  <2> SUFFICES ASSUME deletion'.status = "COMPLETED"
               PROVE  /\ tenant' = "gone" /\ registry' = NoRegistry /\ ~server'.exists
                      /\ "accounts" \notin residue' /\ ("objects" \in residue' => LateUploads)
    BY DEF CompletedIsGone
  <2>1. CASE deletion.status = "COMPLETED"
    <3>1. /\ tenant = "gone" /\ registry = NoRegistry /\ ~server.exists
          /\ "accounts" \notin residue /\ ("objects" \in residue => LateUploads)
      BY <2>1 DEF GoneInv, CompletedIsGone
    <3> QED
      BY <2>1, <3>1, <1>s
  <2>2. CASE DeleteComplete
    <3>1. \A step \in DeletionSet : Reached(step)
      BY <2>2 DEF DeleteComplete, Reached
    <3>2. tenant = "gone" /\ registry = NoRegistry /\ ~server.exists
          /\ ("objects" \in residue => LateUploads) /\ "accounts" \notin residue
      BY <3>1, StepNames DEF GoneInv
    <3> QED
      BY <2>2, <3>2 DEF DeleteComplete, storeVars
  <2> QED
    BY <2>1, <2>2, OrphansBy
<1> QED
  BY <1>1, <1>2, <1>3, <1>4, <1>5 DEF GoneInv

LEMMA NeverUnmarked ==
  ASSUME TypeInv, [Next]_vars, deletedAt
  PROVE  deletedAt'
<1> USE DEF runVars, storeVars, deleteVars
<1>1. CASE \E r \in Runners : RunnerNext(r)
  <2> PICK r \in Runners : RunnerNext(r)
    BY <1>1
  <2> QED
    BY DEF RunnerNext, RunnerStep, Acquire, Load, AlreadyDone, LoadFails, NextStep, CreateDdl,
          CreateRow, MigrateStart, MigrateRun, MigrateEnd, Seed, Brand, Fill, Activate, Record,
          Complete, Stuck, Fault, Throw, Crash
<1>2. CASE Conflict \/ LockExpires \/ StoreNext \/ UNCHANGED vars
  BY <1>2 DEF Conflict, LockExpires, StoreNext, StatusRead, StatusWrite, Connect, Sweep, Upload, vars
<1>3. CASE DeleterNext
  BY <1>3 DEF DeleterNext, DeleteStart, DeleteNext, RevokeAccess, Marked, PurgeStorage, DropDatabase,
          PurgeMaster, RemoveOrphans, Finalise, DeleteRecord, DeleteComplete, DeleteFails, DeleteCrash
<1> QED
  BY <1>1, <1>2, <1>3 DEF Next

LEMMA InertInvStep ==
  ASSUME TypeInv, InertInv, [Next]_vars
  PROVE  InertInv'
<1>1. RemoveOrphans => deleter.step = "PURGE_MASTER_RECORDS"
  BY DEF RemoveOrphans, InertInv
<1>2. ASSUME Reached("REVOKE_ACCESS")' PROVE deletedAt'
  <2>1. Reached("REVOKE_ACCESS") \/ RevokeAccess
    BY <1>1, <1>2, ReachedBy, StepNames
  <2>2. RevokeAccess => deletedAt'
    BY DEF RevokeAccess, Marked
  <2> QED
    BY <2>1, <2>2, NeverUnmarked DEF InertInv
<1>3. ASSUME deleter'.pc = "orphans" PROVE deleter'.step = "PURGE_MASTER_RECORDS"
  <2>1. PurgeMaster => deleter'.step = "PURGE_MASTER_RECORDS"
    BY DEF PurgeMaster, Doing, DeleteGo, TypeInv, TypeOK, Deleter
  <2> QED
    BY <1>3, <2>1, OrphansBy DEF InertInv
<1> QED
  BY <1>2, <1>3 DEF InertInv

\* A deletion that starts when provisioning is over and reports COMPLETED left no
\* row, no registry entry, no database, no account that only ran this store and
\* no object but one a presigned URL put there late, whichever of its steps
\* failed, was retried or died half way.
THEOREM CompletedIsAlwaysGone ==
  ASSUME TenantsAssumption, Environment PROVE Spec => []CompletedIsGone
<1> DEFINE Inv == TypeInv /\ LockInv /\ OrderInv /\ GoneInv
<1>1. Init => Inv
  BY TenantsAssumption, TypeInvInit, OrderInvInit, GoneInvInit
<1>2. Inv /\ [Next]_vars => Inv'
  BY TenantsAssumption, Environment, TypeInvStep, LockInvStep, OrderInvStep, GoneInvStep
<1>3. Inv => CompletedIsGone
  BY DEF GoneInv
<1> HIDE DEF Inv
<1> QED
  BY <1>1, <1>2, <1>3, PTL DEF Spec

\* A store whose access a deletion recorded as revoked never serves again:
\* whatever status staff set, whether or not a run of provision activates it
\* after that, outlasts its lock or overlaps the deletion, and however often the
\* deletion fails.
THEOREM AlwaysInert == ASSUME TenantsAssumption PROVE Spec => []StaysInert
<1> DEFINE Inv == TypeInv /\ InertInv
<1>1. Init => Inv
  BY TenantsAssumption, TypeInvInit, GoneInvInit
<1>2. Inv /\ [Next]_vars => Inv'
  BY TenantsAssumption, TypeInvStep, InertInvStep
<1>3. Inv => StaysInert
  BY DEF InertInv, StaysInert, Reached, Serves
<1> HIDE DEF Inv
<1> QED
  BY <1>1, <1>2, <1>3, PTL DEF Spec

===============================================================================
