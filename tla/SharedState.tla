----------------------------- MODULE SharedState -----------------------------
(****************************************************************************)
(* The shared memory through which the ptp4l processes of the domains of a  *)
(* hot standby system exchange state (servo.c).  The three regions follow   *)
(* one protocol, each with a semaphore of its own; a behaviour is about one *)
(* of them.  slave_servo_stable has a second field, the state of the Sync   *)
(* messages.                                                                *)
(*                                                                          *)
(* A process opens the region by name, creates and initializes it if there  *)
(* is none, or else waits for the creator, and then updates and reads it    *)
(* under a process-shared semaphore.  Processes crash at any point and are  *)
(* started again; nothing ever removes the region, whose name and contents  *)
(* outlive every process.                                                   *)
(****************************************************************************)
EXTENDS Naturals

CONSTANTS
    Procs,     \* the processes
    Domains,   \* PTP domain numbers
    Flags,     \* values of the shared flag
    MaxPolls,  \* MAX_INIT_WAIT_MS / INIT_POLL_INTERVAL
    NoDomain   \* the domain number -1 of a fresh region

ASSUME MaxPollsAssumption == MaxPolls \in Nat
ASSUME NoDomainAssumption == NoDomain \notin Domains /\ 0 \in Flags /\ 1 \in Flags

Regions == {"servo_state", "master_restart", "slave_servo_stable"}

VARIABLES
    region,   \* the region in question
    exists,   \* the name is bound to an object
    sized,    \* ftruncate() gave the object its size
    shm,      \* the contents, see ShmType
    pc,       \* where each process is
    polls,    \* retry_count of a waiting process
    arg,      \* the arguments of the call a process is in
    last      \* history: the last <<flag, domain>> completely written

shmvars == <<region, exists, sized, shm, pc, polls, arg, last>>

ShmType ==
    [init_complete : BOOLEAN, initialized : BOOLEAN, flag : Flags,
     domain_id : Domains \cup {NoDomain}, sync_received : Flags,
     sync_domain_id : Domains \cup {NoDomain}, mutex : {0, 1}]

\* The contents after memset() and the assignments of the creator.  Before them
\* the object reads as zero; only init_complete and mutex are looked at then.
Zeroed == [init_complete |-> FALSE, initialized |-> FALSE, flag |-> 0,
           domain_id |-> NoDomain, sync_received |-> 0,
           sync_domain_id |-> NoDomain, mutex |-> 0]

Creating == {"truncate", "clear", "sem_init", "publish"}
Critical == {"write_flag", "write_domain", "post", "read_domain", "read_flag",
             "write_sync", "write_sync_domain", "read_sync"}
Locking  == {"update", "read", "sync_update", "sync_read"}
PCs == {"stopped", "open", "create", "reopen", "poll", "failed", "sigbus", "attached"}
         \cup Creating \cup Locking \cup Critical

Go(q, label) == pc' = [pc EXCEPT ![q] = label] /\ UNCHANGED region

-----------------------------------------------------------------------------
ShmInit ==
    /\ region \in Regions
    /\ exists = FALSE /\ sized = FALSE /\ shm = Zeroed
    /\ pc = [q \in Procs |-> "stopped"]
    /\ polls = [q \in Procs |-> 0]
    /\ arg = [q \in Procs |-> <<0, NoDomain>>]
    /\ last = <<0, NoDomain>>

Start(q) ==
    /\ pc[q] = "stopped" /\ Go(q, "open")
    /\ UNCHANGED <<exists, sized, shm, polls, arg, last>>

\* shm_open(O_RDWR), and mmap() of a region that is there; both may fail
Open(q) ==
    /\ pc[q] = "open"
    /\ \/ Go(q, IF exists THEN "poll" ELSE "create")
       \/ Go(q, "failed")
    /\ polls' = [polls EXCEPT ![q] = 0]
    /\ UNCHANGED <<exists, sized, shm, arg, last>>

\* Mutant: O_CREAT without O_EXCL.
CreateShared(q) ==
    /\ pc[q] = "create"
    /\ exists' = TRUE /\ Go(q, "truncate")
    /\ UNCHANGED <<sized, shm, polls, arg, last>>

\* shm_open(O_CREAT | O_EXCL)
Create(q) ==
    /\ pc[q] = "create"
    /\ \/ exists' = TRUE /\ Go(q, IF exists THEN "reopen" ELSE "truncate")
       \/ UNCHANGED exists /\ Go(q, "failed")
    /\ UNCHANGED <<sized, shm, polls, arg, last>>

\* The second shm_open(O_RDWR), after EEXIST, and mmap(); both may fail
Reopen(q) ==
    /\ pc[q] = "reopen"
    /\ \/ exists /\ Go(q, "poll")
       \/ Go(q, "failed")
    /\ UNCHANGED <<exists, sized, shm, polls, arg, last>>

\* ftruncate() and mmap() of the creator, which may fail
Truncate(q) ==
    /\ pc[q] = "truncate"
    /\ \/ sized' = TRUE /\ Go(q, "clear")
       \/ sized' \in {sized, TRUE} /\ Go(q, "failed")
    /\ UNCHANGED <<exists, shm, polls, arg, last>>

\* memset() and the field assignments
Clear(q) ==
    /\ pc[q] = "clear"
    /\ shm' = Zeroed
    /\ Go(q, "sem_init")
    /\ UNCHANGED <<exists, sized, polls, arg, last>>

SemInit(q) ==
    /\ pc[q] = "sem_init"
    /\ \/ shm' = [shm EXCEPT !.mutex = 1] /\ Go(q, "publish")
       \/ UNCHANGED shm /\ Go(q, "failed")
    /\ UNCHANGED <<exists, sized, polls, arg, last>>

\* init_complete = SHM_INIT_MAGIC after the memory barrier
Publish(q) ==
    /\ pc[q] = "publish"
    /\ shm' = [shm EXCEPT !.init_complete = TRUE]
    /\ Go(q, "attached")
    /\ UNCHANGED <<exists, sized, polls, arg, last>>

\* Mutant: retry_count is not counted.
PollForever(q) ==
    /\ pc[q] = "poll"
    /\ \/ ~sized /\ Go(q, "sigbus")
       \/ sized /\ shm.init_complete /\ Go(q, "attached")
    /\ UNCHANGED <<exists, sized, shm, polls, arg, last>>

\* A process that did not create the region polls init_complete.  Reading a
\* mapped page beyond the end of the object raises SIGBUS.
PollInit(q) ==
    /\ pc[q] = "poll"
    /\ \/ ~sized /\ Go(q, "sigbus") /\ UNCHANGED polls
       \/ sized /\ shm.init_complete /\ Go(q, "attached") /\ UNCHANGED polls
       \/ /\ sized /\ ~shm.init_complete
          /\ IF polls[q] < MaxPolls
             THEN polls' = [polls EXCEPT ![q] = @ + 1] /\ UNCHANGED <<pc, region>>
             ELSE Go(q, "failed") /\ UNCHANGED polls
    /\ UNCHANGED <<exists, sized, shm, arg, last>>

-----------------------------------------------------------------------------
\* A call with one of the arguments; the domain of a Sync state is not asked for.
Enter(q, op, args) ==
    /\ pc[q] = "attached" /\ Go(q, op)
    /\ \E a \in args : arg' = [arg EXCEPT ![q] = a]
    /\ UNCHANGED <<exists, sized, shm, polls, last>>

servo_state_shm_update(q) ==
    region = "servo_state" /\ Enter(q, "update", Flags \X Domains)
servo_state_shm_read(q) ==
    region = "servo_state" /\ Enter(q, "read", {0} \X Domains)
master_restart_shm_update(q) ==
    region = "master_restart" /\ Enter(q, "update", Flags \X Domains)
master_restart_shm_read(q) ==
    region = "master_restart" /\ Enter(q, "read", {0} \X Domains)
slave_servo_stable_shm_update(q) ==
    region = "slave_servo_stable" /\ Enter(q, "update", Flags \X Domains)
slave_servo_stable_shm_read(q) ==
    region = "slave_servo_stable" /\ Enter(q, "read", {0} \X Domains)
sync_state_shm_update(q) ==
    region = "slave_servo_stable" /\ Enter(q, "sync_update", Flags \X Domains)
sync_state_shm_read(q) ==
    region = "slave_servo_stable" /\ Enter(q, "sync_read", {<<0, NoDomain>>})

Call(q) ==
    \/ servo_state_shm_update(q) \/ servo_state_shm_read(q)
    \/ master_restart_shm_update(q) \/ master_restart_shm_read(q)
    \/ slave_servo_stable_shm_update(q) \/ slave_servo_stable_shm_read(q)
    \/ sync_state_shm_update(q) \/ sync_state_shm_read(q)

\* The end of a call.
Returns(q) == Go(q, "attached") /\ arg' = [arg EXCEPT ![q] = <<0, NoDomain>>]

\* sem_wait()
Lock(q) ==
    /\ shm.mutex > 0
    /\ shm' = [shm EXCEPT !.mutex = @ - 1]
    /\ \/ pc[q] = "update" /\ Go(q, "write_flag")
       \/ pc[q] = "read" /\ Go(q, "read_domain")
       \/ pc[q] = "sync_update" /\ Go(q, "write_sync")
       \/ pc[q] = "sync_read" /\ Go(q, "read_sync")
    /\ UNCHANGED <<exists, sized, polls, arg, last>>

\* Mutant: a call goes on although sem_wait() failed.
InterruptIgnored(q) ==
    /\ \/ pc[q] = "update" /\ Go(q, "write_flag")
       \/ pc[q] = "read" /\ Go(q, "read_domain")
    /\ UNCHANGED <<exists, sized, shm, polls, arg, last>>

\* A signal ends sem_wait() with EINTR, and the call fails.
Interrupt(q) ==
    /\ pc[q] \in Locking /\ Returns(q)
    /\ UNCHANGED <<exists, sized, shm, polls, last>>

\* The assignments of an update; domain_id and initialized are looked at together.
WriteFlag(q) ==
    /\ pc[q] = "write_flag"
    /\ shm' = [shm EXCEPT !.flag = arg[q][1]]
    /\ Go(q, "write_domain")
    /\ UNCHANGED <<exists, sized, polls, arg, last>>

WriteDomain(q) ==
    /\ pc[q] = "write_domain"
    /\ shm' = [shm EXCEPT !.domain_id = arg[q][2], !.initialized = TRUE]
    /\ last' = arg[q]
    /\ Go(q, "post")
    /\ UNCHANGED <<exists, sized, polls, arg>>

\* Mutants: the early return posts, and the common exit posts again; the
\* domain is not compared.
ReadDomainPostsTwice(q) ==
    /\ pc[q] = "read_domain"
    /\ IF shm.initialized /\ shm.domain_id = arg[q][2]
       THEN Go(q, "read_flag") /\ UNCHANGED shm
       ELSE Go(q, "post") /\ shm' = [shm EXCEPT !.mutex = @ + 1]
    /\ UNCHANGED <<exists, sized, polls, arg, last>>

ReadAnyDomain(q) ==
    /\ pc[q] = "read_domain"
    /\ Go(q, IF shm.initialized THEN "read_flag" ELSE "post")
    /\ UNCHANGED <<exists, sized, shm, polls, arg, last>>

\* A read: another domain's state is not returned.
ReadDomain(q) ==
    /\ pc[q] = "read_domain"
    /\ Go(q, IF shm.initialized /\ shm.domain_id = arg[q][2]
             THEN "read_flag" ELSE "post")
    /\ UNCHANGED <<exists, sized, shm, polls, arg, last>>

ReadFlag(q) ==
    /\ pc[q] = "read_flag"
    /\ Go(q, "post")
    /\ UNCHANGED <<exists, sized, shm, polls, arg, last>>

\* sync_state_shm_update()
WriteSync(q) ==
    /\ pc[q] = "write_sync"
    /\ shm' = [shm EXCEPT !.sync_received = arg[q][1]]
    /\ Go(q, "write_sync_domain")
    /\ UNCHANGED <<exists, sized, polls, arg, last>>

WriteSyncDomain(q) ==
    /\ pc[q] = "write_sync_domain"
    /\ shm' = [shm EXCEPT !.sync_domain_id = arg[q][2]]
    /\ Go(q, "post")
    /\ UNCHANGED <<exists, sized, polls, arg, last>>

\* sync_state_shm_read(): returns whatever is there
ReadSync(q) ==
    /\ pc[q] = "read_sync"
    /\ Go(q, "post")
    /\ UNCHANGED <<exists, sized, shm, polls, arg, last>>

Post(q) ==
    /\ pc[q] = "post"
    /\ shm' = [shm EXCEPT !.mutex = @ + 1]
    /\ Returns(q)
    /\ UNCHANGED <<exists, sized, polls, last>>

\* Nothing of the process is left; what it wrote stays.
Ends(q) ==
    /\ Go(q, "stopped")
    /\ polls' = [polls EXCEPT ![q] = 0] /\ arg' = [arg EXCEPT ![q] = <<0, NoDomain>>]
    /\ UNCHANGED <<exists, sized, shm, last>>

\* servo_state_shm_destroy() and the others: sem_destroy() does nothing in glibc,
\* and the region stays.
Destroy(q) ==
    /\ pc[q] = "attached" /\ Ends(q)

\* A process that could not attach goes on without the region until it ends.
Exit(q) ==
    /\ pc[q] \in {"failed", "sigbus"} /\ Ends(q)

Crash(q) ==
    /\ pc[q] # "stopped" /\ Ends(q)

Attach(q) ==
    \/ Start(q) \/ Open(q) \/ Create(q) \/ Reopen(q) \/ Truncate(q)
    \/ Clear(q) \/ SemInit(q) \/ Publish(q) \/ PollInit(q)

servo_state_shm_create(q) == region = "servo_state" /\ Attach(q)
master_restart_shm_create(q) == region = "master_restart" /\ Attach(q)
slave_servo_stable_shm_create(q) == region = "slave_servo_stable" /\ Attach(q)

shm_create(q) ==
    \/ servo_state_shm_create(q) \/ master_restart_shm_create(q)
    \/ slave_servo_stable_shm_create(q)

Access(q) ==
    \/ Lock(q) \/ WriteFlag(q) \/ WriteDomain(q) \/ ReadDomain(q)
    \/ ReadFlag(q) \/ WriteSync(q) \/ WriteSyncDomain(q) \/ ReadSync(q) \/ Post(q)

Step(q) == \/ shm_create(q) \/ Call(q) \/ Access(q)
           \/ Interrupt(q) \/ Destroy(q) \/ Exit(q)

ShmNext == \E q \in Procs : Step(q) \/ Crash(q)

ShmSpec == ShmInit /\ [][ShmNext]_shmvars

\* Each process runs, and a semaphore that is posted again and again does not
\* pass one waiter over for ever.
ShmFairSpec ==
    /\ ShmSpec
    /\ \A q \in Procs : /\ WF_shmvars(Attach(q))
                        /\ SF_shmvars(Lock(q)) /\ WF_shmvars(Access(q))

-----------------------------------------------------------------------------
\* The types; the semaphore is 0 or 1 (sem_init(), sem_post()).
ShmTypeOK ==
    /\ region \in Regions /\ exists \in BOOLEAN /\ sized \in BOOLEAN
    /\ shm \in ShmType
    /\ pc \in [Procs -> PCs]
    /\ polls \in [Procs -> 0..MaxPolls]
    /\ arg \in [Procs -> Flags \X (Domains \cup {NoDomain})]
    /\ last \in Flags \X (Domains \cup {NoDomain})

\* One process at a time is between sem_wait() and sem_post(), whatever the
\* order in which processes open, create, crash and restart.
Mutex ==
    \A q, r \in Procs : pc[q] \in Critical /\ pc[r] \in Critical => q = r

\* The region is initialized once, before any process uses it: the semaphore
\* that a process is about to wait for is never initialized again under it.
InitializedOnce ==
    \A q \in Procs : pc[q] \in {"attached"} \cup Locking \cup Critical =>
        shm.init_complete /\ \A r \in Procs : pc[r] \notin Creating

\* A successful servo_state_shm_read(), or of another region, returns a flag that the
\* domain asked for wrote, never the flag of one update with the domain of another.
ReadsWhatWasWritten ==
    \A q \in Procs : pc[q] = "read_flag" => <<shm.flag, arg[q][2]>> = last

\* A process crashed between sem_wait() and sem_post(); nobody notices.
Abandoned == shm.init_complete /\ shm.mutex = 0 /\ \A q \in Procs : pc[q] \notin Critical

\* Nobody waits for ever: a process gets through creation, although the creator
\* crashed, and a call gets the semaphore and returns, unless it was abandoned.
NobodyStuck ==
    \A q \in Procs :
        pc[q] \notin {"stopped", "attached", "failed", "sigbus"}
          ~> pc[q] \in {"stopped", "attached", "failed", "sigbus"} \/ Abandoned
=============================================================================
