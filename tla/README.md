# TLA+ models of the linuxptp fork

The repository (`src/linuxptp1103`) is a fork of linuxptp 4.4: `ptp4l`, an
IEEE 1588 / 802.1AS daemon, and its companions `phc2sys`, `ts2phc`, `pmc`,
`timemaster` and `nsm`. The fork adds gPTP-capable signaling, the CMLDS client
for the automotive profile, and a hot standby between `ptp4l` processes of
several domains that talk through POSIX shared memory. `clock.c` and `bmc.c`
are named by the makefile but are not in the repository; what the other files
expect of them is modelled as environment and marked external in
`PROJECT.json`.

## Inventory

| Component | State | Operations and interaction | Hard behaviour | What makes it correct |
|---|---|---|---|---|
| Port state machines (`fsm.c`, `designated_fsm.c`) | none: pure functions | called by `port_state_update()` with an event | agreement of four machines with what the port does around them | a cleared fault leads back to a running state |
| Port life cycle (`port.c`, `rtnl.c`) | port state, eight timers, sockets, link flags, fault type, message queues | the clock polls, calls `port_event()` per descriptor and `port_dispatch()` with the result; takes state decisions; clears faults | several descriptors in one round, events dispatched inside handlers, failing initialization, stale link flags, ASAP fault clearing | timers and descriptors agree with the state; faults are left; the loop never spins |
| Sync / Follow_Up (`port.c`, `msg.c`) | one stored message, reference counts, the pool | reception; dispatches nested in `port_synchronize()` | loss, duplication, reordering, change of master, double release | pairs match; no buffer leaks or is reused |
| Peer delay, asCapable (`port.c`, `port_signaling.c`) | request, response, follow up, miss counters, neighbor rate | delay timer, receptions; asCapable gates every reception | late answers, several responders, flushes, misses around the change of asCapable | one exchange per measurement; loss ends asCapable |
| Foreign masters (`port.c`, external BMCA) | list per port, `best`, receipt timer | Announce, pruning by age, state decisions | `best` outliving its messages, senders that change or fall silent | the port settles on the best sender |
| End to end delay, time stamp processing (`port.c`, `tsproc.c`, filters) | queue of requests, response counter, time stamps, filter buffers | delay timer, Delay_Resp, Sync | answers across steps of the clock and changes of the master | every delay is one to the present master |
| CMLDS client (`port.c`) | subscription, last renewal, count of missed notifications | delay timer, UDS messages | renewal, a service that stops and comes back | the subscription never lapses while the service runs |
| Hot standby shared memory (`servo.c`) | three named regions with a semaphore each | processes create, attach, update, read, detach | races of creation, crashes anywhere, regions that outlive everybody | mutual exclusion, initialization before use, consistent reads |
| Unicast negotiation (`unicast_*.c`, `pqueue.c`) | client table and its machine; contracts and a queue of intervals | signaling requests, grants, cancels; two timers | expiry against renewal, crossing messages, queue order, faults | service for exactly the granted time |
| Transparent clocks (`tc.c`, `e2e_tc.c`, `p2p_tc.c`) | list of transmitted messages per port | forwarding on every port | pairing by sequence id, pruning, ports that fail in the middle | residence time belongs to the message |
| Servos, clock check (`servo.c`, `pi.c`, `linreg.c`, `clockcheck.c`) | state, samples, count of good offsets, last reading | one sample per measurement; used by `phc2sys` and `ts2phc` | steps, resets and leap seconds between samples | verdicts are founded; the clock converges |
| `phc2sys`, PMC agent | port states, clocks, sources, subscription, UTC offset | polls `ptp4l` through a local socket | notifications that overtake answers, restarts of `ptp4l` | the direction follows the port states |
| `ts2phc` (with `lstab.c`, `nmea.c`) | queues of edges, the last sentence, roles, holdover | one loop, one thread that reads a receiver | late sentences, leap seconds, lost pulses | every edge is given its own second |
| `timemaster` | a script of programs, their processes, restart groups | fork, signals, `waitpid()` | signals that merge, deaths during a restart | groups are restarted as a whole, nothing is left behind |
| Configuration (`config.c`, `ptp4l.c`) | items by section and option, tables | command line, file, `timemaster`'s file | precedence, repeated sections, options that imply others | the value in force is the one that was meant |
| NetSync monitor, event monitor (`nsm.c`, `monitor.c`) | the messages of an exchange; records | requests, batch mode; reports of the port | late answers, silent nodes, reused buffers | reports belong together |
| Transports (`raw.c`, `udp.c`, `sk.c`) | sockets, error queue | send, then wait for the time stamp | time stamps that come too late | a stamp belongs to its message |
| Security associations, management client, TLV formats, tools | none of protocol interest here | parsing, formatting, system calls | | |

The hazards, each at its line, and the properties that would notice them are in
`PROJECT.json`.

## Modules

* `PortFsm` – the four state machines as functions. `designated_master_fsm` and
  `designated_slave_fsm` are one function of their role; what all machines share
  outside the running states is `BootFsm`.
* `Port` – one network port. `port` is `struct port`: `timers` says which
  timerfds are armed or have expired, `fds` whether the numbers in `p->fda` are
  open, closed (-1) or dangling (closed, but still stored), `held` which queues
  hold messages, `link` the bits of `link_status`. `ready` is what is left of a
  `poll()` round and `sde` a state decision that the clock owes. Each `fd_index`
  of `bc_event()` is an action. `bc_dispatch()`, `port_state_update()` and
  `port_initialize()` are functions from port to port, so that the dispatches
  nested in `port_synchronize()`, `port_link_status()` and the PHC switch compose
  as the calls do. The configuration is a variable chosen at the start, which
  lets one run cover several; the modules below do the same.
* `SyncFup` – `process_sync()`, `process_follow_up()`, `port_syfufsm()` over the
  buffers of `msg.c`. The two dispatches of `port_synchronize()` happen inside
  the action, before the stored message is released, as in the code.
* `PeerDelay` – the 802.1AS peer delay exchange and `port_capable()`. A message
  is identified by the number of requests since the one it answers. A reception
  first evaluates asCapable, because `port_ignore()` does.
* `ForeignMasters` – `add_foreign_master()`, `update_current_master()`,
  `fc_prune()`, `port_compute_best()`, the receipt timeout, and the two readers of
  `best`: a hybrid port's delay request and the answer to a network monitor.
  `poll()` rounds are served in the order of the descriptors. It uses `PortFsm`.
* `PathDelay` – the queue of delay requests, `process_delay_resp()`,
  `delay_response_timeout`, `tsproc.c` over the filters of `DelayFilter`, steps of
  the clock and changes of the master; with COMMON_P2P the same timer and the
  subscription to the service. `bias` is the error of the clock, so that a delay
  computed from time stamps of two epochs is visibly wrong.
* `SharedState` – the processes of the hot standby over the three regions of
  `servo.c`, one action per system call or group of assignments.
* `UnicastClient`, `UnicastService`, `PQueue` – the two sides and the heap, as
  functions named after the code's; `Unicast` composes them over two channels
  that lose messages, with other clients and a grantor that faults. `Lease` is
  the abstract specification: contracts as clients see them. `Unicast` refines
  it with the mapping `lease <- S!Contract(service, c, t)` (property
  `KeepsPromises`).
* `TransparentClock` – three ports, each with its list of transmitted messages;
  `tc_fwd_event()` sends on all ports before it fetches time stamps. A residence
  time is represented by the message and ports it was measured for.
* `Servo` – `servo_sample()` for all servos; arithmetic is reduced to the direction
  in which the clock is made to move. `ClockDiscipline` – `update_clock()` of
  `phc2sys` through the midnight of a leap second, with `leap_second_status()`,
  `clockcheck.c` and the kernel's leap second (external).
* `Phc2sys` – `phc2sys -a` with `pmc_agent.c`: one process, whose `pc` names the
  place where it waits in `run_pmc()`, against a `ptp4l` that answers in order.
* `Ts2phc`, `Lstab` – the loop of `ts2phc` over two sinks, the three kinds of
  source, the reading thread, and the table of leap seconds.
* `Timemaster` – from sources to a script, one interface per step of the loop of
  `add_ptp_source()` (the loop variables are fields of `script`), then
  `script_run()`: signals are pending at most once each, as standard signals are.
* `Config` – `config.c` as it serves `ptp4l`'s `main()`; options of the same storage
  class stand for each other. Files are a user's, or `timemaster`'s around a
  user's settings.
* `NetSync` – `nsm.c` against ports that answer, one-step and deaf ones included.
* `TxStamps` – transmit time stamps in the error queue. `EventMonitor` –
  `monitor.c`.
* `MC*` – instances for TLC. `MCSlavePort` composes `ForeignMasters` and
  `PathDelay`; `MCSyncFup` and `MCTimemaster` run several modules of one theme side
  by side. In these three the parts share no variable, so a behaviour moves one
  of them, which the variable `half` names, while the others rest.
* `Port_proof`, `Exchange_proof`, `Bridge_proof`, `SlavePort_proof`, `Phc2sys_proof`,
  `Servo_proof`, `Ts2phc_proof`, `Timemaster_proof` – theorems, see below.

Definitions marked *Mutant* are altered versions of the definition that follows
them, each a plausible mistake; with one of them in place a property fails.
`PROJECT.json` names one per property. Where a property is a conjunction, the
others break the other conjuncts:

| Property | Conjunct: definition replaced / by |
|---|---|
| `TimersFollowState` | OnlyMastersSend: `Enter`/`EnterStillUp` |
| `BuffersInOrder` | TypeOK: `flush_last_sync`/`flush_last_sync_again`; StoredIsTyped: `Mismatch`/`MismatchForgets` |
| `MeasuresOneExchange` | NsTypeOK: `NextId`/`NextIdWide` |
| `ReportsInOrder` | RecordFits: `Full`/`FullLate`; ForwardsFresh: `NameSource`/`NameOnly` |
| `CapableIsEarned` | TypeOK: `Capable`/`CapableInSilence`; LossNoticed: `Missed`/`NotMissed` |
| `ServesAsAgreed` | TypeOK: `unicast_service_extend`/`ExtendAdds`; OneContract: `ClearStale`/`KeepStale`; SubscribedIsServed: `unicast_client_renew`/`RenewAnnounceOnly` |
| `ListsInOrder` | TcTypeOK: `Store`/`StoreFromZero`; KeepsPruning: `Transition`/`TransitionStopsDelay` |
| `SourcesSound` | TypeOK: `port_state_normalize`/`NormalizeNothing`; DirectionFollows: `Slaves`/`SlavesOrSoon` |
| `SteersRightly` | TypeOK: `RmcSecond`/`SecondBefore`; SlaveNotSteered: `ts2phc_reconfigure`/`AnyReference` |
| `ChildrenInOrder` | TypeOK: `MoreToStart`/`StartTooMany`; NoOrphans: `AllGone`/`OneGone` |
| `KeepsWatch` | Leaves: `Reap`/`ReapOne` |
| `AsConfigured` | CTypeOK: `get_ranged_int`/`RangeUnchecked`; OneStepAgrees: `config_harmonize_onestep`/`HarmonizeNothing`; ReadAsMeant: `GlobalAgain`/`NoGlobalAgain` |
| `LeapHarmless` | TypeOK: `add_sample`/`AddBeyondEnd`; Undisturbed: `is_utc_ambiguous`/`NeverAmbiguous` |
| `VerdictsFounded` | StableIsEarned: `check_offset_threshold`/`CheckForgives` |
| `MastersInOrder` | FMTypeOK: `update_current_master`/`UpdateUnpruned` |
| `PathDelayRight` | PDTypeOK: `delay_req_prune`/`PruneNothing`; FilterRight: `mave_accumulate`/`AccumulateAll` |
| `DelayTimerServes` | SilenceNoticed: `Alive`/`CounterReset` |
| `Settles` | CapableAgain: `process_cmlds`/`ProcessInTime` |
| (`SharedState` ShmTypeOK, proved) | `ReadDomain`/`ReadDomainPostsTwice` |

## Runs

| Run | Instance | What holds |
|---|---|---|
| `port_life` | twelve configurations, two new events per `poll()` | timers follow the state; a port that is down owns nothing; a port whose link is down does not run; the loop never spins; faults are left |
| `port_asap_server` | designated master, ASAP | `NeverSilent` fails |
| `syncfup_pair` | a two-step and a one-step master; `nsm` against a two-step, a one-step and a deaf node; a socket; an event monitor | Sync and Follow_Up, exchanges, time stamps and records belong together; no buffer leaks; batches end |
| `peerdelay_exchange` | one neighbor or two | a measurement is one exchange; asCapable is earned and lost in time |
| `shared_crash` | two processes, two domains, crashes | exclusion, initialization, consistent reads; nobody waits for ever |
| `unicast_lease` | a client, another one, two intervals, one trouble | contracts are unique, on time and kept (`Lease` is refined); service resumes |
| `tc_residence` | three ports, both kinds of clock | residence times belong to their messages; lists are pruned |
| `phc2sys_follow` | one `ptp4l` with two ports, three set-ups of clocks | states in step, no cycles, fresh offsets |
| `ts2phc_edges` | two sinks, six configurations, a leap second | every edge has its own second; holdover ends |
| `timemaster_restart` | five scripts with up to six programs, two deaths; files of up to four lines | programs are watched; the configuration is the one that was meant |
| `discipline_leap` | nine combinations of servo and direction, leap of +1, -1 or none | the leap second does no harm; verdicts are founded; the clock converges |
| `slave_port` | two sources; two masters, both filters, or the CMLDS service | the port settles on the best; delays are right; silence is noticed |

`port_asap_server` shows that `port_state_update()` takes a static master from
MASTER through the fault back to MASTER inside one dispatch; `bc_dispatch()` sees
no change and does not arm the transmit timers of the port that was just
initialized.

### Bounds

* `MaxReady = 2`: two events in one `poll()` are what it takes for one handler to
  run in a state that another one changed; an expired timer nobody cleared is
  ready in addition.
* `SeqMod`, `SeqIds`, `Window`, `MaxGap`, `IdMod`, `Late`: messages overtake each other by less
  than the sequence space, as on a real network (2^16); the numbers wrap within
  the run (`MaxSent = 5`, `MaxRequests = 4`).
* `Buffers`: three are enough for the stored message, the received one and one
  under construction; the pool grows by `malloc()` in the code, so running out
  is not an error there.
* `Allowed = 1`, `MaxCount = 2`, `AllowedLost = 1`, `FilterLength = 2`,
  `RecordsPerMessage = 3`, `MinPoints = 2`, `MaxPoints = 3`: the smallest values for
  which a counter has a value strictly inside its range, and buffers turn around.
* `MaxPolls = 1` for 5000 polls: only reaching the limit matters.
* `Duration = 2` with intervals of 1 and 2 seconds: a contract is served, renewed
  and expires; `MaxTrouble = 1` for denials, cancels and faults, since the repair
  of one is what the properties are about; losses are not bounded.
* `Day = 9`, `SixHours = 3`: a day long enough for the servos to lock before and after
  midnight. `MaxTime = 13` quarters of a second: three pulses, one of them at the leap.
* `MaxDeaths = 2`: a program dies while its group is being restarted.
* `MaxTrouble`, `MaxEvents`, `MaxChanges`, `MaxFaults` of 1 or 2: disturbances, after
  which the system goes on without a bound where time is not bounded itself.

Deadlock is checked except where a bound on time or messages stops the model,
or the program ends (`nsm`, `timemaster`).

### Fairness

* `Port`: the loop comes to the end of its rounds again and again, since every
  handler returns. The fault timer stays readable while the loop is busy with
  other descriptors, and between rounds it is enabled again and again: strong
  fairness. Nothing is assumed of timers, network, link or resources.
* `PeerDelay`: the delay timer is periodic and the clock clears faults.
* `SharedState`: processes run, and a semaphore that is posted again and again
  serves every waiter. Crashes are never fair.
* `ForeignMasters`: rounds end, time goes on, and senders that are there announce
  themselves once per interval. `PathDelay`: the delay timer fires, and a
  notification sent again and again arrives.
* `Unicast`: timers that are due run, time goes on, faults are cleared; a message
  that is sent again and again arrives sometimes, and memory is found sometimes.
* `ClockDiscipline`: time goes on, announcements come, the loop turns.
* `Timemaster`: the program runs, and programs that were told to end do.
* `NetSync`: the client runs, and the sockets are silent for 100 ms now and then;
  the code's timeout needs that silence.

## Proofs

The theorems hold for every value of the constants that the named assumptions
allow, so for any number of masters, peers, processes, instances, sequence
numbers and configurations. Each proof is an inductive invariant that TLC had
checked first, with one lemma per handler. What the invariants add to the
properties is what makes them inductive:

`Servo_proof` is about the two uses of `servo.c`. For `SharedState` it proves
`ShmTypeOK`, `Mutex`, `InitializedOnce` and
`ReadsWhatWasWritten` for any processes, domains and flags and each region, from
`NoDomainAssumption` and `MaxPollsAssumption`. Mutual exclusion is not inductive:
a second creator would set the semaphore to 1 under a holder. The inductive
invariant `ShmInv` adds that at most one process is ever past `O_EXCL` and nobody
uses the region before it published (`OneCreator`, `UsedAfterInit`), that the
semaphore is 0 while somebody is in the critical section (`Locked`), that flag
and domain belong together outside the two-step update (`Paired`), and that a
reader past its domain check still sees that domain (`ReadingRight`). Crashes keep
it because they only remove processes.

`Port_proof` proves `TypeOK`, `DownLinkIsFaulty`, `DownOwnsNothing`, `NoSpin` and
`TimersFollowState` for every set of configurations, so also for those
`port_life` leaves out. The invariant `Inv` says that a started port is in a
running state of its own machine or faulty, that its link is up or down, that a
port whose link is down is faulty, and that handlers run only after the start.
The lemmas follow the code: what a state machine can do (`Machine`), one state
update (`Update`), one dispatch (`DispatchedOnce`), `bc_dispatch()` with its
second dispatch (`Dispatch`), then one lemma per handler. ASAP clearing looks at
the link, and the link handler reports the fault in the step that records the
link down. The second invariant `Tidy` says what a port owns by its state
(`Owns`), which timers run (`Timely`, `Serves`), that the rest of the round
handles every expired timer (`Handled`) and that only a port that was a master
has transmit timers to handle (`Transmits`). Two theorems name configurations,
because the code does not have the property for the others (see the
observations below): `NeverSpins` asks that `inhibit_announce` is set on ports
of a fixed role only (`Static`), `TimersAlwaysFollow` that a port that clears its
faults at once rearms its timers when it does (`Rearms`).

`Exchange_proof` proves `BuffersInOrder` and `AdjacentSynchronize`, and `PairsMatch`
for at most one two-step master (`OneTwoStepMaster`; with two the code pairs
wrongly). The invariant relates every message that is held or may still arrive
to the newest one sent: they are fewer than `SeqMod` apart, so that equal
remainders are equal messages. It does the same for the `nsm`
(`MeasuresOneExchange`) and proves `ReportsInOrder`, where the error queue of a
port never holds more than the time stamp that is waited for. Its corollary
`ComposedInOrder` transfers all of it to the composition TLC runs.

`Bridge_proof` is about the two halves of a bridge. It proves `OneExchange` and
`CapableIsEarned` of `PeerDelay` for any peers, any `allowedLostResponses` and any
estimate length, from `PeersAssumption` (a neighborhood is a finite set that is
not empty). The invariant counts the unanswered requests next to the code's own
counter and says what the port may hold of an exchange by its state.

It proves `ResidenceBelongs` and `ListsInOrder` of `TransparentClock` for any number
of ports, any configurations and any `IdMod` above 1, from `TcAssumption`. That the
right residence time leaves is not inductive: a list must hold its descriptors in
the order in which they were stored, each with the time of its own message, and one
whose list is pruned must be at most a second old (`Fit`). Then an equal sequence id
means an equal number, since two successive numbers have different remainders
(`NextIdDiffers`). The forwarding functions loop over the ports, each of which may
fault in its turn: `LoopRuns` and `LoopEnds` show, by a least counterexample in the
place of an induction, that such a loop has a course and ends in the set `Accs` of
sane ports and right messages if no round leaves it.

`SlavePort_proof` proves `DelayTimerServes` from `PathDelayAssumption`: the code's
counter is the number of requests without an answer and stays below the limit
(`Counted`), and while the service is up the rest of a subscription and the time
since its renewal add up to its length (`Renewed`). It proves `MastersInOrder` for
any sources, windows and receipt timeouts, from `ForeignMastersAssumption`. That
the address of the best master is known is not inductive: `best` must be one of
the list (`Listed`), which its next message therefore joins. A list never holds
more messages than the threshold because `fc_prune()` leaves the first ones. What
it leaves, and the first of the list that wins against all that qualify, are
stated in closed form and proved with a smallest index (`Smallest`) instead of
induction.

It proves `PathDelayRight` from `PathDelayAssumption` and `SequenceAssumption` (a
request is dropped before its number is used again: 5 seconds of requests are far
fewer than 2^16). The invariant `DelayInv` says of every entry of the queue which
request it is and that its time of departure is that of the present clock (`Kept`),
of every answer to which of the last `SequenceIds` requests it is (`Sent`); equal
numbers are then equal requests (`NumberUnique`), and the two time stamps belong
together. A Sync that is remembered is one of the present master and clock
(`Stamped`). For the filters, the window of the last delays is the circular buffer
read from its index (`Holds`, `Slot`), the running sum is that of the window
(`TotalAppend`, `TotalTail`), and `order` lists the indices once each by their values
(`Sorted`), whatever value is replaced and wherever the new one goes
(`ReorderRight`). `Median` is defined by counting the smaller samples, so that the
middle of `order` is shown to be it by comparing cardinalities (`NthRight`).

Corollaries transfer all three to the composition.

`Phc2sys_proof` is about any number of `ptp4l` instances and any bound of the
queues, from `Phc2sysAssumption` and `NoneAssumption` (None is none of the other
values). `TypeInv` adds to the types where the program can be with which domain
and clock in hand; in `clock_reinit()` there is a new state to apply.

* `OffsetIsFresh`: the versions in a queue never go back and none is older than
  the wanted one (`Ordered`), since notifications and answers come in order. An
  instance that is heard of is fresh if it is about to be applied, or nothing
  is to be (`Sound`); `do_loop()` forces the query before it goes on.
* `InStep`: the messages in a queue lead from what the program knows to what is
  (`Leads`): an answer that `clock_reinit()` waits for repeats what the
  notifications before it said, so it overtakes none. A state to be applied has
  a turn that will (`Applied`).
* `SourcesSound` for one instance, `DirectionFollows` for any number: outside of
  `reconfigure()` every source is a slave or the system clock, within it those
  of the domains it has passed are their own (`SourceInv`). With one instance all
  that have a source have the same one (`Agree`), and no clock drives itself. Two
  instances that share their devices can be given opposite directions, which the
  code does not exclude; the theorem therefore says `NDomains = 1`.

For `ClockDiscipline`, `Servo_proof` is about every length of the day, every servo with every
threshold and any error that others cause, from `DisciplineAssumption`.

* `VerdictsFounded`: the good offsets that the servo still waits for and those the
  history has counted add up to at least `num`, whatever resets, failing calls and
  leap seconds come between, and the jump that the check will see is not 0 only
  if somebody else moved the clock (`Founded`).
* `LeapAlwaysHarmless`: `Undisturbed`, and `OffsetRight` unless the clock in UTC was
  disturbed. The invariant `Harmless` follows the announcement: before midnight one
  that went away early is still remembered in `leap_set`; after midnight `leap_set`
  survives only as long as there was no update, which `faults` counts
  (`Remembered`). Every time stamp then falls on its own side of midnight within
  the six hours, and the second that the kernel plays twice is suspended. A
  clock nobody disturbed has error, frequency correction and regression points
  of 0, and the kernel has leapt once (`Steady`). The hypothesis `Suited` names what
  the code does not master: a regression on a PHC that follows the system clock
  (see the observations), and no reading in the six hours (`MaxFaults < SixHours`;
  otherwise `leap_set` is taken for the next leap second).

Looking for this invariant showed that `OffsetRight` of a disturbed clock depends on
`MaxErr = 1` of `discipline_leap`: with errors of two seconds TLC finds a clock that
believes midnight has passed, forgets the leap second that was announced and
withdrawn, and then unlocks. So `LeapHarmless`, with the bound on the points in its
`TypeOK`, is stated for that instance, and the theorem for all.

`Ts2phc_proof` proves `SteersRightly` and the action property `HoldoverEnds` for every
set of configurations and every instant of the leap second, from
`Ts2phcAssumption`. That an edge is given its own second rests on the whole loop:
the table is that of the file before the leap second, which has expired by then,
or of the file after it (`TableRight`); a sentence tells the second in which it
came (`SentenceRight`); no more than the present edge is on its way to the
program (`KeepsUp`); a time stamp that is available was collected by this poll
(`Collects`); without lost edges all sinks are at the same edge (`Together`); and a
clock has the state of its port or is about to take it (`PortsFollowed`).

`Timemaster_proof` is about the halves of `timemaster_restart`, on their own and
composed (`BothHalvesRight`).

* `ScriptIsSound` for every set of configurations (`TimemasterAssumption`: they have
  their type): what a command of the script has - a group, a socket, a clock or
  one of its virtual clocks - is behind the counter that the next command is
  numbered with, or is marked as taken (`AllTaken`). Within the loop of
  `add_ptp_source()` the clocks that are still to be used are free (`InLoop`), since
  `AddOne` marks the interfaces that share the clock it takes.
* `ChildrenInOrder` for any number of deaths: a command is known exactly while its
  process is there (`Known`), and by the step of the program nothing is started
  yet, or everything before `next` is (`Phases`, `Starting`). Every start but the
  first is paid for by a death (`Paid`), which bounds the generations. Partners
  have the same generation unless a start failed, and then SIGTERM is pending and
  only groups whose turn is over are affected (`Together`, `Whole`).
* `AsConfigured` and `AddressesBelong` for any ports, settings, lines and lengths of
  files, from `ConfigAssumption`: a locked option is one of the command line or ASAP
  (`Locks`), the global section and those of the ports hold what was said last and
  not spared (`GlobalRight`, `PortsRight`), the current table is the one that was
  named (`TableNamed`), and what is left of a file that `timemaster` writes ends with
  its own lines in the global section (`RestInv`).

Only model-checked: `NobodyStuck` and all liveness, which is beyond the proof system,
as is the refinement of `Lease` under fairness. What rests on a recursively defined
value needs induction over data, for which the library's theorems cannot be
instantiated. The loop of `TransparentClock` and the sums of `DelayFilter` could be
proved about by a least counterexample; `ServesAsAgreed`, which rests on the loops of
the heap and the timers below it, is left to TLC.

## Observations without a run

Differences between documents and code, and limits the properties except. They
were met while modelling; the modules' comments say where an exception stands
for one.

* Port: with the BMCA and `inhibit_announce`, a SYNC_RX timeout returns no event and
  only a transition or BMCA `noop` clears the timer, so `poll()` returns at once for
  ever (`port.c:3123`). With ASAP, a peer delay port under `ptp_fsm` that faults in
  LISTENING loses its delay timer, and a late SYNC_TX handler arms its timer in
  LISTENING (`port.c:3184`). A failed CMLDS initialization leaves descriptor numbers
  and a client behind (`port.c:2123`).
* Sync: with two two-step masters, a Sync stored before an UNCALIBRATED port's
  parent changes pairs with the new parent's Follow_Up of the same number
  (`port.c:2921`; `ptp4l.8:589` says the number ensures matching).
* Peer delay: with two responders more requests go unanswered than
  `allowedLostResponses` (`ptp4l.8:155`) before asCapable ends. A port that is not
  capable sends signaling at every reception (`port.c:782`;
  `GPTP_CAPABLE_TLV_README.md:383` says rarely), and at debug level the log statement
  in `port_signaling.c:278` recurses.
* Client port: the counter of `delay_response_timeout` faults one request earlier
  than `ptp4l.8:239` says. A hybrid port that serves the announce timeout and the
  delay timer in one round reads an empty queue (`port.c:1710`). A servo that flaps
  between SLAVE and UNCALIBRATED arms the announce timer each time, so a master that
  sends Sync but no Announce is followed for ever. A port that inhibits delay
  requests never renews its CMLDS subscription (`port.c:1314`, `1593`), and
  `process_cmlds()` overwrites an asCapable of "true" (`port.c:2279`).
* Shared memory: a process that opens the object before the creator's `ftruncate()`
  reads a mapping with nothing behind it (`servo.c:691`). `sync_state_shm_read()`
  returns 0 for a state that nobody wrote (`servo.c:415`; `servo.h:149` says -1). A
  crash in the critical section blocks everybody for ever.
* Unicast: a cancel that crosses a grant, or a lost refusal, leaves a client without
  Sync until its renewal; after a fault the grantor's queue waits for a new interval
  to arm the timer (`unicast_service.c:515`); a grant revives expired types of the
  same record; the cancel of `port_unicast_message_valid()` is never sent (`port.c:203`).
* Transparent clock: a Follow_Up that cannot be sent releases its descriptor twice
  (`tc.c:229-238`); without the spanning tree rules Follow_Ups pile up on a port that
  is down; matching ignores the domain.
* `phc2sys`: after a connection was lost and found, the source is not selected again
  before another state changes (`phc2sys.c:829`); a failed forced query goes on with
  the old UTC offset (`phc2sys.c:838`); a restart of `ptp4l` within a subscription goes
  unnoticed; a linreg servo of a PHC that follows the system clock is moved by
  `servo_leap()` although its time does not leap (`phc2sys.c:1065`). A system clock that
  is locked two seconds ahead at midnight forgets an announcement that was withdrawn
  (`phc2sys.c:1055`).
* `ts2phc`: a sink that loses an edge is off by one second from then on
  (`ts2phc_pps_sink.c:429`), one dead sink holds up the others; clocks that are not
  listed are targets too, where `ts2phc.8:38` says otherwise; a UNCALIBRATED clock
  stays a target.
* `timemaster`: when no program is left, a termination signal is never followed by
  another and the program stays (`timemaster.c:1374`); failing to restart a program
  ends with status 0; early failures leave files and virtual clocks.
* Configuration: `fault_reset_interval ASAP` in a file overrides and locks a value of
  the command line (`config.c:690`; `ptp4l.8:109` says the command line overrides).
* `nsm`: a one-step Sync completes an exchange and the missing Follow_Up is read
  (`nsm.c:102`); after a timeout its socket is kept, so the next request gets the
  late time stamp.

## Not modelled

`pmc` and the packing of TLVs, printing and the one-shot tools: parsing and
formatting without protocol state. Security associations: cryptography; to the
handlers a message that fails authentication is a lost message. Sockets beyond
success, failure and the error queue. Floating point in servos, filters and rate
estimates. Logging. The check of the sync receive interval in `process_sync()`
counts long gaps and asks the missing `clock.c` for a servo reset; pairing does not
read it.
