------------------------------ MODULE Timemaster -----------------------------
(****************************************************************************)
(* timemaster: from the sources of a configuration it makes a script (the   *)
(* NTP daemon, and a ptp4l for each clock or interface, with a phc2sys when *)
(* it has a clock), starts the programs, and restarts or stops them as they *)
(* exit.                                                                    *)
(*                                                                          *)
(* The signals are blocked and fetched one at a time by sigwaitinfo(); like *)
(* all standard signals, several of a kind that are pending are one.        *)
(****************************************************************************)
EXTENDS Integers, Sequences, FiniteSets

CONSTANTS
    Scripts,      \* the configurations considered
    MaxDeaths     \* bound: programs that exit by themselves, starts that fail

NoPhc == -1

\* sources: for each ptp_domain its interfaces; phcOf: the hardware clock of an
\* interface; software: interfaces that can time stamp in software.
Interfaces == 1..3
ConfigType == [sources : Seq(Seq(Interfaces)), phcOf : [Interfaces -> NoPhc..1],
               software : SUBSET Interfaces, use_vclocks : BOOLEAN, restart_processes : BOOLEAN]

ASSUME TimemasterAssumption == Scripts \subseteq ConfigType /\ MaxDeaths \in Nat

-----------------------------------------------------------------------------
\* script_create()
Command(program, group, interfaces, phc, vclock, id) ==
    [program |-> program, group |-> group, interfaces |-> interfaces, phc |-> phc,
     vclock |-> vclock, refclock_id |-> id]

add_command(s, command) == [s EXCEPT !.commands = Append(@, command)]

add_ntp_program(s) ==
    [add_command(s, Command("ntp", 0, {}, NoPhc, NoPhc, -1)) EXCEPT !.command_group = 1]

\* add_vclock() counts the virtual clocks of a device.
add_vclock(s, phc) == [s EXCEPT !.vclocks[phc] = @ + 1]

Used == -2   \* by an earlier ptp4l of the source

\* The clock of each interface, unless another source has it.
PhcsOf(c, interfaces, s) ==
    [k \in DOMAIN interfaces |->
        LET phc == c.phcOf[interfaces[k]]
        IN  IF phc \in s.allocated THEN NoPhc ELSE phc]

\* Mutant: the clock is free for other sources.
ClaimNothing(c, s, phc) ==
    IF c.use_vclocks THEN add_vclock(s, phc) ELSE s

Claim(c, s, phc) ==
    IF c.use_vclocks THEN add_vclock(s, phc)
    ELSE [s EXCEPT !.allocated = @ \cup {phc}]

\* The commands for the i-th interface of the source and those that share its
\* clock; these are marked.
AddOne(c, s) ==
    LET phc == s.phcs[s.i]
        sharing == IF phc = NoPhc THEN {} ELSE {j \in DOMAIN s.phcs : j > s.i /\ s.phcs[j] = phc}
        mine == {c.sources[s.source][j] : j \in sharing \cup {s.i}}
        vclock == IF phc # NoPhc /\ c.use_vclocks THEN s.vclocks[phc] ELSE NoPhc
        ptp4l == add_command(s, Command("ptp4l", s.command_group, mine, phc, vclock, s.refclock_id))
        both == add_command(Claim(c, ptp4l, phc),
                            Command("phc2sys", s.command_group, {}, phc, vclock, s.refclock_id))
    IN  [(IF phc = NoPhc THEN ptp4l ELSE both) EXCEPT
            !.command_group = @ + 1, !.refclock_id = @ + 1,
            !.phcs = [j \in DOMAIN s.phcs |-> IF j \in sharing THEN Used ELSE s.phcs[j]]]

\* The script before the first source: source, i and phcs are the variables of the
\* loops of script_create() and add_ptp_source().
EmptyScript ==
    [commands |-> <<>>, vclocks |-> [p \in 0..1 |-> 0], allocated |-> {},
     refclock_id |-> 0, command_group |-> 0, ok |-> TRUE, source |-> 1, i |-> 0, phcs |-> <<>>]

-----------------------------------------------------------------------------
VARIABLES
    config, script,
    step,      \* the part of script_create() or script_run() that comes next
    left,      \* what the system still has of it: files, virtual clocks
    next,      \* the command to start, or the group to look at
    pids,      \* commands whose process is not known to have ended
    proc,      \* each process: none, up, told (to terminate), or ended
    pending,   \* signals
    quit, ret,
    age,       \* it runs for longer than a second
    aged,      \* the same, when the last signal came
    gen,       \* history: how many times a command was started
    deaths     \* counter for the bound

vars == <<config, script, step, left, next, pids, proc, pending, quit, ret, age, aged, gen,
          deaths>>

Commands == DOMAIN script.commands
GroupOf(k) == script.commands[k].group
NoRestartGroup == 0
Devices == {p \in 0..1 : script.vclocks[p] > 0}

\* The types; no program beyond those of the script is started (run_script()).
TypeOK ==
    /\ config \in Scripts
    /\ step \in {"source", "interface", "files", "vclocks", "start", "wait", "groups", "clean", "exit"}
    /\ left \subseteq {"files", "vclocks"} /\ next \in 0..Len(script.commands)
    /\ pids \subseteq Commands /\ proc \in [Commands -> {"none", "up", "told", "ended"}]
    /\ pending \subseteq {"CHLD", "TERM"} /\ {quit, age, aged} \subseteq BOOLEAN
    /\ ret \in 0..1 /\ gen \in [Commands -> 0..(MaxDeaths + 2)]

Procs == <<proc, gen>>

-----------------------------------------------------------------------------
\* script_create() and add_ptp_source(), a source and an interface at a time.
Builds(s) ==
    /\ script' = s
    /\ proc' = [k \in DOMAIN s.commands |-> "none"]
    /\ gen' = [k \in DOMAIN s.commands |-> 0]
    /\ UNCHANGED <<config, left, next, pids, pending, quit, age, aged, deaths>>

\* An interface that cannot time stamp at all ends it, but only after the other
\* sources.
Useless(interfaces) ==
    \E k \in DOMAIN interfaces :
        config.phcOf[interfaces[k]] = NoPhc /\ interfaces[k] \notin config.software

BeginSource ==
    /\ step = "source" /\ script.source <= Len(config.sources)
    /\ LET interfaces == config.sources[script.source]
       IN  IF Useless(interfaces)
           THEN step' = "source" /\ Builds([script EXCEPT !.ok = FALSE, !.source = @ + 1])
           ELSE /\ step' = "interface"
                /\ Builds([script EXCEPT !.phcs = PhcsOf(config, interfaces, script), !.i = 1])
    /\ UNCHANGED ret

AddInterface ==
    /\ step = "interface" /\ script.i <= Len(script.phcs)
    /\ LET s == IF script.phcs[script.i] = Used THEN script ELSE AddOne(config, script)
       IN  Builds([s EXCEPT !.i = @ + 1])
    /\ UNCHANGED <<step, ret>>

EndSource ==
    /\ step = "interface" /\ script.i > Len(script.phcs)
    /\ step' = "source" /\ Builds([script EXCEPT !.source = @ + 1])
    /\ UNCHANGED ret

Created ==
    /\ step = "source" /\ script.source > Len(config.sources)
    /\ step' = IF script.ok THEN "files" ELSE "exit"
    /\ ret' = IF script.ok THEN 0 ELSE 1
    /\ Builds(script)

-----------------------------------------------------------------------------
\* create_config_files(), create_vclocks() and translate_vclock_options(): a
\* failure returns, and leaves what is there.
CreateFiles(ok) ==
    /\ step = "files"
    /\ left' = left \cup {"files"}
    /\ IF ok THEN step' = "vclocks" /\ UNCHANGED <<ret, deaths>>
       ELSE step' = "exit" /\ ret' = 1 /\ deaths < MaxDeaths /\ deaths' = deaths + 1
    /\ UNCHANGED <<config, script, next, pids, pending, quit, age, aged, Procs>>

CreateVclocks(ok) ==
    /\ step = "vclocks"
    /\ left' = IF Devices = {} THEN left ELSE left \cup {"vclocks"}
    /\ next' = 1
    /\ IF ok THEN step' = "start" /\ UNCHANGED <<ret, deaths>>
       ELSE /\ Devices # {}
            /\ step' = "exit" /\ ret' = 1 /\ deaths < MaxDeaths /\ deaths' = deaths + 1
    /\ UNCHANGED <<config, script, pids, pending, quit, age, aged, Procs>>

\* start_program(), which may fail.
start_program(k, ok) ==
    IF ok
    THEN /\ proc' = [proc EXCEPT ![k] = "up"] /\ pids' = pids \cup {k}
         /\ gen' = [gen EXCEPT ![k] = @ + 1]
         /\ UNCHANGED <<pending, deaths>>
    ELSE /\ deaths < MaxDeaths /\ deaths' = deaths + 1
         /\ pending' = pending \cup {"TERM"}
         /\ UNCHANGED <<pids, Procs>>

\* Mutant: one too many.
StartTooMany == next <= Len(script.commands)

MoreToStart == next < Len(script.commands)

Start(ok) ==
    /\ step = "start"
    /\ start_program(next, ok)
    /\ IF ok /\ MoreToStart
       THEN next' = next + 1 /\ UNCHANGED step
       ELSE next' = 0 /\ step' = "wait"
    /\ UNCHANGED <<config, script, left, quit, ret, age, aged>>

-----------------------------------------------------------------------------
\* sigwaitinfo() returns with SIGTERM, SIGINT or SIGQUIT.
Terminate ==
    /\ step = "wait" /\ "TERM" \in pending
    /\ pending' = pending \ {"TERM"}
    /\ quit' = TRUE /\ aged' = age
    /\ proc' = IF quit THEN proc
               ELSE [k \in Commands |-> IF k \in pids /\ proc[k] = "up" THEN "told" ELSE proc[k]]
    /\ UNCHANGED <<config, script, step, left, next, pids, ret, age, gen, deaths>>

Ended == {k \in Commands : proc[k] = "ended"}

\* Mutant: one process is waited for per signal.
ReapOne == IF Ended = {} THEN {} ELSE {CHOOSE k \in Ended : TRUE}

\* waitpid() until there is no more.
Reap == Ended

\* Mutant: the first to terminate will do.
OneGone(known) == known # Commands

AllGone(known) == known = {}

\* sigwaitinfo() returns with SIGCHLD, which has the highest number: the kernel
\* takes the others first.
ChildEnds ==
    /\ step = "wait" /\ "CHLD" \in pending /\ "TERM" \notin pending
    /\ pending' = pending \ {"CHLD"} /\ aged' = age
    /\ pids' = pids \ Reap
    /\ proc' = [k \in Commands |-> IF k \in Reap THEN "none" ELSE proc[k]]
    /\ IF ~quit THEN step' = "groups" /\ next' = 0
       ELSE /\ step' = IF AllGone(pids') THEN "clean" ELSE "wait"
            /\ UNCHANGED next
    /\ UNCHANGED <<config, script, left, quit, ret, age, gen, deaths>>

-----------------------------------------------------------------------------
Members == {k \in Commands : GroupOf(k) = next}

\* Mutant: only the first group is looked at.
NoNextGroup == next' = 0 /\ step' = "wait"

NextGroup ==
    LET more == next + 1 < Len(script.commands)
    IN  /\ next' = IF more THEN next + 1 ELSE 0
        /\ step' = IF more THEN step ELSE "wait"

\* The group has a process that ended, and is not to be restarted.
GiveUp == next = NoRestartGroup \/ ~aged \/ ~config.restart_processes

GroupComplete ==
    /\ step = "groups" /\ Members \subseteq pids
    /\ NextGroup
    /\ UNCHANGED <<config, script, left, pids, pending, quit, ret, age, aged, deaths, Procs>>

GroupGivesUp ==
    /\ step = "groups" /\ ~ (Members \subseteq pids) /\ GiveUp
    /\ pending' = pending \cup {"TERM"} /\ ret' = 1
    /\ step' = "wait" /\ next' = 0
    /\ UNCHANGED <<config, script, left, pids, quit, age, aged, deaths, Procs>>

\* Others of the group are still there: they are told to terminate.
GroupTerminates ==
    /\ step = "groups" /\ ~ (Members \subseteq pids) /\ ~GiveUp
    /\ Members \cap pids # {}
    /\ proc' = [k \in Commands |-> IF k \in Members \cap pids /\ proc[k] = "up"
                                   THEN "told" ELSE proc[k]]
    /\ NextGroup
    /\ UNCHANGED <<config, script, left, pids, pending, quit, ret, age, aged, gen, deaths>>

\* Mutant: what ended is restarted at once.
RestartAtOnce == Members \ pids # {}

RestartNow == Members \ pids # {} /\ Members \cap pids = {}

\* None is left: they are started again, and each may fail.
GroupRestarts(failed) ==
    /\ step = "groups" /\ RestartNow /\ ~GiveUp
    /\ failed \subseteq Members \ pids
    /\ deaths + Cardinality(failed) <= MaxDeaths /\ deaths' = deaths + Cardinality(failed)
    /\ LET started == (Members \ pids) \ failed
       IN  /\ pids' = pids \cup started
           /\ proc' = [k \in Commands |-> IF k \in started THEN "up" ELSE proc[k]]
           /\ gen' = [k \in Commands |-> IF k \in started THEN gen[k] + 1 ELSE gen[k]]
    /\ pending' = IF failed = {} THEN pending ELSE pending \cup {"TERM"}
    /\ NextGroup
    /\ UNCHANGED <<config, script, left, quit, ret, age, aged>>

\* remove_vclocks() and remove_config_files()
Clean(ok) ==
    /\ step = "clean" /\ step' = "exit"
    /\ IF ok THEN left' = {} /\ UNCHANGED <<ret, deaths>>
       ELSE /\ Devices # {} /\ deaths < MaxDeaths /\ deaths' = deaths + 1
            /\ ret' = 1 /\ UNCHANGED left
    /\ UNCHANGED <<config, script, next, pids, pending, quit, age, aged, Procs>>

-----------------------------------------------------------------------------
\* A process ends as it was told, or by itself.
Ends(k) ==
    /\ proc[k] \in {"up", "told"}
    /\ IF proc[k] = "up" THEN deaths < MaxDeaths /\ deaths' = deaths + 1 ELSE UNCHANGED deaths
    /\ proc' = [proc EXCEPT ![k] = "ended"]
    /\ pending' = pending \cup {"CHLD"}
    /\ UNCHANGED <<config, script, step, left, next, pids, quit, ret, age, aged, gen>>

\* The administrator stops timemaster.
Stop ==
    /\ step \in {"start", "wait", "groups"} /\ ~quit /\ "TERM" \notin pending
    /\ pending' = pending \cup {"TERM"}
    /\ UNCHANGED <<config, script, step, left, next, pids, quit, ret, age, aged, deaths, Procs>>

Grow ==
    /\ ~age /\ step = "wait" /\ age' = TRUE
    /\ UNCHANGED <<config, script, step, left, next, pids, pending, quit, ret, aged, deaths, Procs>>

Init ==
    /\ config \in Scripts /\ script = add_ntp_program(EmptyScript)
    /\ step = "source" /\ ret = 0
    /\ left = {} /\ next = 0 /\ pids = {} /\ proc = [k \in Commands |-> "none"]
    /\ pending = {} /\ quit = FALSE /\ age = FALSE /\ aged = FALSE
    /\ gen = [k \in Commands |-> 0] /\ deaths = 0

Program ==
    \/ BeginSource \/ AddInterface \/ EndSource \/ Created
    \/ \E ok \in BOOLEAN : CreateFiles(ok) \/ CreateVclocks(ok) \/ Start(ok) \/ Clean(ok)
    \/ Terminate \/ ChildEnds
    \/ GroupComplete \/ GroupGivesUp \/ GroupTerminates
    \/ \E failed \in SUBSET Commands : GroupRestarts(failed)

Next == Program \/ Stop \/ Grow \/ \E k \in Commands : Ends(k)

Spec == Init /\ [][Next]_vars

\* The program runs, and a process that is told to terminate does.
Fairness ==
    /\ WF_vars(Program)
    /\ \A k \in 1..6 : WF_vars(k \in Commands /\ proc[k] = "told" /\ Ends(k))

-----------------------------------------------------------------------------
\* A hardware clock is disciplined by one ptp4l, or each has a virtual clock of
\* it for itself; every interface of a domain is used once; no socket or
\* segment is shared.
ScriptIsSound ==
    script.ok => \A j, k \in Commands :
        LET a == script.commands[j]
            b == script.commands[k]
        IN  j # k /\ a.program = b.program /\ a.program # "ntp" =>
                /\ a.refclock_id # b.refclock_id /\ a.group # b.group
                /\ a.phc = b.phc /\ a.phc # NoPhc =>
                       config.use_vclocks /\ a.vclock # b.vclock

\* When timemaster has left, no program is left running or unreaped, and if it
\* left through its loop nothing is left of files and virtual clocks, unless
\* those could not be removed.
NoOrphans ==
    step = "exit" => /\ \A k \in Commands : proc[k] = "none"
                     /\ quit => left = {} \/ ret = 1

\* The programs of a group are restarted together: none goes on with a partner
\* of another generation.
RestartsTogether ==
    \A j, k \in Commands :
        GroupOf(j) = GroupOf(k) /\ proc[j] = "up" /\ proc[k] = "up" =>
            gen[j] = gen[k]

\* A signal to terminate ends timemaster, if a program was there to be told.
Leaves == (quit /\ pids # {}) ~> (step = "exit")

Is(k, s) == k \in Commands /\ proc[k] = s

\* A program that ended is started again, or all are stopped (run_script()).
ComesBack ==
    \A k \in 2..6 :
        (step = "wait" /\ Is(k, "ended")) ~> (Is(k, "up") \/ "TERM" \in pending \/ quit)

\* The programs are kept together and none is forgotten: NoOrphans and
\* RestartsTogether, in a state of the right type.
ChildrenInOrder == TypeOK /\ NoOrphans /\ RestartsTogether

\* Programs are watched until the end: Leaves and ComesBack.
KeepsWatch == Leaves /\ ComesBack
=============================================================================
