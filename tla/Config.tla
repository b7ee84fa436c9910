-------------------------------- MODULE Config -------------------------------
(****************************************************************************)
(* How ptp4l comes to its configuration (config.c): the defaults, the       *)
(* command line, then the file, line by line, and at last the agreement of  *)
(* the one-step options.  The file is a user's, or one that timemaster      *)
(* generates around the settings a user gave it.                            *)
(*                                                                          *)
(* Options with a double, an unsigned or a string value are stored the same *)
(* way and are represented by those with an int or enum value.              *)
(****************************************************************************)
EXTENDS Integers, Sequences

CONSTANTS
    PortNames,    \* names of interfaces
    Settings,     \* setting lines and long options considered, see Setting
    TableLines,   \* lines of a unicast master table, see TableLine
    MaxArgs,      \* bound: arguments
    MaxLines      \* bound: lines of the user

Unset == -999
FRI_ASAP == -128

Num(n) == [word |-> "", n |-> n]
Word(w) == [word |-> w, n |-> 0]
Setting(option, value) == [kind |-> "setting", option |-> option, value |-> value]
TableLine(what, n) == [kind |-> "table", what |-> what, n |-> n]
SectionLine(name) == [kind |-> "section", name |-> name]

SettingType == [kind : {"setting"}, option : STRING, value : [word : STRING, n : Int]]
TableLineType == [kind : {"table"}, n : Int,
                  what : {"table_id", "logQueryInterval", "peer_address", "address"}]

ASSUME ConfigAssumption ==
    /\ MaxArgs \in Nat /\ MaxLines \in Nat
    /\ Settings \subseteq SettingType /\ TableLines \subseteq TableLineType
    /\ PortNames \cap {"global", "unknown", "unicast_master_table"} = {}

-----------------------------------------------------------------------------
\* config_tab
Item(type, port, default, min, max) ==
    [type |-> type, port |-> port, default |-> default, min |-> min, max |-> max]

config_tab ==
    [clientOnly |-> Item("INT", FALSE, 0, 0, 1),
     domainNumber |-> Item("INT", FALSE, 0, 0, 255),
     fault_reset_interval |-> Item("INT", TRUE, 4, -128, 127),
     logSyncInterval |-> Item("INT", TRUE, 0, -128, 127),
     time_stamping |-> Item("ENUM", FALSE, 1, 0, 4),
     twoStepFlag |-> Item("INT", FALSE, 1, 0, 1)]

Options == DOMAIN config_tab
Sections == {"global"} \cup PortNames

timestamping_enu ==
    [software |-> 0, hardware |-> 1, legacy |-> 2, onestep |-> 3, p2p1step |-> 4]

\* config_create(): the defaults; section is where config_read() is, table is
\* current_uc_mtab, and ok is FALSE once the program gave up.
config_create ==
    [items |-> [s \in Sections |->
                   [o \in Options |-> IF s = "global" THEN config_tab[o].default ELSE Unset]],
     locked |-> {}, interfaces |-> <<>>, tables |-> <<>>,
     section |-> "unknown", table |-> 0, ok |-> TRUE]

Fail(c) == [c EXCEPT !.ok = FALSE]

\* config_find_item() as all the getters use it
config_get(c, section, option) ==
    IF section # "global" /\ c.items[section][option] # Unset
    THEN c.items[section][option] ELSE c.items["global"][option]

\* config_set_section_int() and the setters of other types; what they set
\* globally is locked.
config_set(c, section, option, val) ==
    [c EXCEPT !.items[section][option] = val,
              !.locked = IF section = "global" THEN @ \cup {option} ELSE @]

config_create_interface(c, name) ==
    IF \E i \in DOMAIN c.interfaces : c.interfaces[i] = name THEN c
    ELSE [c EXCEPT !.interfaces = Append(@, name)]

-----------------------------------------------------------------------------
check_deprecated_options(option) == IF option = "slaveOnly" THEN "clientOnly" ELSE option

\* Mutant: the range is not checked.
RangeUnchecked(value, min, max) == IF value.word # "" THEN "MALFORMED" ELSE "PARSED_OK"

get_ranged_int(value, min, max) ==
    IF value.word # "" THEN "MALFORMED"
    ELSE IF value.n < min \/ value.n > max THEN "OUT_OF_RANGE" ELSE "PARSED_OK"

\* The verdict on a value and the number it stands for.
Verdict(option, value) ==
    LET item == config_tab[option]
    IN  IF item.type = "INT" THEN get_ranged_int(value, item.min, item.max)
        ELSE IF value.word \in DOMAIN timestamping_enu THEN "PARSED_OK" ELSE "BAD_VALUE"

Parsed(option, value) ==
    IF config_tab[option].type = "INT" THEN value.n ELSE timestamping_enu[value.word]

\* parse_fault_interval(); fault_badpeernet_interval is treated alike.
IsAsap(option, value) == option = "fault_reset_interval" /\ value.word = "ASAP"

\* Mutant: locked values are not spared.
ParseUnlocked(c, commandline, section, option, value) ==
    IF ~ (option \in Options /\ Verdict(option, value) = "PARSED_OK") THEN Fail(c)
    ELSE [c EXCEPT !.items[section][option] = Parsed(option, value)]

parse_item(c, commandline, section, option, value) ==
    IF IsAsap(option, value) THEN config_set(c, section, option, FRI_ASAP)
    ELSE IF \/ option \notin Options
            \/ Verdict(option, value) # "PARSED_OK"
            \/ section # "global" /\ ~config_tab[option].port
         THEN Fail(c)
    ELSE IF section = "global" /\ ~commandline /\ option \in c.locked THEN c
    ELSE [c EXCEPT !.items[section][option] = Parsed(option, value),
                   !.locked = IF commandline THEN @ \cup {option} ELSE @]

config_parse_option(c, option, value) ==
    parse_item(c, TRUE, "global", check_deprecated_options(option), value)

\* A line of a unicast master table.
config_switch_unicast_mtab(c, id) ==
    IF id < 1 \/ \E t \in DOMAIN c.tables : c.tables[t].id = id THEN Fail(c)
    ELSE [c EXCEPT !.tables = Append(@, [id |-> id, addrs |-> <<>>, peer |-> 0, lqi |-> 0]),
                   !.table = Len(c.tables) + 1]

config_unicast_mtab_address(c, n) ==
    IF c.table = 0 THEN Fail(c)
    ELSE [c EXCEPT !.tables[c.table].addrs = Append(@, n)]

config_unicast_mtab_peer(c, n) ==
    IF c.table = 0 THEN Fail(c) ELSE [c EXCEPT !.tables[c.table].peer = n]

config_unicast_mtab_query_interval(c, n) ==
    IF c.table = 0 \/ n \notin -128..127 THEN Fail(c) ELSE [c EXCEPT !.tables[c.table].lqi = n]

\* A setting is taken for an address of an unknown transport.
parse_unicast_mtab_line(c, line) ==
    IF line.kind # "table" THEN Fail(c)
    ELSE CASE line.what = "table_id" -> config_switch_unicast_mtab(c, line.n)
           [] line.what = "logQueryInterval" -> config_unicast_mtab_query_interval(c, line.n)
           [] line.what = "peer_address" -> config_unicast_mtab_peer(c, line.n)
           [] line.what = "address" -> config_unicast_mtab_address(c, line.n)

\* Mutant: the last table of an earlier section stays the current one.
SectionKeepsTable(c, name) ==
    [(IF name \in PortNames THEN config_create_interface(c, name) ELSE c)
        EXCEPT !.section = name]

parse_section_line(c, name) ==
    [(IF name \in PortNames THEN config_create_interface(c, name) ELSE c)
        EXCEPT !.section = name,
               !.table = IF name = "unicast_master_table" THEN 0 ELSE @]

\* One line of config_read()
config_line(c, line) ==
    IF line.kind = "section" THEN parse_section_line(c, line.name)
    ELSE IF c.section = "unicast_master_table" THEN parse_unicast_mtab_line(c, line)
    ELSE IF c.section = "unknown" \/ line.kind # "setting" THEN Fail(c)
    ELSE parse_item(c, FALSE, c.section, check_deprecated_options(line.option), line.value)

\* Mutant: the options are not made to agree.
HarmonizeNothing(c) == c

config_harmonize_onestep(c) ==
    LET ts == c.items["global"].time_stamping
        two == c.items["global"].twoStepFlag
    IN  CASE ts \in {0, 2} /\ two = 0 -> Fail(c)
          [] ts = 1 /\ two = 0 -> config_set(c, "global", "time_stamping", 3)
          [] ts \in {3, 4} /\ two = 1 -> config_set(c, "global", "twoStepFlag", 0)
          [] OTHER -> c

-----------------------------------------------------------------------------
VARIABLES
    cfg,       \* struct config
    phase,     \* args, file (the lines of the user), rest (of the generated file), done
    args, lines,   \* counters for the bounds
    rest,      \* what is left of a generated file; a name while that is not decided
    cli,       \* history: the last value of the command line
    said,      \* history: the last value each section of the file gave
    named      \* history: the table_id named in this section

cvars == <<cfg, phase, args, lines, rest, cli, said, named>>

CInit ==
    /\ cfg = config_create /\ phase = "args" /\ args = 0 /\ lines = 0 /\ rest = <<>>
    /\ cli = [o \in Options |-> Unset]
    /\ said = [s \in Sections |-> [o \in Options |-> Unset]]
    /\ named = 0

ValueOf(option, value) == IF IsAsap(option, value) THEN FRI_ASAP ELSE Parsed(option, value)

\* The arguments of ptp4l: long options, -i, -H, -S and -s.
LongOption(s) ==
    LET option == check_deprecated_options(s.option)
    IN  /\ cfg' = config_parse_option(cfg, s.option, s.value)
        /\ cli' = IF ~cfg'.ok THEN cli
                  ELSE [cli EXCEPT ![option] = ValueOf(option, s.value)]

Switch(option, val) ==
    cfg' = config_set(cfg, "global", option, val) /\ cli' = [cli EXCEPT ![option] = val]

Argument ==
    /\ phase = "args" /\ cfg.ok /\ args < MaxArgs /\ args' = args + 1
    /\ \/ \E s \in Settings : LongOption(s)
       \/ \E p \in PortNames : cfg' = config_create_interface(cfg, p) /\ UNCHANGED cli
       \/ Switch("time_stamping", timestamping_enu.hardware)
       \/ Switch("time_stamping", timestamping_enu.software)
       \/ Switch("clientOnly", 1)
    /\ UNCHANGED <<phase, lines, rest, said, named>>

\* -f: the file is the user's own, or one of timemaster, which begins with the
\* global section.
OpenFile(generated) ==
    /\ phase = "args" /\ cfg.ok /\ phase' = "file"
    /\ cfg' = IF generated THEN config_line(cfg, SectionLine("global")) ELSE cfg
    /\ rest' = IF generated THEN <<"timemaster">> ELSE <<>>
    /\ UNCHANGED <<args, lines, cli, said, named>>

\* config_read() takes a line.
Read(line) ==
    /\ cfg.ok /\ cfg' = config_line(cfg, line)
    /\ said' = IF line.kind # "setting" \/ ~cfg'.ok \/ cfg.section \notin Sections THEN said
               ELSE LET option == check_deprecated_options(line.option)
                    IN  [said EXCEPT ![cfg.section][option] = ValueOf(option, line.value)]
    /\ named' = IF line.kind = "section" THEN 0
                ELSE IF line.kind = "table" /\ line.what = "table_id" THEN line.n ELSE named

UserLine ==
    /\ phase = "file" /\ lines < MaxLines /\ lines' = lines + 1
    /\ \E line \in {SectionLine(name) : name \in Sections \cup {"unicast_master_table"}}
                     \cup Settings \cup TableLines : Read(line)
    /\ UNCHANGED <<phase, args, rest, cli>>

\* timemaster goes on after the user's settings, which may be of any section,
\* with those of the source, which are in order, and its own.
SourceSettings ==
    {s \in Settings : s.option = "domainNumber" /\ Verdict(s.option, s.value) = "PARSED_OK"}

Meant == [clientOnly |-> 1, domainNumber |-> 3]

\* Mutant: the section of the user's last line goes on.
NoGlobalAgain(before) == <<>>

GlobalAgain(before) == IF before = 0 THEN <<>> ELSE <<SectionLine("global")>>

Generate ==
    /\ phase = "file" /\ rest # <<>> /\ cfg.ok /\ phase' = "rest"
    /\ \E source \in {<<>>} \cup {<<s>> : s \in SourceSettings} :
          rest' = GlobalAgain(lines) \o source
                    \o <<Setting("clientOnly", Num(Meant.clientOnly)),
                         Setting("domainNumber", Num(Meant.domainNumber))>>
    /\ UNCHANGED <<cfg, args, lines, cli, said, named>>

GeneratedLine ==
    /\ phase = "rest" /\ rest # <<>> /\ Read(Head(rest)) /\ rest' = Tail(rest)
    /\ UNCHANGED <<phase, args, lines, cli>>

\* The end of the file: the program checks that it has a port; the clock calls
\* config_harmonize_onestep().
EndOfFile ==
    /\ cfg.ok /\ rest = <<>> /\ phase \in {"file", "rest"} /\ phase' = "done"
    /\ cfg' = IF cfg.interfaces = <<>> THEN Fail(cfg) ELSE config_harmonize_onestep(cfg)
    /\ UNCHANGED <<args, lines, rest, cli, said, named>>

CNext ==
    \/ Argument \/ UserLine \/ Generate \/ GeneratedLine \/ EndOfFile
    \/ \E generated \in BOOLEAN : OpenFile(generated)

CSpec == CInit /\ [][CNext]_cvars

-----------------------------------------------------------------------------
ItemType == [Options -> -128..255 \cup {Unset}]

\* The types; what is stored passed the range check of its option
\* (get_ranged_int(), parse_item()).
CTypeOK ==
    /\ cfg.items \in [Sections -> ItemType] /\ cfg.locked \subseteq Options
    /\ cfg.table \in 0..Len(cfg.tables) /\ cfg.ok \in BOOLEAN
    /\ cfg.section \in Sections \cup {"unknown", "unicast_master_table"}
    /\ phase \in {"args", "file", "rest", "done"} /\ named \in Int

\* The two options that the program changes by itself.
Harmonized == {"time_stamping", "twoStepFlag"}

\* ASAP in the global section, which overwrites and locks.
AsapSaid == cfg.items["global"].fault_reset_interval = FRI_ASAP

\* What a port gets is what its own sections said last; if they are silent, what
\* the command line said last; then what the global sections said last; then
\* the default: whatever the order and the repetition of sections (parse_item(),
\* config_find_item()).  ASAP, see AsapSaid, and the one-step options excepted.
Precedence ==
    cfg.ok => \A p \in PortNames, o \in Options \ Harmonized :
        ~ (o = "fault_reset_interval" /\ AsapSaid) =>
            config_get(cfg, p, o) =
                CASE said[p][o] # Unset -> said[p][o]
                  [] said[p][o] = Unset /\ cli[o] # Unset -> cli[o]
                  [] said[p][o] = Unset /\ cli[o] = Unset /\ said["global"][o] # Unset ->
                        said["global"][o]
                  [] OTHER -> config_tab[o].default

\* When the clock is created, the flag in its Sync messages agrees with how they
\* are time stamped, from wherever the two options came
\* (config_harmonize_onestep()).
OneStepAgrees ==
    phase = "done" /\ cfg.ok =>
        (cfg.items["global"].twoStepFlag = 0) <=> (cfg.items["global"].time_stamping \in {3, 4})

\* What timemaster writes is read as it meant it, after whatever settings of the
\* user that are in order, unless the command line says otherwise
\* (timemaster.c add_ptp_source(), config_read()).
ReadAsMeant ==
    /\ phase = "rest" => cfg.ok
    /\ phase = "rest" /\ rest = <<>> =>
          \A o \in DOMAIN Meant : cli[o] = Unset => cfg.items["global"][o] = Meant[o]

\* An address goes to the table whose table_id its own section named last
\* (parse_section_line(), config_switch_unicast_mtab()).
AddressesBelong ==
    [][\A t \in DOMAIN cfg.tables :
          /\ t \in DOMAIN cfg'.tables
          /\ cfg'.tables[t] # cfg.tables[t] => cfg.tables[t].id = named]_cvars

\* The configuration is what the user and timemaster meant: Precedence,
\* OneStepAgrees and ReadAsMeant, in a state of the right type.
AsConfigured == CTypeOK /\ Precedence /\ OneStepAgrees /\ ReadAsMeant
=============================================================================
