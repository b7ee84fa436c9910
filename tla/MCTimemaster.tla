----------------------------- MODULE MCTimemaster ----------------------------
(****************************************************************************)
(* Instances of Timemaster, and of Config, which reads what it writes.  The *)
(* two share nothing but the file, so a behaviour is about one of them.     *)
(****************************************************************************)
EXTENDS Timemaster, Config

Conf(sources, phcOf, software, vclocks, restart) ==
    [sources |-> sources, phcOf |-> phcOf, software |-> software, use_vclocks |-> vclocks,
     restart_processes |-> restart]

\* No PTP source at all, while the other half moves.
Idle == Conf(<<>>, <<0, 0, 0>>, {}, FALSE, TRUE)

\* One clock for two interfaces and a third without; two domains on one clock,
\* with and without virtual clocks; an interface that cannot time stamp.
MCScripts ==
    {Idle,
     Conf(<<<<1, 2, 3>>>>, <<0, 0, NoPhc>>, {3}, FALSE, TRUE),
     Conf(<<<<1>>, <<2>>>>, <<0, 0, 1>>, {1, 2}, TRUE, TRUE),
     Conf(<<<<1>>, <<2>>>>, <<0, 0, 1>>, {1, 2}, FALSE, TRUE),
     Conf(<<<<1>>>>, <<1, 0, 0>>, {}, FALSE, FALSE),
     Conf(<<<<2, 1>>>>, <<NoPhc, 0, 0>>, {}, FALSE, TRUE)}

\* Good and bad values of options of every kind.
MCSettings ==
    {Setting("logSyncInterval", Num(1)), Setting("logSyncInterval", Num(2)),
     Setting("logSyncInterval", Num(500)), Setting("logSyncInterval", Word("fast")),
     Setting("twoStepFlag", Num(0)), Setting("time_stamping", Word("onestep")),
     Setting("time_stamping", Word("software")), Setting("time_stamping", Word("none")),
     Setting("fault_reset_interval", Word("ASAP")), Setting("fault_reset_interval", Num(3)),
     Setting("slaveOnly", Num(1)), Setting("domainNumber", Num(7)), Setting("priority", Num(1))}

MCTableLines ==
    {TableLine("table_id", 1), TableLine("table_id", 2), TableLine("table_id", 0),
     TableLine("address", 1), TableLine("peer_address", 1),
     TableLine("logQueryInterval", 1), TableLine("logQueryInterval", 200)}

VARIABLE half   \* what the behaviour is about

allvars == <<half, vars, cvars>>

MCInit ==
    /\ half \in {"run", "read"} /\ Init /\ CInit
    /\ (config = Idle) <=> (half = "read")

MCNext ==
    \/ half = "run" /\ Next /\ UNCHANGED <<half, cvars>>
    \/ half = "read" /\ CNext /\ UNCHANGED <<half, vars>>

FairSpec == MCInit /\ [][MCNext]_allvars /\ (half = "run" => Fairness)
=============================================================================
