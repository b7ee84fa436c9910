-------------------------------- MODULE MCPort --------------------------------
(* Instances of Port: the configurations the runs explore. *)
EXTENDS Port

Default == [fsm |-> "ptp_fsm", dm |-> "E2E", slaveOnly |-> FALSE,
            inhibitAnnounce |-> FALSE, inhibitDelay |-> FALSE, asap |-> FALSE,
            badPeerAsap |-> FALSE, jbod |-> FALSE, unicast |-> FALSE,
            raw |-> FALSE, delayTimeout |-> FALSE]

BmcaConfigs ==
    {Default,
     [Default EXCEPT !.dm = "P2P"],
     [Default EXCEPT !.fsm = "ptp_slave_fsm", !.slaveOnly = TRUE],
     [Default EXCEPT !.fsm = "ptp_slave_fsm", !.slaveOnly = TRUE, !.dm = "P2P"]}

\* The static roles of the automotive configurations, with and without
\* announces, and a client whose faults are cleared as soon as possible.
StaticConfigs ==
    {[Default EXCEPT !.fsm = "designated_master_fsm", !.dm = "COMMON_P2P",
                     !.inhibitAnnounce = TRUE, !.inhibitDelay = TRUE],
     [Default EXCEPT !.fsm = "designated_master_fsm", !.dm = "P2P"],
     [Default EXCEPT !.fsm = "designated_slave_fsm", !.slaveOnly = TRUE,
                     !.dm = "COMMON_P2P", !.inhibitAnnounce = TRUE],
     [Default EXCEPT !.fsm = "designated_slave_fsm", !.slaveOnly = TRUE,
                     !.dm = "P2P", !.asap = TRUE, !.badPeerAsap = TRUE],
     [Default EXCEPT !.fsm = "designated_slave_fsm", !.slaveOnly = TRUE,
                     !.asap = TRUE, !.delayTimeout = TRUE]}

\* Faults cleared as soon as possible, on a boundary clock whose ports have
\* their own clocks, and on a unicast client.
AsapConfigs ==
    {[Default EXCEPT !.asap = TRUE, !.jbod = TRUE, !.delayTimeout = TRUE],
     [Default EXCEPT !.fsm = "ptp_slave_fsm", !.slaveOnly = TRUE, !.asap = TRUE,
                     !.unicast = TRUE]}

\* A static server that depends on the CMLDS service.
CmldsServer ==
    {[Default EXCEPT !.fsm = "designated_master_fsm", !.dm = "COMMON_P2P",
                     !.inhibitAnnounce = TRUE]}

LifeConfigs == BmcaConfigs \cup StaticConfigs \cup AsapConfigs \cup CmldsServer

AsapServer ==
    {[Default EXCEPT !.fsm = "designated_master_fsm", !.dm = "P2P", !.asap = TRUE]}
=============================================================================
