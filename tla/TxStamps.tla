------------------------------- MODULE TxStamps ------------------------------
(****************************************************************************)
(* The transmit time stamp of an event message (transport.c, raw.c, udp.c,  *)
(* sk.c): the message is sent, and then the time stamp is awaited in the    *)
(* error queue of the same socket, for tx_timestamp_timeout at most.  What  *)
(* is found there is not compared with the message.                         *)
(*                                                                          *)
(* The hardware delivers a time stamp sooner or later, or never.  A port    *)
(* that fails to get one becomes FAULTY and closes its sockets; the client  *)
(* nsm only reports the failure.                                            *)
(****************************************************************************)
EXTENDS Naturals, Sequences

CONSTANT MaxSends   \* bound: event messages sent

ASSUME MaxSendsAssumption == MaxSends \in Nat

VARIABLES
    user,       \* who sends: a port, or nsm
    trp,        \* the transport
    fds,        \* the event socket is open
    sends,      \* event messages sent so far
    underway,   \* messages whose time stamp the hardware has not delivered
    errqueue,   \* the time stamps in the error queue, each named by its message
    deferred,   \* the message whose time stamp is fetched later, if any
    polling,    \* the message whose time stamp is awaited, if any
    stamped     \* history: the last message that got a time stamp, and that time stamp

tvars == <<user, trp, fds, sends, underway, errqueue, deferred, polling, stamped>>

None == 0

TxInit ==
    /\ user \in {"port", "nsm"} /\ trp \in {"raw", "udp"} /\ fds = TRUE
    /\ sends = 0 /\ underway = {} /\ errqueue = <<>>
    /\ deferred = None /\ polling = None /\ stamped = <<None, None>>

\* Mutant: the sockets of a faulty port stay as they are.
CloseNothing == fds' = FALSE /\ UNCHANGED <<underway, errqueue>>

\* raw_close(), udp_close(): what the kernel still has for the socket is dropped.
transport_close == fds' = FALSE /\ underway' = {} /\ errqueue' = <<>>

\* The sender did not get what it wanted.
Failed ==
    /\ deferred' = None /\ polling' = None
    /\ IF user = "port" THEN transport_close ELSE UNCHANGED <<fds, underway, errqueue>>
    /\ UNCHANGED <<user, trp, sends, stamped>>

-----------------------------------------------------------------------------
\* The message leaves by the event socket; only TRANS_EVENT waits at once.
OnTheWire(event) ==
    /\ sends < MaxSends /\ sends' = sends + 1
    /\ underway' = underway \cup {sends + 1}
    /\ polling' = IF event = "TRANS_EVENT" THEN sends + 1 ELSE None
    /\ deferred' = IF event = "TRANS_DEFER_EVENT" THEN sends + 1 ELSE None
    /\ UNCHANGED <<user, trp, fds, errqueue, stamped>>

raw_send(event) == trp = "raw" /\ (OnTheWire(event) \/ Failed)
udp_send(event) == trp = "udp" /\ (OnTheWire(event) \/ Failed)

\* Messages with a deferred time stamp are those a transparent clock forwards.
transport_send(event) ==
    /\ fds /\ polling = None /\ deferred = None
    /\ event = "TRANS_DEFER_EVENT" => user = "port"
    /\ raw_send(event) \/ udp_send(event)

transport_txts ==
    /\ deferred # None /\ polling' = deferred /\ deferred' = None
    /\ UNCHANGED <<user, trp, fds, sends, underway, errqueue, stamped>>

\* sk_receive() with MSG_ERRQUEUE: poll() finds something, or fails, or times out.
sk_receive ==
    /\ polling # None
    /\ \/ /\ errqueue # <<>>
          /\ stamped' = <<polling, Head(errqueue)>> /\ errqueue' = Tail(errqueue)
          /\ polling' = None
          /\ UNCHANGED <<user, trp, fds, sends, underway, deferred>>
       \/ Failed

\* The hardware delivers.
Deliver(n) ==
    /\ n \in underway /\ underway' = underway \ {n}
    /\ errqueue' = Append(errqueue, n)
    /\ UNCHANGED <<user, trp, fds, sends, deferred, polling, stamped>>

\* raw_open(), udp_open(): the port is initialized again; a failure changes nothing.
transport_open ==
    /\ ~fds /\ fds' = TRUE
    /\ UNCHANGED <<user, trp, sends, underway, errqueue, deferred, polling, stamped>>

TxNext ==
    \/ \E event \in {"TRANS_EVENT", "TRANS_DEFER_EVENT"} : transport_send(event)
    \/ transport_txts \/ sk_receive \/ transport_open
    \/ \E n \in underway : Deliver(n)

-----------------------------------------------------------------------------
\* A message of a port is never given the time stamp of an earlier one that
\* came too late: the failure that a timeout is closes the socket before the
\* next message is sent (sk_receive(), port_disable()).  In nsm it does not.
StampIsOwn == user = "port" => stamped[1] = stamped[2]
=============================================================================
