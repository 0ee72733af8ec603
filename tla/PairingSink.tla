---------------------------- MODULE PairingSink ----------------------------
(***************************************************************************)
(* What the control-channel service promises the consumer of               *)
(* proxyPayloadCh, stated without goroutines, channels or WaitGroups:      *)
(* the client's forward requests and data channels arrive one by one, the  *)
(* session may start to close, and each TCPProxyConfig handed over pairs   *)
(* one accepted data channel with one received forward request, neither    *)
(* used by an earlier config.  Once the session has started to close, a    *)
(* config may carry the empty request instead (the cycle that Close cut    *)
(* short, service.go 323-342).                                             *)
(***************************************************************************)
CONSTANTS Chan, Fwd, NoFwd

VARIABLES
    requests,  \* the forward requests the client has sent
    channels,  \* the data channels the service has accepted
    configs,   \* the TCPProxyConfigs handed to the consumer
    closing    \* Close has begun

vars == <<requests, channels, configs, closing>>

Init ==
    /\ requests = {}
    /\ channels = {}
    /\ configs = {}
    /\ closing = FALSE

\* A tcpip-forward request arrives.
Request(f) ==
    /\ f \in Fwd \ requests
    /\ requests' = requests \cup {f}
    /\ UNCHANGED <<channels, configs, closing>>

\* A data channel is accepted.
Open(c) ==
    /\ c \in Chan \ channels
    /\ channels' = channels \cup {c}
    /\ UNCHANGED <<requests, configs, closing>>

\* The session starts to close; it never reopens.
Close ==
    /\ ~closing
    /\ closing' = TRUE
    /\ UNCHANGED <<requests, channels, configs>>

\* The channel of no config yet.
FreeChan(c) == c \in channels /\ \A e \in configs : e.ch # c

\* The request of no config yet, or the empty request once closing.
FreeFwd(f) ==
    \/ f \in requests /\ \A e \in configs : e.fwd # f
    \/ f = NoFwd /\ closing

\* A TCPProxyConfig pairing channel c with request f.
Emit(f, c) ==
    /\ FreeChan(c)
    /\ FreeFwd(f)
    /\ configs' = configs \cup {[fwd |-> f, ch |-> c]}
    /\ UNCHANGED <<requests, channels, closing>>

Next ==
    \/ \E f \in Fwd : Request(f)
    \/ \E c \in Chan : Open(c)
    \/ Close
    \/ \E f \in Fwd \cup {NoFwd}, c \in Chan : Emit(f, c)

Spec == Init /\ [][Next]_vars
=============================================================================
