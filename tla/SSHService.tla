---------------------------- MODULE SSHService ----------------------------
(***************************************************************************)
(* The control-channel service of src/pkg/ssh/service.go: one SSH session  *)
(* served by the goroutines that Run starts and those they spawn.          *)
(*                                                                         *)
(*   loopParseCmdPayload   global requests -> addrPayloadCh                *)
(*   loopParseExtraPayload accepts data channels; per channel a sideband   *)
(*                         reader (-> extraPayloadCh) and loopSendHeartbeat*)
(*   loopGenerateProxy     one pairing cycle after another: two waiter     *)
(*                         goroutines joined by a WaitGroup, then a        *)
(*                         TCPProxyConfig to proxyPayloadCh                *)
(*   loopReply             a VProxyError on replyCh closes the service     *)
(*   Close                 called by several goroutines; check-then-act    *)
(*                                                                         *)
(* Every goroutine is a process with a program counter pc[p].  A process   *)
(* id is a pair <<role, channel>>; the singletons carry NoChan.  Close is  *)
(* inlined into each of its callers as the labels c_check .. c_teardown.   *)
(* Payloads are abstracted to their identity: a forward request is an      *)
(* element of Fwd, an extra command is its kind plus (as a ghost) the data *)
(* channel it came from.  The client and the network are the environment: *)
(* they may send requests, open and close channels and disconnect.         *)
(* An unrecovered panic ends the whole process: panicked stops every step. *)
(***************************************************************************)
EXTENDS Naturals, FiniteSets

CONSTANTS
    Chan,     \* data channels the client may open (model values)
    Fwd,      \* tcpip-forward payloads the client may send (model values)
    NoFwd,    \* the zero value of CmdPayload
    NoChan    \* no channel: the zero value of the ghost field of ExtraPayload

ASSUME ConstAssumption ==
    /\ NoFwd \notin Fwd
    /\ NoChan \notin Chan

Kinds == {"tcp", "http"}       \* the types parseSSHExtraMessage can return
NoKind == ""                   \* ExtraPayload{}.Type

GR    == <<"gr", NoChan>>      \* loopParseCmdPayload
ACC   == <<"acc", NoChan>>     \* loopParseExtraPayload
GEN   == <<"gen", NoChan>>     \* loopGenerateProxy
W1    == <<"w1", NoChan>>      \* its waiter for p1 (addrPayloadCh)
W2    == <<"w2", NoChan>>      \* its waiter for p2 (extraPayloadCh)
REPLY == <<"reply", NoChan>>   \* loopReply
RD(c) == <<"rd", c>>           \* the sideband reader of channel c
HB(c) == <<"hb", c>>           \* loopSendHeartbeat(c)

Proc == {GR, ACC, GEN, W1, W2, REPLY} \cup {RD(c) : c \in Chan} \cup {HB(c) : c \in Chan}

\* The goroutines that call Close.
Closers == {GR, REPLY} \cup {HB(c) : c \in Chan}

CloseLabels == {"c_check", "c_close", "c_chans", "c_wait", "c_teardown"}
Labels == {"idle", "loop", "send", "read", "tick", "top", "join", "wait", "done"}
            \cup CloseLabels

NoExtra == [kind |-> NoKind, ch |-> NoChan]
Extra == [kind : Kinds, ch : Chan]
Config == [fwd : Fwd \cup {NoFwd}, ch : Chan]

VARIABLES
    pc,            \* program counter of every goroutine
    transport,     \* "up" while the client keeps the TCP connection
    opened,        \* channels the client has opened
    chClosed,      \* channels the client has closed
    issued,        \* forward requests the client has sent
    grMsg,         \* the CmdPayload loopParseCmdPayload is handing off
    rdMsg,         \* rdMsg[c]: the command kind the reader of c is handing off
    p1, p2,        \* the pairing cycle's CmdPayload and ExtraPayload
    closeCh,       \* ss.closeCh has been closed
    handoffClosed, \* addrPayloadCh and extraPayloadCh have been closed
    exit,          \* ss.exit
    tcpClosed,     \* sshConn.Close and tcpConn.Close have run
    panicked,      \* an unrecovered panic ended the process
    emitted        \* the TCPProxyConfigs sent to proxyPayloadCh

vars == <<pc, transport, opened, chClosed, issued, grMsg, rdMsg, p1, p2,
          closeCh, handoffClosed, exit, tcpClosed, panicked, emitted>>

TypeOK ==
    /\ pc \in [Proc -> Labels]
    /\ transport \in {"up", "down"}
    /\ opened \subseteq Chan
    /\ chClosed \subseteq opened
    /\ issued \subseteq Fwd
    /\ grMsg \in Fwd \cup {NoFwd}
    /\ rdMsg \in [Chan -> Kinds \cup {NoKind}]
    /\ p1 \in Fwd \cup {NoFwd}
    /\ p2 \in Extra \cup {NoExtra}
    /\ closeCh \in BOOLEAN
    /\ handoffClosed \in BOOLEAN
    /\ exit \in {0, 1}
    /\ tcpClosed \in BOOLEAN
    /\ panicked \in BOOLEAN
    /\ emitted \subseteq Config

\* NewSSHService succeeded and Run has started the four loops.
Init ==
    /\ pc = [p \in Proc |->
               IF p \in {GR, ACC, REPLY} THEN "loop"
               ELSE IF p = GEN THEN "top" ELSE "idle"]
    /\ transport = "up"
    /\ opened = {}
    /\ chClosed = {}
    /\ issued = {}
    /\ grMsg = NoFwd
    /\ rdMsg = [c \in Chan |-> NoKind]
    /\ p1 = NoFwd
    /\ p2 = NoExtra
    /\ closeCh = FALSE
    /\ handoffClosed = FALSE
    /\ exit = 0
    /\ tcpClosed = FALSE
    /\ panicked = FALSE
    /\ emitted = {}

\* The request stream of channel c has ended and a send on it returns io.EOF.
ChanDead(c) == transport = "down" \/ c \in chClosed

\* Where a caller of Close continues when Close returns.
Resume(p) == IF p = REPLY THEN "loop" ELSE "done"

Goto(p, l) == pc' = [pc EXCEPT ![p] = l]

-----------------------------------------------------------------------------
(***************************************************************************)
(* Close (service.go 127-150).  The two early returns are one check: exit  *)
(* is stored only after closeCh is closed, so reading exit and then        *)
(* closeCh returns early exactly when closeCh is closed at the second read.*)
(* Nothing serialises two callers between the check and close(closeCh).   *)
(***************************************************************************)
CloseCheck(p) ==
    /\ pc[p] = "c_check"
    /\ Goto(p, IF exit = 1 \/ closeCh THEN Resume(p) ELSE "c_close")
    /\ UNCHANGED <<transport, opened, chClosed, issued, grMsg, rdMsg, p1, p2,
                   closeCh, handoffClosed, exit, tcpClosed, panicked, emitted>>

\* close(ss.closeCh): closing a closed channel panics, and nothing recovers it.
CloseSignal(p) ==
    /\ pc[p] = "c_close"
    /\ IF closeCh
         THEN /\ panicked' = TRUE
              /\ UNCHANGED <<pc, closeCh>>
         ELSE /\ closeCh' = TRUE
              /\ Goto(p, "c_chans")
              /\ UNCHANGED panicked
    /\ UNCHANGED <<transport, opened, chClosed, issued, grMsg, rdMsg, p1, p2,
                   handoffClosed, exit, tcpClosed, emitted>>

\* close(ss.addrPayloadCh); close(ss.extraPayloadCh)
CloseHandoffChans(p) ==
    /\ pc[p] = "c_chans"
    /\ IF handoffClosed
         THEN /\ panicked' = TRUE
              /\ UNCHANGED <<pc, handoffClosed>>
         ELSE /\ handoffClosed' = TRUE
              /\ Goto(p, "c_wait")
              /\ UNCHANGED panicked
    /\ UNCHANGED <<transport, opened, chClosed, issued, grMsg, rdMsg, p1, p2,
                   closeCh, exit, tcpClosed, emitted>>

\* _ = ss.sshConn.Wait(): blocks until the connection has shut down, which
\* only the client's side can bring about while the server still holds it.
CloseWait(p) ==
    /\ pc[p] = "c_wait"
    /\ transport = "down"
    /\ Goto(p, "c_teardown")
    /\ UNCHANGED <<transport, opened, chClosed, issued, grMsg, rdMsg, p1, p2,
                   closeCh, handoffClosed, exit, tcpClosed, panicked, emitted>>

\* sshConn.Close(); tcpConn.Close(); atomic.StoreInt32(&ss.exit, 1)
CloseTeardown(p) ==
    /\ pc[p] = "c_teardown"
    /\ tcpClosed' = TRUE
    /\ exit' = 1
    /\ Goto(p, Resume(p))
    /\ UNCHANGED <<transport, opened, chClosed, issued, grMsg, rdMsg, p1, p2,
                   closeCh, handoffClosed, panicked, emitted>>

CloseStep(p) ==
    \/ CloseCheck(p)
    \/ CloseSignal(p)
    \/ CloseHandoffChans(p)
    \/ CloseWait(p)
    \/ CloseTeardown(p)

-----------------------------------------------------------------------------
(***************************************************************************)
(* loopParseCmdPayload (service.go 152-190).  The select takes a global    *)
(* request or sees closeCh closed; Go picks either when both are ready.    *)
(* Keepalive and other request types only log and reply: stuttering.       *)
(***************************************************************************)
\* A tcpip-forward request whose payload unmarshals: hand it to the pairing loop.
CmdRecvForward(f) ==
    /\ pc[GR] = "loop"
    /\ transport = "up"
    /\ f \in Fwd \ issued
    /\ issued' = issued \cup {f}
    /\ grMsg' = f
    /\ Goto(GR, "send")
    /\ UNCHANGED <<transport, opened, chClosed, rdMsg, p1, p2, closeCh,
                   handoffClosed, exit, tcpClosed, panicked, emitted>>

\* ssh.Unmarshal fails: the goroutine returns without closing the service.
CmdUnmarshalError ==
    /\ pc[GR] = "loop"
    /\ transport = "up"
    /\ Goto(GR, "done")
    /\ UNCHANGED <<transport, opened, chClosed, issued, grMsg, rdMsg, p1, p2,
                   closeCh, handoffClosed, exit, tcpClosed, panicked, emitted>>

\* The global request channel is closed: ss.Close(), then return.
CmdReqStreamClosed ==
    /\ pc[GR] = "loop"
    /\ transport = "down"
    /\ Goto(GR, "c_check")
    /\ UNCHANGED <<transport, opened, chClosed, issued, grMsg, rdMsg, p1, p2,
                   closeCh, handoffClosed, exit, tcpClosed, panicked, emitted>>

CmdCloseSignal ==
    /\ pc[GR] = "loop"
    /\ closeCh
    /\ Goto(GR, "done")
    /\ UNCHANGED <<transport, opened, chClosed, issued, grMsg, rdMsg, p1, p2,
                   closeCh, handoffClosed, exit, tcpClosed, panicked, emitted>>

\* ss.addrPayloadCh <- addrPayload meets the first waiter's receive.
CmdHandoff ==
    /\ pc[GR] = "send"
    /\ pc[W1] = "wait"
    /\ ~handoffClosed
    /\ p1' = grMsg
    /\ grMsg' = NoFwd
    /\ pc' = [pc EXCEPT ![GR] = "loop", ![W1] = "done"]
    /\ UNCHANGED <<transport, opened, chClosed, issued, rdMsg, p2, closeCh,
                   handoffClosed, exit, tcpClosed, panicked, emitted>>

\* The send on a closed channel panics; PanicToError recovers it.
CmdHandoffPanic ==
    /\ pc[GR] = "send"
    /\ handoffClosed
    /\ grMsg' = NoFwd
    /\ Goto(GR, "loop")
    /\ UNCHANGED <<transport, opened, chClosed, issued, rdMsg, p1, p2,
                   closeCh, handoffClosed, exit, tcpClosed, panicked, emitted>>

-----------------------------------------------------------------------------
(***************************************************************************)
(* loopParseExtraPayload (service.go 215-257): for each new channel,      *)
(* Accept, then start loopSendHeartbeat(ch) and the sideband reader.       *)
(***************************************************************************)
ChanAccept(c) ==
    /\ pc[ACC] = "loop"
    /\ transport = "up"
    /\ c \in Chan \ opened
    /\ opened' = opened \cup {c}
    /\ pc' = [pc EXCEPT ![RD(c)] = "read", ![HB(c)] = "tick"]
    /\ UNCHANGED <<transport, chClosed, issued, grMsg, rdMsg, p1, p2, closeCh,
                   handoffClosed, exit, tcpClosed, panicked, emitted>>

\* newChannel.Accept() fails: the accept loop returns.
ChanAcceptError(c) ==
    /\ pc[ACC] = "loop"
    /\ transport = "up"
    /\ c \in Chan \ opened
    /\ opened' = opened \cup {c}
    /\ chClosed' = chClosed \cup {c}
    /\ Goto(ACC, "done")
    /\ UNCHANGED <<transport, issued, grMsg, rdMsg, p1, p2, closeCh,
                   handoffClosed, exit, tcpClosed, panicked, emitted>>

\* range ss.gChannel ends when the connection does.
ChanStreamClosed ==
    /\ pc[ACC] = "loop"
    /\ transport = "down"
    /\ Goto(ACC, "done")
    /\ UNCHANGED <<transport, opened, chClosed, issued, grMsg, rdMsg, p1, p2,
                   closeCh, handoffClosed, exit, tcpClosed, panicked, emitted>>

(***************************************************************************)
(* The sideband reader of channel c (service.go 227-255).  A payload of at *)
(* most 4 bytes, one without "tcp"/"http", or one parseSSHExtraMessage     *)
(* rejects is skipped (stuttering); a parsed command of kind k is handed   *)
(* to the pairing loop, after which the reader returns.                    *)
(***************************************************************************)
\* Fault variant: the handed-off payload loses the parsed type.
ExtraRecvUntyped(c, k) ==
    /\ pc[RD(c)] = "read"
    /\ ~ChanDead(c)
    /\ rdMsg' = [rdMsg EXCEPT ![c] = NoKind]
    /\ Goto(RD(c), "send")
    /\ UNCHANGED <<transport, opened, chClosed, issued, grMsg, p1, p2, closeCh,
                   handoffClosed, exit, tcpClosed, panicked, emitted>>

ExtraRecvCommand(c, k) ==
    /\ pc[RD(c)] = "read"
    /\ ~ChanDead(c)
    /\ rdMsg' = [rdMsg EXCEPT ![c] = k]
    /\ Goto(RD(c), "send")
    /\ UNCHANGED <<transport, opened, chClosed, issued, grMsg, p1, p2, closeCh,
                   handoffClosed, exit, tcpClosed, panicked, emitted>>

ExtraReqStreamClosed(c) ==
    /\ pc[RD(c)] = "read"
    /\ ChanDead(c)
    /\ Goto(RD(c), "done")
    /\ UNCHANGED <<transport, opened, chClosed, issued, grMsg, rdMsg, p1, p2,
                   closeCh, handoffClosed, exit, tcpClosed, panicked, emitted>>

\* ss.extraPayloadCh <- msg meets the second waiter's receive; return.
ExtraHandoff(c) ==
    /\ pc[RD(c)] = "send"
    /\ pc[W2] = "wait"
    /\ ~handoffClosed
    /\ p2' = [kind |-> rdMsg[c], ch |-> c]
    /\ rdMsg' = [rdMsg EXCEPT ![c] = NoKind]
    /\ pc' = [pc EXCEPT ![RD(c)] = "done", ![W2] = "done"]
    /\ UNCHANGED <<transport, opened, chClosed, issued, grMsg, p1, closeCh,
                   handoffClosed, exit, tcpClosed, panicked, emitted>>

\* The send on a closed channel panics; PanicToError recovers it; return.
ExtraHandoffPanic(c) ==
    /\ pc[RD(c)] = "send"
    /\ handoffClosed
    /\ rdMsg' = [rdMsg EXCEPT ![c] = NoKind]
    /\ Goto(RD(c), "done")
    /\ UNCHANGED <<transport, opened, chClosed, issued, grMsg, p1, p2,
                   closeCh, handoffClosed, exit, tcpClosed, panicked, emitted>>

(***************************************************************************)
(* loopSendHeartbeat(c) (service.go 192-213).  A tick on a live channel    *)
(* sends a request and loops (stuttering); on a dead one SendRequest       *)
(* returns io.EOF and the heartbeat closes the whole service.              *)
(***************************************************************************)
HeartbeatEOF(c) ==
    /\ pc[HB(c)] = "tick"
    /\ ChanDead(c)
    /\ Goto(HB(c), "c_check")
    /\ UNCHANGED <<transport, opened, chClosed, issued, grMsg, rdMsg, p1, p2,
                   closeCh, handoffClosed, exit, tcpClosed, panicked, emitted>>

HeartbeatCloseSignal(c) ==
    /\ pc[HB(c)] = "tick"
    /\ closeCh
    /\ Goto(HB(c), "done")
    /\ UNCHANGED <<transport, opened, chClosed, issued, grMsg, rdMsg, p1, p2,
                   closeCh, handoffClosed, exit, tcpClosed, panicked, emitted>>

-----------------------------------------------------------------------------
(***************************************************************************)
(* loopReply (service.go 267-283): a *VProxyError closes the service and  *)
(* the loop goes on; other payloads are ignored (stuttering).              *)
(***************************************************************************)
ReplyProxyError ==
    /\ pc[REPLY] = "loop"
    /\ Goto(REPLY, "c_check")
    /\ UNCHANGED <<transport, opened, chClosed, issued, grMsg, rdMsg, p1, p2,
                   closeCh, handoffClosed, exit, tcpClosed, panicked, emitted>>

\* Fault variant: "break" in the closeCh case only leaves the select.
ReplyCloseBreaksSelect ==
    /\ pc[REPLY] = "loop"
    /\ closeCh
    /\ Goto(REPLY, "loop")
    /\ UNCHANGED <<transport, opened, chClosed, issued, grMsg, rdMsg, p1, p2,
                   closeCh, handoffClosed, exit, tcpClosed, panicked, emitted>>

ReplyCloseSignal ==
    /\ pc[REPLY] = "loop"
    /\ closeCh
    /\ Goto(REPLY, "done")
    /\ UNCHANGED <<transport, opened, chClosed, issued, grMsg, rdMsg, p1, p2,
                   closeCh, handoffClosed, exit, tcpClosed, panicked, emitted>>

-----------------------------------------------------------------------------
(***************************************************************************)
(* loopGenerateProxy (service.go 285-347).                                 *)
(***************************************************************************)
\* Fault variant: the cycle's CmdPayload is declared outside the loop.
GenStartCycleKeepsP1 ==
    /\ pc[GEN] = "top"
    /\ exit = 0
    /\ p2' = NoExtra
    /\ pc' = [pc EXCEPT ![GEN] = "join", ![W1] = "wait", ![W2] = "wait"]
    /\ UNCHANGED <<transport, opened, chClosed, issued, grMsg, rdMsg, p1, closeCh,
                   handoffClosed, exit, tcpClosed, panicked, emitted>>

\* exit is 0: fresh p1, p2 and two waiter goroutines.
GenStartCycle ==
    /\ pc[GEN] = "top"
    /\ exit = 0
    /\ p1' = NoFwd
    /\ p2' = NoExtra
    /\ pc' = [pc EXCEPT ![GEN] = "join", ![W1] = "wait", ![W2] = "wait"]
    /\ UNCHANGED <<transport, opened, chClosed, issued, grMsg, rdMsg, closeCh,
                   handoffClosed, exit, tcpClosed, panicked, emitted>>

GenExit ==
    /\ pc[GEN] = "top"
    /\ exit = 1
    /\ Goto(GEN, "done")
    /\ UNCHANGED <<transport, opened, chClosed, issued, grMsg, rdMsg, p1, p2,
                   closeCh, handoffClosed, exit, tcpClosed, panicked, emitted>>

\* A waiter's select sees closeCh closed, or receives the zero value from the
\* closed handoff channel (closed only after closeCh): its payload stays zero.
WaitAddrAbandon ==
    /\ pc[W1] = "wait"
    /\ closeCh
    /\ Goto(W1, "done")
    /\ UNCHANGED <<transport, opened, chClosed, issued, grMsg, rdMsg, p1, p2,
                   closeCh, handoffClosed, exit, tcpClosed, panicked, emitted>>

WaitExtraAbandon ==
    /\ pc[W2] = "wait"
    /\ closeCh
    /\ Goto(W2, "done")
    /\ UNCHANGED <<transport, opened, chClosed, issued, grMsg, rdMsg, p1, p2,
                   closeCh, handoffClosed, exit, tcpClosed, panicked, emitted>>

\* The TCPProxyConfig built from p1 (LocalIP, RemotePort) when p2.Type is tcp.
TcpConfig == [fwd |-> p1, ch |-> p2.ch]

\* wg.Wait() returns; unless exit is 1, a tcp command yields a TCPProxyConfig,
\* sent to proxyPayloadCh (the sink is assumed to take it); http and the
\* zero type emit nothing.
GenFinishCycle ==
    /\ pc[GEN] = "join"
    /\ pc[W1] = "done"
    /\ pc[W2] = "done"
    /\ IF exit = 1
         THEN /\ Goto(GEN, "done")
              /\ UNCHANGED emitted
         ELSE /\ Goto(GEN, "top")
              /\ emitted' = IF p2.kind = "tcp" THEN emitted \cup {TcpConfig}
                                               ELSE emitted
    /\ UNCHANGED <<transport, opened, chClosed, issued, grMsg, rdMsg, p1, p2,
                   closeCh, handoffClosed, exit, tcpClosed, panicked>>

-----------------------------------------------------------------------------
(***************************************************************************)
(* The client.                                                             *)
(***************************************************************************)
ClientDisconnect ==
    /\ transport = "up"
    /\ transport' = "down"
    /\ UNCHANGED <<pc, opened, chClosed, issued, grMsg, rdMsg, p1, p2, closeCh,
                   handoffClosed, exit, tcpClosed, panicked, emitted>>

ClientCloseChannel(c) ==
    /\ transport = "up"
    /\ c \in opened \ chClosed
    /\ chClosed' = chClosed \cup {c}
    /\ UNCHANGED <<pc, transport, opened, issued, grMsg, rdMsg, p1, p2, closeCh,
                   handoffClosed, exit, tcpClosed, panicked, emitted>>

Client ==
    \/ ClientDisconnect
    \/ \E c \in Chan : ClientCloseChannel(c)
    \/ \E f \in Fwd : CmdRecvForward(f)
    \/ CmdUnmarshalError
    \/ \E c \in Chan : ChanAccept(c) \/ ChanAcceptError(c)
    \/ \E c \in Chan, k \in Kinds : ExtraRecvCommand(c, k)
    \/ ReplyProxyError

\* The steps the goroutines take by themselves once they can.
Service ==
    \/ \E p \in Closers : CloseStep(p)
    \/ CmdReqStreamClosed \/ CmdCloseSignal \/ CmdHandoff \/ CmdHandoffPanic
    \/ ChanStreamClosed
    \/ \E c \in Chan : \/ ExtraReqStreamClosed(c) \/ ExtraHandoff(c)
                       \/ ExtraHandoffPanic(c)
                       \/ HeartbeatEOF(c) \/ HeartbeatCloseSignal(c)
    \/ ReplyCloseSignal
    \/ GenStartCycle \/ GenExit \/ WaitAddrAbandon \/ WaitExtraAbandon
    \/ GenFinishCycle

Next == ~panicked /\ (Client \/ Service)

Spec == Init /\ [][Next]_vars

\* The Go scheduler eventually runs every runnable goroutine: each process's
\* own steps are weakly fair.  A select with several ready cases picks one
\* uniformly at random, so a case that is ready again and again is taken in
\* the end: the closeCh cases of the loops are strongly fair.  The client owes
\* nothing.
Fairness ==
    /\ \A p \in Closers : WF_vars(~panicked /\ CloseStep(p))
    /\ WF_vars(~panicked /\ (CmdReqStreamClosed \/ CmdHandoff \/ CmdHandoffPanic))
    /\ SF_vars(~panicked /\ CmdCloseSignal)
    /\ WF_vars(~panicked /\ ChanStreamClosed)
    /\ \A c \in Chan :
          /\ WF_vars(~panicked /\ (ExtraReqStreamClosed(c) \/ ExtraHandoff(c)
                                      \/ ExtraHandoffPanic(c)))
          /\ WF_vars(~panicked /\ HeartbeatEOF(c))
          /\ SF_vars(~panicked /\ HeartbeatCloseSignal(c))
    /\ SF_vars(~panicked /\ ReplyCloseSignal)
    /\ WF_vars(~panicked /\ (GenStartCycle \/ GenExit \/ GenFinishCycle))
    /\ WF_vars(~panicked /\ WaitAddrAbandon)
    /\ WF_vars(~panicked /\ WaitExtraAbandon)

FairSpec == Spec /\ Fairness

-----------------------------------------------------------------------------
(***************************************************************************)
(* Properties.                                                             *)
(***************************************************************************)

\* The pairing barrier is one-to-one (spec: "Pairing is strictly 1:1", "no
\* Forward Request or Extra Command survives into a second pairing cycle"):
\* two TCPProxyConfigs that loopGenerateProxy sends never come from the same
\* data channel's command nor from the same tcpip-forward request.
PairingOneToOne ==
    \A x, y \in emitted :
        (x.ch = y.ch \/ (x.fwd = y.fwd /\ x.fwd \in Fwd)) => x = y

\* Spec 5: "a Proxy Configuration is emitted only after both halves of that
\* specific negotiation have arrived -- never speculatively"; 4.1: "if close
\* fires first, abandon the cycle without emitting anything".  Every
\* TCPProxyConfig carries a received forward request (not the zero CmdPayload).
NoSpeculativeConfig ==
    \A e \in emitted : e.fwd \in Fwd

\* Spec 8: "Session close is idempotent: invoking it concurrently from N tasks
\* results in exactly one teardown sequence and no panic".  Close, called by
\* loopParseCmdPayload, loopReply and every loopSendHeartbeat, never panics.
CloseIsPanicFree ==
    ~panicked

\* Spec 3: the transport session is "destroyed on first fatal error"; 7: an
\* EOF on the control connection triggers full session close.  Once the
\* client has gone, the service eventually exits (ss.exit = 1).
SessionEndsAfterDisconnect ==
    (transport = "down") ~> (exit = 1 \/ panicked)

\* Spec 4.1: on a "proxy failed" signal loopReply "triggers full session
\* close", which closes the secure channel and the underlying connection.
ProxyFailureClosesSession ==
    (pc[REPLY] = "c_check") ~> (tcpClosed \/ panicked)

\* Once the service has exited, every goroutine it started ends: none stays
\* blocked on a handoff, a select or a stream (no goroutine leak).
NoGoroutineLeakAfterExit ==
    (exit = 1) ~> (panicked \/ \A p \in Proc : pc[p] \in {"idle", "done"})

-----------------------------------------------------------------------------
(***************************************************************************)
(* Refinement: the service implements PairingSink.  The client's requests  *)
(* are issued, the accepted channels opened, the configs emitted, and the  *)
(* session is closing once closeCh is closed.  Every other variable is     *)
(* internal to the goroutines.                                             *)
(***************************************************************************)
Sink == INSTANCE PairingSink
            WITH requests <- issued, channels <- opened,
                 configs <- emitted, closing <- closeCh

\* Every behaviour of the service's goroutines is one the abstract pairing
\* allows: each TCPProxyConfig that loopGenerateProxy sends pairs an accepted
\* channel with a received forward request, neither used before, or (only
\* after Close has closed closeCh) with the empty request.  This is Sink!Spec
\* with the stuttering case written first, which TLC evaluates first.
SinkSpec == Sink!Init /\ [][UNCHANGED Sink!vars \/ Sink!Next]_(Sink!vars)
=============================================================================
