----------------------- MODULE SSHServiceRefinement -----------------------
(***************************************************************************)
(* The service implements PairingSink, for every set of channels and of    *)
(* forward requests.  Each step of a goroutine is a step of the abstract   *)
(* pairing or leaves its four variables alone: loopParseCmdPayload's       *)
(* receive is Request, the accept loop's Accept is Open, close(closeCh) is *)
(* Close, and the send on proxyPayloadCh is Emit.  That the send is an     *)
(* Emit rests on the pairing invariant of SSHServiceProofs, and on one     *)
(* more fact: a cycle can end without a forward request only after Close.  *)
(***************************************************************************)
EXTENDS SSHServiceProofs

\* A cycle whose first waiter has finished with the zero CmdPayload was cut
\* short by Close: the waiter only leaves its select on a receive, which
\* stores a request, or on closeCh.
HalfOnlyOnClose ==
    (pc[GEN] = "join" /\ pc[W1] = "done" /\ p1 \notin Fwd) => closeCh

RefInv == PairingInv /\ HalfOnlyOnClose

\* A step that moves one goroutine other than loopGenerateProxy and its
\* first waiter, and leaves p1 and closeCh alone, keeps HalfOnlyOnClose.
LEMMA HalfMover ==
    ASSUME TypeOK, HalfOnlyOnClose,
           NEW p \in Proc, p # GEN, p # W1, NEW l,
           pc' = [pc EXCEPT ![p] = l], UNCHANGED <<p1, closeCh>>
    PROVE  HalfOnlyOnClose'
<1>1. GEN \in Proc /\ W1 \in Proc
  BY DEF Proc
<1>2. pc'[GEN] = pc[GEN] /\ pc'[W1] = pc[W1]
  BY <1>1 DEF TypeOK
<1>3. QED
  BY <1>2 DEF HalfOnlyOnClose

\* The same for a step that moves two such goroutines.
LEMMA HalfMover2 ==
    ASSUME TypeOK, HalfOnlyOnClose,
           NEW p \in Proc, NEW q \in Proc, p # GEN, p # W1, q # GEN, q # W1,
           NEW l, NEW m,
           pc' = [pc EXCEPT ![p] = l, ![q] = m], UNCHANGED <<p1, closeCh>>
    PROVE  HalfOnlyOnClose'
<1>1. GEN \in Proc /\ W1 \in Proc
  BY DEF Proc
<1>2. pc'[GEN] = pc[GEN] /\ pc'[W1] = pc[W1]
  BY <1>1 DEF TypeOK
<1>3. QED
  BY <1>2 DEF HalfOnlyOnClose

\* The same for a step that moves no goroutine.
LEMMA HalfStill ==
    ASSUME HalfOnlyOnClose, UNCHANGED <<pc, p1, closeCh>>
    PROVE  HalfOnlyOnClose'
BY DEF HalfOnlyOnClose

\* Every step keeps HalfOnlyOnClose.
LEMMA HalfStep == RefInv /\ [Next]_vars => HalfOnlyOnClose'
<1> SUFFICES ASSUME TypeOK, PairingRest, HalfOnlyOnClose, [Next]_vars
             PROVE  HalfOnlyOnClose'
  BY DEF RefInv, PairingInv, TypeInv
<1> USE DEF Goto
<1>0. /\ GR \in Proc /\ ACC \in Proc /\ REPLY \in Proc /\ W2 \in Proc
      /\ GR # GEN /\ GR # W1 /\ ACC # GEN /\ ACC # W1 /\ REPLY # GEN /\ REPLY # W1
      /\ W2 # GEN /\ W2 # W1
      /\ \A c \in Chan : /\ RD(c) \in Proc /\ RD(c) # GEN /\ RD(c) # W1
                         /\ HB(c) \in Proc /\ HB(c) # GEN /\ HB(c) # W1
  BY RoleDistinct DEF Proc
<1>1. ASSUME NEW p \in Closers, CloseStep(p) PROVE HalfOnlyOnClose'
  <2>0. p \in Proc /\ p # GEN /\ p # W1
    BY RoleDistinct DEF Closers, Proc
  <2>1. CASE CloseSignal(p) /\ ~closeCh
    BY <2>1 DEF CloseSignal, HalfOnlyOnClose
  <2>2. CASE CloseSignal(p) /\ closeCh
    BY <2>2, HalfStill DEF CloseSignal
  <2>3. CASE CloseCheck(p) \/ CloseHandoffChans(p) \/ CloseWait(p) \/ CloseTeardown(p)
    <3>1. \E l : pc' = [pc EXCEPT ![p] = l] \/ pc' = pc
      BY <2>3 DEF CloseCheck, CloseHandoffChans, CloseWait, CloseTeardown
    <3>2. UNCHANGED <<p1, closeCh>>
      BY <2>3 DEF CloseCheck, CloseHandoffChans, CloseWait, CloseTeardown
    <3>3. QED
      BY <2>0, <3>1, <3>2, HalfMover, HalfStill
  <2>4. QED
    BY <1>1, <2>1, <2>2, <2>3 DEF CloseStep
<1>2. CASE \E f \in Fwd : CmdRecvForward(f)
  BY <1>0, <1>2, HalfMover DEF CmdRecvForward
<1>3. CASE CmdUnmarshalError \/ CmdReqStreamClosed \/ CmdCloseSignal \/ CmdHandoffPanic
  BY <1>0, <1>3, HalfMover
  DEF CmdUnmarshalError, CmdReqStreamClosed, CmdCloseSignal, CmdHandoffPanic
<1>4. CASE CmdHandoff
  <2>1. p1' \in Fwd
    BY <1>4 DEF CmdHandoff, PairingRest, HandoffFresh, TypeOK
  <2>2. QED
    BY <2>1 DEF HalfOnlyOnClose
<1>5. ASSUME NEW c \in Chan, ChanAccept(c) \/ ChanAcceptError(c) PROVE HalfOnlyOnClose'
  <2>1. CASE ChanAccept(c)
    BY <1>0, <2>1, HalfMover2 DEF ChanAccept
  <2>2. CASE ChanAcceptError(c)
    BY <1>0, <2>2, HalfMover DEF ChanAcceptError
  <2>3. QED
    BY <1>5, <2>1, <2>2
<1>6. CASE ChanStreamClosed \/ ReplyProxyError \/ ReplyCloseSignal
  BY <1>0, <1>6, HalfMover DEF ChanStreamClosed, ReplyProxyError, ReplyCloseSignal
<1>7. ASSUME NEW c \in Chan, NEW k \in Kinds, ExtraRecvCommand(c, k) PROVE HalfOnlyOnClose'
  BY <1>0, <1>7, HalfMover DEF ExtraRecvCommand
<1>8. ASSUME NEW c \in Chan,
             \/ ExtraReqStreamClosed(c) \/ ExtraHandoffPanic(c)
             \/ HeartbeatEOF(c) \/ HeartbeatCloseSignal(c)
      PROVE HalfOnlyOnClose'
  BY <1>0, <1>8, HalfMover
  DEF ExtraReqStreamClosed, ExtraHandoffPanic, HeartbeatEOF, HeartbeatCloseSignal
<1>9. ASSUME NEW c \in Chan, ExtraHandoff(c) PROVE HalfOnlyOnClose'
  BY <1>0, <1>9, HalfMover2 DEF ExtraHandoff
<1>10. CASE GenStartCycle
  <2>1. pc'[W1] = "wait"
    BY <1>0, <1>10, RoleDistinct DEF GenStartCycle, TypeOK, Proc
  <2>2. QED
    BY <2>1 DEF HalfOnlyOnClose
<1>11. CASE GenExit \/ GenFinishCycle
  <2>1. pc'[GEN] # "join"
    BY <1>11, RoleDistinct DEF GenExit, GenFinishCycle, TypeOK, Proc
  <2>2. QED
    BY <2>1 DEF HalfOnlyOnClose
<1>12. CASE WaitAddrAbandon
  BY <1>12 DEF WaitAddrAbandon, HalfOnlyOnClose
<1>13. CASE WaitExtraAbandon
  BY <1>0, <1>13, HalfMover DEF WaitExtraAbandon
<1>14. CASE ClientDisconnect \/ \E c \in Chan : ClientCloseChannel(c)
  BY <1>14, HalfStill DEF ClientDisconnect, ClientCloseChannel
<1>15. CASE UNCHANGED vars
  BY <1>15, HalfStill DEF vars
<1>16. QED
  BY <1>1, <1>2, <1>3, <1>4, <1>5, <1>6, <1>7, <1>8, <1>9, <1>10, <1>11, <1>12,
     <1>13, <1>14, <1>15 DEF Next, Client, Service

\* The initial state satisfies RefInv.
LEMMA RefInit == Init => RefInv
<1> SUFFICES ASSUME Init PROVE RefInv
  OBVIOUS
<1>1. W1 \in Proc /\ W1 \notin {GR, ACC, REPLY} /\ W1 # GEN
  BY RoleDistinct DEF Proc
<1>2. pc[W1] = "idle"
  BY <1>1 DEF Init
<1>3. HalfOnlyOnClose
  BY <1>2 DEF HalfOnlyOnClose
<1>4. QED
  BY <1>3, PairingInit DEF RefInv

\* Every step keeps RefInv.
LEMMA RefStep == RefInv /\ [Next]_vars => RefInv'
BY PairingStep, HalfStep DEF RefInv

-----------------------------------------------------------------------------
\* The abstract variables, as the service's variables.
SinkVars == <<issued, opened, emitted, closeCh>>

\* The send on proxyPayloadCh is an Emit: the cycle's channel and request
\* are those of no earlier config, and its request is one the client sent
\* unless Close has begun.
LEMMA FinishIsEmit ==
    ASSUME TypeOK, PairingRest, HalfOnlyOnClose, GenFinishCycle,
           exit # 1, p2.kind = "tcp"
    PROVE  Sink!Emit(p1, p2.ch) /\ p1 \in Fwd \cup {NoFwd} /\ p2.ch \in Chan
<1>1. p2 \in Extra /\ p2 # NoExtra
  <2>1. NoExtra.kind # "tcp"
    BY DEF NoExtra, NoKind
  <2>2. QED
    BY <2>1 DEF TypeOK
<1>2. pc[GEN] = "join" /\ pc[W1] = "done"
  BY DEF GenFinishCycle
<1>3. p2.ch \in Chan /\ pc[RD(p2.ch)] = "done"
  BY <1>1 DEF Extra, PairingRest, HandedReadersDone
<1>4. p2.ch \in opened
  BY <1>3 DEF PairingRest, ReaderStartsOnAccept
<1>5. \A e \in emitted : e.ch # p2.ch
  BY <1>1, <1>2 DEF PairingRest, CycleFresh
<1>6. Sink!FreeChan(p2.ch)
  BY <1>4, <1>5 DEF Sink!FreeChan
<1>7. Sink!FreeFwd(p1)
  <2>1. CASE p1 \in Fwd
    <3>1. p1 \in issued /\ \A e \in emitted : e.fwd # p1
      BY <1>2, <2>1 DEF PairingRest, ForwardsIssued, CycleFresh
    <3>2. QED
      BY <3>1 DEF Sink!FreeFwd
  <2>2. CASE p1 \notin Fwd
    <3>1. p1 = NoFwd
      BY <2>2 DEF TypeOK
    <3>2. closeCh
      BY <1>2, <2>2 DEF HalfOnlyOnClose
    <3>3. QED
      BY <3>1, <3>2 DEF Sink!FreeFwd
  <2>3. QED
    BY <2>1, <2>2
<1>8. emitted' = emitted \cup {[fwd |-> p1, ch |-> p2.ch]}
  BY DEF GenFinishCycle, TcpConfig
<1>9. UNCHANGED <<issued, opened, closeCh>>
  BY DEF GenFinishCycle
<1>10. QED
  BY <1>3, <1>6, <1>7, <1>8, <1>9 DEF Sink!Emit, TypeOK

\* Each step of the service maps to a step of PairingSink or to a stutter.
LEMMA SinkStep ==
    RefInv /\ [Next]_vars => [UNCHANGED Sink!vars \/ Sink!Next]_(Sink!vars)
<1> SUFFICES ASSUME TypeOK, PairingRest, HalfOnlyOnClose, [Next]_vars
             PROVE  UNCHANGED SinkVars \/ Sink!Next
  BY DEF RefInv, PairingInv, TypeInv, SinkVars, Sink!vars
<1>1. ASSUME NEW p \in Closers, CloseStep(p) PROVE UNCHANGED SinkVars \/ Sink!Next
  <2>1. CASE CloseSignal(p) /\ ~closeCh
    <3>1. Sink!Close
      BY <2>1 DEF CloseSignal, Sink!Close
    <3>2. QED
      BY <3>1 DEF Sink!Next
  <2>2. CASE ~(CloseSignal(p) /\ ~closeCh)
    BY <1>1, <2>2
    DEF CloseStep, CloseCheck, CloseSignal, CloseHandoffChans, CloseWait, CloseTeardown, SinkVars
  <2>3. QED
    BY <2>1, <2>2
<1>2. ASSUME NEW f \in Fwd, CmdRecvForward(f) PROVE UNCHANGED SinkVars \/ Sink!Next
  <2>1. Sink!Request(f)
    BY <1>2 DEF CmdRecvForward, Sink!Request
  <2>2. QED
    BY <2>1 DEF Sink!Next
<1>3. ASSUME NEW c \in Chan, ChanAccept(c) \/ ChanAcceptError(c)
      PROVE UNCHANGED SinkVars \/ Sink!Next
  <2>1. Sink!Open(c)
    BY <1>3 DEF ChanAccept, ChanAcceptError, Sink!Open
  <2>2. QED
    BY <2>1 DEF Sink!Next
<1>4. CASE GenFinishCycle
  <2>1. CASE exit # 1 /\ p2.kind = "tcp"
    BY <1>4, <2>1, FinishIsEmit DEF Sink!Next
  <2>2. CASE ~(exit # 1 /\ p2.kind = "tcp")
    BY <1>4, <2>2 DEF GenFinishCycle, SinkVars
  <2>3. QED
    BY <2>1, <2>2
<1>5. CASE \/ CmdUnmarshalError \/ CmdReqStreamClosed \/ CmdCloseSignal
           \/ CmdHandoff \/ CmdHandoffPanic \/ ChanStreamClosed
           \/ ReplyProxyError \/ ReplyCloseSignal
           \/ GenStartCycle \/ GenExit \/ WaitAddrAbandon \/ WaitExtraAbandon
           \/ ClientDisconnect
  BY <1>5 DEF CmdUnmarshalError, CmdReqStreamClosed, CmdCloseSignal, CmdHandoff,
              CmdHandoffPanic, ChanStreamClosed, ReplyProxyError, ReplyCloseSignal,
              GenStartCycle, GenExit, WaitAddrAbandon, WaitExtraAbandon,
              ClientDisconnect, SinkVars
<1>6. ASSUME NEW c \in Chan,
             \/ \E k \in Kinds : ExtraRecvCommand(c, k)
             \/ ExtraReqStreamClosed(c) \/ ExtraHandoff(c) \/ ExtraHandoffPanic(c)
             \/ HeartbeatEOF(c) \/ HeartbeatCloseSignal(c)
             \/ ClientCloseChannel(c)
      PROVE UNCHANGED SinkVars
  BY <1>6 DEF ExtraRecvCommand, ExtraReqStreamClosed, ExtraHandoff, ExtraHandoffPanic,
              HeartbeatEOF, HeartbeatCloseSignal, ClientCloseChannel, SinkVars
<1>7. CASE UNCHANGED vars
  BY <1>7 DEF vars, SinkVars
<1>8. QED
  BY <1>1, <1>2, <1>3, <1>4, <1>5, <1>6, <1>7 DEF Next, Client, Service

\* The service implements the abstract pairing (SinkSpec): every
\* TCPProxyConfig loopGenerateProxy sends pairs an accepted channel with a
\* received forward request, each used once, or after Close with the empty
\* request; for every set of channels and of forward requests.
THEOREM Refinement == Spec => SinkSpec
<1>1. Init => Sink!Init
  BY DEF Init, Sink!Init
<1>2. QED
  BY <1>1, RefInit, RefStep, SinkStep, PTL DEF Spec, SinkSpec
=============================================================================
