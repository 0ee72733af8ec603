------------------------- MODULE SSHServiceProofs -------------------------
(***************************************************************************)
(* Proofs about SSHService, for every value of the constants: the type     *)
(* invariant, and the one-to-one pairing of forward requests and extra     *)
(* commands into TCPProxyConfigs, from an inductive strengthening.         *)
(***************************************************************************)
EXTENDS SSHService, TLAPS

\* The labels a caller of Close resumes at are labels.
LEMMA ResumeType ==
    ASSUME NEW p
    PROVE  Resume(p) \in Labels
BY DEF Resume, Labels

\* Process ids of different roles differ, and so do those of different channels.
LEMMA ProcDistinct ==
    ASSUME NEW c \in Chan, NEW d \in Chan
    PROVE  /\ RD(c) # HB(d)
           /\ RD(c) \notin {GR, ACC, GEN, W1, W2, REPLY}
           /\ HB(c) \notin {GR, ACC, GEN, W1, W2, REPLY}
           /\ RD(c) \notin Closers
           /\ (RD(c) = RD(d)) => c = d
           /\ (HB(c) = HB(d)) => c = d
           /\ GR # ACC /\ GR # GEN /\ GR # W1 /\ GR # W2 /\ GR # REPLY
           /\ ACC # GEN /\ ACC # W1 /\ ACC # W2 /\ ACC # REPLY
           /\ GEN # W1 /\ GEN # W2 /\ GEN # REPLY
           /\ W1 # W2 /\ W1 # REPLY /\ W2 # REPLY
BY DEF RD, HB, GR, ACC, GEN, W1, W2, REPLY, Closers

\* The goroutines that are not per channel differ from each other and from
\* every per-channel goroutine.
LEMMA RoleDistinct ==
    /\ GR # ACC /\ GR # GEN /\ GR # W1 /\ GR # W2 /\ GR # REPLY
    /\ ACC # GEN /\ ACC # W1 /\ ACC # W2 /\ ACC # REPLY
    /\ GEN # W1 /\ GEN # W2 /\ GEN # REPLY
    /\ W1 # W2 /\ W1 # REPLY /\ W2 # REPLY
    /\ \A c \in Chan : RD(c) \notin {GR, ACC, GEN, W1, W2, REPLY}
    /\ \A c \in Chan : HB(c) \notin {GR, ACC, GEN, W1, W2, REPLY}
    /\ GEN \notin Closers /\ W1 \notin Closers /\ W2 \notin Closers
BY DEF RD, HB, GR, ACC, GEN, W1, W2, REPLY, Closers

-----------------------------------------------------------------------------
(***************************************************************************)
(* TypeOK is not inductive by itself: a reader about to hand off must hold *)
(* a parsed kind, or the ExtraPayload it sends would not be one.           *)
(***************************************************************************)
ReaderHoldsKind == \A c \in Chan : pc[RD(c)] = "send" => rdMsg[c] \in Kinds

TypeInv == TypeOK /\ ReaderHoldsKind

\* A step that moves one process other than a sideband reader, and leaves
\* rdMsg alone, keeps ReaderHoldsKind.
LEMMA ReaderFrame ==
    ASSUME TypeOK, ReaderHoldsKind,
           NEW p \in Proc, \A c \in Chan : p # RD(c),
           NEW l, pc' = [pc EXCEPT ![p] = l], rdMsg' = rdMsg
    PROVE  ReaderHoldsKind'
BY DEF ReaderHoldsKind, TypeOK

\* The same for a step that moves no process.
LEMMA ReaderStill ==
    ASSUME ReaderHoldsKind, pc' = pc, rdMsg' = rdMsg
    PROVE  ReaderHoldsKind'
BY DEF ReaderHoldsKind

\* Moving one process to a label keeps pc a function from Proc to Labels.
LEMMA PcStep ==
    ASSUME NEW pcv \in [Proc -> Labels], NEW p \in Proc, NEW l \in Labels
    PROVE  [pcv EXCEPT ![p] = l] \in [Proc -> Labels]
OBVIOUS

\* The same for a step that moves two processes at once.
LEMMA PcStep2 ==
    ASSUME NEW pcv \in [Proc -> Labels], NEW p \in Proc, NEW q \in Proc,
           NEW l \in Labels, NEW m \in Labels
    PROVE  [pcv EXCEPT ![p] = l, ![q] = m] \in [Proc -> Labels]
OBVIOUS

\* A step that moves two processes, neither a sideband reader, and leaves
\* rdMsg alone, keeps ReaderHoldsKind.
LEMMA ReaderFrame2 ==
    ASSUME TypeOK, ReaderHoldsKind,
           NEW p \in Proc, NEW q \in Proc, \A c \in Chan : p # RD(c) /\ q # RD(c),
           NEW l, NEW m, pc' = [pc EXCEPT ![p] = l, ![q] = m], rdMsg' = rdMsg
    PROVE  ReaderHoldsKind'
<1> SUFFICES ASSUME NEW d \in Chan, pc'[RD(d)] = "send" PROVE rdMsg'[d] \in Kinds
  BY DEF ReaderHoldsKind
<1>1. pc'[RD(d)] = pc[RD(d)]
  BY DEF TypeOK, Proc
<1>2. QED
  BY <1>1 DEF ReaderHoldsKind

\* The initial state satisfies TypeInv.
LEMMA TypeInit == Init => TypeInv
<1> SUFFICES ASSUME Init PROVE TypeInv
  OBVIOUS
<1>0. ReaderHoldsKind
  BY ProcDistinct DEF Init, Proc, ReaderHoldsKind
<1>1. pc \in [Proc -> Labels]
  BY DEF Init, Labels
<1>2. rdMsg \in [Chan -> Kinds \cup {NoKind}]
  BY DEF Init
<1>3. p2 \in Extra \cup {NoExtra}
  BY DEF Init
<1>4. /\ transport \in {"up", "down"}
      /\ opened \subseteq Chan /\ chClosed \subseteq opened /\ issued \subseteq Fwd
      /\ grMsg \in Fwd \cup {NoFwd} /\ p1 \in Fwd \cup {NoFwd}
      /\ closeCh \in BOOLEAN /\ handoffClosed \in BOOLEAN /\ exit \in {0, 1}
      /\ tcpClosed \in BOOLEAN /\ panicked \in BOOLEAN /\ emitted \subseteq Config
  BY Zenon DEF Init
<1>5. QED
  BY <1>0, <1>1, <1>2, <1>3, <1>4, Zenon DEF TypeInv, TypeOK

\* Every step keeps TypeInv.
LEMMA TypeStep == TypeInv /\ [Next]_vars => TypeInv'
  <2> SUFFICES ASSUME TypeOK, ReaderHoldsKind, [Next]_vars
               PROVE  TypeOK' /\ ReaderHoldsKind'
    BY DEF TypeInv
  <2> USE DEF Goto
  <2>1. ASSUME NEW p \in Closers, CloseStep(p) PROVE TypeOK' /\ ReaderHoldsKind'
    <3>0. /\ p \in Proc
          /\ \A c \in Chan : p # RD(c)
      BY ProcDistinct DEF Closers, Proc
    <3>1. CASE CloseCheck(p)
      <4>1. (IF exit = 1 \/ closeCh THEN Resume(p) ELSE "c_close") \in Labels
        BY ResumeType DEF Labels, CloseLabels
      <4>2. pc' \in [Proc -> Labels]
        BY <3>0, <3>1, <4>1, PcStep DEF CloseCheck, TypeOK
      <4>3. ReaderHoldsKind'
        BY <3>0, <3>1, ReaderFrame DEF CloseCheck
      <4>4. QED
        BY <3>1, <4>2, <4>3 DEF CloseCheck, TypeOK
    <3>2. CASE CloseSignal(p)
      BY <3>0, <3>2, PcStep, ReaderFrame, ReaderStill
      DEF CloseSignal, TypeOK, Labels, CloseLabels
    <3>3. CASE CloseHandoffChans(p)
      BY <3>0, <3>3, PcStep, ReaderFrame, ReaderStill
      DEF CloseHandoffChans, TypeOK, Labels, CloseLabels
    <3>4. CASE CloseWait(p)
      BY <3>0, <3>4, PcStep, ReaderFrame DEF CloseWait, TypeOK, Labels, CloseLabels
    <3>5. CASE CloseTeardown(p)
      BY <3>0, <3>5, ResumeType, PcStep, ReaderFrame DEF CloseTeardown, TypeOK
    <3>6. QED
      BY <2>1, <3>1, <3>2, <3>3, <3>4, <3>5 DEF CloseStep
  <2>2. ASSUME NEW f \in Fwd, CmdRecvForward(f) PROVE TypeOK' /\ ReaderHoldsKind'
    <3>1. GR \in Proc /\ \A c \in Chan : GR # RD(c)
      BY ProcDistinct DEF Proc
    <3>2. QED
      BY <2>2, <3>1, PcStep, ReaderFrame DEF CmdRecvForward, TypeOK, Labels
  <2>3. CASE CmdUnmarshalError \/ CmdReqStreamClosed \/ CmdCloseSignal \/ CmdHandoffPanic
    <3>1. GR \in Proc /\ \A c \in Chan : GR # RD(c)
      BY ProcDistinct DEF Proc
    <3>2. QED
      BY <2>3, <3>1, PcStep, ReaderFrame
      DEF CmdUnmarshalError, CmdReqStreamClosed, CmdCloseSignal, CmdHandoffPanic, TypeOK,
          Labels, CloseLabels
  <2>4. CASE CmdHandoff
    <3>1. /\ GR \in Proc /\ W1 \in Proc
          /\ \A c \in Chan : GR # RD(c) /\ W1 # RD(c)
      BY ProcDistinct DEF Proc
    <3>2. pc' \in [Proc -> Labels]
      BY <2>4, <3>1, PcStep2 DEF CmdHandoff, TypeOK, Labels
    <3>3. ReaderHoldsKind'
      BY <2>4, <3>1, ReaderFrame2 DEF CmdHandoff
    <3>4. QED
      BY <2>4, <3>2, <3>3 DEF CmdHandoff, TypeOK
  <2>5. ASSUME NEW c \in Chan, ChanAccept(c) \/ ChanAcceptError(c)
        PROVE TypeOK' /\ ReaderHoldsKind'
    <3>1. /\ ACC \in Proc /\ RD(c) \in Proc /\ HB(c) \in Proc
          /\ \A d \in Chan : ACC # RD(d) /\ HB(c) # RD(d)
      BY ProcDistinct DEF Proc
    <3>2. CASE ChanAccept(c)
      <4>1. pc' \in [Proc -> Labels]
        BY <3>1, <3>2, PcStep2 DEF ChanAccept, TypeOK, Labels
      <4>2. ReaderHoldsKind'
        <5> SUFFICES ASSUME NEW d \in Chan, pc'[RD(d)] = "send" PROVE rdMsg'[d] \in Kinds
          BY DEF ReaderHoldsKind
        <5>1. pc'[RD(d)] = pc[RD(d)]
          BY <3>1, <3>2, ProcDistinct DEF ChanAccept, TypeOK, Proc
        <5>2. QED
          BY <3>2, <5>1 DEF ChanAccept, ReaderHoldsKind
      <4>3. QED
        BY <3>2, <4>1, <4>2 DEF ChanAccept, TypeOK
    <3>3. CASE ChanAcceptError(c)
      BY <3>1, <3>3, PcStep, ReaderFrame DEF ChanAcceptError, TypeOK, Labels
    <3>4. QED
      BY <2>5, <3>2, <3>3
  <2>6. CASE ChanStreamClosed
    <3>1. ACC \in Proc /\ \A d \in Chan : ACC # RD(d)
      BY ProcDistinct DEF Proc
    <3>2. QED
      BY <2>6, <3>1, PcStep, ReaderFrame DEF ChanStreamClosed, TypeOK, Labels
  <2>7. ASSUME NEW c \in Chan, NEW k \in Kinds, ExtraRecvCommand(c, k)
        PROVE TypeOK' /\ ReaderHoldsKind'
    <3>1. RD(c) \in Proc /\ \A d \in Chan : RD(c) = RD(d) => c = d
      BY ProcDistinct DEF Proc
    <3>2. QED
      BY <2>7, <3>1 DEF ExtraRecvCommand, TypeOK, Labels, ReaderHoldsKind, Kinds
  <2>8. ASSUME NEW c \in Chan,
               ExtraReqStreamClosed(c) \/ ExtraHandoff(c) \/ ExtraHandoffPanic(c)
        PROVE TypeOK' /\ ReaderHoldsKind'
    <3>1. /\ RD(c) \in Proc /\ W2 \in Proc
          /\ \A d \in Chan : (RD(c) = RD(d) => c = d) /\ W2 # RD(d)
      BY ProcDistinct DEF Proc
    <3>2. CASE ExtraHandoff(c)
      <4>1. rdMsg[c] \in Kinds
        BY <3>2 DEF ExtraHandoff, ReaderHoldsKind
      <4>2. p2' \in Extra
        BY <3>2, <4>1 DEF ExtraHandoff, Extra
      <4>3. pc' \in [Proc -> Labels]
        BY <3>1, <3>2, PcStep2 DEF ExtraHandoff, TypeOK, Labels
      <4>4. rdMsg' \in [Chan -> Kinds \cup {NoKind}]
        BY <3>2 DEF ExtraHandoff, TypeOK
      <4>5. ReaderHoldsKind'
        <5> SUFFICES ASSUME NEW d \in Chan, pc'[RD(d)] = "send" PROVE rdMsg'[d] \in Kinds
          BY DEF ReaderHoldsKind
        <5>1. d # c
          BY <3>1, <3>2 DEF ExtraHandoff, TypeOK
        <5>2. pc'[RD(d)] = pc[RD(d)]
          BY <3>1, <3>2, <5>1, ProcDistinct DEF ExtraHandoff, TypeOK, Proc
        <5>3. QED
          BY <3>2, <5>1, <5>2 DEF ExtraHandoff, ReaderHoldsKind, TypeOK
      <4>6. QED
        BY <3>2, <4>2, <4>3, <4>4, <4>5 DEF ExtraHandoff, TypeOK
    <3>3. CASE ExtraReqStreamClosed(c) \/ ExtraHandoffPanic(c)
      <4>1. pc' = [pc EXCEPT ![RD(c)] = "done"]
        BY <3>3 DEF ExtraReqStreamClosed, ExtraHandoffPanic
      <4>2. pc' \in [Proc -> Labels]
        BY <3>1, <4>1, PcStep DEF TypeOK, Labels
      <4>3. rdMsg' \in [Chan -> Kinds \cup {NoKind}]
        BY <3>3 DEF ExtraReqStreamClosed, ExtraHandoffPanic, TypeOK
      <4>4. ReaderHoldsKind'
        <5> SUFFICES ASSUME NEW d \in Chan, pc'[RD(d)] = "send" PROVE rdMsg'[d] \in Kinds
          BY DEF ReaderHoldsKind
        <5>1. d # c
          BY <3>1, <4>1 DEF TypeOK
        <5>2. pc'[RD(d)] = pc[RD(d)]
          BY <3>1, <4>1, <5>1, ProcDistinct DEF TypeOK, Proc
        <5>3. rdMsg'[d] = rdMsg[d]
          BY <3>3, <5>1 DEF ExtraReqStreamClosed, ExtraHandoffPanic, TypeOK
        <5>4. QED
          BY <5>2, <5>3 DEF ReaderHoldsKind
      <4>5. QED
        BY <3>3, <4>2, <4>3, <4>4 DEF ExtraReqStreamClosed, ExtraHandoffPanic, TypeOK
    <3>4. QED
      BY <2>8, <3>2, <3>3
  <2>9. ASSUME NEW c \in Chan, HeartbeatEOF(c) \/ HeartbeatCloseSignal(c)
        PROVE TypeOK' /\ ReaderHoldsKind'
    <3>1. HB(c) \in Proc /\ \A d \in Chan : HB(c) # RD(d)
      BY ProcDistinct DEF Proc
    <3>2. QED
      BY <2>9, <3>1, PcStep, ReaderFrame DEF HeartbeatEOF, HeartbeatCloseSignal, TypeOK,
                                             Labels, CloseLabels
  <2>10. CASE ReplyProxyError \/ ReplyCloseSignal
    <3>1. REPLY \in Proc /\ \A d \in Chan : REPLY # RD(d)
      BY ProcDistinct DEF Proc
    <3>2. QED
      BY <2>10, <3>1, PcStep, ReaderFrame DEF ReplyProxyError, ReplyCloseSignal, TypeOK,
                                              Labels, CloseLabels
  <2>11. CASE GenExit \/ WaitAddrAbandon \/ WaitExtraAbandon
    <3>1. /\ GEN \in Proc /\ W1 \in Proc /\ W2 \in Proc
          /\ \A d \in Chan : GEN # RD(d) /\ W1 # RD(d) /\ W2 # RD(d)
      BY ProcDistinct DEF Proc
    <3>2. QED
      BY <2>11, <3>1, PcStep, ReaderFrame DEF GenExit, WaitAddrAbandon, WaitExtraAbandon,
                                              TypeOK, Labels
  <2>12. CASE GenStartCycle
    <3>1. /\ GEN \in Proc /\ W1 \in Proc /\ W2 \in Proc
          /\ \A d \in Chan : GEN # RD(d) /\ W1 # RD(d) /\ W2 # RD(d)
      BY ProcDistinct DEF Proc
    <3>2. pc' = [pc EXCEPT ![GEN] = "join", ![W1] = "wait", ![W2] = "wait"]
      BY <2>12 DEF GenStartCycle
    <3>3. pc' \in [Proc -> Labels]
      BY <3>1, <3>2 DEF TypeOK, Labels
    <3>4. ReaderHoldsKind'
      <4> SUFFICES ASSUME NEW d \in Chan, pc'[RD(d)] = "send" PROVE rdMsg'[d] \in Kinds
        BY DEF ReaderHoldsKind
      <4>1. pc'[RD(d)] = pc[RD(d)]
        BY <3>1, <3>2, ProcDistinct DEF TypeOK, Proc
      <4>2. QED
        BY <2>12, <4>1 DEF GenStartCycle, ReaderHoldsKind
    <3>5. QED
      BY <2>12, <3>3, <3>4 DEF GenStartCycle, TypeOK, NoExtra
  <2>13. CASE GenFinishCycle
    <3>1. GEN \in Proc /\ \A d \in Chan : GEN # RD(d)
      BY ProcDistinct DEF Proc
    <3>2. p2.kind = "tcp" => TcpConfig \in Config
      <4> SUFFICES ASSUME p2.kind = "tcp" PROVE TcpConfig \in Config
        OBVIOUS
      <4>1. p2 # NoExtra
        <5>1. NoExtra.kind # "tcp"
          BY DEF NoExtra, NoKind
        <5>2. QED
          BY <5>1
      <4>2. p2 \in Extra
        BY <4>1 DEF TypeOK
      <4>3. QED
        BY <4>2 DEF TcpConfig, Config, Extra, TypeOK
    <3>3. QED
      BY <2>13, <3>1, <3>2, PcStep, ReaderFrame DEF GenFinishCycle, TypeOK, Labels
  <2>14. CASE ClientDisconnect \/ \E c \in Chan : ClientCloseChannel(c)
    BY <2>14, ReaderStill DEF ClientDisconnect, ClientCloseChannel, TypeOK
  <2>15. CASE UNCHANGED vars
    BY <2>15, ReaderStill DEF vars, TypeOK
  <2>16. QED
    BY <2>1, <2>2, <2>3, <2>4, <2>5, <2>6, <2>7, <2>8, <2>9, <2>10, <2>11, <2>12,
       <2>13, <2>14, <2>15 DEF Next, Client, Service

\* Every step of the service keeps each variable in its type.
THEOREM TypeCorrect == Spec => []TypeOK
<1>1. TypeInv => TypeOK
  BY DEF TypeInv
<1>2. QED
  BY <1>1, TypeInit, TypeStep, PTL DEF Spec
-----------------------------------------------------------------------------
(***************************************************************************)
(* Why the pairing barrier is one-to-one.  A sideband reader hands off at  *)
(* most once and then returns, and a channel's reader starts only when the *)
(* channel is first accepted; a forward request is handed off once and a   *)
(* new one is always fresh.  So the halves of the cycle in progress are    *)
(* never those of a TCPProxyConfig already sent.                           *)
(***************************************************************************)
\* A sideband reader runs only on an accepted channel.
ReaderStartsOnAccept == \A c \in Chan : c \notin opened => pc[RD(c)] = "idle"

\* The waiters exist only while loopGenerateProxy is in wg.Wait().
WaitersInCycle ==
    /\ pc[W1] = "wait" => pc[GEN] = "join"
    /\ pc[W2] = "wait" => pc[GEN] = "join"

\* The reader of a channel whose command was handed off, or sent on as a
\* TCPProxyConfig, has returned.
HandedReadersDone ==
    /\ p2 # NoExtra => pc[RD(p2.ch)] = "done"
    /\ \A e \in emitted : pc[RD(e.ch)] = "done"

\* Every forward request in the pairing loop came from the client.
ForwardsIssued ==
    /\ p1 \in Fwd => p1 \in issued
    /\ \A e \in emitted : e.fwd \in Fwd => e.fwd \in issued

\* The request loopParseCmdPayload is handing off is not yet in the pairing
\* loop.
HandoffFresh ==
    pc[GR] = "send" => /\ grMsg \in issued
                       /\ grMsg # p1
                       /\ \A e \in emitted : e.fwd # grMsg

\* The halves of the cycle in progress are not those of a sent config.
CycleFresh ==
    pc[GEN] = "join" =>
        /\ p2 # NoExtra => \A e \in emitted : e.ch # p2.ch
        /\ p1 \in Fwd => \A e \in emitted : e.fwd # p1

PairingRest ==
    /\ ReaderStartsOnAccept
    /\ WaitersInCycle
    /\ HandedReadersDone
    /\ ForwardsIssued
    /\ HandoffFresh
    /\ CycleFresh
    /\ PairingOneToOne

PairingInv == TypeInv /\ PairingRest

(***************************************************************************)
(* Most steps leave the pairing state alone: a reader that changes is on   *)
(* an accepted channel and had not returned, loopGenerateProxy does not    *)
(* enter or leave wg.Wait(), no waiter starts waiting, and a handoff in    *)
(* progress stays as it was.                                               *)
(***************************************************************************)
PairingFrameStep ==
    /\ \A c \in Chan : pc'[RD(c)] = pc[RD(c)] \/ (c \in opened' /\ pc[RD(c)] # "done")
    /\ pc'[GEN] = pc[GEN] \/ (pc[GEN] # "join" /\ pc'[GEN] # "join")
    /\ pc'[W1] = "wait" => pc[W1] = "wait"
    /\ pc'[W2] = "wait" => pc[W2] = "wait"
    /\ (pc'[GR] = pc[GR] /\ grMsg' = grMsg) \/ pc'[GR] # "send"
    /\ UNCHANGED <<p1, p2, emitted>>
    /\ issued \subseteq issued'
    /\ opened \subseteq opened'

LEMMA PairingFrame ==
    ASSUME TypeOK, PairingRest, PairingFrameStep
    PROVE  PairingRest'
<1> USE DEF PairingFrameStep
<1>1. ReaderStartsOnAccept'
  BY DEF ReaderStartsOnAccept, PairingRest
<1>2. WaitersInCycle'
  BY DEF WaitersInCycle, PairingRest
<1>3. HandedReadersDone'
  <2>1. p2 # NoExtra => p2.ch \in Chan
    BY DEF TypeOK, Extra
  <2>2. \A e \in emitted : e.ch \in Chan
    BY DEF TypeOK, Config
  <2>3. QED
    BY <2>1, <2>2 DEF HandedReadersDone, PairingRest
<1>4. ForwardsIssued'
  BY DEF ForwardsIssued, PairingRest
<1>5. HandoffFresh'
  BY DEF HandoffFresh, PairingRest
<1>6. CycleFresh'
  BY DEF CycleFresh, PairingRest
<1>7. PairingOneToOne'
  BY DEF PairingOneToOne, PairingRest
<1>8. QED
  BY <1>1, <1>2, <1>3, <1>4, <1>5, <1>6, <1>7 DEF PairingRest

\* A step that moves one process in the way PairingFrameStep allows.
LEMMA MoverFrame ==
    ASSUME TypeOK, NEW p \in Proc, NEW l, pc' = [pc EXCEPT ![p] = l],
           \A c \in Chan : p = RD(c) => c \in opened' /\ pc[p] # "done",
           p = GEN => pc[GEN] # "join" /\ l # "join",
           p \in {W1, W2} => l # "wait",
           p = GR => l # "send",
           grMsg' = grMsg \/ p = GR,
           UNCHANGED <<p1, p2, emitted>>, issued \subseteq issued', opened \subseteq opened'
    PROVE  PairingFrameStep
<1>1. GR \in Proc /\ GEN \in Proc /\ W1 \in Proc /\ W2 \in Proc
  BY DEF Proc
<1>2. \A c \in Chan : RD(c) \in Proc
  BY DEF Proc
<1>3. QED
  BY <1>1, <1>2 DEF PairingFrameStep, TypeOK

\* A step that moves no process and leaves the pairing state alone.
LEMMA StillFrame ==
    ASSUME pc' = pc, UNCHANGED <<grMsg, p1, p2, emitted>>,
           issued \subseteq issued', opened \subseteq opened'
    PROVE  PairingFrameStep
BY DEF PairingFrameStep

\* The initial state satisfies PairingInv.
LEMMA PairingInit == Init => PairingInv
<1> SUFFICES ASSUME Init PROVE PairingInv
  OBVIOUS
<1>1. TypeInv
  BY TypeInit
<1>2. ReaderStartsOnAccept
  BY ProcDistinct DEF Init, ReaderStartsOnAccept, Proc
<1>3. WaitersInCycle /\ HandedReadersDone /\ HandoffFresh /\ CycleFresh
  BY ProcDistinct DEF Init, WaitersInCycle, HandedReadersDone, HandoffFresh, CycleFresh, Proc
<1>4. ForwardsIssued /\ PairingOneToOne
  BY ConstAssumption DEF Init, ForwardsIssued, PairingOneToOne
<1>5. QED
  BY <1>1, <1>2, <1>3, <1>4 DEF PairingInv, PairingRest

\* Every step keeps PairingInv.
LEMMA PairingStep == PairingInv /\ [Next]_vars => PairingInv'
<1> SUFFICES ASSUME TypeOK, ReaderHoldsKind, PairingRest, [Next]_vars
             PROVE  PairingRest'
  BY TypeStep DEF PairingInv, TypeInv
<1>0. TypeOK'
  BY TypeStep DEF TypeInv
<1> USE DEF Goto
<1>1. ASSUME NEW p \in Closers, CloseStep(p) PROVE PairingRest'
  <2>0. /\ p \in Proc /\ p \notin {GEN, W1, W2}
        /\ \A c \in Chan : p # RD(c)
        /\ pc[p] \in CloseLabels => pc[p] # "send"
    BY ProcDistinct, RoleDistinct DEF Closers, Proc, CloseLabels
  <2>1. CASE CloseCheck(p)
    <3>1. (IF exit = 1 \/ closeCh THEN Resume(p) ELSE "c_close") # "send"
      BY DEF Resume
    <3>2. PairingFrameStep
      BY <2>0, <2>1, <3>1, MoverFrame DEF CloseCheck
    <3>3. QED
      BY <3>2, PairingFrame
  <2>2. CASE CloseSignal(p)
    <3>1. CASE closeCh
      BY <2>2, <3>1, StillFrame, PairingFrame DEF CloseSignal
    <3>2. CASE ~closeCh
      BY <2>0, <2>2, <3>2, MoverFrame, PairingFrame DEF CloseSignal
    <3>3. QED
      BY <3>1, <3>2
  <2>3. CASE CloseHandoffChans(p)
    <3>1. CASE handoffClosed
      BY <2>3, <3>1, StillFrame, PairingFrame DEF CloseHandoffChans
    <3>2. CASE ~handoffClosed
      BY <2>0, <2>3, <3>2, MoverFrame, PairingFrame DEF CloseHandoffChans
    <3>3. QED
      BY <3>1, <3>2
  <2>4. CASE CloseWait(p)
    BY <2>0, <2>4, MoverFrame, PairingFrame DEF CloseWait
  <2>5. CASE CloseTeardown(p)
    <3>1. Resume(p) # "send"
      BY DEF Resume
    <3>2. QED
      BY <2>0, <2>5, <3>1, MoverFrame, PairingFrame DEF CloseTeardown
  <2>6. QED
    BY <1>1, <2>1, <2>2, <2>3, <2>4, <2>5 DEF CloseStep
<1>2. ASSUME NEW f \in Fwd, CmdRecvForward(f) PROVE PairingRest'
  <2>1. GR \in Proc /\ GR \notin {GEN, W1, W2} /\ \A c \in Chan : GR # RD(c)
    BY ProcDistinct, RoleDistinct DEF Proc
  <2>3. HandoffFresh'
    <3>1. f \notin issued
      BY <1>2 DEF CmdRecvForward
    <3>2. f # p1
      BY <3>1, ConstAssumption DEF PairingRest, ForwardsIssued, TypeOK
    <3>3. \A e \in emitted : e.fwd # f
      BY <3>1 DEF PairingRest, ForwardsIssued
    <3>4. QED
      BY <1>2, <3>2, <3>3 DEF CmdRecvForward, HandoffFresh
  <2>4. PairingRest' = (PairingRest /\ HandoffFresh)'
    BY DEF PairingRest
  <2>5. QED
    <3>1. (ReaderStartsOnAccept /\ WaitersInCycle /\ HandedReadersDone /\ ForwardsIssued
           /\ CycleFresh /\ PairingOneToOne)'
      \* PairingFrame does not apply as a whole: its HandoffFresh part
      \* needs the handoff to stay as it was.
      <4>1. \A c \in Chan : pc'[RD(c)] = pc[RD(c)]
        BY <1>2, <2>1 DEF CmdRecvForward, TypeOK, Proc
      <4>2. pc'[GEN] = pc[GEN] /\ pc'[W1] = pc[W1] /\ pc'[W2] = pc[W2]
        BY <1>2, <2>1 DEF CmdRecvForward, TypeOK, Proc
      <4>3. (p2 # NoExtra => p2.ch \in Chan) /\ \A e \in emitted : e.ch \in Chan
        BY DEF TypeOK, Extra, Config
      <4>4. QED
        BY <1>2, <4>1, <4>2, <4>3
        DEF CmdRecvForward, PairingRest, ReaderStartsOnAccept, WaitersInCycle,
            HandedReadersDone, ForwardsIssued, CycleFresh, PairingOneToOne
    <3>2. QED
      BY <2>3, <3>1 DEF PairingRest
<1>3. CASE CmdUnmarshalError \/ CmdReqStreamClosed \/ CmdCloseSignal \/ CmdHandoffPanic
  <2>1. GR \in Proc /\ GR \notin {GEN, W1, W2} /\ \A c \in Chan : GR # RD(c)
    BY ProcDistinct, RoleDistinct DEF Proc
  <2>2. PairingFrameStep
    BY <1>3, <2>1, MoverFrame
    DEF CmdUnmarshalError, CmdReqStreamClosed, CmdCloseSignal, CmdHandoffPanic
  <2>3. QED
    BY <2>2, PairingFrame
<1>4. CASE CmdHandoff
  <2>1. /\ GR \in Proc /\ W1 \in Proc
        /\ \A c \in Chan : pc'[RD(c)] = pc[RD(c)]
        /\ pc'[GEN] = pc[GEN] /\ pc'[W2] = pc[W2] /\ pc'[GR] = "loop"
    BY <1>4, ProcDistinct, RoleDistinct DEF CmdHandoff, TypeOK, Proc
  <2>2. pc[GEN] = "join"
    BY <1>4 DEF CmdHandoff, PairingRest, WaitersInCycle
  <2>3. /\ grMsg \in issued /\ grMsg \in Fwd
        /\ \A e \in emitted : e.fwd # grMsg
    BY <1>4 DEF CmdHandoff, PairingRest, HandoffFresh, TypeOK
  <2>4. (p2 # NoExtra => p2.ch \in Chan) /\ \A e \in emitted : e.ch \in Chan
    BY DEF TypeOK, Extra, Config
  <2>5. (ReaderStartsOnAccept /\ HandedReadersDone /\ PairingOneToOne)'
    BY <1>4, <2>1, <2>4 DEF CmdHandoff, PairingRest, ReaderStartsOnAccept,
                             HandedReadersDone, PairingOneToOne
  <2>6. (WaitersInCycle /\ HandoffFresh)'
    BY <1>4, <2>1, <2>2 DEF CmdHandoff, PairingRest, WaitersInCycle, HandoffFresh
  <2>7. (ForwardsIssued /\ CycleFresh)'
    BY <1>4, <2>1, <2>3 DEF CmdHandoff, PairingRest, ForwardsIssued, CycleFresh
  <2>8. QED
    BY <2>5, <2>6, <2>7 DEF PairingRest
<1>5. ASSUME NEW c \in Chan, ChanAccept(c) \/ ChanAcceptError(c) PROVE PairingRest'
  <2>1. /\ ACC \in Proc /\ RD(c) \in Proc /\ HB(c) \in Proc
        /\ ACC \notin {GR, GEN, W1, W2} /\ HB(c) \notin {GR, GEN, W1, W2}
        /\ \A d \in Chan : ACC # RD(d) /\ HB(c) # RD(d)
    BY ProcDistinct, RoleDistinct DEF Proc
  <2>2. CASE ChanAccept(c)
    <3>1. \A d \in Chan : d # c => pc'[RD(d)] = pc[RD(d)]
      BY <2>1, <2>2, ProcDistinct, RoleDistinct DEF ChanAccept, TypeOK, Proc
    <3>2. pc[RD(c)] = "idle"
      BY <2>2 DEF ChanAccept, PairingRest, ReaderStartsOnAccept
    <3>3. PairingFrameStep
      BY <2>1, <2>2, <3>1, <3>2, RoleDistinct DEF ChanAccept, PairingFrameStep, TypeOK, Proc
    <3>4. QED
      BY <3>3, PairingFrame
  <2>3. CASE ChanAcceptError(c)
    BY <2>1, <2>3, MoverFrame, PairingFrame DEF ChanAcceptError
  <2>4. QED
    BY <1>5, <2>2, <2>3
<1>6. CASE ChanStreamClosed
  <2>1. ACC \in Proc /\ ACC \notin {GR, GEN, W1, W2} /\ \A d \in Chan : ACC # RD(d)
    BY ProcDistinct, RoleDistinct DEF Proc
  <2>2. QED
    BY <1>6, <2>1, MoverFrame, PairingFrame DEF ChanStreamClosed
<1>7. ASSUME NEW c \in Chan, NEW k \in Kinds, ExtraRecvCommand(c, k) PROVE PairingRest'
  <2>1. /\ RD(c) \in Proc /\ RD(c) \notin {GR, GEN, W1, W2}
        /\ c \in opened /\ pc[RD(c)] # "done"
    BY <1>7, ProcDistinct, RoleDistinct DEF ExtraRecvCommand, Proc, PairingRest, ReaderStartsOnAccept
  <2>2. \A d \in Chan : RD(c) = RD(d) => c = d
    BY ProcDistinct, RoleDistinct
  <2>3. QED
    BY <1>7, <2>1, <2>2, MoverFrame, PairingFrame DEF ExtraRecvCommand
<1>8. ASSUME NEW c \in Chan, ExtraReqStreamClosed(c) \/ ExtraHandoffPanic(c)
      PROVE PairingRest'
  <2>0. pc' = [pc EXCEPT ![RD(c)] = "done"] /\ UNCHANGED <<grMsg, p1, p2, emitted, issued, opened>>
    BY <1>8 DEF ExtraReqStreamClosed, ExtraHandoffPanic
  <2>1. /\ RD(c) \in Proc /\ RD(c) \notin {GR, GEN, W1, W2}
        /\ c \in opened /\ pc[RD(c)] # "done"
    BY <1>8, ProcDistinct, RoleDistinct DEF ExtraReqStreamClosed, ExtraHandoffPanic, Proc, PairingRest,
                            ReaderStartsOnAccept
  <2>2. \A d \in Chan : RD(c) = RD(d) => c = d
    BY ProcDistinct, RoleDistinct
  <2>3. QED
    BY <2>0, <2>1, <2>2, MoverFrame, PairingFrame
<1>9. ASSUME NEW c \in Chan, ExtraHandoff(c) PROVE PairingRest'
  <2>1. /\ RD(c) \in Proc /\ W2 \in Proc
        /\ \A d \in Chan : d # c => pc'[RD(d)] = pc[RD(d)]
        /\ pc'[RD(c)] = "done" /\ pc'[W2] = "done"
        /\ pc'[GEN] = pc[GEN] /\ pc'[W1] = pc[W1] /\ pc'[GR] = pc[GR]
    BY <1>9, ProcDistinct, RoleDistinct DEF ExtraHandoff, TypeOK, Proc
  <2>2. pc[GEN] = "join" /\ c \in opened /\ \A e \in emitted : e.ch # c
    BY <1>9 DEF ExtraHandoff, PairingRest, WaitersInCycle, ReaderStartsOnAccept,
                HandedReadersDone
  <2>3. p2' # NoExtra /\ p2'.ch = c
    BY <1>9, ConstAssumption DEF ExtraHandoff, NoExtra
  <2>4. \A e \in emitted : e.ch \in Chan
    BY DEF TypeOK, Config
  <2>5. (ReaderStartsOnAccept /\ HandedReadersDone)'
    BY <1>9, <2>1, <2>2, <2>3, <2>4
    DEF ExtraHandoff, PairingRest, ReaderStartsOnAccept, HandedReadersDone
  <2>6. (WaitersInCycle /\ ForwardsIssued /\ HandoffFresh /\ PairingOneToOne)'
    BY <1>9, <2>1 DEF ExtraHandoff, PairingRest, WaitersInCycle, ForwardsIssued,
                      HandoffFresh, PairingOneToOne
  <2>7. CycleFresh'
    BY <1>9, <2>1, <2>2, <2>3 DEF ExtraHandoff, PairingRest, CycleFresh
  <2>8. QED
    BY <2>5, <2>6, <2>7 DEF PairingRest
<1>10. ASSUME NEW c \in Chan, HeartbeatEOF(c) \/ HeartbeatCloseSignal(c) PROVE PairingRest'
  <2>1. HB(c) \in Proc /\ HB(c) \notin {GR, GEN, W1, W2} /\ \A d \in Chan : HB(c) # RD(d)
    BY ProcDistinct, RoleDistinct DEF Proc
  <2>2. QED
    BY <1>10, <2>1, MoverFrame, PairingFrame DEF HeartbeatEOF, HeartbeatCloseSignal
<1>11. CASE ReplyProxyError \/ ReplyCloseSignal
  <2>1. REPLY \in Proc /\ REPLY \notin {GR, GEN, W1, W2} /\ \A d \in Chan : REPLY # RD(d)
    BY ProcDistinct, RoleDistinct DEF Proc
  <2>2. QED
    BY <1>11, <2>1, MoverFrame, PairingFrame DEF ReplyProxyError, ReplyCloseSignal
<1>12. CASE GenExit \/ WaitAddrAbandon \/ WaitExtraAbandon
  <2>1. /\ GEN \in Proc /\ W1 \in Proc /\ W2 \in Proc
        /\ GEN \notin {GR, W1, W2} /\ W1 \notin {GR, GEN} /\ W2 \notin {GR, GEN}
        /\ \A d \in Chan : GEN # RD(d) /\ W1 # RD(d) /\ W2 # RD(d)
    BY ProcDistinct, RoleDistinct DEF Proc
  <2>2. QED
    BY <1>12, <2>1, MoverFrame, PairingFrame DEF GenExit, WaitAddrAbandon, WaitExtraAbandon
<1>13. CASE GenStartCycle
  <2>1. /\ \A d \in Chan : pc'[RD(d)] = pc[RD(d)]
        /\ pc'[GR] = pc[GR] /\ pc'[GEN] = "join"
    BY <1>13, ProcDistinct, RoleDistinct DEF GenStartCycle, TypeOK, Proc
  <2>2. pc[GR] = "send" => grMsg \in Fwd
    BY DEF PairingRest, HandoffFresh, TypeOK
  <2>3. \A e \in emitted : e.ch \in Chan
    BY DEF TypeOK, Config
  <2>4. (ReaderStartsOnAccept /\ HandedReadersDone /\ PairingOneToOne)'
    BY <1>13, <2>1, <2>3 DEF GenStartCycle, PairingRest, ReaderStartsOnAccept,
                             HandedReadersDone, PairingOneToOne
  <2>5. (WaitersInCycle /\ CycleFresh)'
    BY <1>13, <2>1, ConstAssumption DEF GenStartCycle, WaitersInCycle, CycleFresh
  <2>6. (ForwardsIssued /\ HandoffFresh)'
    BY <1>13, <2>1, <2>2, ConstAssumption
    DEF GenStartCycle, PairingRest, ForwardsIssued, HandoffFresh
  <2>7. QED
    BY <2>4, <2>5, <2>6 DEF PairingRest
<1>14. CASE GenFinishCycle
  <2>0. /\ GEN \in Proc
        /\ \A d \in Chan : pc'[RD(d)] = pc[RD(d)]
        /\ pc'[GR] = pc[GR] /\ pc'[W1] = pc[W1] /\ pc'[W2] = pc[W2]
        /\ pc'[GEN] # "join"
    BY <1>14, ProcDistinct, RoleDistinct DEF GenFinishCycle, TypeOK, Proc
  <2>1. CASE exit = 1 \/ p2.kind # "tcp"
    <3>1. emitted' = emitted
      BY <1>14, <2>1 DEF GenFinishCycle
    <3>2. (p2 # NoExtra => p2.ch \in Chan) /\ \A e \in emitted : e.ch \in Chan
      BY DEF TypeOK, Extra, Config
    <3>3. (ReaderStartsOnAccept /\ HandedReadersDone /\ PairingOneToOne)'
      BY <1>14, <2>0, <3>1, <3>2 DEF GenFinishCycle, PairingRest, ReaderStartsOnAccept,
                                     HandedReadersDone, PairingOneToOne
    <3>4. (WaitersInCycle /\ ForwardsIssued /\ HandoffFresh /\ CycleFresh)'
      BY <1>14, <2>0, <3>1 DEF GenFinishCycle, PairingRest, WaitersInCycle,
                               ForwardsIssued, HandoffFresh, CycleFresh
    <3>5. QED
      BY <3>3, <3>4 DEF PairingRest
  <2>2. CASE exit # 1 /\ p2.kind = "tcp"
    <3> DEFINE x == TcpConfig
    <3>1. emitted' = emitted \cup {x}
      BY <1>14, <2>2 DEF GenFinishCycle
    <3>2. p2 \in Extra /\ p2 # NoExtra
      <4>1. NoExtra.kind # "tcp"
        BY DEF NoExtra, NoKind
      <4>2. QED
        BY <2>2, <4>1 DEF TypeOK
    <3>3. /\ pc[GEN] = "join"
          /\ x.ch = p2.ch /\ x.fwd = p1
      BY <1>14 DEF GenFinishCycle, TcpConfig
    <3>4. /\ \A e \in emitted : e.ch # x.ch
          /\ x.fwd \in Fwd => \A e \in emitted : e.fwd # x.fwd
      BY <3>2, <3>3 DEF PairingRest, CycleFresh
    <3>5. PairingOneToOne'
      BY <3>1, <3>4 DEF PairingRest, PairingOneToOne
    <3>6. HandedReadersDone'
      <4>1. p2' = p2 /\ p2.ch \in Chan /\ pc[RD(p2.ch)] = "done"
        BY <1>14, <3>2 DEF GenFinishCycle, Extra, PairingRest, HandedReadersDone
      <4>2. \A e \in emitted : e.ch \in Chan
        BY DEF TypeOK, Config
      <4>3. QED
        BY <2>0, <3>1, <3>3, <4>1, <4>2 DEF PairingRest, HandedReadersDone
    <3>7. ForwardsIssued'
      BY <1>14, <3>1, <3>3 DEF GenFinishCycle, PairingRest, ForwardsIssued
    <3>8. HandoffFresh'
      BY <1>14, <2>0, <3>1, <3>3 DEF GenFinishCycle, PairingRest, HandoffFresh
    <3>9. (ReaderStartsOnAccept /\ WaitersInCycle /\ CycleFresh)'
      BY <1>14, <2>0 DEF GenFinishCycle, PairingRest, ReaderStartsOnAccept,
                         WaitersInCycle, CycleFresh
    <3>10. QED
      BY <3>5, <3>6, <3>7, <3>8, <3>9 DEF PairingRest
  <2>3. QED
    BY <2>1, <2>2
<1>15. CASE ClientDisconnect \/ \E c \in Chan : ClientCloseChannel(c)
  BY <1>15, StillFrame, PairingFrame DEF ClientDisconnect, ClientCloseChannel
<1>16. CASE UNCHANGED vars
  BY <1>16, StillFrame, PairingFrame DEF vars
<1>17. QED
  BY <1>1, <1>2, <1>3, <1>4, <1>5, <1>6, <1>7, <1>8, <1>9, <1>10, <1>11, <1>12,
     <1>13, <1>14, <1>15, <1>16 DEF Next, Client, Service

\* The pairing barrier is one-to-one: no two TCPProxyConfigs that
\* loopGenerateProxy sends share a data channel or a forward request.
THEOREM PairingCorrect == Spec => []PairingOneToOne
<1>1. PairingInv => PairingOneToOne
  BY DEF PairingInv, PairingRest
<1>2. QED
  BY <1>1, PairingInit, PairingStep, PTL DEF Spec
=============================================================================
