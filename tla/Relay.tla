------------------------------- MODULE Relay -------------------------------
(***************************************************************************)
(* The relay engine of src/src/frp/utils/conn/conn.go: two Conns c1, c2    *)
(* joined by Join (raw copy) or JoinMore (PipeEncrypt one way, PipeDecrypt *)
(* the other).  Each direction is a goroutine whose deferred calls run in  *)
(* reverse order of their defer statements: wait.Done() first, then the    *)
(* two Conn.Close calls.  Conn.Close is check-then-act on closeFlag under  *)
(* c.mutex; ReadLine sets closeFlag on EOF without closing the socket.     *)
(* Bytes are abstracted: a direction's copy loop runs until its read or    *)
(* write fails (or, framed, the cipher fails), which is all that decides   *)
(* the control flow.                                                       *)
(***************************************************************************)
EXTENDS Naturals

CONSTANT
    C1, C2      \* the two connections handed to Join(c1, c2)

ASSUME ConnAssumption == C1 # C2

\* "raw" for Join, "framed" for JoinMore.
Modes == {"raw", "framed"}

Conns == {C1, C2}
Pipes == {1, 2}

PipeLabels == {"idle", "copy", "done", "close1", "close2", "end"}

VARIABLES
    mode,       \* which of Join and JoinMore the caller uses
    owner,      \* the caller: "pre" (may ReadLine), "wait" (in Join), "returned"
    pc,         \* pc[i]: where direction i is
    wait,       \* the sync.WaitGroup counter
    closeFlag,  \* Conn.closeFlag
    closes,     \* closes[c]: how many times c.TcpConn.Close() has run
    peerEOF     \* peerEOF[c]: the remote end of c has closed its side

vars == <<mode, owner, pc, wait, closeFlag, closes, peerEOF>>

(***************************************************************************)
(* Which Conn each direction reads, writes, and closes first and second.   *)
(* Join: pipe(c1, c2) copies c2 -> c1, pipe(c2, c1) copies c1 -> c2; the  *)
(* defers (to.Close, from.Close, wait.Done) run Done, from, to.            *)
(* JoinMore: encryptPipe(c1, c2) copies c1 -> c2; decryptPipe(c2, c1)      *)
(* calls PipeDecrypt(to.TcpConn, from.TcpConn), so reads c2 and writes c1; *)
(* both defer (from.Close, to.Close, wait.Done) and run Done, to, from.    *)
(***************************************************************************)
Src(i) == IF mode = "raw" THEN (IF i = 1 THEN C2 ELSE C1)
                          ELSE (IF i = 1 THEN C1 ELSE C2)
Dst(i) == IF Src(i) = C1 THEN C2 ELSE C1
FirstClose(i) == IF mode = "raw" THEN Src(i) ELSE C2
SecondClose(i) == IF FirstClose(i) = C1 THEN C2 ELSE C1

\* A Close of a closed socket is a fault; closes stops counting at 2.
MaxCloses == 2

TypeOK ==
    /\ mode \in Modes
    /\ owner \in {"pre", "wait", "returned"}
    /\ pc \in [Pipes -> PipeLabels]
    /\ wait \in 0..2
    /\ closeFlag \in [Conns -> BOOLEAN]
    /\ closes \in [Conns -> 0..MaxCloses]
    /\ peerEOF \in [Conns -> BOOLEAN]

\* Two connections fresh from NewConn/ConnectServer/Accept: closeFlag false.
Init ==
    /\ mode \in Modes
    /\ owner = "pre"
    /\ pc = [i \in Pipes |-> "idle"]
    /\ wait = 0
    /\ closeFlag = [c \in Conns |-> FALSE]
    /\ closes = [c \in Conns |-> 0]
    /\ peerEOF = [c \in Conns |-> FALSE]

-----------------------------------------------------------------------------
(***************************************************************************)
(* Conn.ReadLine before the join: Reader.ReadString returns io.EOF once    *)
(* the peer has closed, and closeFlag is set under the mutex; the socket   *)
(* stays open.  A successful ReadLine changes nothing modelled.            *)
(***************************************************************************)
ReadLineEOF(c) ==
    /\ owner = "pre"
    /\ peerEOF[c]
    /\ closeFlag' = [closeFlag EXCEPT ![c] = TRUE]
    /\ UNCHANGED <<mode, owner, pc, wait, closes, peerEOF>>

\* wait.Add(2); go pipe(...); go pipe(...); then wait.Wait() blocks.
CallJoin ==
    /\ owner = "pre"
    /\ owner' = "wait"
    /\ wait' = 2
    /\ pc' = [i \in Pipes |-> "copy"]
    /\ UNCHANGED <<mode, closeFlag, closes, peerEOF>>

\* wait.Wait() returns once the counter is zero.
JoinReturn ==
    /\ owner = "wait"
    /\ wait = 0
    /\ owner' = "returned"
    /\ UNCHANGED <<mode, pc, wait, closeFlag, closes, peerEOF>>

-----------------------------------------------------------------------------
(***************************************************************************)
(* A direction's copy loop (io.Copy, PipeEncrypt or PipeDecrypt) returns   *)
(* when a read of its source fails (the peer's EOF, or the local socket    *)
(* closed by the other direction), when a write to its destination fails   *)
(* (the destination socket is closed and data arrives), or, framed, when   *)
(* laes.Init, Encrypt or Decrypt fails.                                    *)
(***************************************************************************)
CopyReadEnd(i) ==
    /\ pc[i] = "copy"
    /\ peerEOF[Src(i)] \/ closes[Src(i)] > 0
    /\ pc' = [pc EXCEPT ![i] = "done"]
    /\ UNCHANGED <<mode, owner, wait, closeFlag, closes, peerEOF>>

CopyWriteError(i) ==
    /\ pc[i] = "copy"
    /\ closes[Dst(i)] > 0
    /\ pc' = [pc EXCEPT ![i] = "done"]
    /\ UNCHANGED <<mode, owner, wait, closeFlag, closes, peerEOF>>

CipherError(i) ==
    /\ mode = "framed"
    /\ pc[i] = "copy"
    /\ pc' = [pc EXCEPT ![i] = "done"]
    /\ UNCHANGED <<mode, owner, wait, closeFlag, closes, peerEOF>>

\* Fault variant: the direction calls wait.Done() itself as well as in defer.
PipeDoneTwice(i) ==
    /\ pc[i] = "done"
    /\ wait' = wait - 2
    /\ pc' = [pc EXCEPT ![i] = "close1"]
    /\ UNCHANGED <<mode, owner, closeFlag, closes, peerEOF>>

\* The first deferred call: wait.Done().  A negative counter would panic;
\* TypeOK keeps the counter in 0..2.
PipeDone(i) ==
    /\ pc[i] = "done"
    /\ wait' = wait - 1
    /\ pc' = [pc EXCEPT ![i] = "close1"]
    /\ UNCHANGED <<mode, owner, closeFlag, closes, peerEOF>>

\* Fault variant: Close without the closeFlag check.
ConnCloseUnguarded(c) ==
    /\ closeFlag' = [closeFlag EXCEPT ![c] = TRUE]
    /\ closes' = [closes EXCEPT ![c] = IF @ < MaxCloses THEN @ + 1 ELSE @]

\* Fault variant: Close sets closeFlag but forgets TcpConn.Close().
ConnCloseFlagOnly(c) ==
    /\ closeFlag' = [closeFlag EXCEPT ![c] = TRUE]
    /\ UNCHANGED closes

\* Conn.Close (157-164): under c.mutex, close the socket unless closeFlag.
ConnClose(c) ==
    IF ~closeFlag[c]
      THEN /\ closeFlag' = [closeFlag EXCEPT ![c] = TRUE]
           /\ closes' = [closes EXCEPT ![c] = IF @ < MaxCloses THEN @ + 1 ELSE @]
      ELSE UNCHANGED <<closeFlag, closes>>

\* The second and third deferred calls.
PipeClose1(i) ==
    /\ pc[i] = "close1"
    /\ ConnClose(FirstClose(i))
    /\ pc' = [pc EXCEPT ![i] = "close2"]
    /\ UNCHANGED <<mode, owner, wait, peerEOF>>

PipeClose2(i) ==
    /\ pc[i] = "close2"
    /\ ConnClose(SecondClose(i))
    /\ pc' = [pc EXCEPT ![i] = "end"]
    /\ UNCHANGED <<mode, owner, wait, peerEOF>>

\* The remote end of c closes its side (FIN).
PeerClose(c) ==
    /\ ~peerEOF[c]
    /\ peerEOF' = [peerEOF EXCEPT ![c] = TRUE]
    /\ UNCHANGED <<mode, owner, pc, wait, closeFlag, closes>>

PipeStep(i) ==
    \/ CopyReadEnd(i) \/ CopyWriteError(i) \/ CipherError(i)
    \/ PipeDone(i) \/ PipeClose1(i) \/ PipeClose2(i)

Next ==
    \/ \E c \in Conns : ReadLineEOF(c) \/ PeerClose(c)
    \/ CallJoin \/ JoinReturn
    \/ \E i \in Pipes : PipeStep(i)

Spec == Init /\ [][Next]_vars

\* Goroutines that can run eventually do: each direction's own steps and the
\* caller's are weakly fair.  A write error needs data from a peer and a
\* cipher error a bad key or frame: neither is owed.
Fairness ==
    /\ \A i \in Pipes : WF_vars(CopyReadEnd(i) \/ PipeDone(i) \/ PipeClose1(i)
                                   \/ PipeClose2(i))
    /\ WF_vars(CallJoin)
    /\ WF_vars(JoinReturn)

FairSpec == Spec /\ Fairness

-----------------------------------------------------------------------------
(***************************************************************************)
(* Properties.                                                             *)
(***************************************************************************)

\* Spec 8: "both connections are closed exactly once (no double-close fault)
\* even if both directions error simultaneously".  Both directions close both
\* Conns; Conn.Close's closeFlag check under the mutex lets only the first
\* reach TcpConn.Close.
CloseOnce == \A c \in Conns : closes[c] <= 1

\* Spec 8: Join "terminates for both directions as soon as either connection
\* reaches end-of-stream".  The direction reading the ended Conn returns and
\* closes both, which fails the other direction's read.
JoinTerminates == (\E c \in Conns : peerEOF[c]) ~> (owner = "returned")

\* Spec 8: both connections are closed exactly once.  Once both directions
\* have run their deferred Closes, each socket has been closed.
SocketsReleased == (\A i \in Pipes : pc[i] = "end") => \A c \in Conns : closes[c] = 1
=============================================================================
