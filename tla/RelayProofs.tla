----------------------------- MODULE RelayProofs -----------------------------
(***************************************************************************)
(* Proofs about Relay, for Join and JoinMore: the WaitGroup counter never goes    *)
(* negative, and no socket is closed twice.                                *)
(***************************************************************************)
EXTENDS Relay, TLAPS

\* The directions that have not yet called wait.Done().
Pending == {"copy", "done"}

\* One for each direction still owing its wait.Done().
Owed(i) == IF pc[i] \in Pending THEN 1 ELSE 0

\* The WaitGroup counts exactly the directions that still owe Done; before
\* Join is called no direction runs; a closed socket has its closeFlag set.
RelayInv ==
    /\ TypeOK
    /\ wait = Owed(1) + Owed(2)
    /\ owner = "pre" => \A i \in Pipes : pc[i] = "idle"
    /\ \A c \in Conns : closes[c] <= 1 /\ (closes[c] = 1 => closeFlag[c])

\* Conn.Close keeps the invariant's socket conjunct and the types of the
\* two Conn variables.
LEMMA ConnCloseKeeps ==
    ASSUME NEW c \in Conns, TypeOK,
           \A d \in Conns : closes[d] <= 1 /\ (closes[d] = 1 => closeFlag[d]),
           ConnClose(c)
    PROVE  /\ closeFlag' \in [Conns -> BOOLEAN]
           /\ closes' \in [Conns -> 0..MaxCloses]
           /\ \A d \in Conns : closes'[d] <= 1 /\ (closes'[d] = 1 => closeFlag'[d])
<1>1. CASE ~closeFlag[c]
  <2>1. closes[c] = 0
    BY <1>1 DEF TypeOK, MaxCloses
  <2>2. /\ closes' = [closes EXCEPT ![c] = 1]
        /\ closeFlag' = [closeFlag EXCEPT ![c] = TRUE]
    BY <1>1, <2>1 DEF ConnClose, MaxCloses
  <2>3. QED
    BY <2>2 DEF TypeOK, MaxCloses
<1>2. CASE closeFlag[c]
  BY <1>2 DEF ConnClose, TypeOK
<1>3. QED
  BY <1>1, <1>2 DEF TypeOK

LEMMA RelayInit == Init => RelayInv
BY DEF Init, RelayInv, TypeOK, Owed, Pending, Pipes, PipeLabels, Conns, MaxCloses, Modes

LEMMA RelayStep == RelayInv /\ [Next]_vars => RelayInv'
<1> SUFFICES ASSUME RelayInv, [Next]_vars PROVE RelayInv'
  OBVIOUS
<1> USE DEF RelayInv
<1>0. /\ \A i \in Pipes : FirstClose(i) \in Conns /\ SecondClose(i) \in Conns
      /\ Pipes = {1, 2}
  BY DEF FirstClose, SecondClose, Src, Conns, Pipes, TypeOK, Modes
<1>1. ASSUME NEW c \in Conns, ReadLineEOF(c) \/ PeerClose(c) PROVE RelayInv'
  BY <1>1 DEF ReadLineEOF, PeerClose, TypeOK, Owed
<1>2. CASE CallJoin
  BY <1>2 DEF CallJoin, TypeOK, Owed, Pending, Pipes, PipeLabels
<1>3. CASE JoinReturn
  BY <1>3 DEF JoinReturn, TypeOK, Owed
<1>4. ASSUME NEW i \in Pipes, CopyReadEnd(i) \/ CopyWriteError(i) \/ CipherError(i)
      PROVE RelayInv'
  <2>1. pc' = [pc EXCEPT ![i] = "done"] /\ UNCHANGED <<mode, owner, wait, closeFlag, closes, peerEOF>>
    BY <1>4 DEF CopyReadEnd, CopyWriteError, CipherError
  <2>2. pc[i] = "copy"
    BY <1>4 DEF CopyReadEnd, CopyWriteError, CipherError
  <2>3. QED
    BY <1>0, <2>1, <2>2 DEF TypeOK, Owed, Pending, PipeLabels
<1>5. ASSUME NEW i \in Pipes, PipeDone(i) PROVE RelayInv'
  BY <1>0, <1>5 DEF PipeDone, TypeOK, Owed, Pending, PipeLabels
<1>6. ASSUME NEW i \in Pipes, PipeClose1(i) \/ PipeClose2(i) PROVE RelayInv'
  <2>1. CASE PipeClose1(i)
    <3>1. ConnClose(FirstClose(i))
      BY <2>1 DEF PipeClose1
    <3>2. QED
      BY <1>0, <2>1, <3>1, ConnCloseKeeps DEF PipeClose1, TypeOK, Owed, Pending, PipeLabels
  <2>2. CASE PipeClose2(i)
    <3>1. ConnClose(SecondClose(i))
      BY <2>2 DEF PipeClose2
    <3>2. QED
      BY <1>0, <2>2, <3>1, ConnCloseKeeps DEF PipeClose2, TypeOK, Owed, Pending, PipeLabels
  <2>3. QED
    BY <1>6, <2>1, <2>2
<1>7. CASE UNCHANGED vars
  BY <1>7 DEF vars, TypeOK, Owed
<1>8. QED
  BY <1>1, <1>2, <1>3, <1>4, <1>5, <1>6, <1>7 DEF Next, PipeStep

\* The WaitGroup counter stays in 0..2 in every run of Join and JoinMore, so
\* no wait.Done() panics, and every variable keeps its type.
THEOREM RelayTypeCorrect == Spec => []TypeOK
<1>1. RelayInv => TypeOK
  BY DEF RelayInv
<1>2. QED
  BY <1>1, RelayInit, RelayStep, PTL DEF Spec

\* Both directions close both Conns, yet Conn.Close's closeFlag check lets
\* TcpConn.Close run at most once per connection: no double close.
THEOREM RelayCloseOnce == Spec => []CloseOnce
<1>1. RelayInv => CloseOnce
  BY DEF RelayInv, CloseOnce
<1>2. QED
  BY <1>1, RelayInit, RelayStep, PTL DEF Spec
=============================================================================
