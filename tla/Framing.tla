------------------------------ MODULE Framing ------------------------------
(***************************************************************************)
(* The framed, encrypted data path of JoinMore (src/src/frp/utils/conn/    *)
(* conn.go): PipeEncrypt on one end of a TCP connection reads the source  *)
(* in chunks, encrypts each chunk and writes it as a frame (pkgMsg: a     *)
(* 4-byte big-endian length, then the ciphertext); PipeDecrypt on the     *)
(* other end reads the stream, cuts a frame off with unpkgMsg, decrypts   *)
(* it and writes the plaintext.  TCP delivers the bytes in order but cuts *)
(* them into reads of any size.                                           *)
(*                                                                         *)
(* Bytes are numbers in 0..255.  The cipher (pcrypto, not in this         *)
(* repository) is abstracted: a chunk's ciphertext has the chunk's length  *)
(* and any byte values from CipherBytes; each wire byte carries, as ghost  *)
(* fields, the frame it was written in and its place in it.  Decrypting    *)
(* exactly the body of a frame gives that frame's chunk back; decrypting   *)
(* anything else fails or yields bytes that were never sent (Garbage).     *)
(***************************************************************************)
EXTENDS Naturals, Sequences, SequencesExt

CONSTANTS
    Input,        \* the bytes the encrypting side's source delivers
    CipherBytes,  \* byte values a ciphertext may contain
    BufSize,      \* len(buf): 10*1024 in both pipes
    Garbage       \* a plaintext byte that was never sent

\* The length prefix is binary.Write of a uint32 in big-endian order.  The
\* uint32(len(data)) conversion never wraps: a ciphertext comes from one
\* read of at most len(buf) bytes.
LenWidth == 4

\* binary.BigEndian.Uint32(b): b[3] | b[2]<<8 | b[1]<<16 | b[0]<<24, and the
\* bytes are below 256, so the ORs are sums.
BigEndian(s) == s[1] * 2^24 + s[2] * 2^16 + s[3] * 2^8 + s[4]

\* binary.Write(buf, binary.BigEndian, uint32(n)).
LenBytes(n) == [i \in 1..LenWidth |-> (n \div 2^(8 * (LenWidth - i))) % 256]

\* The byte values of a stretch of the wire.
Vals(s) == [i \in DOMAIN s |-> s[i].v]

\* pkgMsg(data): the length of data in 4 bytes, then data; k names the frame.
pkgMsg(k, data) ==
    [i \in 1..LenWidth |-> [v |-> LenBytes(Len(data))[i], fr |-> k, pos |-> 0]] \o data

\* unpkgMsg(data): cnt -1 while data holds no whole frame; otherwise the
\* first frame's body and what follows it.
unpkgMsg(data) ==
    IF Len(data) < LenWidth THEN [cnt |-> -1, buf |-> <<>>, left |-> <<>>]
    ELSE LET llen == BigEndian(Vals(SubSeq(data, 1, LenWidth))) IN
         IF Len(data) < llen + LenWidth THEN [cnt |-> -1, buf |-> <<>>, left |-> <<>>]
         ELSE [cnt  |-> 0,
               buf  |-> SubSeq(data, LenWidth + 1, llen + LenWidth),
               left |-> SubSeq(data, llen + LenWidth + 1, Len(data))]

VARIABLES
    sent,     \* how many bytes of Input PipeEncrypt has read
    chunks,   \* the plaintext chunks PipeEncrypt has framed, in order (ghost)
    wire,     \* bytes written to the TCP connection and not yet read
    out,      \* what PipeDecrypt has written to its destination
    encPc,    \* PipeEncrypt: "loop" or "end" (returned)
    decPc     \* PipeDecrypt: "loop" or "end" (returned)

vars == <<sent, chunks, wire, out, encPc, decPc>>

\* body is the whole ciphertext of frame k, byte for byte.
IsBodyOf(body, k) ==
    /\ k \in 1..Len(chunks)
    /\ Len(body) = Len(chunks[k])
    /\ \A i \in 1..Len(body) : body[i].fr = k /\ body[i].pos = i

Init ==
    /\ sent = 0
    /\ chunks = <<>>
    /\ wire = <<>>
    /\ out = <<>>
    /\ encPc = "loop"
    /\ decPc = "loop"

(***************************************************************************)
(* One turn of PipeEncrypt's loop: read up to len(buf) bytes, encrypt     *)
(* them, frame them with pkgMsg and write the frame.                       *)
(***************************************************************************)
EncryptChunk ==
    /\ encPc = "loop"
    /\ sent < Len(Input)
    /\ \E n \in 1..(Len(Input) - sent) :
       \E cb \in [1..n -> CipherBytes] :
          /\ n <= BufSize
          /\ LET k    == Len(chunks) + 1
                 body == [i \in 1..n |-> [v |-> cb[i], fr |-> k, pos |-> i]]
             IN /\ wire' = wire \o pkgMsg(k, body)
                /\ chunks' = Append(chunks, SubSeq(Input, sent + 1, sent + n))
                /\ sent' = sent + n
    /\ UNCHANGED <<out, encPc, decPc>>

\* The source's Read returns io.EOF: PipeEncrypt returns, and JoinMore's
\* deferred Closes close the connection.
EncryptEOF ==
    /\ encPc = "loop"
    /\ sent = Len(Input)
    /\ encPc' = "end"
    /\ UNCHANGED <<sent, chunks, wire, out, decPc>>

(***************************************************************************)
(* One turn of PipeDecrypt's loop (250-272).  left := append(left,        *)
(* buf[:n]...) declares a new left in the loop body, so it starts from the *)
(* outer, always empty, left: only this read's bytes are unpacked.  When   *)
(* they hold no whole frame the loop continues and they are gone; when     *)
(* they do, the first frame is decrypted and written and the rest (the     *)
(* inner left of unpkgMsg) is dropped with the loop body.                  *)
(***************************************************************************)
DecryptRead ==
    /\ decPc = "loop"
    /\ wire # <<>>
    /\ \E n \in 1..Len(wire) :
          /\ n <= BufSize
          /\ wire' = SubSeq(wire, n + 1, Len(wire))
          /\ LET r == unpkgMsg(SubSeq(wire, 1, n)) IN
             \/ /\ r.cnt < 0
                /\ UNCHANGED <<out, decPc>>
             \/ /\ r.cnt = 0
                /\ \E k \in 1..Len(chunks) : IsBodyOf(r.buf, k) /\ out' = out \o chunks[k]
                /\ UNCHANGED decPc
             \/ /\ r.cnt = 0
                /\ ~\E k \in 1..Len(chunks) : IsBodyOf(r.buf, k)
                /\ \/ decPc' = "end" /\ UNCHANGED out          \* Decrypt fails
                   \/ out' = Append(out, Garbage) /\ UNCHANGED decPc
    /\ UNCHANGED <<sent, chunks, encPc>>

\* The connection is closed and drained: Read returns io.EOF.
DecryptEOF ==
    /\ decPc = "loop"
    /\ wire = <<>>
    /\ encPc = "end"
    /\ decPc' = "end"
    /\ UNCHANGED <<sent, chunks, wire, out, encPc>>

Next == EncryptChunk \/ EncryptEOF \/ DecryptRead \/ DecryptEOF

Spec == Init /\ [][Next]_vars

-----------------------------------------------------------------------------
\* Spec 4.2 and 8: decrypt(deframe(frame(encrypt(b)))) = b, "including when b
\* arrives split across multiple underlying reads and when multiple frames
\* arrive in one read": what PipeDecrypt has written is always a prefix of
\* what PipeEncrypt read.
RoundTrip == IsPrefix(out, Input)
=============================================================================
