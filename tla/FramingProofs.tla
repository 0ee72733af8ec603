--------------------------- MODULE FramingProofs ---------------------------
(***************************************************************************)
(* What the framing of JoinMore does, for frames of every length: the      *)
(* codec is right (pkgMsg's header decodes to the body's length, and       *)
(* unpkgMsg cuts a whole frame off exactly and reports a cut one as        *)
(* incomplete), and PipeDecrypt's loop delivers a frame only when one read *)
(* returns it whole: a read that ends inside a frame writes nothing and    *)
(* leaves the frame's tail for the next read, and a read of two frames     *)
(* writes the first alone.                                                 *)
(***************************************************************************)
EXTENDS Framing, SequenceTheorems, TLAPS

\* The wire bytes: a value and the ghost fields naming its frame and place.
WireByte == [v : Nat, fr : Nat, pos : Nat]

\* The lengths a uint32 holds.
Uint32 == 0..(2^32 - 1)

\* The header that pkgMsg writes for a body of length n, in frame k.
Header(k, n) == [i \in 1..LenWidth |-> [v |-> LenBytes(n)[i], fr |-> k, pos |-> 0]]

\* The powers of two that the header arithmetic uses, as numerals.
LEMMA Powers ==
    /\ 2^8 = 256 /\ 2^16 = 65536 /\ 2^24 = 16777216 /\ 2^32 = 4294967296
<1>1. 2^8 = 256
  OBVIOUS
<1>2. 2^16 = 2^8 * 2^8
  OBVIOUS
<1>3. 2^24 = 2^16 * 2^8
  OBVIOUS
<1>4. 2^32 = 2^24 * 2^8
  OBVIOUS
<1>5. QED
  BY <1>1, <1>2, <1>3, <1>4, SMT

\* binary.Write's header bytes: the length's bytes, most significant first.
LEMMA LenBytesDef ==
    ASSUME NEW n \in Nat
    PROVE  /\ LenBytes(n) \in Seq(Nat) /\ Len(LenBytes(n)) = 4
           /\ LenBytes(n)[1] = (n \div 16777216) % 256
           /\ LenBytes(n)[2] = (n \div 65536) % 256
           /\ LenBytes(n)[3] = (n \div 256) % 256
           /\ LenBytes(n)[4] = n % 256
<1>1. LenBytes(n) = [i \in 1..4 |-> (n \div 2^(8 * (4 - i))) % 256]
  BY DEF LenBytes, LenWidth
<1>2. 2^(8 * (4 - 1)) = 16777216 /\ 2^(8 * (4 - 2)) = 65536
      /\ 2^(8 * (4 - 3)) = 256 /\ 2^(8 * (4 - 4)) = 1
  BY Powers, SMT
<1>3. \A i \in 1..4 : (n \div 2^(8 * (4 - i))) % 256 \in Nat
  BY <1>2, SMT
<1>4. QED
  BY <1>1, <1>2, <1>3, SMT

\* binary.BigEndian.Uint32 reads back the length binary.Write wrote.
LEMMA Uint32RoundTrip ==
    ASSUME NEW n \in Uint32
    PROVE  BigEndian(LenBytes(n)) = n
<1>1. n \in Nat /\ n < 4294967296
  BY Powers, SMT DEF Uint32
<1>2. /\ LenBytes(n)[1] = (n \div 16777216) % 256
      /\ LenBytes(n)[2] = (n \div 65536) % 256
      /\ LenBytes(n)[3] = (n \div 256) % 256
      /\ LenBytes(n)[4] = n % 256
  BY <1>1, LenBytesDef
<1>3. BigEndian(LenBytes(n)) = LenBytes(n)[1] * 16777216 + LenBytes(n)[2] * 65536
                               + LenBytes(n)[3] * 256 + LenBytes(n)[4]
  BY Powers, SMT DEF BigEndian
<1>4. /\ (n % 256) + 256 * (n \div 256) = n
      /\ ((n \div 256) % 256) + 256 * (n \div 65536) = n \div 256
      /\ ((n \div 65536) % 256) + 256 * (n \div 16777216) = n \div 65536
      /\ (n \div 16777216) % 256 = n \div 16777216
  BY <1>1, SMT
<1>5. QED
  BY <1>1, <1>2, <1>3, <1>4, SMT
\* What pkgMsg writes: a header of four wire bytes carrying binary.Write's
\* length bytes, then the body.
LEMMA HeaderProps ==
    ASSUME NEW k \in Nat, NEW n \in Nat
    PROVE  /\ Header(k, n) \in Seq(WireByte)
           /\ Len(Header(k, n)) = 4
           /\ \A i \in 1..4 : Header(k, n)[i].v = LenBytes(n)[i]
<1>0. LenBytes(n) \in Seq(Nat) /\ Len(LenBytes(n)) = 4
  BY LenBytesDef
<1>1. \A i \in 1..4 : LenBytes(n)[i] \in Nat
  BY <1>0, SMT
<1>2. Header(k, n) = [i \in 1..4 |-> [v |-> LenBytes(n)[i], fr |-> k, pos |-> 0]]
  BY SMT DEF Header, LenWidth
<1>3. Header(k, n) \in [1..4 -> WireByte]
  BY <1>1, <1>2, SMT DEF WireByte
<1>4. QED
  BY <1>2, <1>3, SMT

\* The frame pkgMsg(k, body) followed by the bytes rest, position by position.
LEMMA FrameLayout ==
    ASSUME NEW k \in Nat, NEW body \in Seq(WireByte), NEW rest \in Seq(WireByte)
    PROVE  /\ pkgMsg(k, body) \o rest \in Seq(WireByte)
           /\ Len(pkgMsg(k, body) \o rest) = 4 + Len(body) + Len(rest)
           /\ \A i \in 1..4 : (pkgMsg(k, body) \o rest)[i].v = LenBytes(Len(body))[i]
           /\ \A i \in 1..Len(body) : (pkgMsg(k, body) \o rest)[4 + i] = body[i]
           /\ \A i \in 1..Len(rest) : (pkgMsg(k, body) \o rest)[4 + Len(body) + i] = rest[i]
<1> DEFINE h == Header(k, Len(body))
<1>0. Len(body) \in Nat
  BY SMT
<1>1. pkgMsg(k, body) = h \o body
  BY SMT DEF pkgMsg, Header
<1>2. h \in Seq(WireByte) /\ Len(h) = 4 /\ \A i \in 1..4 : h[i].v = LenBytes(Len(body))[i]
  BY <1>0, HeaderProps
<1>3. pkgMsg(k, body) \o rest = h \o (body \o rest)
  <2>1. (h \o body) \o rest = h \o (body \o rest)
    BY <1>2, ConcatAssociative
  <2>2. QED
    BY <1>1, <2>1
<1>4. /\ body \o rest \in Seq(WireByte)
      /\ Len(body \o rest) = Len(body) + Len(rest)
      /\ \A i \in 1..Len(body) + Len(rest) :
            (body \o rest)[i] = IF i <= Len(body) THEN body[i] ELSE rest[i - Len(body)]
  BY ConcatProperties, SMT
<1>5. /\ h \o (body \o rest) \in Seq(WireByte)
      /\ Len(h \o (body \o rest)) = 4 + (Len(body) + Len(rest))
      /\ \A i \in 1..4 + (Len(body) + Len(rest)) :
            (h \o (body \o rest))[i] = IF i <= 4 THEN h[i] ELSE (body \o rest)[i - 4]
  <2>1. /\ h \o (body \o rest) \in Seq(WireByte)
        /\ Len(h \o (body \o rest)) = Len(h) + Len(body \o rest)
        /\ \A i \in 1..Len(h) + Len(body \o rest) :
              (h \o (body \o rest))[i] = IF i <= Len(h) THEN h[i] ELSE (body \o rest)[i - Len(h)]
    BY <1>2, <1>4, ConcatProperties, Zenon
  <2>2. QED
    BY <1>2, <1>4, <2>1, SMT
<1>6. Len(body) \in Nat /\ Len(rest) \in Nat
  BY SMT
<1>7. /\ h \o (body \o rest) \in Seq(WireByte)
      /\ Len(h \o (body \o rest)) = 4 + Len(body) + Len(rest)
      /\ \A i \in 1..4 : (h \o (body \o rest))[i].v = LenBytes(Len(body))[i]
      /\ \A i \in 1..Len(body) : (h \o (body \o rest))[4 + i] = body[i]
      /\ \A i \in 1..Len(rest) : (h \o (body \o rest))[4 + Len(body) + i] = rest[i]
  BY <1>2, <1>4, <1>5, <1>6, SMT
<1>8. QED
  BY <1>3, <1>7

\* unpkgMsg of bytes laid out as a header carrying L, L body bytes and then
\* rest: the body, and rest as left.
LEMMA UnpkgLaidOut ==
    ASSUME NEW d \in Seq(WireByte), NEW body \in Seq(WireByte), NEW rest \in Seq(WireByte),
           Len(body) \in Uint32,
           Len(d) = 4 + Len(body) + Len(rest),
           \A i \in 1..4 : d[i].v = LenBytes(Len(body))[i],
           \A i \in 1..Len(body) : d[4 + i] = body[i],
           \A i \in 1..Len(rest) : d[4 + Len(body) + i] = rest[i]
    PROVE  unpkgMsg(d) = [cnt |-> 0, buf |-> body, left |-> rest]
<1> DEFINE L == Len(body)
<1>1. L \in Nat /\ Len(rest) \in Nat
  BY SMT
<1>2. BigEndian(Vals(SubSeq(d, 1, 4))) = L
  <2>1. \A i \in 1..4 : Vals(SubSeq(d, 1, 4))[i] = LenBytes(L)[i]
    BY <1>1, SMT DEF Vals
  <2>2. BigEndian(Vals(SubSeq(d, 1, 4))) = BigEndian(LenBytes(L))
    BY <2>1, SMT DEF BigEndian
  <2>3. QED
    BY <2>2, Uint32RoundTrip
<1>3. SubSeq(d, 4 + 1, L + 4) = body
  BY <1>1, SMT
<1>4. SubSeq(d, L + 4 + 1, Len(d)) = rest
  BY <1>1, SMT
<1>5. ~(Len(d) < 4) /\ ~(Len(d) < BigEndian(Vals(SubSeq(d, 1, 4))) + 4)
  BY <1>1, <1>2, SMT
<1>6. unpkgMsg(d) = [cnt |-> 0, buf |-> SubSeq(d, 4 + 1, L + 4), left |-> SubSeq(d, L + 4 + 1, Len(d))]
  BY <1>2, <1>5, Zenon DEF unpkgMsg, LenWidth
<1>7. QED
  BY <1>3, <1>4, <1>6

\* unpkgMsg of bytes that start with a whole frame cuts that frame off
\* exactly: its body, and the bytes after it as left.
LEMMA UnpkgWholeFrame ==
    ASSUME NEW k \in Nat, NEW body \in Seq(WireByte), NEW rest \in Seq(WireByte),
           Len(body) \in Uint32
    PROVE  unpkgMsg(pkgMsg(k, body) \o rest) = [cnt |-> 0, buf |-> body, left |-> rest]
<1>1. /\ pkgMsg(k, body) \o rest \in Seq(WireByte)
      /\ Len(pkgMsg(k, body) \o rest) = 4 + Len(body) + Len(rest)
      /\ \A i \in 1..4 : (pkgMsg(k, body) \o rest)[i].v = LenBytes(Len(body))[i]
      /\ \A i \in 1..Len(body) : (pkgMsg(k, body) \o rest)[4 + i] = body[i]
      /\ \A i \in 1..Len(rest) : (pkgMsg(k, body) \o rest)[4 + Len(body) + i] = rest[i]
  BY FrameLayout, Zenon
<1>2. QED
  BY <1>1, UnpkgLaidOut, Zenon

\* unpkgMsg of the first m bytes of a frame carrying L, m short of the whole
\* frame, finds no frame: cnt is -1.
LEMMA UnpkgCut ==
    ASSUME NEW d \in Seq(WireByte), NEW L \in Uint32, NEW m \in 0..(L + 3),
           4 <= Len(d), m <= Len(d),
           \A i \in 1..4 : d[i].v = LenBytes(L)[i]
    PROVE  unpkgMsg(SubSeq(d, 1, m)).cnt = -1
<1> DEFINE p == SubSeq(d, 1, m)
<1>1. L \in Nat /\ m \in Nat
  BY SMT DEF Uint32
<1>2. Len(p) = m /\ \A i \in 1..m : p[i] = d[i]
  BY <1>1, SMT
<1>3. CASE m < 4
  BY <1>2, <1>3, SMT DEF unpkgMsg, LenWidth
<1>4. CASE m >= 4
  <2>1. \A i \in 1..4 : Vals(SubSeq(p, 1, 4))[i] = LenBytes(L)[i]
    BY <1>1, <1>2, <1>4, SMT DEF Vals
  <2>2. BigEndian(Vals(SubSeq(p, 1, 4))) = BigEndian(LenBytes(L))
    BY <2>1, SMT DEF BigEndian
  <2>3. BigEndian(Vals(SubSeq(p, 1, 4))) = L
    BY <2>2, Uint32RoundTrip
  <2>4. QED
    BY <1>1, <1>2, <1>4, <2>3, SMT DEF unpkgMsg, LenWidth
<1>5. QED
  BY <1>1, <1>3, <1>4, SMT

-----------------------------------------------------------------------------
(***************************************************************************)
(* PipeDecrypt's loop turn (conn.go 250-272) when a frame heads the wire.  *)
(* The read takes the first n bytes; the wire keeps the rest.              *)
(***************************************************************************)

\* The read of a DecryptRead step: PipeDecrypt's loop body for a read of n
\* bytes (the wire then loses exactly n bytes).
ReadOf(n) ==
    /\ wire' = SubSeq(wire, n + 1, Len(wire))
    /\ LET r == unpkgMsg(SubSeq(wire, 1, n)) IN
       \/ /\ r.cnt < 0
          /\ UNCHANGED <<out, decPc>>
       \/ /\ r.cnt = 0
          /\ \E j \in 1..Len(chunks) : IsBodyOf(r.buf, j) /\ out' = out \o chunks[j]
          /\ UNCHANGED decPc
       \/ /\ r.cnt = 0
          /\ ~\E j \in 1..Len(chunks) : IsBodyOf(r.buf, j)
          /\ \/ decPc' = "end" /\ UNCHANGED out
             \/ out' = Append(out, Garbage) /\ UNCHANGED decPc

LEMMA ReadSize ==
    ASSUME DecryptRead, wire \in Seq(WireByte)
    PROVE  \E n \in 1..Len(wire) : ReadOf(n) /\ Len(wire') = Len(wire) - n
<1>1. PICK n \in 1..Len(wire) : ReadOf(n)
  BY Zenon DEF DecryptRead, ReadOf
<1>2. Len(wire') = Len(wire) - n
  BY <1>1, SMT DEF ReadOf
<1>3. QED
  BY <1>1, <1>2

\* A read that ends inside the frame heading the wire (TCP cut the frame)
\* writes nothing and does not stop the loop: the bytes it took are dropped.
THEOREM ReadEndingInsideFrame ==
    ASSUME NEW k \in Nat, NEW body \in Seq(WireByte), NEW rest \in Seq(WireByte),
           Len(body) \in Uint32,
           wire = pkgMsg(k, body) \o rest,
           DecryptRead,
           Len(wire') > Len(rest)
    PROVE  out' = out /\ decPc' = decPc
<1>1. /\ wire \in Seq(WireByte)
      /\ Len(wire) = 4 + Len(body) + Len(rest)
      /\ \A i \in 1..4 : wire[i].v = LenBytes(Len(body))[i]
  BY FrameLayout, Zenon
<1>2. PICK n \in 1..Len(wire) : ReadOf(n) /\ Len(wire') = Len(wire) - n
  BY <1>1, ReadSize
<1>3. n \in 0..(Len(body) + 3) /\ 4 <= Len(wire) /\ n <= Len(wire)
  BY <1>1, <1>2, SMT
<1>4. unpkgMsg(SubSeq(wire, 1, n)).cnt = -1
  BY <1>1, <1>3, UnpkgCut
<1>5. QED
  BY <1>2, <1>4, SMT DEF ReadOf

\* The first n bytes of a frame followed by rest, n at least the frame:
\* the frame followed by the first n - 4 - L bytes of rest.
LEMMA PrefixLayout ==
    ASSUME NEW w \in Seq(WireByte), NEW body \in Seq(WireByte), NEW rest \in Seq(WireByte),
           Len(w) = 4 + Len(body) + Len(rest),
           \A i \in 1..4 : w[i].v = LenBytes(Len(body))[i],
           \A i \in 1..Len(body) : w[4 + i] = body[i],
           \A i \in 1..Len(rest) : w[4 + Len(body) + i] = rest[i],
           NEW n \in (4 + Len(body))..Len(w)
    PROVE  /\ SubSeq(w, 1, n) \in Seq(WireByte)
           /\ SubSeq(rest, 1, n - 4 - Len(body)) \in Seq(WireByte)
           /\ Len(SubSeq(w, 1, n)) = 4 + Len(body) + Len(SubSeq(rest, 1, n - 4 - Len(body)))
           /\ \A i \in 1..4 : SubSeq(w, 1, n)[i].v = LenBytes(Len(body))[i]
           /\ \A i \in 1..Len(body) : SubSeq(w, 1, n)[4 + i] = body[i]
           /\ \A i \in 1..Len(SubSeq(rest, 1, n - 4 - Len(body))) :
                 SubSeq(w, 1, n)[4 + Len(body) + i] = SubSeq(rest, 1, n - 4 - Len(body))[i]
<1> DEFINE L == Len(body)
           extra == n - 4 - L
<1>1. L \in Nat /\ n \in Nat /\ extra \in 0..Len(rest)
  BY SMT
<1>2. SubSeq(w, 1, n) \in Seq(WireByte) /\ Len(SubSeq(w, 1, n)) = n
      /\ \A i \in 1..n : SubSeq(w, 1, n)[i] = w[i]
  BY <1>1, SMT
<1>3. SubSeq(rest, 1, extra) \in Seq(WireByte) /\ Len(SubSeq(rest, 1, extra)) = extra
      /\ \A i \in 1..extra : SubSeq(rest, 1, extra)[i] = rest[i]
  BY <1>1, SMT
<1>4. Len(SubSeq(w, 1, n)) = 4 + L + Len(SubSeq(rest, 1, extra))
  <2>1. Len(SubSeq(w, 1, n)) = n /\ Len(SubSeq(rest, 1, extra)) = extra
    BY <1>2, <1>3
  <2>2. n = 4 + L + extra
    BY <1>1, SMT
  <2>3. QED
    BY <2>1, <2>2, Zenon
<1>5. \A i \in 1..4 : SubSeq(w, 1, n)[i].v = LenBytes(L)[i]
  BY <1>1, <1>2, SMT
<1>6. \A i \in 1..L : SubSeq(w, 1, n)[4 + i] = body[i]
  BY <1>1, <1>2, SMT
<1>7. \A i \in 1..Len(SubSeq(rest, 1, extra)) : SubSeq(w, 1, n)[4 + L + i] = SubSeq(rest, 1, extra)[i]
  BY <1>1, <1>2, <1>3, SMT
<1>8. QED
  BY <1>2, <1>3, <1>4, <1>5, <1>6, <1>7

\* A frame's body names its frame: no body is the whole ciphertext of two.
LEMMA BodyNamesFrame ==
    ASSUME NEW body, NEW j, NEW k, Len(body) > 0, IsBodyOf(body, j), IsBodyOf(body, k)
    PROVE  j = k
BY SMT DEF IsBodyOf

\* A read that takes the whole frame heading the wire (and maybe more)
\* writes that frame's chunk and nothing else, and the loop goes on: what
\* the read took after the frame is dropped with the loop body's left.
THEOREM ReadOfWholeFrame ==
    ASSUME NEW k \in Nat, NEW body \in Seq(WireByte), NEW rest \in Seq(WireByte),
           Len(body) \in Uint32, body # <<>>, IsBodyOf(body, k),
           wire = pkgMsg(k, body) \o rest,
           DecryptRead,
           Len(wire') <= Len(rest)
    PROVE  out' = out \o chunks[k] /\ decPc' = decPc
<1> DEFINE L == Len(body)
<1>1. /\ wire \in Seq(WireByte)
      /\ Len(wire) = 4 + L + Len(rest)
      /\ \A i \in 1..4 : wire[i].v = LenBytes(L)[i]
      /\ \A i \in 1..L : wire[4 + i] = body[i]
      /\ \A i \in 1..Len(rest) : wire[4 + L + i] = rest[i]
  BY FrameLayout, Zenon
<1>2. PICK n \in 1..Len(wire) : ReadOf(n) /\ Len(wire') = Len(wire) - n
  BY <1>1, ReadSize
<1> DEFINE d == SubSeq(wire, 1, n)
           tail == SubSeq(rest, 1, n - 4 - L)
<1>3. L \in Nat /\ n - 4 - L \in 0..Len(rest)
  BY <1>1, <1>2, SMT
<1>4. /\ d \in Seq(WireByte)
      /\ tail \in Seq(WireByte)
      /\ Len(d) = 4 + L + Len(tail)
      /\ \A i \in 1..4 : d[i].v = LenBytes(L)[i]
      /\ \A i \in 1..L : d[4 + i] = body[i]
      /\ \A i \in 1..Len(tail) : d[4 + L + i] = tail[i]
  <2>1. n \in (4 + L)..Len(wire)
    <3>1. Len(wire) \in Nat /\ Len(wire') \in Nat /\ n \in 1..Len(wire)
      BY <1>1, <1>2, SMT
    <3>2. Len(wire) = 4 + L + Len(rest) /\ Len(wire') = Len(wire) - n /\ Len(wire') <= Len(rest)
      BY <1>1, <1>2
    <3>3. QED
      BY <3>1, <3>2, <1>3, SMT
  <2>2. /\ SubSeq(wire, 1, n) \in Seq(WireByte)
        /\ SubSeq(rest, 1, n - 4 - Len(body)) \in Seq(WireByte)
        /\ Len(SubSeq(wire, 1, n)) = 4 + Len(body) + Len(SubSeq(rest, 1, n - 4 - Len(body)))
        /\ \A i \in 1..4 : SubSeq(wire, 1, n)[i].v = LenBytes(Len(body))[i]
        /\ \A i \in 1..Len(body) : SubSeq(wire, 1, n)[4 + i] = body[i]
        /\ \A i \in 1..Len(SubSeq(rest, 1, n - 4 - Len(body))) :
              SubSeq(wire, 1, n)[4 + Len(body) + i] = SubSeq(rest, 1, n - 4 - Len(body))[i]
    <3>1. n \in (4 + Len(body))..Len(wire)
      BY <2>1
    <3>2. QED
      BY <1>1, <3>1, PrefixLayout, ZenonT(120)
  <2>3. QED
    BY <2>2
<1>5. unpkgMsg(d) = [cnt |-> 0, buf |-> body, left |-> tail]
  BY <1>4, UnpkgLaidOut, Zenon
<1>6. k \in 1..Len(chunks)
  BY DEF IsBodyOf
<1>7. /\ ~(unpkgMsg(d).cnt < 0)
      /\ unpkgMsg(d).cnt = 0
      /\ unpkgMsg(d).buf = body
  BY <1>5, SMT
<1>8. \E j \in 1..Len(chunks) : IsBodyOf(unpkgMsg(d).buf, j)
  BY <1>6, <1>7, Zenon
<1>9. /\ \E j \in 1..Len(chunks) : IsBodyOf(unpkgMsg(d).buf, j) /\ out' = out \o chunks[j]
      /\ decPc' = decPc
  BY <1>2, <1>7, <1>8, Zenon DEF ReadOf
<1>10. PICK j \in 1..Len(chunks) : IsBodyOf(body, j) /\ out' = out \o chunks[j]
  BY <1>7, <1>9, Zenon
<1>11. Len(body) > 0
  BY SMT
<1>12. j = k
  BY <1>10, <1>11, BodyNamesFrame
<1>13. QED
  BY <1>9, <1>10, <1>12

\* Two frames in one read (spec 4.2: "when multiple frames arrive in one
\* read"): PipeDecrypt writes the first frame's chunk only, and the second
\* frame is no longer on the wire, so its chunk is never written.
THEOREM ReadOfTwoFrames ==
    ASSUME NEW k \in Nat, NEW k2 \in Nat,
           NEW b1 \in Seq(WireByte), NEW b2 \in Seq(WireByte), NEW rest \in Seq(WireByte),
           Len(b1) \in Uint32, b1 # <<>>, IsBodyOf(b1, k),
           wire = pkgMsg(k, b1) \o (pkgMsg(k2, b2) \o rest),
           DecryptRead,
           wire' = rest
    PROVE  out' = out \o chunks[k] /\ decPc' = decPc
<1>1. pkgMsg(k2, b2) \o rest \in Seq(WireByte)
      /\ Len(pkgMsg(k2, b2) \o rest) = 4 + Len(b2) + Len(rest)
  BY FrameLayout, Zenon
<1>2. Len(wire') <= Len(pkgMsg(k2, b2) \o rest)
  BY <1>1, SMT
<1>3. QED
  BY <1>1, <1>2, ReadOfWholeFrame

=============================================================================
