----------------------------- MODULE MCFraming -----------------------------
(***************************************************************************)
(* Framing for TLC: a three-byte source, so that PipeEncrypt can write one *)
(* to three frames and PipeDecrypt can meet two frames in one read or a    *)
(* frame cut in two; ciphertext bytes 0 and 1, so that a read that starts  *)
(* inside a frame can still see a small length.                           *)
(***************************************************************************)
EXTENDS Framing, TLC

MCInput == <<1, 2, 3>>
MCCipherBytes == {0, 1}
=============================================================================
