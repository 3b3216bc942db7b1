----------------------------- MODULE MCWordList -----------------------------
(***************************************************************************)
(* Lists of up to five words out of five; pages of one word, of three, or  *)
(* of all there are, asked for by a word or by any number up to two past    *)
(* the end.                                                                 *)
(***************************************************************************)
EXTENDS WordList

MCWord == 1 .. 5
MCSize == {1, 3, MaxLong}
=============================================================================
