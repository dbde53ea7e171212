----------------------------- MODULE MCFraming -----------------------------
(***************************************************************************)
(* Small instances of Framing: bytes are bits, a header has two of them,   *)
(* and a body of three bits is too long.  Bodies look like headers.        *)
(***************************************************************************)
EXTENDS Framing, TLC

MCPlace == <<2, 1>>

Short == <<1>>
Long == <<0, 1>>
OverLong == <<1, 0, 1>>

MCBodies == {Short, Long, OverLong}

(* Answers may be longer than requests.                                    *)
MCAnswer == (Short :> OverLong) @@ (Long :> Short) @@ (OverLong :> OverLong)
----------------------------------------------------------------------------
(* Answers that take several writes, one at a time; several at once as     *)
(* refresh() asks for them, each written in one piece; and several at once *)
(* that take several writes, whose pieces may mix.                         *)
MCLinks == {[transfer |-> 2, room |-> 3, window |-> 1],
            [transfer |-> 5, room |-> 15, window |-> 3],
            [transfer |-> 4, room |-> 6, window |-> 2]}

ASSUME LinksAssumption == \E l \in Links : ~Uncut(l)
=============================================================================
