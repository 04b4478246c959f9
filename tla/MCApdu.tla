------------------------------- MODULE MCApdu -------------------------------
(***************************************************************************)
(* ApduExchange for TLC: every context, commands of the four forms with    *)
(* and without Le, and the follow-up limit of the code.                    *)
(***************************************************************************)
EXTENDS ApduExchange

Lengths == {0, 1, 5}
Les     == {0, 1}
Errors  == {"CardRemoved", "ParseError"}
=============================================================================
