---------------------------- MODULE MCTextParsers ----------------------------
(* TextParsers with addresses of two numbers of two bits in base two, and     *)
(* patterns over two letters with one variable element.                       *)
EXTENDS TextParsers, TLC

MCDigitValue == ("0" :> 0) @@ ("1" :> 1)
MCLetters == {"n", "w"}
MCNames == {<<"n">>}
=============================================================================
