-------------------------- MODULE MCGatewayStream --------------------------
(* GatewayStream for TLC: a vault with two pseudonyms, one a prefix of the  *)
(* other, and a check of Replace against the replacement the library does.  *)
EXTENDS GatewayStream

MCVault == (<<"1">> :> "short_original") @@ (<<"1", "1">> :> "long_original")

MCOrder == <<<<"1", "1">>, <<"1">>>>

\* str::replace as it goes over a text: every occurrence of the token, from the left.
RECURSIVE ReplaceFromLeft(_, _, _)
ReplaceFromLeft(text, token, original) ==
  IF Len(text) < Len(token) THEN text
  ELSE IF IsPrefix(token, text)
  THEN <<original>> \o
       ReplaceFromLeft(SubSeq(text, Len(token) + 1, Len(text)), token, original)
  ELSE <<Head(text)>> \o ReplaceFromLeft(Tail(text), token, original)

\* With a second digit no known number has, Replace is that on every text of six pieces.
TwoDigits == INSTANCE GatewayStream WITH Digit <- {"1", "2"}
ASSUME ReplaceIsFromLeft ==
  \A text \in SeqOf(TwoDigits!Piece, 6) : \A number \in DOMAIN MCVault :
    SelectSeq(TwoDigits!Replace(text, number), LAMBDA piece : piece # "none") =
      ReplaceFromLeft(text, <<"head", "tail">> \o number, MCVault[number])
=============================================================================
