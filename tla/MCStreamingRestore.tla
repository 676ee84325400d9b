--------------------------- MODULE MCStreamingRestore ---------------------------
(***************************************************************************)
(* Instances of StreamingRestore for TLC: a prefix that overlaps itself as *)
(* TOKEN_PREFIX does, tokens with a body of one character, and a character *)
(* of two bytes.                                                           *)
(***************************************************************************)
EXTENDS StreamingRestore

Alphabet == {"[", "]", "R", "wide"}
WidthOf == [ch \in Alphabet |-> IF ch = "wide" THEN 2 ELSE 1]
Marker == <<"[", "[", "R">>
Closing == <<"]", "]">>
TokenOf(body) == Marker \o <<body>> \o Closing
AllTokens == {TokenOf("R"), TokenOf("[")}
AuthorizedTokens == {TokenOf("R")}
=============================================================================
