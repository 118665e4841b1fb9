------------------------- MODULE MCWsgiRequestBody -------------------------
EXTENDS WsgiRequestBody

Raw(n)  == [kind |-> "Raw",  size |-> n]
Line(n) == [kind |-> "Line", size |-> n]

SomeReads == {Raw(0), Raw(2), Raw(-1), Line(-1), Line(2)}
SecondByte == {2}
=============================================================================
