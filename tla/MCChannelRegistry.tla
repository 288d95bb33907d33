------------------------- MODULE MCChannelRegistry -------------------------
EXTENDS ChannelRegistry, TLC
CONSTANTS root, c1, c2, c3, f, g, r1, r2, j1, t1, t2

MCDefault == f :> <<"a", "b">> @@ g :> <<"b">>
MCOverride == {<<"root", "a">>}
=============================================================================
