--------------------------- MODULE MCAntiEntropy ---------------------------
EXTENDS AntiEntropy, TLC

CONSTANTS n1, n2

Pair == <<n1, n2>>
UpToFour == (n1 :> 4) @@ (n2 :> 0)
FromOne == (n1 :> 1) @@ (n2 :> 0)
Middle == {<<n1, 2>>}
Once1 == (n1 :> 1) @@ (n2 :> 0)
=============================================================================
