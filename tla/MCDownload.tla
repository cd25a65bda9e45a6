------------------------------ MODULE MCDownload ------------------------------
EXTENDS Download, TLC

CONSTANTS b0, b1, b3

MCSize == b0 :> 0 @@ b1 :> 1 @@ b3 :> 3

MCRangeHeaders == [kind : {"bad"}]
                    \cup [kind : {"suffix"}, n : 0..4]
                    \cup [kind : {"from"}, start : 0..3]
                    \cup [kind : {"span"}, start : 0..2, end : 0..3]
==============================================================================
