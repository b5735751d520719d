---------------------------- MODULE MCFwUpdater -----------------------------
(* FwUpdater on seven uploads: two good images, and one upload for each way *)
(* an upload can be wrong (head, contents, too short, empty, too large).    *)
EXTENDS FwUpdater

CONSTANTS v1, v2, badHead, badBody, short, empty, huge

MCBodies == {v1, v2, badHead, badBody, short, empty, huge}
MCBodyLen == [b \in MCBodies |-> CASE b \in {v1, badHead} -> 3
                                   [] b \in {v2, badBody} -> 2
                                   [] b = short -> 1
                                   [] b = empty -> 0
                                   [] b = huge -> 4]
MCHeadOk == {v1, v2, badBody}
MCVerified == {v1, v2}
=============================================================================
