----------------------------- MODULE MCSignalRpc -----------------------------
(* Instances of SignalRpc.                                                 *)
EXTENDS SignalRpc

CONSTANTS r1, r2, r3

TwoRequests == {r1, r2}
ThreeRequests == {r1, r2, r3}

\* two that wait for their responses and one that registers no future
ThreeKinds == r1 :> "ask" @@ r2 :> "respond" @@ r3 :> "note"
Waiters == r1 :> "ask" @@ r2 :> "respond"
=============================================================================
