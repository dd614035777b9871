------------------------------- MODULE MC_Event -------------------------------
(* Small instances of EventLogging. *)
EXTENDS EventLogging, TLC

CONSTANTS main, other, w1, w2, w3, name, f, g, high

TwoClients == {main, other}
WorkersInOrder == w1 :> 1 @@ w2 :> 2 @@ w3 :> 3
OneFile == high :> {2}

\* Two clients; calls that fail; and functions that log.
Bounds(callers, called, few, faults, messages) ==
    [clients |-> callers, functions |-> called, jobs |-> few, faults |-> faults,
     messages |-> messages]
FourLimits ==
    {Bounds(TwoClients, {f, g}, 3, 0, 0), Bounds({main}, {f}, 3, 2, 0),
     Bounds({main}, {f}, 3, 0, 2), Bounds({main}, {f}, 1, 1, 1)}

-----------------------------------------------------------------------------
CleanupReturns == E!CleanupReturns
=============================================================================
