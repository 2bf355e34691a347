---------------------------- MODULE ReplicatedLog ----------------------------
(***************************************************************************)
(* What raft promises to the server above it: one log that only grows, of  *)
(* which every node delivers a prefix.  A node that restarts may deliver a *)
(* prefix it has delivered before.                                         *)
(***************************************************************************)
EXTENDS Naturals, SequencesExt

CONSTANT Server

VARIABLES
    log,       \* the entries agreed on
    delivered  \* what each server has handed to its state machine

vars == <<log, delivered>>

\* Every server starts from some prefix of the log it is bootstrapped with.
Init == \A s \in Server : IsPrefix(delivered[s], log)

\* s learns a further part of the log, which may be longer than it was.
Deliver(s) ==
    /\ IsPrefix(log, log')
    /\ IsPrefix(delivered[s], delivered'[s])
    /\ IsPrefix(delivered'[s], log')
    /\ Len(log') = Max({Len(log), Len(delivered'[s])})
    /\ \A t \in Server \ {s} : delivered'[t] = delivered[t]

\* s starts again from an earlier prefix.
Recover(s) ==
    /\ log' = log
    /\ IsPrefix(delivered'[s], delivered[s])
    /\ \A t \in Server \ {s} : delivered'[t] = delivered[t]

Next == \E s \in Server : Deliver(s) \/ Recover(s)

Spec == Init /\ [][Next]_vars

=============================================================================
