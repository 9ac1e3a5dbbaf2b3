---------------------------- MODULE SerialWriters ----------------------------
(***************************************************************************)
(* What the database lock promises, without the lock file: writers take    *)
(* turns.  In its turn a writer looks at databases and writes them, and    *)
(* it only writes a database of which it has no view or a current one.     *)
(***************************************************************************)
EXTENDS Integers

CONSTANTS Procs, NoProc, Dbs, NotLoaded, MaxGen

VARIABLES
    owner,   \* whose turn it is, or NoProc
    gen,     \* gen[d]: the number of writes to database d
    view     \* view[p][d]: the gen that p has seen of d in its turn

vars == <<owner, gen, view>>

NoView == [d \in Dbs |-> NotLoaded]

Init ==
    /\ owner = NoProc
    /\ gen = [d \in Dbs |-> 0]
    /\ view = [p \in Procs |-> NoView]

TakeTurn(p) ==
    /\ owner = NoProc
    /\ owner' = p
    /\ UNCHANGED <<gen, view>>

Look(p, d) ==
    /\ owner = p
    /\ view' = [view EXCEPT ![p][d] = gen[d]]
    /\ UNCHANGED <<owner, gen>>

\* After its write the writer sees the new state, or has no view of it.
Write(p, d) ==
    /\ owner = p
    /\ view[p][d] \in {NotLoaded, gen[d]}
    /\ gen[d] < MaxGen
    /\ gen' = [gen EXCEPT ![d] = @ + 1]
    /\ \E v \in {NotLoaded, gen[d] + 1} : view' = [view EXCEPT ![p][d] = v]
    /\ UNCHANGED owner

\* The turn ends, voluntarily or with the process.
EndTurn(p) ==
    /\ owner = p
    /\ owner' = NoProc
    /\ view' = [view EXCEPT ![p] = NoView]
    /\ UNCHANGED gen

Next ==
    \E p \in Procs :
        \/ TakeTurn(p)
        \/ \E d \in Dbs : Look(p, d) \/ Write(p, d)
        \/ EndTurn(p)

Spec == Init /\ [][Next]_vars
=============================================================================
