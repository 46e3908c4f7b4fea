---------------------------- MODULE EventSource ----------------------------
(***************************************************************************)
(* What a file of primary events promises to the run that reads it: after  *)
(* an optional seek, the entries are served in order, round robin, one per *)
(* event, and none is served twice or left out within a pass.              *)
(***************************************************************************)
EXTENDS Integers, Sequences

CONSTANT Entry      \* the set of all entries of files

VARIABLES
    entries,    \* the entries of one pass, in file order; fixed
    next,       \* the index of the entry to serve next
    served      \* the entries served so far

esVars == <<entries, next, served>>

Init ==
    /\ entries \in Seq(Entry)
    /\ next = 1
    /\ served = <<>>

Seek(k) ==
    /\ served = <<>>
    /\ next' = k
    /\ UNCHANGED <<entries, served>>

Serve ==
    /\ entries # <<>>
    /\ served' = Append(served, entries[next])
    /\ next' = (next % Len(entries)) + 1
    /\ UNCHANGED entries

Next == Serve \/ \E k \in 1..Len(entries) : Seek(k)

Spec == Init /\ [][Next]_esVars
=============================================================================
