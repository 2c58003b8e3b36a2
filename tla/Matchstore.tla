---------------------------- MODULE Matchstore ----------------------------
(***************************************************************************)
(* What the interface matches.Matchstore promises its callers, whatever    *)
(* the backend: per key (an endpoint id, or the one key of the mismatches) *)
(* the newest Capacity recorded requests, oldest first, and a counter that *)
(* the capacity does not limit; a delete clears both at once.              *)
(***************************************************************************)
EXTENDS Naturals, Sequences

CONSTANTS Keys,      \* endpoint ids and the key of the mismatches
          Match,     \* recorded requests
          Capacity   \* MATCHES_CAPACITY

VARIABLES matches,       \* [Keys -> Seq(Match)]
          matchesCount   \* [Keys -> Nat]

vars == <<matches, matchesCount>>

\* The last n elements of s, all of s when it is shorter.
Newest(s, n) == IF Len(s) <= n THEN s ELSE SubSeq(s, Len(s) - n + 1, Len(s))

Init == /\ matches = [k \in Keys |-> <<>>]
        /\ matchesCount = [k \in Keys |-> 0]

\* AddMatch / AddMismatch
Add(k, m) ==
    /\ matches' = [matches EXCEPT ![k] = Newest(Append(@, m), Capacity)]
    /\ matchesCount' = [matchesCount EXCEPT ![k] = @ + 1]

\* DeleteMatches / DeleteMismatches
Delete(k) ==
    /\ matches' = [matches EXCEPT ![k] = <<>>]
    /\ matchesCount' = [matchesCount EXCEPT ![k] = 0]

Next == \E k \in Keys : Delete(k) \/ \E m \in Match : Add(k, m)

Spec == Init /\ [][Next]_vars
=============================================================================
