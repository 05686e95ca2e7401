---------------------------- MODULE TrustedHead -----------------------------
(***************************************************************************)
(* What a light client of an epoch-based chain promises, without headers,  *)
(* seals or bitmaps: it trusts one block of the chain at a time together   *)
(* with the validator set in force after it, moves only forward, and never *)
(* past an epoch boundary it has not trusted first.                        *)
(***************************************************************************)
EXTENDS Integers, Sequences

CONSTANTS ValidatorSets,    \* the sets a chain may have
          Size              \* the number of blocks of an epoch

VARIABLES history,  \* history[n + 1] is the set in force after block n
          head,     \* the trusted block, or -1 for none
          trusted   \* the set trusted with it

trustVars == <<history, head, trusted>>

Init ==
    /\ Len(history) = 1 /\ history[1] \in ValidatorSets
    /\ head = -1
    /\ trusted = <<>>

(* The set changes at the end of an epoch only. *)
Extend ==
    /\ Len(history') = Len(history) + 1
    /\ \A n \in DOMAIN history : history'[n] = history[n]
    /\ history'[Len(history) + 1] \in ValidatorSets
    /\ Len(history) % Size # 0 =>
            history'[Len(history) + 1] = history[Len(history)]
    /\ UNCHANGED <<head, trusted>>

Advance ==
    \E n \in 0..Len(history) - 1 :
        /\ head < n
        /\ head = -1 => n = 0
        /\ \A m \in head + 1..n - 1 : m % Size # 0
        /\ head' = n
        /\ trusted' = history[n + 1]
        /\ UNCHANGED history

Next == Extend \/ Advance

Spec == Init /\ [][Next]_trustVars
=============================================================================
