----------------------------- MODULE EpochWalk ------------------------------
(***************************************************************************)
(* Walks the block numbers 0, 1, 2, ... and counts epochs by hand, without *)
(* division: the reference the closed formulas of Istanbul.tla are checked *)
(* against.  An epoch is epoch_size consecutive blocks, epoch 0 is block 0 *)
(* alone (src/src/istanbul.rs:6-8,28-45).                                  *)
(***************************************************************************)
EXTENDS Istanbul, FiniteSets

CONSTANTS MaxEpochSize,  \* bound of the epoch sizes tried
          MaxNumber      \* bound of the block numbers walked

(* The bounds of the walk; no epoch is empty.                              *)
ASSUME WalkAssumption == MaxEpochSize \in Nat \ {0} /\ MaxNumber \in Nat

VARIABLES epoch_size,    \* never changes
          number,        \* the block the walk is at
          epoch,         \* its epoch, counted
          position,      \* its 1-based position in that epoch, counted
          first          \* the first block of that epoch ({} for epoch 0)

vars == <<epoch_size, number, epoch, position, first>>

Init ==
    /\ epoch_size \in 1..MaxEpochSize
    /\ number = 0 /\ epoch = 0 /\ first = {}
    /\ position = epoch_size

StayInEpoch ==
    /\ position < epoch_size
    /\ position' = position + 1
    /\ UNCHANGED <<epoch, first>>

EnterNextEpoch ==
    /\ position = epoch_size
    /\ position' = 1
    /\ epoch' = epoch + 1
    /\ first' = {number + 1}

Next ==
    /\ number < MaxNumber
    /\ number' = number + 1
    /\ UNCHANGED epoch_size
    /\ StayInEpoch \/ EnterNextEpoch

Spec == Init /\ [][Next]_vars
-----------------------------------------------------------------------------
(* The closed formulas place every block in the epoch, and at the position *)
(* in it, that counting gives (istanbul.rs:9-26).                          *)
FormulasCount ==
    /\ get_epoch_number(number, epoch_size) = epoch
    /\ get_number_within_epoch(number, epoch_size) = position

(* The first and last block computed for an epoch are the ones the walk    *)
(* met, and enclose every block of it (istanbul.rs:28-45).                 *)
BoundsEnclose ==
    LET last == get_epoch_last_block_number(epoch, epoch_size)
    IN  /\ get_epoch_first_block_number(epoch, epoch_size) = first
        /\ last - number = epoch_size - position

(* A block is an epoch header exactly when its successor is in another     *)
(* epoch: insert_header (state.rs:114) changes the validator set at the    *)
(* boundary, neither a block early nor late.                               *)
EpochTurnsAfterLastBlock ==
    [][is_last_block_of_epoch(number, epoch_size) <=> (epoch' # epoch)]_vars

(* min_quorum_size, read with number as the size of the set, is the least  *)
(* count that is at least two thirds (README.md:15), and any two quorums   *)
(* share more validators than the third that may be faulty.                *)
QuorumsIntersect ==
    LET n == number
        q == min_quorum_size(n)
    IN  n > 0 =>
        /\ q <= n
        /\ 3 * q >= 2 * n
        /\ 3 * (q - 1) < 2 * n
        /\ \A faulty \in 0..n : 3 * faulty < n => 2 * q - n > faulty
=============================================================================
