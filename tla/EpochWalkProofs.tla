-------------------------- MODULE EpochWalkProofs ---------------------------
(***************************************************************************)
(* The formulas of src/src/istanbul.rs are right for every epoch size and  *)
(* every block number, and quorums intersect for validator sets of every   *)
(* size.                                                                   *)
(***************************************************************************)
EXTENDS EpochWalk, StateLemmas

(* What the walk has counted determines the number it is at.               *)
Counted ==
    /\ epoch_size \in Nat \ {0}
    /\ number \in Nat /\ epoch \in Nat
    /\ position \in 1..epoch_size
    /\ number = (epoch - 1) * epoch_size + position
    /\ first = {(e - 1) * epoch_size + 1 : e \in {epoch} \ {0}}

(* Block 1 is the first of epoch 1.                                        *)
LEMMA CountedInitially == Init => Counted
<1> SUFFICES ASSUME Init PROVE Counted
    OBVIOUS
<1>1. epoch_size \in Nat \ {0} /\ number = 0 /\ epoch = 0
        /\ position = epoch_size
    BY WalkAssumption DEF Init
<1>2. position \in 1..epoch_size
        /\ number = (epoch - 1) * epoch_size + position
    BY <1>1
<1>3. first = {(e - 1) * epoch_size + 1 : e \in {epoch} \ {0}}
    BY <1>1 DEF Init
<1> QED BY <1>1, <1>2, <1>3 DEF Counted

(* Counting one block on keeps the count.                                  *)
LEMMA CountedPreserved == Counted /\ [Next]_vars => Counted'
<1> SUFFICES ASSUME Counted, [Next]_vars PROVE Counted'
    OBVIOUS
<1>1. CASE UNCHANGED vars
    BY <1>1 DEF Counted, vars
<1>2. CASE Next /\ StayInEpoch
    BY <1>2 DEF Counted, Next, StayInEpoch
<1>3. CASE Next /\ EnterNextEpoch
    <2>1. /\ epoch_size' = epoch_size /\ number' = number + 1
          /\ epoch' = epoch + 1 /\ position' = 1
        BY <1>3 DEF Next, EnterNextEpoch
    <2>2. number + 1 = epoch * epoch_size + 1
        BY <1>3 DEF Counted, EnterNextEpoch
    <2>3. number' = (epoch' - 1) * epoch_size' + position'
        BY <2>1, <2>2 DEF Counted
    <2>4. first' = {epoch * epoch_size + 1}
        BY <1>3, <2>2 DEF EnterNextEpoch
    <2>5. {epoch'} \ {0} = {epoch + 1}
        BY <2>1 DEF Counted
    <2>6. first' = {(e - 1) * epoch_size' + 1 : e \in {epoch'} \ {0}}
        <3>1. (epoch + 1) - 1 = epoch
            BY DEF Counted
        <3> QED BY <2>1, <2>4, <2>5, <3>1
    <2> QED BY <2>1, <2>3, <2>6 DEF Counted
<1> QED BY <1>1, <1>2, <1>3 DEF Next

(* The formulas give what was counted. *)
LEMMA CountedIsComputed ==
    Counted => /\ get_epoch_number(number, epoch_size) = epoch
               /\ get_number_within_epoch(number, epoch_size) = position
<1> SUFFICES ASSUME Counted
             PROVE  /\ get_number_within_epoch(number, epoch_size) = position
                    /\ get_epoch_number(number, epoch_size) = epoch
    OBVIOUS
<1>1. IsPlace(number, epoch_size, epoch, position)
    BY DEF Counted, IsPlace
<1> QED BY <1>1, Formulas

(* The inductive invariant holds: see Counted.                             *)
LEMMA AlwaysCounted == Spec => []Counted
<1> QED BY CountedInitially, CountedPreserved, PTL DEF Spec

-----------------------------------------------------------------------------
(* Every block is placed in the epoch, and at the position in it, that     *)
(* counting gives (istanbul.rs:9-26).                                      *)
THEOREM FormulasAlwaysCount == Spec => []FormulasCount
<1>1. Counted => FormulasCount
    BY CountedIsComputed DEF FormulasCount
<1> QED BY <1>1, AlwaysCounted, PTL

(* The bounds computed for an epoch enclose its blocks (istanbul.rs:28-45) *)
THEOREM BoundsAlwaysEnclose == Spec => []BoundsEnclose
<1>1. ASSUME Counted PROVE BoundsEnclose
    <2>1. get_epoch_first_block_number(epoch, epoch_size) = first
        BY <1>1 DEF Counted, get_epoch_first_block_number
    <2>2. get_epoch_last_block_number(epoch, epoch_size) = epoch * epoch_size
        BY <1>1 DEF Counted, get_epoch_last_block_number
    <2>3. (epoch - 1) * epoch_size = epoch * epoch_size - epoch_size
        BY <1>1 DEF Counted
    <2>4. epoch * epoch_size - number = epoch_size - position
        BY <1>1, <2>3 DEF Counted
    <2> QED BY <2>1, <2>2, <2>4 DEF BoundsEnclose
<1> QED BY <1>1, AlwaysCounted, PTL

(* The validator set turns at the boundary of an epoch, neither a block    *)
(* early nor late (state.rs:114).                                          *)
THEOREM EpochAlwaysTurns == Spec => EpochTurnsAfterLastBlock
<1>1. ASSUME Counted, Next
      PROVE  is_last_block_of_epoch(number, epoch_size) <=> (epoch' # epoch)
    <2>1. is_last_block_of_epoch(number, epoch_size)
            <=> position = epoch_size
        BY <1>1, CountedIsComputed DEF is_last_block_of_epoch
    <2>2. CASE StayInEpoch
        BY <1>1, <2>1, <2>2 DEF Counted, StayInEpoch
    <2>3. CASE EnterNextEpoch
        BY <1>1, <2>1, <2>3 DEF Counted, EnterNextEpoch
    <2> QED BY <1>1, <2>2, <2>3 DEF Next
<1> QED BY <1>1, AlwaysCounted, PTL DEF Spec, EpochTurnsAfterLastBlock

(* Quorums of validator sets of every size share more validators than the  *)
(* third that may be faulty (istanbul.rs:66-70)                           *)
THEOREM QuorumsAlwaysIntersect == Spec => []QuorumsIntersect
<1>1. ASSUME Counted PROVE QuorumsIntersect
    <2>1. number \in Nat
        BY <1>1 DEF Counted
    <2> QED BY <2>1 DEF QuorumsIntersect, min_quorum_size
<1> QED BY <1>1, AlwaysCounted, PTL
=============================================================================
