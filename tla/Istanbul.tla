------------------------------ MODULE Istanbul ------------------------------
(***************************************************************************)
(* The arithmetic of src/src/istanbul.rs: how block numbers fall into      *)
(* epochs, and how many validators make a quorum.  Every operator keeps    *)
(* the name of the function it translates.                                 *)
(*                                                                         *)
(* The functions work on u64/usize.  Release builds are compiled with      *)
(* overflow-checks (Cargo.toml), so an overflow is a panic and not a       *)
(* wrapped value; the callers' modules model the panics they can meet.     *)
(* epoch_size = 0 is a remainder by zero: EpochSize constants are          *)
(* positive.                                                               *)
(***************************************************************************)
EXTENDS Integers

(* Mutant: forgets that the last block of an epoch has number epoch_size.  *)
get_number_within_epoch_ZeroBased(number, epoch_size) == number % epoch_size

(* The 1-based position of a block in its epoch.  Block 0 is the last      *)
(* block of epoch 0.                                                       *)
get_number_within_epoch(number, epoch_size) ==
    IF number % epoch_size = 0 THEN epoch_size ELSE number % epoch_size

(* Mutant: the epoch turns one block late. *)
is_last_block_of_epoch_FirstBlock(number, epoch_size) ==
    get_number_within_epoch(number, epoch_size) = 1

is_last_block_of_epoch(number, epoch_size) ==
    get_number_within_epoch(number, epoch_size) = epoch_size

get_epoch_number(number, epoch_size) ==
    IF is_last_block_of_epoch(number, epoch_size)
    THEN number \div epoch_size
    ELSE (number \div epoch_size) + 1

(* Mutant: the first block of an epoch is the last one of the epoch before *)
get_epoch_first_block_number_OffByOne(epoch_number, epoch_size) ==
    {(e - 1) * epoch_size : e \in {epoch_number} \ {0}}

(* Option<u64>: the empty set for None (epoch 0 has no first block). *)
get_epoch_first_block_number(epoch_number, epoch_size) ==
    {(e - 1) * epoch_size + 1 : e \in {epoch_number} \ {0}}

(* Epoch 0 is the genesis block alone; the product is 0 there too. *)
get_epoch_last_block_number(epoch_number, epoch_size) ==
    IF epoch_number = 0 THEN 0 ELSE epoch_number * epoch_size

(* Mutant: rounds two thirds down. *)
min_quorum_size_Floor(total_validators) == (2 * total_validators) \div 3

(* Two thirds of the set, rounded up.  For an empty set the code computes  *)
(* 0 - 1 on usize and panics: callers test for that before they use it.    *)
min_quorum_size(total_validators) ==
    ((2 * total_validators) - 1 + 3) \div 3
=============================================================================
