---------------------------- MODULE LightestSync ----------------------------
(***************************************************************************)
(* The lightest-sync program (examples/lightest-sync/main.rs): it asks a   *)
(* full node for the latest header, then for the last header of every      *)
(* epoch before that one's, builds the validator set up from them, and     *)
(* reports whether the latest header verifies against it.  The chain grows *)
(* while it runs.                                                          *)
(*                                                                         *)
(* The node answers a request for a number with the finalised header of    *)
(* that number; as "latest" it may also give a proposal that never got a   *)
(* quorum.  A request may fail (relayer.rs), when FetchFails says so.      *)
(***************************************************************************)
EXTENDS CeloChain

CONSTANTS AllowedClockSkew, \* 5 seconds in the program
          FetchFails        \* may a request to the node fail?

(* Numbers and times stay far below 2^64, and the keys of the validators   *)
(* are keys.                                                               *)
ASSUME ProgramAssumption ==
    /\ AllowedClockSkew \in Nat /\ MaxU64 \in Nat
    /\ MaxNumber + 2 * AllowedClockSkew <= MaxU64
    /\ \A v \in Electable : v.public_key \notin BadKeys

VARIABLES fast,     \* the --fast flag
          pc,       \* "fetch_latest", "sync", "report", "done" or "panicked"
          current,  \* the latest header, once fetched
          epoch,    \* the loop's counter
          snapshot, \* the state the program builds up
          missed,   \* the epochs whose header could not be fetched
          verdict   \* what verify_header said of the latest header

programVars == <<fast, pc, current, epoch, snapshot, missed, verdict>>
vars == <<chain, sets, programVars>>

(* What no step of the program itself changes. *)
world == <<chain, sets, fast>>

state_config == [epoch_size |-> EpochSize,
                 allowed_clock_skew |-> AllowedClockSkew,
                 verify_epoch_headers |-> ~ fast,
                 verify_non_epoch_headers |-> ~ fast,
                 verify_header_timestamp |-> TRUE]

current_epoch_number == get_epoch_number(current.number, EpochSize)

(* The system clock is off the chain's time by at most the allowed skew.   *)
Clock == {t \in Tip - AllowedClockSkew..Tip + AllowedClockSkew : t >= 0}

Init ==
    /\ ChainInit
    /\ fast \in BOOLEAN
    /\ pc = "fetch_latest"
    /\ current = Block(0)
    /\ epoch = 0
    /\ snapshot = EmptySnapshot
    /\ missed = {}
    /\ verdict = "None"

ChainGrows == Grow /\ UNCHANGED programVars

FetchLatest ==
    /\ pc = "fetch_latest"
    /\ Tip > 0
    /\ current' \in Finalised(Tip) \cup Abandoned(Tip)
    /\ pc' = "sync"
    /\ UNCHANGED <<world, epoch, snapshot, missed, verdict>>

(* get_block_header_by_number("latest").await.unwrap() *)
FetchLatestFails ==
    /\ pc = "fetch_latest"
    /\ FetchFails
    /\ pc' = "panicked"
    /\ UNCHANGED <<world, current, epoch, snapshot, missed, verdict>>

(* One turn of the loop.  An error of insert_header is logged and the loop *)
(* goes on; a panic ends the program.                                      *)
SyncEpoch ==
    /\ pc = "sync" /\ epoch < current_epoch_number
    /\ \E header \in Finalised(get_epoch_last_block_number(epoch, EpochSize)),
          current_timestamp \in Clock :
        LET outcome == insert_header(state_config, snapshot, header,
                                     current_timestamp)
        IN  /\ snapshot' = outcome.snapshot
            /\ pc' = IF outcome.res = "Panic" THEN "panicked" ELSE pc
    /\ epoch' = epoch + 1
    /\ UNCHANGED <<world, current, missed, verdict>>

(* A header that cannot be fetched is logged too, and left out. *)
SkipEpoch ==
    /\ pc = "sync" /\ epoch < current_epoch_number
    /\ FetchFails
    /\ epoch' = epoch + 1
    /\ missed' = missed \cup {epoch}
    /\ UNCHANGED <<world, pc, current, snapshot, verdict>>

EndOfLoop ==
    /\ pc = "sync" /\ epoch >= current_epoch_number
    /\ pc' = "report"
    /\ UNCHANGED <<world, current, epoch, snapshot, missed, verdict>>

Report ==
    /\ pc = "report"
    /\ \E current_timestamp \in Clock :
        verdict' = verify_header(state_config, snapshot, current,
                                 current_timestamp)
    /\ pc' = IF verdict' = "Panic" THEN "panicked" ELSE "done"
    /\ UNCHANGED <<world, current, epoch, snapshot, missed>>

Next ==
    \/ ChainGrows
    \/ FetchLatest
    \/ FetchLatestFails
    \/ SyncEpoch
    \/ SkipEpoch
    \/ EndOfLoop
    \/ Report

Spec == Init /\ [][Next]_vars
-----------------------------------------------------------------------------
SetInForce == SetAfter(current.number - 1)

SealedByQuorum ==
    \E header \in Finalised(current.number) : header = current

(* A header reported as valid was signed by at least two thirds of the     *)
(* validator set of its epoch (README.md:15).                              *)
ReportedIsSealed == verdict = "Ok" => SealedByQuorum

(* So it is when every header of an earlier epoch could be fetched; and    *)
(* then a header that two thirds of its validators signed is reported as   *)
(* valid, whatever elections lie behind it and although the chain goes on  *)
(* meanwhile (main.rs:99-119).  With --fast only the set is built up:      *)
(* verify_header tests the latest header's seal all the same.              *)
ReportIsRight ==
    pc = "done" /\ missed = {} => (verdict = "Ok" <=> SealedByQuorum)

(* With all of them fetched the program does not panic, and holds exactly  *)
(* the set in force at the latest header.  (The first request may fail,    *)
(* and is unwrapped.)                                                      *)
RebuildsSet ==
    /\ pc = "panicked" => missed # {} \/ current = Block(0)
    /\ pc = "report" /\ missed = {} => snapshot.validators = SetInForce
=============================================================================
