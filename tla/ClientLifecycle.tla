-------------------------- MODULE ClientLifecycle ---------------------------
(***************************************************************************)
(* What the clients of a host promise, whatever chain they follow: a       *)
(* client keeps consensus states by height and is live or frozen.  It      *)
(* takes up states only while it is live.  Evidence freezes it, at a       *)
(* height that only goes down.  It becomes live again only when it takes   *)
(* over the latest state of another client of the same configuration.      *)
(***************************************************************************)
CONSTANTS Clients,
          Heights,              \* the heights, in all
          None,                 \* no height
          Higher(_, _)          \* the order of heights

VARIABLES kept,     \* for each client that exists: its states, by height
          latest,   \* its latest height
          frozenAt, \* the height it is frozen at, or None
          config    \* its configuration

vars == <<kept, latest, frozenAt, config>>

Exists == DOMAIN kept

Init == kept = <<>> /\ latest = <<>> /\ frozenAt = <<>> /\ config = <<>>

Others(client) == Exists \ {client}

(* Nothing else happens to the other clients. *)
Only(client) ==
    /\ DOMAIN kept' = Exists \cup {client} /\ DOMAIN latest' = DOMAIN kept'
    /\ DOMAIN frozenAt' = DOMAIN kept' /\ DOMAIN config' = DOMAIN kept'
    /\ \A other \in Others(client) :
        /\ kept'[other] = kept[other] /\ latest'[other] = latest[other]
        /\ frozenAt'[other] = frozenAt[other]
        /\ config'[other] = config[other]

(* Only the state at one height is new. *)
AddsOnly(client, height) ==
    /\ DOMAIN kept'[client] = DOMAIN kept[client] \cup {height}
    /\ \A h \in DOMAIN kept[client] \ {height} :
        kept'[client][h] = kept[client][h]

Create(client, height) ==
    /\ client \notin Exists
    /\ Only(client)
    /\ DOMAIN kept'[client] = {height} /\ latest'[client] = height
    /\ frozenAt'[client] = None

(* By an update, or by an upgrade to a higher height. *)
Extend(client, height) ==
    /\ client \in Exists /\ frozenAt[client] = None
    /\ Only(client) /\ AddsOnly(client, height)
    /\ \/ latest'[client] = latest[client]
       \/ latest'[client] = height /\ Higher(height, latest[client])
    /\ frozenAt'[client] = None /\ config'[client] = config[client]

Freeze(client, height) ==
    /\ client \in Exists
    /\ frozenAt[client] = None \/ Higher(frozenAt[client], height)
    /\ Only(client)
    /\ kept'[client] = kept[client] /\ latest'[client] = latest[client]
    /\ frozenAt'[client] = height /\ config'[client] = config[client]

TakeOver(client, other) ==
    LET height == latest[other]
    IN  /\ client \in Exists /\ other \in Others(client)
        /\ config[client] = config[other]
        /\ Only(client) /\ AddsOnly(client, height)
        /\ height \in DOMAIN kept[other]
        /\ kept'[client][height] = kept[other][height]
        /\ latest'[client] = height
        /\ frozenAt'[client] = None /\ config'[client] = config[client]

Next ==
    \E client \in Clients :
        \/ \E height \in Heights :
            \/ Create(client, height)
            \/ Extend(client, height)
            \/ Freeze(client, height)
        \/ \E other \in Others(client) : TakeOver(client, other)

Spec == Init /\ [][Next]_vars
=============================================================================
