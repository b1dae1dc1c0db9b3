------------------------- MODULE TransitionPackets -------------------------
(***************************************************************************)
(* The transition packets of `pm-ops-legacy.py`: an upsert reads the row   *)
(* and writes it in the statement after, and a status command upserts the  *)
(* packet as pending and then sets the status.  Commands overlap.          *)
(***************************************************************************)
CONSTANTS Command,  \* commands on the one packet
          NULL

PacketStatus == {"pending", "consumed", "rejected"}

VARIABLES
    packet,         \* its status, NULL before the first insert
    consumedAt,     \* consumed_at is set
    kpc, wants,     \* per command: where it is and the status it was given
    direct,         \* it is a status command
    found           \* the status it read

packetVars == <<packet, consumedAt, kpc, wants, direct, found>>

PacketTypeOK ==
    /\ packet \in PacketStatus \cup {NULL} /\ consumedAt \in BOOLEAN
    /\ kpc \in [Command -> {"idle", "read", "write", "set", "done"}]
    /\ wants \in [Command -> PacketStatus] /\ direct \in [Command -> BOOLEAN]
    /\ found \in [Command -> PacketStatus \cup {NULL}]

PacketInit ==
    /\ packet = NULL /\ consumedAt = FALSE
    /\ kpc = [c \in Command |-> "idle"]
    /\ wants \in [Command -> PacketStatus] /\ direct \in [Command -> BOOLEAN]
    /\ found = [c \in Command |-> NULL]

At(c, from, to) == kpc[c] = from /\ kpc' = [kpc EXCEPT ![c] = to]

PacketStart(c) ==
    /\ At(c, "idle", "read")
    /\ UNCHANGED <<packet, consumedAt, wants, direct, found>>

PacketRead(c) ==
    /\ At(c, "read", "write")
    /\ found' = [found EXCEPT ![c] = packet]
    /\ UNCHANGED <<packet, consumedAt, wants, direct>>

AskedStatus(c) == IF direct[c] THEN "pending" ELSE wants[c]
Written(c) == IF found[c] = "consumed" /\ AskedStatus(c) = "pending" THEN "consumed" ELSE AskedStatus(c)

(* The key is unique: of two inserts the second fails. *)
PacketWrite(c) ==
    /\ IF found[c] = NULL /\ packet # NULL
       THEN At(c, "write", "done") /\ UNCHANGED <<packet, consumedAt>>
       ELSE /\ At(c, "write", IF direct[c] THEN "set" ELSE "done")
            /\ packet' = Written(c)
            /\ consumedAt' = (consumedAt \/ AskedStatus(c) = "consumed")
    /\ UNCHANGED <<wants, direct, found>>

PacketSet(c) ==
    /\ At(c, "set", "done")
    /\ packet' = wants[c]
    /\ consumedAt' = (consumedAt \/ wants[c] = "consumed")
    /\ UNCHANGED <<wants, direct, found>>

PacketNext == \E c \in Command : PacketStart(c) \/ PacketRead(c) \/ PacketWrite(c) \/ PacketSet(c)
PacketSpec == PacketInit /\ [][PacketNext]_packetVars

----------------------------------------------------------------------------
(* Properties.                                                             *)

(* consumed_at tells of every packet whether it was ever consumed, though a *)
(* command that carries the status over does not write it.                  *)
ConsumedIsDated == packet = "consumed" => consumedAt

PacketInv ==
    /\ PacketTypeOK /\ ConsumedIsDated
    /\ \A c \in Command : found[c] = "consumed" => consumedAt
=============================================================================
