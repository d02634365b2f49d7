---------------------------- MODULE DeviceStore ----------------------------
(***************************************************************************)
(* internal/store/device_store.go over the devices table of                *)
(* migrations/0001_init.sql, with the handlers of                          *)
(* internal/web/handlers_devices.go that call it.                          *)
(*                                                                         *)
(* The table is a function from device IDs (the primary key) to rows or    *)
(* NoRow.  Every store method is one SQL statement, hence one step; a      *)
(* statement that affects no row, or violates the primary key, changes     *)
(* nothing and only produces an error message, so it is not a step.        *)
(* uid is not a column: it names the row itself, whatever ID it carries.   *)
(* seen says that last_seen_at has been set.                               *)
(***************************************************************************)
EXTENDS Integers, FiniteSets

CONSTANTS Device,    \* device IDs
          Key,       \* PEM texts of public keys
          NoRow,
          MaxRows    \* bound: rows ever inserted

ASSUME MaxRowsAssumption == MaxRows \in Nat
ASSUME NoRowAssumption ==
  NoRow \notin [uid : Nat, key : Key, inService : BOOLEAN, deleted : BOOLEAN,
                seen : BOOLEAN]

VARIABLES devices,   \* the table
          rows       \* number of rows ever inserted

dsVars == <<devices, rows>>

Row == [uid : Nat, key : Key, inService : BOOLEAN, deleted : BOOLEAN,
        seen : BOOLEAN]

Exists(d) == devices[d] # NoRow
\* ... WHERE id = $1 AND deleted_at IS NULL
Live(d)   == Exists(d) /\ ~devices[d].deleted

\* The two queries of the handshake; each sees one committed state.
GetPublicKey(d) == devices[d].key
IsInService(d)  == Live(d) /\ devices[d].inService

----------------------------------------------------------------------------
\* Add: a plain INSERT, which the primary key refuses for any existing row,
\* a soft-deleted one included.
Add(d, k, s) ==
  /\ ~Exists(d)
  /\ rows < MaxRows
  /\ rows' = rows + 1
  /\ devices' = [devices EXCEPT ![d] =
       [uid |-> rows + 1, key |-> k, inService |-> s, deleted |-> FALSE,
        seen |-> FALSE]]

SoftDelete(d) ==
  /\ Live(d)
  /\ devices' = [devices EXCEPT ![d].deleted = TRUE]
  /\ UNCHANGED rows

Restore(d) ==
  /\ Exists(d) /\ devices[d].deleted
  /\ devices' = [devices EXCEPT ![d].deleted = FALSE]
  /\ UNCHANGED rows

\* Mutation of the next action: live rows are purged, too.
HardDeleteLive(d) ==
  /\ Exists(d)
  /\ devices' = [devices EXCEPT ![d] = NoRow]
  /\ UNCHANGED rows
HardDelete(d) ==
  /\ Exists(d) /\ devices[d].deleted
  /\ devices' = [devices EXCEPT ![d] = NoRow]
  /\ UNCHANGED rows

SetInService(d, s) ==
  /\ Live(d)
  /\ devices' = [devices EXCEPT ![d].inService = s]
  /\ UNCHANGED rows

SetPublicKey(d, k) ==
  /\ Live(d)
  /\ devices' = [devices EXCEPT ![d].key = k]
  /\ UNCHANGED rows

\* Mutation of the next action: the old row stays.
RenameCopies(d, e) ==
  /\ Live(d) /\ ~Exists(e)
  /\ devices' = [devices EXCEPT ![e] = devices[d]]
  /\ UNCHANGED rows

\* Rename changes the primary key, so an ID in use (also by a soft-deleted
\* row) refuses it.
Rename(d, e) ==
  /\ Live(d) /\ ~Exists(e)
  /\ devices' = [devices EXCEPT ![e] = devices[d], ![d] = NoRow]
  /\ UNCHANGED rows

\* The table after UpdateLastSeen(d).
Seen(d) == IF Live(d) THEN [devices EXCEPT ![d].seen = TRUE] ELSE devices

----------------------------------------------------------------------------
\* The requests of the web interface: those that write updated_by, and the
\* purge of a soft-deleted device.
WebEdit ==
  \E d \in Device :
    \/ \E k \in Key, s \in BOOLEAN : Add(d, k, s)
    \/ SoftDelete(d) \/ Restore(d)
    \/ \E s \in BOOLEAN : SetInService(d, s)
    \/ \E k \in Key : SetPublicKey(d, k)
    \/ \E e \in Device : Rename(d, e)

WebPurge == \E d \in Device : HardDelete(d)

WebRequest == WebEdit \/ WebPurge

UpdateLastSeen(d) == devices' = Seen(d) /\ UNCHANGED rows

StoreInit == devices = [d \in Device |-> NoRow] /\ rows = 0

StoreNext == \/ WebRequest
             \/ \E d \in Device : UpdateLastSeen(d)

StoreSpec == StoreInit /\ [][StoreNext]_dsVars

----------------------------------------------------------------------------
\* Type invariant of the table.
StoreTypeOK == /\ devices \in [Device -> Row \union {NoRow}]
               /\ rows \in 0..MaxRows

Uids == {devices[d].uid : d \in {e \in Device : Exists(e)}}

\* No two IDs ever show the same row, and a row carries a uid that was
\* really inserted: no sequence of Add, Rename, delete and restore requests
\* duplicates a device or brings a purged one back.
RowsDistinct ==
  /\ \A d, e \in Device :
       Exists(d) /\ Exists(e) /\ devices[d].uid = devices[e].uid => d = e
  /\ Uids \subseteq 1..rows

\* A row disappears from the table only when it was soft-deleted before
\* (HardDelete: "only affects rows that are already marked as deleted"):
\* no Add and no Rename ever overwrites another device.
OnlyPurgedRowsVanish ==
  [][\A d \in Device :
       Live(d) => \E e \in Device : devices'[e] # NoRow
                                    /\ devices'[e].uid = devices[d].uid]_dsVars
=============================================================================
