--------------------------- MODULE RecordLifecycle ---------------------------
(***************************************************************************)
(* What an order pallet promises about its records, whatever its indexes   *)
(* do (spec sections 4.4, 4.5 and 8): a record is created once, in the     *)
(* initial status, by the account that becomes its creator; afterwards its *)
(* status moves only along the transition graph, its creator never         *)
(* changes, and it disappears only by being removed.  One step touches one *)
(* record.                                                                 *)
(*                                                                         *)
(* The c2c-order and order pallets are shown to implement this module with *)
(* INSTANCE ... WITH in C2COrder and Order.                                *)
(***************************************************************************)
CONSTANTS
    Key,        \* primary keys
    Status,     \* the status enumeration
    Owner,      \* the accounts that can create records
    Initial,    \* the status a record is created in
    Edge,       \* the transition graph, a set of <<from, to>> pairs
    Absent      \* the value of a key with no record

VARIABLE records

Record == [status: Status, creator: Owner]

Init == records = [k \in Key |-> Absent]

\* A record is created at an absent key.
Create(k, who) ==
    /\ records[k] = Absent
    /\ records' = [records EXCEPT ![k] = [status |-> Initial, creator |-> who]]

\* An existing record takes one edge of the graph.
Move(k, to) ==
    /\ records[k] # Absent
    /\ <<records[k].status, to>> \in Edge
    /\ records' = [records EXCEPT ![k].status = to]

\* An existing record is removed, in any status.
Remove(k) ==
    /\ records[k] # Absent
    /\ records' = [records EXCEPT ![k] = Absent]

Next ==
    \E k \in Key :
        \/ \E who \in Owner : Create(k, who)
        \/ \E to \in Status : Move(k, to)
        \/ Remove(k)

Spec == Init /\ [][Next]_records

TypeOK == records \in [Key -> Record \cup {Absent}]

\* A record keeps its creator for as long as it exists: no step that leaves
\* a record in place (a status move) rewrites who created it.
CreatorFixed ==
    [][\A k \in Key :
         (records[k] # Absent /\ records'[k] # Absent)
           => records'[k].creator = records[k].creator]_records

\* A record comes into existence in the initial status.
CreatedInitial ==
    [][\A k \in Key :
         (records[k] = Absent /\ records'[k] # Absent)
           => records'[k].status = Initial]_records

\* A record that stays in place changes status only along an edge.
MovesAlongEdges ==
    [][\A k \in Key :
         (/\ records[k] # Absent /\ records'[k] # Absent
          /\ records'[k].status # records[k].status)
           => <<records[k].status, records'[k].status>> \in Edge]_records

=============================================================================
