------------------------ MODULE RecordLifecycleProofs ------------------------
(***************************************************************************)
(* Proofs about RecordLifecycle for every key set, status enumeration and  *)
(* transition graph whose initial status is a status.  C2COrderProofs and  *)
(* OrderProofs instantiate these theorems through their refinement         *)
(* theorems, so each pallet inherits them.                                 *)
(***************************************************************************)
EXTENDS RecordLifecycle, TLAPS

\* The steps of CreatorFixed, CreatedInitial and MovesAlongEdges.
CreatorStep ==
    \A k \in Key :
        (records[k] # Absent /\ records'[k] # Absent)
          => records'[k].creator = records[k].creator
InitialStep ==
    \A k \in Key :
        (records[k] = Absent /\ records'[k] # Absent)
          => records'[k].status = Initial
EdgeStep ==
    \A k \in Key :
        (/\ records[k] # Absent /\ records'[k] # Absent
         /\ records'[k].status # records[k].status)
          => <<records[k].status, records'[k].status>> \in Edge

\* Every record is a status and a creator, or absent.
LEMMA TypeCorrect ==
    ASSUME Initial \in Status
    PROVE  Spec => []TypeOK
<1>1. Init => TypeOK
  BY DEF Init, TypeOK
<1>2. TypeOK /\ [Next]_records => TypeOK'
  <2> SUFFICES ASSUME TypeOK, [Next]_records PROVE TypeOK'
    OBVIOUS
  <2>1. ASSUME NEW k \in Key, NEW who \in Owner, Create(k, who) PROVE TypeOK'
    BY <2>1 DEF Create, TypeOK, Record
  <2>2. ASSUME NEW k \in Key, NEW to \in Status, Move(k, to) PROVE TypeOK'
    <3>1. records[k] \in Record
      BY <2>2 DEF Move, TypeOK
    <3> QED
      BY <2>2, <3>1 DEF Move, TypeOK, Record
  <2>3. ASSUME NEW k \in Key, Remove(k) PROVE TypeOK'
    BY <2>3 DEF Remove, TypeOK
  <2>4. CASE UNCHANGED records
    BY <2>4 DEF TypeOK
  <2> QED
    BY <2>1, <2>2, <2>3, <2>4 DEF Next
<1> QED
  BY <1>1, <1>2, PTL DEF Spec

\* Every step is a CreatorStep, an InitialStep and an EdgeStep: each action
\* writes one key, Create only an absent one, Move only the status along an
\* edge, and Remove leaves the key absent.
LEMMA StepSafe ==
    TypeOK /\ [Next]_records => [CreatorStep /\ InitialStep /\ EdgeStep]_records
<1> SUFFICES ASSUME TypeOK, Next PROVE CreatorStep /\ InitialStep /\ EdgeStep
  OBVIOUS
<1> PICK k \in Key :
          \/ \E who \in Owner : Create(k, who)
          \/ \E to \in Status : Move(k, to)
          \/ Remove(k)
  BY DEF Next
\* Other keys keep their record.
<1>1. \A j \in Key \ {k} : records'[j] = records[j]
  BY DEF Create, Move, Remove, TypeOK
<1>2. CASE \E who \in Owner : Create(k, who)
  BY <1>1, <1>2 DEF Create, TypeOK, CreatorStep, InitialStep, EdgeStep
<1>3. CASE \E to \in Status : Move(k, to)
  <2> PICK to \in Status : Move(k, to)
    BY <1>3
  <2>1. records[k] \in Record
    BY DEF Move, TypeOK
  <2>2. records'[k] = [status |-> to, creator |-> records[k].creator]
    BY <2>1 DEF Move, TypeOK, Record
  <2> QED
    BY <1>1, <2>2 DEF Move, CreatorStep, InitialStep, EdgeStep
<1>4. CASE Remove(k)
  BY <1>1, <1>4 DEF Remove, TypeOK, CreatorStep, InitialStep, EdgeStep
<1> QED
  BY <1>2, <1>3, <1>4

\* A record keeps its creator while it exists.
THEOREM CreatorStable ==
    ASSUME Initial \in Status
    PROVE  Spec => CreatorFixed
BY TypeCorrect, StepSafe, PTL DEF Spec, CreatorFixed, CreatorStep

\* A record comes into existence in the initial status.
THEOREM StartsInitial ==
    ASSUME Initial \in Status
    PROVE  Spec => CreatedInitial
BY TypeCorrect, StepSafe, PTL DEF Spec, CreatedInitial, InitialStep

\* A record changes status only along an edge of the graph.
THEOREM FollowsEdges ==
    ASSUME Initial \in Status
    PROVE  Spec => MovesAlongEdges
BY TypeCorrect, StepSafe, PTL DEF Spec, MovesAlongEdges, EdgeStep

=============================================================================
