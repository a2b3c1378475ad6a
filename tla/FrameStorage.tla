---------------------------- MODULE FrameStorage ----------------------------
(***************************************************************************)
(* What every pallet of the repository does with FRAME storage.            *)
(*                                                                         *)
(* An index bucket is a BoundedVec<K, ConstU32<cap>> stored under a key.   *)
(* The pallets only push with try_push, drop with retain, and test         *)
(* membership with contains; none reads the order of a bucket.  A bucket   *)
(* is therefore a function from K to the number of times K occurs in it.   *)
(*                                                                         *)
(* StorageLayer says whether a dispatchable that returns Err is rolled      *)
(* back.  FRAME puts every dispatchable in a storage layer (the default of *)
(* the FRAME these pallets are written for: BlockNumberFor, call_index);   *)
(* FALSE keeps each write made before the error, which is what the         *)
(* handlers' own write order amounts to.                                   *)
(***************************************************************************)
EXTENDS Naturals, FiniteSets

CONSTANT StorageLayer

ASSUME StorageLayerAssumption == StorageLayer \in BOOLEAN

\* len() of a bucket: one element per occurrence of a key.
BucketLen(b) == Cardinality(UNION {{k} \X (1..b[k]) : k \in DOMAIN b})

\* try_push succeeds only while the bucket is below its bound.
HasRoom(b, cap) == BucketLen(b) < cap

\* try_push(k) that succeeded.
Push(b, k) == [b EXCEPT ![k] = @ + 1]

\* retain(|x| x != k): every occurrence of k goes.
Retain(b, k) == [b EXCEPT ![k] = 0]

\* contains(&k).
Holds(b, k) == b[k] > 0

\* The writes of a dispatchable that returns Ok are kept; those of one that
\* returns Err are kept only without the storage layer.  v is the tuple of
\* the pallet's storage items.
Dispatch(ok, writes, v) == IF ok \/ ~StorageLayer THEN writes ELSE UNCHANGED v
=============================================================================
