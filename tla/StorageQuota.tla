---------------------------- MODULE StorageQuota ----------------------------
(***************************************************************************)
(* The per-tenant storage counters of lib/quota.ts.  A usage row of        *)
(* tenant_storage_usage is the record [used, pending]; every operator      *)
(* below is the right-hand side of one UPDATE statement, atomic under the  *)
(* row's write lock.  All three counters of a tenant live in one row and   *)
(* tenants never share one, so a single row is modelled.                   *)
(*                                                                         *)
(* Total(w) is the sum of the byte weights w[f] over all files.  It counts *)
(* the pairs <<f, i>> with i <= w[f], one pair per byte: a sum the provers *)
(* can reason about without recursion.                                     *)
(***************************************************************************)
EXTENDS Integers, FiniteSets

CONSTANTS
    Files,      \* the ids a files row can have (uuids, never reused)
    MaxBytes    \* the relation's maxByteSize: no row is ever larger

ASSUME FilesFinite == IsFiniteSet(Files)
ASSUME MaxBytesPositive == MaxBytes \in Nat \ {0}

Sizes == 1..MaxBytes

Weights == [Files -> 0..MaxBytes]
BytesOf(w) == {b \in Files \X Sizes : b[2] <= w[b[1]]}
Total(w) == Cardinality(BytesOf(w))

-----------------------------------------------------------------------------

Usage == [used : Nat, pending : Nat]
NoUsage == [used |-> 0, pending |-> 0]

\* GREATEST(n, 0)
Floor(n) == IF n < 0 THEN 0 ELSE n

\* Mutant: pending reservations are not counted against the limit.
FitsQuota_UsedOnly(u, size, limit) == u.used + size <= limit

\* The WHERE clause of reserveQuota: bytes_used + bytes_pending + size <= limit.
FitsQuota(u, size, limit) == u.used + u.pending + size <= limit

ReserveQuota(u, size) == [u EXCEPT !.pending = @ + size]

\* Mutant: no GREATEST(..., 0).
ReleaseQuota_NoFloor(u, size) == [u EXCEPT !.pending = @ - size]

ReleaseQuota(u, size) == [u EXCEPT !.pending = Floor(@ - size)]

\* Mutant: the reservation stays in bytes_pending.
MarkUploaded_KeepsPending(u, reservedSize, authoritativeSize) ==
    [u EXCEPT !.used = @ + authoritativeSize]

MarkUploaded(u, reservedSize, authoritativeSize) ==
    [used    |-> u.used + authoritativeSize,
     pending |-> Floor(u.pending - reservedSize)]

\* Mutant: no GREATEST(..., 0).
DecrementUsed_NoFloor(u, size) == [u EXCEPT !.used = @ - size]

DecrementUsed(u, size) == [u EXCEPT !.used = Floor(@ - size)]

AddUsed(u, delta) == [u EXCEPT !.used = Floor(@ + delta)]

=============================================================================
