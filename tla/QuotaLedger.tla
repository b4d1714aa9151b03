---------------------------- MODULE QuotaLedger ----------------------------
(***************************************************************************)
(* What a tenant's storage quota promises, without counters: a ledger of   *)
(* who owns the bytes.  A file holds bytes while its upload is pending and *)
(* stores bytes once it is uploaded; bytes that are reserved but belong to *)
(* no pending file are unowned.  New bytes are granted only while the sum  *)
(* of all three stays within the limit.  FilesUpload, whose two counters   *)
(* are updated by separate statements, implements this specification.      *)
(***************************************************************************)
EXTENDS StorageQuota

CONSTANT Limit      \* bytes_limit of the tenant

\* The theorems take this as a hypothesis, so that an instance need only show
\* it of the limit it substitutes.
LimitIsNat == Limit \in Nat

VARIABLES held, stored, unowned

ledgerVars == <<held, stored, unowned>>

Claimed == Total(held) + Total(stored) + unowned

LedgerInit ==
    /\ held = [f \in Files |-> 0]
    /\ stored = [f \in Files |-> 0]
    /\ unowned = 0

\* A new upload gets its bytes.
Grant(f, n) ==
    /\ held[f] = 0 /\ stored[f] = 0
    /\ Claimed + n <= Limit
    /\ held' = [held EXCEPT ![f] = n]
    /\ UNCHANGED <<stored, unowned>>

\* Bytes are granted before it is known which file will hold them ...
GrantUnowned(n) ==
    /\ Claimed + n <= Limit
    /\ unowned' = unowned + n
    /\ UNCHANGED <<held, stored>>

\* ... and assigned to a file afterwards.
Assign(f, n) ==
    /\ held[f] = 0 /\ stored[f] = 0
    /\ n <= unowned
    /\ held' = [held EXCEPT ![f] = n]
    /\ unowned' = unowned - n
    /\ UNCHANGED stored

\* A file stops holding its bytes but they are not given back.
Disown(f) ==
    /\ held[f] > 0
    /\ unowned' = unowned + held[f]
    /\ held' = [held EXCEPT ![f] = 0]
    /\ UNCHANGED stored

\* The upload is completed: at most what it held is stored from now on.
Settle(f, n) ==
    /\ 0 < n /\ n <= held[f]
    /\ held' = [held EXCEPT ![f] = 0]
    /\ stored' = [stored EXCEPT ![f] = n]
    /\ UNCHANGED unowned

\* The uploads of S are given up and their bytes given back.
Release(S) ==
    /\ \E f \in S : held[f] > 0
    /\ held' = [f \in Files |-> IF f \in S THEN 0 ELSE held[f]]
    /\ UNCHANGED <<stored, unowned>>

\* Unowned bytes are given back.
ReleaseUnowned(n) ==
    /\ n <= unowned
    /\ unowned' = unowned - n
    /\ UNCHANGED <<held, stored>>

\* A stored file is deleted and its bytes given back.
Refund(f) ==
    /\ stored[f] > 0
    /\ stored' = [stored EXCEPT ![f] = 0]
    /\ UNCHANGED <<held, unowned>>

LedgerNext ==
    \/ \E f \in Files, n \in Sizes : Grant(f, n) \/ Assign(f, n) \/ Settle(f, n)
    \/ \E n \in Sizes : GrantUnowned(n) \/ ReleaseUnowned(n)
    \/ \E f \in Files : Disown(f) \/ Refund(f)
    \/ \E S \in SUBSET Files : Release(S)

LedgerSpec == LedgerInit /\ [][LedgerNext]_ledgerVars

-----------------------------------------------------------------------------
\* Every file holds and stores at most the size of one row.
LedgerTypeOK ==
    /\ held \in Weights
    /\ stored \in Weights
    /\ unowned \in Nat

\* The promise: whatever the order of events, a tenant never has more bytes
\* granted than its limit.
LedgerWithinLimit == Claimed <= Limit

=============================================================================
