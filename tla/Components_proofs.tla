-------------------------- MODULE Components_proofs --------------------------
(***************************************************************************)
(* Theorems of the components behind the routes (Services), and of the     *)
(* abstract ledger (QuotaLedger) that the uploads implement.               *)
(*                                                                         *)
(* The ledger's promise holds for every set of files, every size and every *)
(* limit: the bytes of a tenant never exceed its limit.  The type          *)
(* invariant and the bound are inductive together: a step only moves bytes *)
(* between the three places, gives them back, or is guarded by the limit.  *)
(*                                                                         *)
(* RequestScope: a request reads and leaves behind what is its tenant's,   *)
(* for every set of requests, tenants, connections and workers, because a  *)
(* connection has one transaction and its setting is that of the request   *)
(* that runs it (PoolOK), and because frames are made once and copied      *)
(* (FramesOK).                                                             *)
(*                                                                         *)
(* UsageSync: a row is on the bill once as long as runs neither overlap    *)
(* nor break off: a run that is alone holds each metric once and its rows  *)
(* unmarked (AloneOK), so a sum on the bill is of marked rows or is the    *)
(* one this run marks next (CountedOK).                                    *)
(*                                                                         *)
(* BillingAccount: a tenant has one customer where the provider keeps      *)
(* keys, because the first one made is the one its key answers (MadeOK),   *)
(* and what a command was told is done was done at the provider, or        *)
(* repeated a key that was (KeysOK, SubsOK).                               *)
(*                                                                         *)
(* NotificationFanout: a mail is neither forgotten nor sent to one who had *)
(* opted out throughout: a job's lock is held by one run (RunsOK), a       *)
(* delivery's job is added after its row (JobsOK), and what the gate saw   *)
(* lies between the opt-outs that stood throughout and those that ever     *)
(* stood (CallsOK).                                                        *)
(*                                                                         *)
(* LiveNotifications: the bridge and Redis agree with the open streams:    *)
(* the Map has the Set of each connection that starts or is open, and it   *)
(* or the first emitter's start() has somebody in it (MapOK); a connection *)
(* joins one Set, once (JoinedOnce), and asks Redis once (WireOK).         *)
(*                                                                         *)
(* ErrorWindow, WorkerHealth, HealthReport: what an operator reads is so:  *)
(* the index has the places of the entries and of nothing else (PlacesOK), *)
(* a stopping worker's last command is the deletion and a running one's    *)
(* key outlives the interval (WorkerOK), and what a probe or the cache     *)
(* says was true within the time it has run or lived (ProbesRecent,        *)
(* CacheRecent).                                                           *)
(***************************************************************************)
EXTENDS Services, QuotaLedger, StorageQuota_proofs, FiniteSetTheorems, SequenceTheorems,
        WellFoundedInduction

-----------------------------------------------------------------------------
(***************************************************************************)
(* QuotaLedger.                                                            *)
(***************************************************************************)
LedgerInv == LedgerTypeOK /\ LedgerWithinLimit

\* All totals of a ledger are naturals.
LEMMA ClaimedType ==
    ASSUME LedgerTypeOK
    PROVE  Total(held) \in Nat /\ Total(stored) \in Nat /\ unowned \in Nat
BY TotalType DEF LedgerTypeOK

\* Giving up the uploads of a set can only lower what is held.
LEMMA TotalCleared ==
    ASSUME NEW w \in Weights, NEW S \in SUBSET Files
    PROVE  LET v == [f \in Files |-> IF f \in S THEN 0 ELSE w[f]]
           IN  /\ v \in Weights
               /\ Total(v) \in Nat
               /\ Total(v) <= Total(w)
<1>. DEFINE v == [f \in Files |-> IF f \in S THEN 0 ELSE w[f]]
            u == [f \in Files |-> IF f \in S THEN w[f] ELSE 0]
<1>1. v \in Weights /\ u \in Weights
  BY MaxBytesPositive DEF Weights
<1>2. \A f \in Files : \/ u[f] = 0 /\ v[f] = w[f]
                       \/ v[f] = 0 /\ u[f] = w[f]
  BY DEF Weights
<1>3. Total(w) = Total(u) + Total(v)
  BY <1>1, <1>2, TotalSplit
<1>4. Total(u) \in Nat /\ Total(v) \in Nat
  BY TotalType
<1>5. Total(v) <= Total(w)
  <2>. HIDE DEF u, v
  <2>. QED  BY <1>3, <1>4
<1>. QED  BY <1>1, <1>4, <1>5

LEMMA LedgerInitial == LimitIsNat /\ LedgerInit => LedgerInv
<1>. SUFFICES ASSUME LimitIsNat, LedgerInit
              PROVE  LedgerInv
  OBVIOUS
<1>1. LedgerTypeOK
  BY MaxBytesPositive DEF LedgerInit, LedgerTypeOK, Weights
<1>2. Total(held) = 0 /\ Total(stored) = 0
  BY TotalZero DEF LedgerInit
<1>3. LedgerWithinLimit
  BY <1>2 DEF LimitIsNat, LedgerInit, LedgerWithinLimit, Claimed
<1>. QED  BY <1>1, <1>3 DEF LedgerInv

LEMMA LedgerStep == LimitIsNat /\ LedgerInv /\ [LedgerNext]_ledgerVars => LedgerInv'
<1>. SUFFICES ASSUME LimitIsNat, LedgerInv, [LedgerNext]_ledgerVars
              PROVE  LedgerInv'
  OBVIOUS
<1>. USE MaxBytesPositive DEF LimitIsNat
<1>0. /\ held \in Weights /\ stored \in Weights /\ unowned \in Nat
      /\ Total(held) \in Nat /\ Total(stored) \in Nat
      /\ Total(held) + Total(stored) + unowned <= Limit
  BY ClaimedType DEF LedgerInv, LedgerTypeOK, LedgerWithinLimit, Claimed
<1>1. ASSUME NEW f \in Files, NEW n \in Sizes, Grant(f, n)
      PROVE  LedgerInv'
  <2>1. n \in 0..MaxBytes
    BY DEF Sizes
  <2>2. /\ [held EXCEPT ![f] = n] \in Weights
        /\ Total([held EXCEPT ![f] = n]) = Total(held) - held[f] + n
    BY <1>0, <2>1, TotalUpdate
  <2>. QED  BY <1>0, <1>1, <2>1, <2>2
            DEF Grant, LedgerInv, LedgerTypeOK, LedgerWithinLimit, Claimed
<1>2. ASSUME NEW f \in Files, NEW n \in Sizes, Assign(f, n)
      PROVE  LedgerInv'
  <2>1. n \in 0..MaxBytes
    BY DEF Sizes
  <2>2. /\ [held EXCEPT ![f] = n] \in Weights
        /\ Total([held EXCEPT ![f] = n]) = Total(held) - held[f] + n
    BY <1>0, <2>1, TotalUpdate
  <2>. QED  BY <1>0, <1>2, <2>1, <2>2
            DEF Assign, LedgerInv, LedgerTypeOK, LedgerWithinLimit, Claimed
<1>3. ASSUME NEW f \in Files, NEW n \in Sizes, Settle(f, n)
      PROVE  LedgerInv'
  <2>1. n \in 0..MaxBytes /\ 0 \in 0..MaxBytes
    BY DEF Sizes
  <2>2. /\ [held EXCEPT ![f] = 0] \in Weights
        /\ held[f] \in 0..MaxBytes
        /\ Total([held EXCEPT ![f] = 0]) = Total(held) - held[f] + 0
    BY <1>0, <2>1, TotalUpdate
  <2>3. /\ [stored EXCEPT ![f] = n] \in Weights
        /\ stored[f] \in 0..MaxBytes
        /\ Total([stored EXCEPT ![f] = n]) = Total(stored) - stored[f] + n
    BY <1>0, <2>1, TotalUpdate
  <2>4. held' = [held EXCEPT ![f] = 0] /\ stored' = [stored EXCEPT ![f] = n] /\ unowned' = unowned
    BY <1>3 DEF Settle
  <2>5. LedgerTypeOK'
    BY <1>0, <2>2, <2>3, <2>4 DEF LedgerTypeOK
  <2>6. Total(held)' = Total(held) - held[f] /\ Total(stored)' = Total(stored) - stored[f] + n
    BY <1>0, <2>2, <2>3, <2>4
  <2>7. n <= held[f]
    BY <1>3 DEF Settle
  <2>8. LedgerWithinLimit'
    BY <1>0, <2>1, <2>2, <2>3, <2>4, <2>6, <2>7 DEF LedgerWithinLimit, Claimed
  <2>. QED  BY <2>5, <2>8 DEF LedgerInv
<1>4. ASSUME NEW n \in Sizes, GrantUnowned(n)
      PROVE  LedgerInv'
  BY <1>0, <1>4 DEF GrantUnowned, Sizes, LedgerInv, LedgerTypeOK, LedgerWithinLimit, Claimed
<1>5. ASSUME NEW n \in Sizes, ReleaseUnowned(n)
      PROVE  LedgerInv'
  BY <1>0, <1>5 DEF ReleaseUnowned, Sizes, LedgerInv, LedgerTypeOK, LedgerWithinLimit, Claimed
<1>6. ASSUME NEW f \in Files, Disown(f)
      PROVE  LedgerInv'
  <2>1. /\ [held EXCEPT ![f] = 0] \in Weights
        /\ held[f] \in 0..MaxBytes
        /\ Total([held EXCEPT ![f] = 0]) = Total(held) - held[f] + 0
    BY <1>0, TotalUpdate
  <2>. QED  BY <1>0, <1>6, <2>1
            DEF Disown, LedgerInv, LedgerTypeOK, LedgerWithinLimit, Claimed
<1>7. ASSUME NEW f \in Files, Refund(f)
      PROVE  LedgerInv'
  <2>1. /\ [stored EXCEPT ![f] = 0] \in Weights
        /\ stored[f] \in 0..MaxBytes
        /\ Total([stored EXCEPT ![f] = 0]) = Total(stored) - stored[f] + 0
    BY <1>0, TotalUpdate
  <2>. QED  BY <1>0, <1>7, <2>1
            DEF Refund, LedgerInv, LedgerTypeOK, LedgerWithinLimit, Claimed
<1>8. ASSUME NEW S \in SUBSET Files, Release(S)
      PROVE  LedgerInv'
  <2>. DEFINE v == [f \in Files |-> IF f \in S THEN 0 ELSE held[f]]
  <2>1. v \in Weights /\ Total(v) \in Nat /\ Total(v) <= Total(held)
    BY <1>0, TotalCleared
  <2>2. held' = v /\ stored' = stored /\ unowned' = unowned
    BY <1>8 DEF Release
  <2>. HIDE DEF v
  <2>. QED  BY <1>0, <2>1, <2>2
            DEF LedgerInv, LedgerTypeOK, LedgerWithinLimit, Claimed
<1>9. CASE UNCHANGED ledgerVars
  BY <1>9 DEF ledgerVars, LedgerInv, LedgerTypeOK, LedgerWithinLimit, Claimed
<1>. QED  BY <1>1, <1>2, <1>3, <1>4, <1>5, <1>6, <1>7, <1>8, <1>9 DEF LedgerNext

\* The ledger's types, for every instance.
THEOREM LedgerTypeCorrect ==
    ASSUME LimitIsNat
    PROVE  LedgerSpec => []LedgerTypeOK
<1>1. LedgerInv => LedgerTypeOK
  BY DEF LedgerInv
<1>. QED  BY <1>1, LedgerInitial, LedgerStep, PTL DEF LedgerSpec

\* No order of grants, completions and deletions takes a tenant past its limit.
THEOREM LedgerNeverExceedsLimit ==
    ASSUME LimitIsNat
    PROVE  LedgerSpec => []LedgerWithinLimit
<1>1. LedgerInv => LedgerWithinLimit
  BY DEF LedgerInv
<1>. QED  BY <1>1, LedgerInitial, LedgerStep, PTL DEF LedgerSpec

-----------------------------------------------------------------------------
(***************************************************************************)
(* RequestScope.                                                           *)
(***************************************************************************)
Tenants == {TenantOf[r] : r \in Requests}
Stages == {"new", "framed", "scoped", "begun", "set", "ran", "committed", "answered", "failed"}

Conn == [by : Requests \cup {None}, local : Tenants \cup {None}, session : {None}]
FollowUp == [state : {"none", "waiting", "active", "completed", "failed"},
             carrier : Scope!Frames, stalls : 0..StallBound]

ScopeTyped ==
    /\ at \in [Requests -> Stages]
    /\ frame \in [Requests -> Scope!Frames]
    /\ conn \in [Conns -> Conn]
    /\ rows \subseteq Scope!Earlier \cup {Scope!Row(r) : r \in Creates}
    /\ listed \in [Requests \ Creates -> SUBSET rows]
    /\ carrier \in [Creates -> Scope!Frames]
    /\ job \in [Scope!Jobs -> FollowUp]
    /\ slot \in [Slots -> [job : Scope!Jobs \cup {None}, frame : Scope!Frames]]

\* A connection runs the transaction of a request that is in one, a request has one, and
\* once the tenant is set it is the request's.
PoolOK ==
    /\ \A c \in Conns : conn[c].by # None => at[conn[c].by] \in {"begun", "set", "ran"}
    /\ \A c, d \in Conns : conn[c].by # None /\ conn[c].by = conn[d].by => c = d
    /\ \A c \in Conns : conn[c].local =
          IF conn[c].by # None /\ at[conn[c].by] \in {"set", "ran"}
          THEN TenantOf[conn[c].by] ELSE None

\* From the middleware on a request's frame is its own, and so is every copy of it; a
\* copy is made after the commit.
FramesOK ==
    /\ \A r \in Requests : at[r] \in {"scoped", "begun", "set", "ran", "committed"} =>
          frame[r] = Scope!Frame(r, TenantOf[r])
    /\ \A r \in Requests : at[r] = "framed" => frame[r] = Scope!Frame(r, None)
    /\ \A r \in Creates :
          /\ at[r] \in {"committed", "answered"} => Scope!Row(r) \in rows
          /\ carrier[r] # Scope!NoFrame =>
                carrier[r] = Scope!Frame(r, TenantOf[r]) /\ Scope!Row(r) \in rows
          /\ job[r].state # "none" =>
                job[r].carrier = Scope!Frame(r, TenantOf[r]) /\ Scope!Row(r) \in rows
    /\ \A t \in Ticks : job[t].carrier = Scope!NoFrame
    /\ \A s \in Slots :
          /\ slot[s].job # None => job[slot[s].job].state # "none"
          /\ slot[s].job \in Creates =>
                 slot[s].frame = Scope!Frame(slot[s].job, TenantOf[slot[s].job])
          /\ slot[s].job \in Ticks => slot[s].frame = Scope!NoFrame

ScopeInv == ScopeTyped /\ PoolOK /\ FramesOK

LEMMA ScopeInitial == Scope!NamesAssumption /\ Scope!Init => ScopeInv
<1>. SUFFICES ASSUME Scope!NamesAssumption, Scope!Init
              PROVE  ScopeInv
  OBVIOUS
<1>. USE DEF Scope!NamesAssumption, Scope!Init, Scope!NoFrame, Scope!Frame, Scope!FreeConn,
             Scope!FreeSlot, Scope!Jobs, Conn, FollowUp
<1>1. ScopeTyped
  BY DEF ScopeTyped, Stages, Scope!Frames
<1>2. PoolOK /\ FramesOK
  BY DEF PoolOK, FramesOK
<1>. QED  BY <1>1, <1>2 DEF ScopeInv

LEMMA ScopeStep == Scope!NamesAssumption /\ ScopeInv /\ [Scope!Next]_(Scope!vars) => ScopeInv'
<1>. SUFFICES ASSUME Scope!NamesAssumption, ScopeInv, [Scope!Next]_(Scope!vars)
              PROVE  ScopeInv'
  OBVIOUS
<1>. USE DEF Scope!NamesAssumption, ScopeInv, Scope!Jobs, Conn, FollowUp
<1>1. ASSUME NEW r \in Requests, Scope!Enter(r)
      PROVE  ScopeInv'
  <2>1. ScopeTyped'
    BY <1>1 DEF Scope!Enter, Scope!Frame, Scope!Frames, ScopeTyped, Stages
  <2>2. PoolOK'
    BY <1>1 DEF Scope!Enter, Scope!Frame, Scope!Frames, ScopeTyped, Stages, PoolOK
  <2>3. FramesOK'
    BY <1>1 DEF Scope!Enter, Scope!Frame, Scope!Frames, ScopeTyped, Stages, FramesOK
  <2>. QED  BY <2>1, <2>2, <2>3
<1>2. ASSUME NEW r \in Requests, Scope!Resolve(r)
      PROVE  ScopeInv'
  <2>0. UNCHANGED <<conn, rows, listed, carrier, job, slot>> /\ at[r] = "framed"
    BY <1>2 DEF Scope!Resolve
  <2>1. CASE at' = [at EXCEPT ![r] = "failed"] /\ UNCHANGED frame
    <3>1. ScopeTyped'
      BY <2>0, <2>1 DEF ScopeTyped, Stages
    <3>2. PoolOK' /\ FramesOK'
      BY <2>0, <2>1 DEF ScopeTyped, Stages, PoolOK, FramesOK
    <3>. QED  BY <3>1, <3>2
  <2>2. CASE at' = [at EXCEPT ![r] = "scoped"] /\ frame' = [frame EXCEPT ![r].tenant = TenantOf[r]]
    <3>1. frame' = [frame EXCEPT ![r] = Scope!Frame(r, TenantOf[r])]
      <4>1. frame[r] = [request |-> r, tenant |-> None]
        BY <2>0 DEF FramesOK, Scope!Frame
      <4>2. [frame[r] EXCEPT !.tenant = TenantOf[r]] = [request |-> r, tenant |-> TenantOf[r]]
        BY <4>1
      <4>. QED  BY <2>2, <4>2 DEF ScopeTyped, Scope!Frame
    <3>2. Scope!Frame(r, TenantOf[r]) \in Scope!Frames
      BY DEF Scope!Frame, Scope!Frames
    <3>3. ScopeTyped'
      <4>1. at' \in [Requests -> Stages] /\ frame' \in [Requests -> Scope!Frames]
        <5>1. at' \in [Requests -> Stages]
          BY <2>2 DEF ScopeTyped, Stages
        <5>2. frame' \in [Requests -> Scope!Frames]
          BY <3>1, <3>2 DEF ScopeTyped
        <5>. QED  BY <5>1, <5>2
      <4>. QED  BY <2>0, <4>1 DEF ScopeTyped
    <3>4. PoolOK' /\ FramesOK'
      BY <2>0, <2>2, <3>1 DEF ScopeTyped, Stages, PoolOK, FramesOK
    <3>. QED  BY <3>3, <3>4
  <2>. QED  BY <1>2, <2>1, <2>2 DEF Scope!Resolve
<1>3. ASSUME NEW r \in Requests, NEW c \in Conns, Scope!Begin(r, c)
      PROVE  ScopeInv'
  <2>0. /\ at' = [at EXCEPT ![r] = "begun"] /\ conn' = [conn EXCEPT ![c].by = r]
        /\ at[r] = "scoped" /\ conn[c].by = None /\ conn[c].local = None
        /\ UNCHANGED <<frame, rows, listed, carrier, job, slot>>
    BY <1>3 DEF Scope!Begin, PoolOK
  <2>1. ScopeTyped'
    BY <2>0 DEF ScopeTyped, Stages
  <2>2. PoolOK'
    <3>1. \A d \in Conns : conn[d].by # r
      BY <2>0 DEF PoolOK
    <3>2. conn'[c].by = r /\ conn'[c].local = None
      BY <2>0 DEF ScopeTyped
    <3>3. \A d \in Conns : d # c => conn'[d] = conn[d]
      BY <2>0 DEF ScopeTyped
    <3>4. at'[r] = "begun" /\ \A q \in Requests : q # r => at'[q] = at[q]
      BY <2>0 DEF ScopeTyped
    <3>5. \A d \in Conns : conn[d].by \in Requests \cup {None}
      BY DEF ScopeTyped
    <3>. QED  BY <3>1, <3>2, <3>3, <3>4, <3>5 DEF PoolOK
  <2>3. FramesOK'
    BY <2>0 DEF ScopeTyped, Stages, FramesOK
  <2>. QED  BY <2>1, <2>2, <2>3
<1>4. ASSUME NEW r \in Requests, NEW c \in Conns, Scope!SetTenant(r, c)
      PROVE  ScopeInv'
  <2>1. ScopeTyped'
    BY <1>4 DEF Scope!SetTenant, Scope!CtxTenant, Tenants, ScopeTyped, Stages
  <2>2. PoolOK'
    BY <1>4 DEF Scope!SetTenant, Scope!CtxTenant, Tenants, ScopeTyped, Stages, PoolOK
  <2>3. FramesOK'
    BY <1>4 DEF Scope!SetTenant, Scope!CtxTenant, Tenants, ScopeTyped, Stages, FramesOK
  <2>. QED  BY <2>1, <2>2, <2>3
<1>5. ASSUME NEW r \in Requests, NEW c \in Conns, Scope!Insert(r, c)
      PROVE  ScopeInv'
  <2>1. ScopeTyped'
    BY <1>5 DEF Scope!Insert, ScopeTyped, Stages
  <2>2. PoolOK'
    BY <1>5 DEF Scope!Insert, ScopeTyped, Stages, PoolOK
  <2>3. FramesOK'
    BY <1>5 DEF Scope!Insert, ScopeTyped, Stages, FramesOK
  <2>. QED  BY <2>1, <2>2, <2>3
<1>6. ASSUME NEW r \in Requests, NEW c \in Conns, Scope!Select(r, c)
      PROVE  ScopeInv'
  <2>1. ScopeTyped'
    BY <1>6 DEF Scope!Select, Scope!Visible, ScopeTyped, Stages
  <2>2. PoolOK'
    BY <1>6 DEF Scope!Select, Scope!Visible, ScopeTyped, Stages, PoolOK
  <2>3. FramesOK'
    BY <1>6 DEF Scope!Select, Scope!Visible, ScopeTyped, Stages, FramesOK
  <2>. QED  BY <2>1, <2>2, <2>3
<1>7. ASSUME NEW r \in Requests, NEW c \in Conns, Scope!Commit(r, c)
      PROVE  ScopeInv'
  <2>1. ScopeTyped'
    <3>1. rows' \in {rows, rows \cup Scope!Stored(r)} /\ listed' = listed
      BY <1>7 DEF Scope!Commit
    <3>2. Scope!Stored(r) \subseteq {Scope!Row(q) : q \in Creates}
      BY DEF Scope!Stored
    <3>3. /\ rows' \subseteq Scope!Earlier \cup {Scope!Row(q) : q \in Creates}
          /\ listed' \in [Requests \ Creates -> SUBSET rows']
      BY <3>1, <3>2 DEF ScopeTyped
    <3>5. at' \in [Requests -> Stages] /\ conn' \in [Conns -> Conn]
      <4>1. at' \in [Requests -> Stages] /\ conn' = [conn EXCEPT ![c].by = None, ![c].local = None]
        BY <1>7 DEF Scope!Commit, Scope!Ended, ScopeTyped, Stages
      <4>2. \A d \in Conns : conn'[d] \in Conn
        <5>1. conn[c] \in Conn
          BY DEF ScopeTyped
        <5>2. conn'[c] = [[conn[c] EXCEPT !.by = None] EXCEPT !.local = None]
          BY <4>1 DEF ScopeTyped
        <5>3. \A d \in Conns : d # c => conn'[d] = conn[d]
          BY <4>1 DEF ScopeTyped
        <5>4. conn'[c] \in Conn
          BY <5>1, <5>2 DEF Conn
        <5>5. \A d \in Conns : conn[d] \in Conn
          BY DEF ScopeTyped
        <5>. QED  BY <5>3, <5>4, <5>5
      <4>3. conn' = [d \in Conns |-> conn'[d]]
        BY <4>1 DEF ScopeTyped
      <4>. QED  BY <4>1, <4>2, <4>3 DEF ScopeTyped
    <3>6. UNCHANGED <<frame, carrier, job, slot>>
      BY <1>7 DEF Scope!Commit
    <3>. QED  BY <3>3, <3>5, <3>6 DEF ScopeTyped
  <2>2. PoolOK'
    BY <1>7 DEF Scope!Commit, Scope!Ended, Scope!Stored, ScopeTyped, Stages, PoolOK
  <2>3. FramesOK'
    BY <1>7 DEF Scope!Commit, Scope!Ended, Scope!Stored, ScopeTyped, Stages, FramesOK
  <2>. QED  BY <2>1, <2>2, <2>3
<1>8. ASSUME NEW r \in Requests, NEW c \in Conns, Scope!Breaks(r, c)
      PROVE  ScopeInv'
  <2>1. ScopeTyped'
    <3>1. rows' \in {rows, rows \cup Scope!Stored(r)} /\ listed' = listed
      BY <1>8 DEF Scope!Breaks
    <3>2. Scope!Stored(r) \subseteq {Scope!Row(q) : q \in Creates}
      BY DEF Scope!Stored
    <3>3. /\ rows' \subseteq Scope!Earlier \cup {Scope!Row(q) : q \in Creates}
          /\ listed' \in [Requests \ Creates -> SUBSET rows']
      BY <3>1, <3>2 DEF ScopeTyped
    <3>5. at' \in [Requests -> Stages] /\ conn' \in [Conns -> Conn]
      <4>1. at' \in [Requests -> Stages] /\ conn' = [conn EXCEPT ![c].by = None, ![c].local = None]
        BY <1>8 DEF Scope!Breaks, Scope!Ended, ScopeTyped, Stages
      <4>2. \A d \in Conns : conn'[d] \in Conn
        <5>1. conn[c] \in Conn
          BY DEF ScopeTyped
        <5>2. conn'[c] = [[conn[c] EXCEPT !.by = None] EXCEPT !.local = None]
          BY <4>1 DEF ScopeTyped
        <5>3. \A d \in Conns : d # c => conn'[d] = conn[d]
          BY <4>1 DEF ScopeTyped
        <5>4. conn'[c] \in Conn
          BY <5>1, <5>2 DEF Conn
        <5>5. \A d \in Conns : conn[d] \in Conn
          BY DEF ScopeTyped
        <5>. QED  BY <5>3, <5>4, <5>5
      <4>3. conn' = [d \in Conns |-> conn'[d]]
        BY <4>1 DEF ScopeTyped
      <4>. QED  BY <4>1, <4>2, <4>3 DEF ScopeTyped
    <3>6. UNCHANGED <<frame, carrier, job, slot>>
      BY <1>8 DEF Scope!Breaks
    <3>. QED  BY <3>3, <3>5, <3>6 DEF ScopeTyped
  <2>2. PoolOK'
    BY <1>8 DEF Scope!Breaks, Scope!Ended, Scope!Stored, ScopeTyped, Stages, PoolOK
  <2>3. FramesOK'
    BY <1>8 DEF Scope!Breaks, Scope!Ended, Scope!Stored, ScopeTyped, Stages, FramesOK
  <2>. QED  BY <2>1, <2>2, <2>3
<1>9. ASSUME NEW r \in Requests, Scope!Answer(r)
      PROVE  ScopeInv'
  <2>1. ScopeTyped'
    BY <1>9 DEF Scope!Answer, Scope!Emitted, Scope!Carried, ScopeTyped, Stages
  <2>2. PoolOK'
    BY <1>9 DEF Scope!Answer, Scope!Emitted, Scope!Carried, ScopeTyped, Stages, PoolOK
  <2>3. FramesOK'
    BY <1>9 DEF Scope!Answer, Scope!Emitted, Scope!Carried, ScopeTyped, Stages, FramesOK
  <2>. QED  BY <2>1, <2>2, <2>3
<1>10. ASSUME NEW r \in Creates, Scope!Enqueue(r)
      PROVE  ScopeInv'
  <2>0. /\ carrier[r] # Scope!NoFrame /\ carrier' = [carrier EXCEPT ![r] = Scope!NoFrame]
        /\ UNCHANGED <<at, frame, conn, rows, listed, slot>>
    BY <1>10 DEF Scope!Enqueue
  <2>1. carrier' \in [Creates -> Scope!Frames]
    BY <2>0 DEF ScopeTyped, Scope!NoFrame, Scope!Frame, Scope!Frames
  <2>2. /\ carrier[r] = Scope!Frame(r, TenantOf[r]) /\ carrier[r] \in Scope!Frames
        /\ Scope!Row(r) \in rows
        /\ \A q \in Creates : carrier'[q] # Scope!NoFrame => carrier'[q] = carrier[q]
    BY <2>0 DEF FramesOK, ScopeTyped
  <2>3. CASE UNCHANGED job
    BY <2>0, <2>1, <2>2, <2>3 DEF ScopeTyped, PoolOK, FramesOK
  <2>4. CASE job' = [job EXCEPT ![r].state = "waiting", ![r].carrier = carrier[r]]
    <3>1. /\ job' \in [Creates \cup Ticks -> FollowUp]
          /\ job'[r].carrier = carrier[r]
          /\ \A j \in (Creates \cup Ticks) \ {r} : job'[j] = job[j]
      <4>. DEFINE k == [job[r] EXCEPT !.state = "waiting", !.carrier = carrier[r]]
      <4>1. job' = [job EXCEPT ![r] = k]
        BY <2>4 DEF ScopeTyped
      <4>2. /\ k \in FollowUp
            /\ k.carrier = carrier[r]
        <5>1. job[r] \in FollowUp
          BY DEF ScopeTyped
        <5>. QED  BY <2>2, <5>1
      <4>. HIDE DEF k
      <4>. QED  BY <4>1, <4>2 DEF ScopeTyped
    <3>2. ScopeTyped' /\ PoolOK'
      BY <2>0, <2>1, <3>1 DEF ScopeTyped, PoolOK
    <3>3. FramesOK'
      <4>1. job'[r].state # "none"
        BY <2>4 DEF ScopeTyped
      <4>2. \A q \in Slots : slot[q].job \in Creates \cup Ticks \cup {None}
        BY DEF ScopeTyped
      <4>3. \A t \in Ticks : t # r
        OBVIOUS
      <4>. QED  BY <2>0, <2>2, <3>1, <4>1, <4>2, <4>3 DEF FramesOK
    <3>. QED  BY <3>2, <3>3
  <2>. QED  BY <1>10, <2>3, <2>4 DEF Scope!Enqueue
<1>11. CASE Scope!Crash
  <2>1. ScopeTyped'
    BY <1>11
       DEF Scope!Crash, Scope!FreeConn, Scope!NoFrame, Scope!Frame, Scope!Frames, ScopeTyped,
           Stages
  <2>2. PoolOK'
    BY <1>11
       DEF Scope!Crash, Scope!FreeConn, Scope!NoFrame, Scope!Frame, Scope!Frames, ScopeTyped,
           Stages, PoolOK
  <2>3. FramesOK'
    BY <1>11
       DEF Scope!Crash, Scope!FreeConn, Scope!NoFrame, Scope!Frame, Scope!Frames, ScopeTyped,
           Stages, FramesOK
  <2>. QED  BY <2>1, <2>2, <2>3
<1>12. ASSUME NEW t \in Ticks, Scope!Schedule(t)
      PROVE  ScopeInv'
  <2>1. ScopeTyped'
    BY <1>12 DEF Scope!Schedule, ScopeTyped, Stages
  <2>2. PoolOK'
    BY <1>12 DEF Scope!Schedule, ScopeTyped, Stages, PoolOK
  <2>3. FramesOK'
    BY <1>12 DEF Scope!Schedule, ScopeTyped, Stages, FramesOK
  <2>. QED  BY <2>1, <2>2, <2>3
<1>13. ASSUME NEW s \in Slots, NEW j \in Scope!Jobs, Scope!Take(s, j)
      PROVE  ScopeInv'
  <2>1. ScopeTyped'
    BY <1>13 DEF Scope!Take, ScopeTyped, Stages
  <2>2. PoolOK'
    BY <1>13 DEF Scope!Take, ScopeTyped, Stages, PoolOK
  <2>3. FramesOK'
    BY <1>13 DEF Scope!Take, ScopeTyped, Stages, FramesOK
  <2>. QED  BY <2>1, <2>2, <2>3
<1>14. ASSUME NEW s \in Slots, Scope!Done(s)
      PROVE  ScopeInv'
  <2>0. /\ slot[s].job \in Creates \cup Ticks
        /\ UNCHANGED <<at, frame, conn, rows, listed, carrier>>
        /\ job' = [job EXCEPT ![slot[s].job].state = "completed"]
        /\ slot' = [slot EXCEPT ![s].job = None]
    BY <1>14 DEF Scope!Done, ScopeTyped
  <2>1. ScopeTyped' /\ PoolOK'
    <3>1. job' \in [Scope!Jobs -> FollowUp]
      BY <2>0 DEF ScopeTyped
    <3>2. slot' \in [Slots -> [job : Scope!Jobs \cup {None}, frame : Scope!Frames]]
      BY <2>0 DEF ScopeTyped
    <3>3. ScopeTyped'
      BY <2>0, <3>1, <3>2 DEF ScopeTyped
    <3>4. PoolOK'
      BY <2>0 DEF PoolOK
    <3>. QED  BY <3>3, <3>4
  <2>2. /\ \A j \in Creates \cup Ticks : job'[j].carrier = job[j].carrier
        /\ \A j \in Creates \cup Ticks :
             job'[j].state # "none" => job[j].state # "none" \/ j = slot[s].job
    BY <2>0 DEF ScopeTyped
  <2>3. slot'[s].job = None /\ \A q \in Slots : q # s => slot'[q] = slot[q]
    BY <2>0 DEF ScopeTyped
  <2>4. job[slot[s].job].state # "none"
    BY <2>0 DEF FramesOK
  <2>5. FramesOK'
    <3>2. \A q \in Slots : slot[q].job \in Creates \cup Ticks \cup {None}
      BY DEF ScopeTyped
    <3>3. \A j \in Creates \cup Ticks : job[j].state # "none" => job'[j].state # "none"
      BY <2>0 DEF ScopeTyped
    <3>4. \A r \in Creates : job'[r].state # "none" => job[r].state # "none"
      BY <2>2, <2>4
    <3>. QED  BY <2>0, <2>2, <2>3, <3>2, <3>3, <3>4 DEF FramesOK
  <2>. QED  BY <2>1, <2>5
<1>15. ASSUME NEW s \in Slots, Scope!Stalls(s)
      PROVE  ScopeInv'
  <2>. DEFINE j == slot[s].job
              k == IF job[j].stalls < StallBound
                   THEN [job[j] EXCEPT !.state = "waiting", !.stalls = job[j].stalls + 1]
                   ELSE [job[j] EXCEPT !.state = "failed"]
  <2>0. /\ j \in Creates \cup Ticks /\ UNCHANGED <<at, frame, conn, rows, listed, carrier>>
        /\ job' = [job EXCEPT ![j] = k]
        /\ slot' = [slot EXCEPT ![s] = Scope!FreeSlot]
    <3>1. slot[s].job \in Creates \cup Ticks
      BY <1>15 DEF Scope!Stalls, ScopeTyped
    <3>2. job[j] \in FollowUp
      BY <3>1 DEF ScopeTyped
    <3>3. job' = [job EXCEPT ![j] = k]
      BY <1>15, <3>1, <3>2 DEF Scope!Stalls, ScopeTyped
    <3>. QED  BY <1>15, <3>1, <3>3 DEF Scope!Stalls
  <2>1. /\ k \in FollowUp
        /\ k.carrier = job[j].carrier /\ k.state # "none"
    <3>1. job[j] \in FollowUp
      BY <2>0 DEF ScopeTyped
    <3>2. job[j].stalls \in Nat /\ (job[j].stalls < StallBound => job[j].stalls + 1 \in 0..StallBound)
      BY <3>1
    <3>. HIDE DEF j
    <3>. QED  BY <3>1, <3>2
  <2>2. /\ Scope!FreeSlot \in [job : Creates \cup Ticks \cup {None}, frame : Scope!Frames]
        /\ Scope!FreeSlot.job = None
    BY DEF Scope!FreeSlot, Scope!NoFrame, Scope!Frame, Scope!Frames
  <2>3. job[j].state # "none"
    BY <2>0 DEF FramesOK
  <2>. HIDE DEF j, k
  <2>4. ScopeTyped' /\ PoolOK'
    BY <2>0, <2>1, <2>2 DEF ScopeTyped, PoolOK
  <2>5. /\ \A i \in Creates \cup Ticks :
             job'[i].carrier = job[i].carrier /\ (i # j => job'[i] = job[i])
        /\ slot'[s].job = None /\ \A q \in Slots : q # s => slot'[q] = slot[q]
    BY <2>0, <2>1, <2>2 DEF ScopeTyped
  <2>6. FramesOK'
    <3>1. \A q \in Slots : slot[q].job \in Creates \cup Ticks \cup {None}
      BY DEF ScopeTyped
    <3>2. \A i \in Creates \cup Ticks : job[i].state # "none" <=> job'[i].state # "none"
      BY <2>0, <2>1, <2>3, <2>5 DEF ScopeTyped
    <3>. QED  BY <2>0, <2>5, <3>1, <3>2 DEF FramesOK
  <2>. QED  BY <2>4, <2>6
<1>16. CASE UNCHANGED Scope!vars
  BY <1>16 DEF Scope!vars, ScopeTyped, PoolOK, FramesOK
<1>. QED  BY <1>1, <1>2, <1>3, <1>4, <1>5, <1>6, <1>7, <1>8, <1>9, <1>10, <1>11, <1>12, <1>13,
             <1>14, <1>15, <1>16
             DEF Scope!Next

LEMMA ScopeAlways ==
    ASSUME Scope!NamesAssumption
    PROVE  Scope!Spec => []ScopeInv
BY ScopeInitial, ScopeStep, PTL DEF Scope!Spec

\* RequestScope by itself.
LEMMA ScopeIsHeld ==
    ASSUME Scope!NamesAssumption
    PROVE  Scope!Spec => []Scope!ScopeHolds
<1>1. ScopeInv => Scope!ScopeHolds
  <2>. SUFFICES ASSUME ScopeInv
                PROVE  Scope!ScopeHolds
    OBVIOUS
  <2>1. Scope!TypeOK
    BY DEF ScopeInv, ScopeTyped, Stages, Conn, FollowUp, Scope!TypeOK
  <2>2. Scope!PoolClean
    BY DEF ScopeInv, ScopeTyped, Conn, PoolOK, Scope!PoolClean, Scope!Setting
  <2>3. Scope!JobsOfRows
    BY DEF ScopeInv, FramesOK, Scope!JobsOfRows
  <2>. QED  BY <2>1, <2>2, <2>3 DEF Scope!ScopeHolds
<1>. QED  BY <1>1, ScopeAlways, PTL

\* A list of RequestScope by itself.
LEMMA ListsAreOwn ==
    ASSUME Scope!NamesAssumption
    PROVE  Scope!Spec => Scope!OwnRows
<1>. DEFINE Own(r) == {x \in rows : x.tenant = TenantOf[r]}
            A == \A r \in Requests \ Creates :
                    at[r] = "set" /\ at'[r] = "ran" =>
                       /\ listed'[r] \subseteq Own(r)
                       /\ \/ Scope!Cardinality(listed'[r]) = Page
                          \/ listed'[r] = Own(r) /\ Scope!Cardinality(Own(r)) < Page
<1>1. ScopeInv /\ [Scope!Next]_(Scope!vars) => [A]_(Scope!vars)
  <2>. SUFFICES ASSUME ScopeInv, Scope!Next, NEW r \in Requests \ Creates,
                       at[r] = "set", at'[r] = "ran"
                PROVE  /\ listed'[r] \subseteq Own(r)
                       /\ \/ Scope!Cardinality(listed'[r]) = Page
                          \/ listed'[r] = Own(r) /\ Scope!Cardinality(Own(r)) < Page
    BY Zenon
  <2>1. PICK c \in Conns : Scope!Select(r, c)
    <3>1. ASSUME NEW q \in Requests, Scope!Enter(q) \/ Scope!Resolve(q) \/ Scope!Answer(q)
          PROVE  FALSE
      BY <3>1 DEF Scope!Enter, Scope!Resolve, Scope!Answer, ScopeInv, ScopeTyped
    <3>2. ASSUME NEW q \in Requests, NEW c \in Conns,
                 \/ Scope!Begin(q, c) \/ Scope!SetTenant(q, c) \/ Scope!Insert(q, c)
                 \/ Scope!Commit(q, c) \/ Scope!Breaks(q, c)
          PROVE  FALSE
      BY <3>2 DEF Scope!Begin, Scope!SetTenant, Scope!Insert, Scope!Commit, Scope!Breaks,
                  ScopeInv, ScopeTyped
    <3>3. ASSUME NEW q \in Requests, NEW c \in Conns, Scope!Select(q, c)
          PROVE  q = r
      BY <3>3 DEF Scope!Select, ScopeInv, ScopeTyped
    <3>4. CASE Scope!Crash
      BY <3>4 DEF Scope!Crash
    <3>5. ASSUME at' = at
          PROVE  FALSE
      BY <3>5
    <3>. QED  BY <3>1, <3>2, <3>3, <3>4, <3>5
              DEF Scope!Next, Scope!Enqueue, Scope!Schedule, Scope!Take, Scope!Done, Scope!Stalls
  <2>2. conn[c].local = TenantOf[r] /\ conn[c].session = None /\ None \notin Requests
    BY <2>1 DEF Scope!Select, ScopeInv, ScopeTyped, Conn, PoolOK, Scope!NamesAssumption
  <2>3. Scope!Setting(c) = TenantOf[r]
    BY <2>2 DEF Scope!Setting, Scope!NamesAssumption
  <2>4. {x \in Scope!Visible(c) : x.tenant = Scope!CtxTenant(r)} = Own(r)
    BY <2>3 DEF Scope!Visible, Scope!CtxTenant
  <2>. HIDE DEF Own
  <2>5. PICK page \in SUBSET Own(r) :
           /\ Scope!Cardinality(page) = Page \/ (page = Own(r) /\ Scope!Cardinality(Own(r)) < Page)
           /\ listed' = [listed EXCEPT ![r] = page]
    BY <2>1, <2>4 DEF Scope!Select
  <2>6. listed'[r] = page
    BY <2>5 DEF ScopeInv, ScopeTyped
  <2>. QED  BY <2>5, <2>6
<1>. QED  BY <1>1, ScopeAlways, PTL DEF Scope!Spec, Scope!OwnRows

-----------------------------------------------------------------------------
(***************************************************************************)
(* UsageSync.                                                              *)
(***************************************************************************)
UsageRow == [metric : Metrics \cup {None}, quantity : 0..MaxQuantity, synced : BOOLEAN]
Group == [metric : Metrics, ids : SUBSET Records]
Run == [at : {"new", "grouping", "reporting", "reported", "ended"}, groups : SUBSET Group,
        metric : Metrics \cup {None}, ids : SUBSET Records, timestamp : 0..MaxSecond]

SyncTyped ==
    /\ second \in 1..MaxSecond
    /\ usage \in [Records -> UsageRow]
    /\ sync \in [Syncs -> Run]
    /\ counted \subseteq Sync!Reports
    /\ overlapped \in BOOLEAN /\ broken \in BOOLEAN

\* What a run is about to mark was answered.
AnsweredOK ==
    /\ \A j \in Syncs : sync[j].at = "reported" => \E a \in answered : a.ids = sync[j].ids
    /\ \A r \in Records : usage[r].synced => \E a \in answered : r \in a.ids

\* A run that is alone has its metrics once each, and nobody has marked the rows of those
\* it has not reported.
AloneOK == ~overlapped =>
    /\ \A i, j \in Syncs : Sync!Working(i) /\ Sync!Working(j) => i = j
    /\ \A j \in Syncs :
          /\ ~Sync!Working(j) => sync[j].groups = {}
          /\ \A g \in sync[j].groups :
                \A r \in g.ids : ~usage[r].synced /\ usage[r].metric = g.metric
          /\ \A g, h \in sync[j].groups : g.metric = h.metric => g = h
          /\ sync[j].at \in {"reporting", "reported"} =>
                /\ sync[j].metric \in Metrics
                /\ \A r \in sync[j].ids : usage[r].metric = sync[j].metric
                /\ \A g \in sync[j].groups : g.metric # sync[j].metric
          /\ sync[j].at = "reporting" => \A r \in sync[j].ids : ~usage[r].synced

\* A row on the bill is marked, or is so next.
CountedOK == ~broken /\ ~overlapped =>
    /\ \A c \in counted : \/ \A r \in c.ids : usage[r].synced
                          \/ \E j \in Syncs : sync[j].at = "reported" /\ c = Sync!Report(j)
    /\ \A a, b \in counted : a # b => a.ids \cap b.ids = {}

SyncInv == SyncTyped /\ AnsweredOK /\ AloneOK /\ CountedOK

LEMMA SyncInitial == Sync!NamesAssumption /\ Sync!Init => SyncInv
<1>. SUFFICES ASSUME Sync!NamesAssumption, Sync!Init
              PROVE  SyncInv
  OBVIOUS
<1>. USE DEF Sync!NamesAssumption, Sync!Init, Sync!NoUsage, Sync!NewJob
<1>1. 0 \in 0..MaxQuantity /\ 0 \in 0..MaxSecond /\ 1 \in 1..MaxSecond
  OBVIOUS
<1>2. Sync!NoUsage \in UsageRow /\ Sync!NewJob \in Run
  BY <1>1 DEF UsageRow, Run
<1>3. SyncTyped
  BY <1>1, <1>2 DEF SyncTyped
<1>4. AnsweredOK /\ AloneOK /\ CountedOK
  BY DEF AnsweredOK, AloneOK, CountedOK, Sync!Working
<1>. QED  BY <1>3, <1>4 DEF SyncInv

\* What a run goes on with after a group.
LEMMA NextGroupIs ==
    ASSUME Sync!NamesAssumption, SyncTyped, NEW j \in Syncs
    PROVE  \E k \in Run : /\ Sync!NextGroup(j) = [sync EXCEPT ![j] = k]
                          /\ k.at = "grouping" /\ k.groups = sync[j].groups
<1>. DEFINE k == [[[[sync[j] EXCEPT !.at = "grouping"] EXCEPT !.metric = None] EXCEPT !.ids = {}]
                    EXCEPT !.timestamp = 0]
<1>1. sync[j] \in Run /\ 0 \in 0..MaxSecond
  BY DEF SyncTyped, Sync!NamesAssumption
<1>2. k \in Run /\ k.at = "grouping" /\ k.groups = sync[j].groups
  BY <1>1 DEF Run
<1>3. Sync!NextGroup(j) = [sync EXCEPT ![j] = k]
  BY DEF Sync!NextGroup, SyncTyped
<1>. QED  BY <1>2, <1>3

\* The SELECT's groups have a metric each, and its rows that are not marked.
LEMMA GroupsAre ==
    ASSUME SyncTyped
    PROVE  /\ Sync!Groups \subseteq Group
           /\ \A g \in Sync!Groups : \A r \in g.ids : ~usage[r].synced /\ usage[r].metric = g.metric
           /\ \A g, h \in Sync!Groups : g.metric = h.metric => g = h
<1>1. \A m \in Metrics : /\ Sync!Unsynced(m) \subseteq Records
                         /\ \A r \in Sync!Unsynced(m) : ~usage[r].synced /\ usage[r].metric = m
  BY DEF Sync!Unsynced
<1>2. \A g \in Sync!Groups : \E m \in Metrics : g = [metric |-> m, ids |-> Sync!Unsynced(m)]
  BY DEF Sync!Groups
<1>. QED  BY <1>1, <1>2 DEF Group

\* A run that begins has ended at once or has the groups.
LEMMA StartIs ==
    ASSUME Sync!NamesAssumption, SyncTyped, NEW j \in Syncs, Sync!Start(j)
    PROVE  \E k \in Run : /\ sync' = [sync EXCEPT ![j] = k]
                          /\ \/ k.at = "ended" /\ k.groups = {}
                             \/ k.at = "grouping" /\ k.groups = Sync!Groups
<1>1. CASE sync' = Sync!Ended(j)
  <2>1. 0 \in 0..MaxSecond
    BY DEF Sync!NamesAssumption
  <2>2. [Sync!NewJob EXCEPT !.at = "ended"] \in Run
    BY <2>1 DEF Sync!NewJob, Run
  <2>. QED  BY <1>1, <2>2 DEF Sync!Ended, Sync!NewJob
<1>2. CASE sync' = [sync EXCEPT ![j].at = "grouping", ![j].groups = Sync!Groups]
  <2>. DEFINE k == [[sync[j] EXCEPT !.at = "grouping"] EXCEPT !.groups = Sync!Groups]
  <2>1. sync[j] \in Run
    BY DEF SyncTyped
  <2>2. k \in Run /\ k.at = "grouping" /\ k.groups = Sync!Groups
    BY <2>1, GroupsAre DEF Run
  <2>3. sync' = [sync EXCEPT ![j] = k]
    BY <1>2 DEF SyncTyped
  <2>. QED  BY <2>2, <2>3
<1>. QED  BY <1>1, <1>2 DEF Sync!Start

LEMMA SyncStep == Sync!NamesAssumption /\ SyncInv /\ [Sync!Next]_(Sync!vars) => SyncInv'
<1>. SUFFICES ASSUME Sync!NamesAssumption, SyncInv, [Sync!Next]_(Sync!vars)
              PROVE  SyncInv'
  OBVIOUS
<1>. USE DEF Sync!NamesAssumption, SyncInv, Sync!provider, Sync!history
<1>1. ASSUME NEW r \in Records, NEW m \in Metrics, NEW q \in 1..MaxQuantity,
             Sync!RecordUsage(r, m, q)
      PROVE  SyncInv'
  <2>1. SyncTyped'
    BY <1>1 DEF Sync!RecordUsage, Sync!NoUsage, SyncTyped, UsageRow, Group, Run
  <2>2. AnsweredOK'
    BY <1>1 DEF Sync!RecordUsage, Sync!NoUsage, SyncTyped, UsageRow, Group, Run, AnsweredOK
  <2>3. AloneOK'
    <3>1. /\ usage[r].metric = None
          /\ \A p \in Records : p # r => usage'[p] = usage[p]
          /\ UNCHANGED <<sync, overlapped>>
      BY <1>1 DEF Sync!RecordUsage, Sync!NoUsage, SyncTyped
    <3>2. \A i \in Syncs : sync[i].ids \subseteq Records /\ sync[i].groups \subseteq Group
      BY DEF SyncTyped, Run
    <3>. QED  BY <3>1, <3>2 DEF AloneOK, Group, Sync!Working
  <2>4. CountedOK'
    BY <1>1
       DEF Sync!RecordUsage, Sync!NoUsage, SyncTyped, UsageRow, Group, Run, CountedOK,
           Sync!Report
  <2>. QED  BY <2>1, <2>2, <2>3, <2>4
<1>2. ASSUME NEW j \in Syncs, Sync!Start(j)
      PROVE  SyncInv'
  <2>1. SyncTyped'
    BY <1>2, StartIs DEF Sync!Start, SyncTyped
  <2>2. AnsweredOK'
    BY <1>2
       DEF Sync!Start, Sync!Ended, Sync!NewJob, Sync!Groups, Sync!Unsynced, Sync!Working,
           SyncTyped, UsageRow, Group, Run, AnsweredOK
  <2>3. AloneOK'
    <3>1. PICK k \in Run : /\ sync' = [sync EXCEPT ![j] = k]
                           /\ \/ k.at = "ended" /\ k.groups = {}
                              \/ k.at = "grouping" /\ k.groups = Sync!Groups
      BY <1>2, StartIs
    <3>2. /\ sync[j].at = "new" /\ usage' = usage
          /\ overlapped' = (overlapped \/ \E i \in Syncs \ {j} : Sync!Working(i))
      BY <1>2 DEF Sync!Start
    <3>3. sync'[j] = k /\ \A i \in Syncs \ {j} : sync'[i] = sync[i]
      BY <3>1 DEF SyncTyped
    <3>. SUFFICES ASSUME ~overlapped'
                  PROVE  AloneOK'
      BY DEF AloneOK
    <3>4. ~overlapped /\ \A i \in Syncs \ {j} : ~Sync!Working(i)
      BY <3>2 DEF SyncTyped
    <3>. QED  BY <3>1, <3>2, <3>3, <3>4, GroupsAre DEF AloneOK, Sync!Working
  <2>4. CountedOK'
    BY <1>2
       DEF Sync!Start, Sync!Ended, Sync!NewJob, Sync!Groups, Sync!Unsynced, Sync!Working,
           SyncTyped, UsageRow, Group, Run, CountedOK, Sync!Report
  <2>. QED  BY <2>1, <2>2, <2>3, <2>4
<1>3. ASSUME NEW j \in Syncs, Sync!LookUp(j)
      PROVE  SyncInv'
  <2>1. SyncTyped'
    BY <1>3 DEF Sync!LookUp, SyncTyped, UsageRow, Group, Run
  <2>2. AnsweredOK'
    BY <1>3 DEF Sync!LookUp, SyncTyped, UsageRow, Group, Run, AnsweredOK
  <2>3. AloneOK'
    BY <1>3 DEF Sync!LookUp, SyncTyped, UsageRow, Group, Run, AloneOK, Sync!Working
  <2>4. CountedOK'
    BY <1>3 DEF Sync!LookUp, SyncTyped, UsageRow, Group, Run, CountedOK, Sync!Report
  <2>. QED  BY <2>1, <2>2, <2>3, <2>4
<1>4. ASSUME NEW j \in Syncs, Sync!StripeCounts(j)
      PROVE  SyncInv'
  <2>1. SyncTyped'
    <3>1. sync[j] \in Run
      BY DEF SyncTyped
    <3>2. Sync!Report(j) \in Sync!Reports
      BY <3>1 DEF Sync!Report, Sync!Reports, Run
    <3>3. [sync[j] EXCEPT !.at = "reported"] \in Run
      BY <3>1 DEF Run
    <3>. QED  BY <1>4, <3>2, <3>3 DEF Sync!StripeCounts, SyncTyped
  <2>2. AnsweredOK'
    <3>1. /\ sync[j].ids = Sync!Report(j).ids /\ answered' = answered \cup {Sync!Report(j)}
          /\ usage' = usage /\ sync' = [sync EXCEPT ![j].at = "reported"]
      BY <1>4 DEF Sync!StripeCounts, Sync!Report
    <3>2. \A i \in Syncs : sync'[i].ids = sync[i].ids /\ (i # j => sync'[i].at = sync[i].at)
      BY <3>1 DEF SyncTyped
    <3>. QED  BY <3>1, <3>2 DEF AnsweredOK
  <2>3. AloneOK'
    BY <1>4
       DEF Sync!StripeCounts, Sync!Report, SyncTyped, UsageRow, Group, Run, AloneOK,
           Sync!Working
  <2>4. CountedOK'
    <3>. DEFINE new == Sync!Report(j)
    <3>1. /\ counted' \in {counted, counted \cup {new}} /\ sync[j].at = "reporting"
          /\ sync' = [sync EXCEPT ![j].at = "reported"]
          /\ UNCHANGED <<usage, overlapped, broken>>
      BY <1>4 DEF Sync!StripeCounts
    <3>2. /\ \A i \in Syncs : Sync!Report(i)' = Sync!Report(i) /\ (i # j => sync'[i].at = sync[i].at)
          /\ sync'[j].at = "reported" /\ new.ids = sync[j].ids
      BY <3>1 DEF SyncTyped, Sync!Report
    <3>. HIDE DEF new
    <3>. SUFFICES ASSUME ~broken, ~overlapped
                  PROVE  /\ \A c \in counted' :
                               \/ \A r \in c.ids : usage[r].synced
                               \/ \E i \in Syncs : sync'[i].at = "reported" /\ c = Sync!Report(i)
                         /\ \A x, y \in counted' : x # y => x.ids \cap y.ids = {}
      BY <3>1, <3>2 DEF CountedOK
    <3>3. \A i \in Syncs : sync[i].at # "reported"
      BY <3>1 DEF AloneOK, Sync!Working
    <3>4. \A c \in counted : \A r \in c.ids : usage[r].synced
      BY <3>3 DEF CountedOK
    <3>5. \A r \in new.ids : ~usage[r].synced
      BY <3>1, <3>2 DEF AloneOK
    <3>6. \A c \in counted : c.ids \cap new.ids = {}
      BY <3>4, <3>5
    <3>7. \A x, y \in counted : x # y => x.ids \cap y.ids = {}
      BY DEF CountedOK
    <3>8. \A x, y \in counted' : x # y => x.ids \cap y.ids = {}
      BY <3>1, <3>6, <3>7
    <3>. QED  BY <3>1, <3>2, <3>4, <3>8 DEF new
  <2>. QED  BY <2>1, <2>2, <2>3, <2>4
<1>5. ASSUME NEW j \in Syncs, Sync!StripeRefuses(j)
      PROVE  SyncInv'
  <2>1. PICK k \in Run : /\ sync' = [sync EXCEPT ![j] = k]
                         /\ k.at = "grouping" /\ k.groups = sync[j].groups
    BY <1>5, NextGroupIs DEF Sync!StripeRefuses
  <2>2. /\ sync[j].at = "reporting"
        /\ UNCHANGED <<second, usage, counted, answered, overlapped, broken>>
    BY <1>5 DEF Sync!StripeRefuses
  <2>3. sync' \in [Syncs -> Run] /\ sync'[j] = k /\ \A i \in Syncs \ {j} : sync'[i] = sync[i]
    BY <2>1 DEF SyncTyped
  <2>4. SyncTyped'
    BY <2>2, <2>3 DEF SyncTyped
  <2>5. AnsweredOK'
    BY <2>1, <2>2, <2>3 DEF AnsweredOK
  <2>6. AloneOK'
    BY <2>1, <2>2, <2>3 DEF AloneOK, Sync!Working
  <2>7. CountedOK'
    BY <2>1, <2>2, <2>3 DEF CountedOK, Sync!Report
  <2>. QED  BY <2>4, <2>5, <2>6, <2>7
<1>6. ASSUME NEW j \in Syncs, Sync!Mark(j)
      PROVE  SyncInv'
  <2>1. PICK k \in Run : /\ sync' = [sync EXCEPT ![j] = k]
                         /\ k.at = "grouping" /\ k.groups = sync[j].groups
    BY <1>6, NextGroupIs DEF Sync!Mark
  <2>2. sync[j].at = "reported" /\ UNCHANGED <<second, counted, answered, overlapped, broken>>
    BY <1>6 DEF Sync!Mark
  <2>3. sync' \in [Syncs -> Run] /\ sync'[j] = k /\ \A i \in Syncs \ {j} : sync'[i] = sync[i]
    BY <2>1 DEF SyncTyped
  <2>4. /\ usage' \in [Records -> UsageRow]
        /\ \A r \in Records : /\ usage'[r].metric = usage[r].metric
                              /\ usage'[r].synced = (usage[r].synced \/ r \in sync[j].ids)
    BY <1>6 DEF Sync!Mark, SyncTyped, UsageRow
  <2>5. SyncTyped'
    BY <2>2, <2>3, <2>4 DEF SyncTyped
  <2>6. AnsweredOK'
    BY <2>1, <2>2, <2>3, <2>4 DEF AnsweredOK
  <2>7. \A i \in Syncs : sync[i].ids \subseteq Records /\ sync[i].groups \subseteq Group
    BY DEF SyncTyped, Run
  <2>8. AloneOK'
    <3>. SUFFICES ASSUME ~overlapped
                  PROVE  AloneOK'
      BY <2>2 DEF AloneOK
    <3>1. \A i \in Syncs \ {j} : ~Sync!Working(i)
      BY <2>2 DEF AloneOK, Sync!Working
    <3>2. \A g \in sync[j].groups : \A r \in g.ids : r \in Records /\ r \notin sync[j].ids
      BY <2>2, <2>7 DEF AloneOK, Group
    <3>3. \A i \in Syncs \ {j} : sync'[i].at \in {"new", "ended"}
      BY <2>3, <3>1 DEF Sync!Working
    <3>4. \A g \in sync[j].groups : \A r \in g.ids : ~usage'[r].synced /\ usage'[r].metric = g.metric
      BY <2>4, <3>2 DEF AloneOK
    <3>5. \A i \in Syncs \ {j} : sync[i].groups = {}
      BY <3>1 DEF AloneOK
    <3>. QED  BY <2>1, <2>2, <2>3, <2>4, <3>3, <3>4, <3>5 DEF AloneOK, Sync!Working
  <2>9. CountedOK'
    <3>. SUFFICES ASSUME ~broken, ~overlapped, NEW c \in counted
                  PROVE  \/ \A r \in c.ids : usage'[r].synced
                         \/ \E i \in Syncs : sync'[i].at = "reported" /\ c = Sync!Report(i)'
      BY <2>2 DEF CountedOK
    <3>1. c.ids \subseteq Records
      BY DEF SyncTyped, Sync!Reports
    <3>2. CASE \A r \in c.ids : usage[r].synced
      BY <2>4, <3>1, <3>2
    <3>3. ASSUME NEW i \in Syncs, sync[i].at = "reported", c = Sync!Report(i)
          PROVE  c.ids = sync[j].ids \/ (sync'[i].at = "reported" /\ c = Sync!Report(i)')
      BY <2>3, <3>3 DEF Sync!Report
    <3>4. CASE c.ids = sync[j].ids
      BY <2>4, <3>1, <3>4
    <3>. QED  BY <3>2, <3>3, <3>4 DEF CountedOK
  <2>. QED  BY <2>5, <2>6, <2>8, <2>9
<1>7. ASSUME NEW j \in Syncs, Sync!GroupFails(j)
      PROVE  SyncInv'
  <2>1. PICK k \in Run : /\ sync' = [sync EXCEPT ![j] = k]
                         /\ k.at = "grouping" /\ k.groups = sync[j].groups
    BY <1>7, NextGroupIs DEF Sync!GroupFails
  <2>2. /\ sync[j].at \in {"reporting", "reported"}
        /\ broken' = (broken \/ sync[j].at = "reported")
        /\ UNCHANGED <<second, usage, counted, answered, overlapped>>
    BY <1>7 DEF Sync!GroupFails
  <2>3. sync' \in [Syncs -> Run] /\ sync'[j] = k /\ \A i \in Syncs \ {j} : sync'[i] = sync[i]
    BY <2>1 DEF SyncTyped
  <2>4. SyncTyped'
    BY <2>2, <2>3 DEF SyncTyped
  <2>5. AnsweredOK'
    BY <2>1, <2>2, <2>3 DEF AnsweredOK
  <2>6. AloneOK'
    BY <2>1, <2>2, <2>3 DEF AloneOK, Sync!Working
  <2>7. CountedOK'
    <3>. SUFFICES ASSUME ~broken'
                  PROVE  CountedOK'
      BY DEF CountedOK
    <3>1. ~broken /\ sync[j].at # "reported"
      BY <2>2 DEF SyncTyped
    <3>. QED  BY <2>1, <2>2, <2>3, <3>1 DEF CountedOK, Sync!Report
  <2>. QED  BY <2>4, <2>5, <2>6, <2>7
<1>8. ASSUME NEW j \in Syncs, Sync!Finish(j)
      PROVE  SyncInv'
  <2>1. SyncTyped'
    BY <1>8 DEF Sync!Finish, Sync!Ended, Sync!NewJob, SyncTyped, UsageRow, Group, Run
  <2>2. AnsweredOK'
    BY <1>8 DEF Sync!Finish, Sync!Ended, Sync!NewJob, SyncTyped, UsageRow, Group, Run, AnsweredOK
  <2>3. AloneOK'
    BY <1>8
       DEF Sync!Finish, Sync!Ended, Sync!NewJob, SyncTyped, UsageRow, Group, Run, AloneOK,
           Sync!Working
  <2>4. CountedOK'
    BY <1>8
       DEF Sync!Finish, Sync!Ended, Sync!NewJob, SyncTyped, UsageRow, Group, Run, CountedOK,
           Sync!Report
  <2>. QED  BY <2>1, <2>2, <2>3, <2>4
<1>9. ASSUME NEW j \in Syncs, Sync!Break(j)
      PROVE  SyncInv'
  <2>1. SyncTyped'
    BY <1>9 DEF Sync!Break, Sync!Ended, Sync!NewJob, SyncTyped, UsageRow, Group, Run
  <2>2. AnsweredOK'
    BY <1>9 DEF Sync!Break, Sync!Ended, Sync!NewJob, SyncTyped, UsageRow, Group, Run, AnsweredOK
  <2>3. AloneOK'
    BY <1>9
       DEF Sync!Break, Sync!Ended, Sync!NewJob, SyncTyped, UsageRow, Group, Run, AloneOK,
           Sync!Working
  <2>4. CountedOK'
    <3>. SUFFICES ASSUME ~broken', ~overlapped'
                  PROVE  /\ \A c \in counted : \/ \A r \in c.ids : usage[r].synced
                                               \/ \E i \in Syncs : sync'[i].at = "reported" /\ c = Sync!Report(i)'
                         /\ \A a, b \in counted : a # b => a.ids \cap b.ids = {}
      BY <1>9 DEF Sync!Break, CountedOK
    <3>1. sync[j].at # "reported" /\ \A i \in Syncs \ {j} : sync'[i] = sync[i]
      BY <1>9 DEF Sync!Break, Sync!Ended, SyncTyped
    <3>2. /\ \A c \in counted : \/ \A r \in c.ids : usage[r].synced
                                \/ \E i \in Syncs : sync[i].at = "reported" /\ c = Sync!Report(i)
          /\ \A a, b \in counted : a # b => a.ids \cap b.ids = {}
      BY <1>9 DEF Sync!Break, CountedOK
    <3>. QED  BY <3>1, <3>2 DEF Sync!Report
  <2>. QED  BY <2>1, <2>2, <2>3, <2>4
<1>10. CASE Sync!Tick \/ Sync!Subscribes \/ UNCHANGED Sync!vars
  <2>1. UNCHANGED <<usage, sync, counted, answered, overlapped, broken>> /\ second' \in 1..MaxSecond
    BY <1>10 DEF Sync!Tick, Sync!Subscribes, Sync!vars, SyncTyped
  <2>. QED  BY <2>1 DEF SyncTyped, AnsweredOK, AloneOK, CountedOK, Sync!Working, Sync!Report
<1>. QED
  BY <1>1, <1>2, <1>3, <1>4, <1>5, <1>6, <1>7, <1>8, <1>9, <1>10 DEF Sync!Next

\* The provider's side: a key has a sum of quantities of rows.
ProviderTyped ==
    /\ metering \in BOOLEAN /\ subscribed \in BOOLEAN
    /\ reportKeys \in [1..MaxSecond -> 0..(Sync!Cardinality(Records) * MaxQuantity)]
    /\ answered \subseteq Sync!Reports

\* No sum exceeds that of all rows at the bound.
LEMMA QuantityBound ==
    ASSUME Sync!NamesAssumption, NEW ids \in SUBSET Records
    PROVE  /\ Sync!Quantity(ids) \in 0..(Sync!Cardinality(Records) * MaxQuantity)
           /\ 0 \in 0..(Sync!Cardinality(Records) * MaxQuantity)
<1>. DEFINE pairs == {p \in ids \X (1..MaxQuantity) : p[2] <= usage[p[1]].quantity}
<1>1. \A S : Sync!Cardinality(S) = Cardinality(S) /\ (Sync!IsFiniteSet(S) <=> IsFiniteSet(S))
  BY DEF Sync!Cardinality, Cardinality, Sync!IsFiniteSet, IsFiniteSet
<1>2. /\ IsFiniteSet(Records) /\ MaxQuantity \in Nat /\ IsFiniteSet(1..MaxQuantity)
      /\ Cardinality(1..MaxQuantity) = MaxQuantity
  BY <1>1, FS_Interval DEF Sync!NamesAssumption
<1>3. /\ IsFiniteSet(Records \X (1..MaxQuantity))
      /\ Cardinality(Records \X (1..MaxQuantity)) = Cardinality(Records) * MaxQuantity
  BY <1>2, FS_Product
<1>4. pairs \subseteq Records \X (1..MaxQuantity)
  OBVIOUS
<1>5. IsFiniteSet(pairs) /\ Cardinality(pairs) <= Cardinality(Records) * MaxQuantity
  BY <1>3, <1>4, FS_Subset
<1>6. Cardinality(pairs) \in Nat /\ Cardinality(Records) * MaxQuantity \in Nat
  BY <1>3, <1>5, FS_CardinalityType
<1>7. Sync!Quantity(ids) = Cardinality(pairs)
  BY <1>1 DEF Sync!Quantity
<1>. QED  BY <1>1, <1>5, <1>6, <1>7

\* A report is the only step that the provider answers.
LEMMA ProviderStep ==
    Sync!NamesAssumption /\ SyncTyped /\ ProviderTyped /\ [Sync!Next]_(Sync!vars) => ProviderTyped'
<1>. SUFFICES ASSUME Sync!NamesAssumption, SyncTyped, ProviderTyped, [Sync!Next]_(Sync!vars)
              PROVE  ProviderTyped'
  OBVIOUS
<1>. USE DEF ProviderTyped, Sync!provider, Sync!history
<1>1. ASSUME NEW j \in Syncs, Sync!StripeCounts(j)
      PROVE  ProviderTyped'
  <2>. DEFINE quantity == Sync!Quantity(sync[j].ids)
  <2>1. sync[j].ids \in SUBSET Records
    BY DEF SyncTyped, Run
  <2>2. quantity \in 0..(Sync!Cardinality(Records) * MaxQuantity)
    BY <2>1, QuantityBound
  <2>3. Sync!Report(j) \in Sync!Reports
    BY <2>1 DEF Sync!Report, Sync!Reports
  <2>4. /\ reportKeys' = [reportKeys EXCEPT ![sync[j].timestamp] = quantity]
        /\ answered' = answered \cup {Sync!Report(j)} /\ UNCHANGED <<metering, subscribed>>
    BY <1>1 DEF Sync!StripeCounts
  <2>. HIDE DEF quantity
  <2>. QED  BY <2>2, <2>3, <2>4
<1>2. ASSUME NEW j \in Syncs,
             \/ Sync!Start(j) \/ Sync!LookUp(j) \/ Sync!StripeRefuses(j) \/ Sync!Mark(j)
             \/ Sync!GroupFails(j) \/ Sync!Finish(j) \/ Sync!Break(j)
      PROVE  ProviderTyped'
  BY <1>2
     DEF Sync!Start, Sync!LookUp, Sync!StripeRefuses, Sync!Mark, Sync!GroupFails, Sync!Finish,
              Sync!Break
<1>3. ASSUME NEW r \in Records, NEW m \in Metrics, NEW q \in 1..MaxQuantity,
             Sync!RecordUsage(r, m, q)
      PROVE  ProviderTyped'
  BY <1>3 DEF Sync!RecordUsage
<1>4. CASE Sync!Tick \/ Sync!Subscribes \/ UNCHANGED Sync!vars
  BY <1>4 DEF Sync!Tick, Sync!Subscribes, Sync!vars
<1>. QED  BY <1>1, <1>2, <1>3, <1>4 DEF Sync!Next

\* UsageSync by itself, typed and with its rows reported.
LEMMA SyncHolds ==
    ASSUME Sync!NamesAssumption
    PROVE  Sync!Spec => []Sync!TypeOK /\ []Sync!UsageReported
<1>1. Sync!Init => ProviderTyped
  <2>1. 0 \in 0..(Sync!Cardinality(Records) * MaxQuantity)
    BY QuantityBound
  <2>. QED  BY <2>1 DEF Sync!Init, ProviderTyped
<1>2. SyncInv /\ ProviderTyped => Sync!TypeOK /\ Sync!UsageReported
  <2>. SUFFICES ASSUME SyncInv, ProviderTyped
                PROVE  Sync!TypeOK /\ Sync!UsageReported
    OBVIOUS
  <2>1. Sync!TypeOK
    BY DEF SyncInv, SyncTyped, ProviderTyped, UsageRow, Run, Group, Sync!TypeOK
  <2>2. Sync!UsageReported
    BY DEF SyncInv, AnsweredOK, CountedOK, Sync!UsageReported
  <2>. QED  BY <2>1, <2>2
<1>3. SyncInv => SyncTyped
  BY DEF SyncInv
<1>. QED  BY <1>1, <1>2, <1>3, SyncInitial, SyncStep, ProviderStep, PTL DEF Sync!Spec

-----------------------------------------------------------------------------
(***************************************************************************)
(* BillingAccount.                                                         *)
(***************************************************************************)
Emitted == sent \cup {i.event : i \in inbox}

AccountTyped ==
    /\ Account!TypeOK
    /\ wish \in [Sessions -> [price : Prices \cup {None}, ending : BOOLEAN]]
    /\ \A e \in Emitted : e.kind # "checkout" => e.status # "complete"
    /\ customer.sub.kind # "none" => customer.sub.of \in Sessions
    /\ \A c \in Commands : request[c].sub.kind # "none" => request[c].sub.of \in Sessions

\* The events that there have been are within the bound.
SendingOK == IsFiniteSet(sent) /\ Account!Sending <= MaxEvents

\* Each attempt makes one customer, and with a key the first does.
MadeOK ==
    /\ made <= provisioning.attempts
    /\ provisioning.at = "creating" => made < provisioning.attempts
    /\ provisioning.at = "waiting" => provisioning.attempts < MaxTries
    /\ provider = "stripe" /\ made > 0 => made = 1 /\ <<"customer">> \in keys

\* A subscription begins when its session is paid, and nothing was asked of it before.
SubsOK == \A s \in Sessions :
    /\ session[s].at # "paid" => sub[s].status = "none"
    /\ sub[s].status = "none" => ~wish[s].ending

\* What a key answers was answered as done.
KeysOK == \A op \in Account!ForSubscription, p \in Prices \cup {None}, s \in Sessions \cup {None} :
    <<op, p, s>> \in keys => <<op, s, p>> \in done

\* One record of a function changed in one field is of its type.
Subscription == [status : {"none", "active", "canceled"}, price : Prices \cup {None},
                 ending : BOOLEAN]
Wish == [price : Prices \cup {None}, ending : BOOLEAN]

AccountInv ==
    AccountTyped /\ SendingOK /\ MadeOK /\ SubsOK /\ KeysOK /\ Account!AnswersHold

\* The module's Cardinality is that of the theorems on finite sets.
LEMMA SameCardinality == \A S : Account!Cardinality(S) = Cardinality(S)
BY DEF Account!Cardinality, Cardinality

LEMMA AccountInitial == Account!NamesAssumption /\ Account!Init => AccountInv
<1>. SUFFICES ASSUME Account!NamesAssumption, Account!Init
              PROVE  AccountInv
  OBVIOUS
<1>. USE DEF Account!NamesAssumption, Account!Init, Account!NoRow, Account!NoRef, Account!Ref,
             Account!NoSub, Account!NoCall
<1>1. AccountTyped
  <2>1. 0 \in 0..MaxEvents /\ 0 \in 0..MaxTries
    OBVIOUS
  <2>2. customer \in [exists : BOOLEAN, sub : Account!Refs, price : Prices \cup {None},
                 status : {"inactive", "active", "canceled"}, last : 0..MaxEvents]
    BY <2>1 DEF Account!Refs
  <2>3. request \in [Commands -> [at : {"idle", "asking"}, op : Account!Ops,
                            price : Prices \cup {None}, sub : Account!Refs]]
    BY DEF Account!Refs, Account!Ops
  <2>. QED  BY <2>1, <2>2, <2>3 DEF AccountTyped, Emitted, Account!TypeOK
<1>2. SendingOK
  BY FS_EmptySet, SameCardinality DEF SendingOK, Account!Sending
<1>3. MadeOK /\ SubsOK /\ KeysOK /\ Account!AnswersHold
  BY DEF MadeOK, SubsOK, KeysOK, Account!AnswersHold
<1>. QED  BY <1>1, <1>2, <1>3 DEF AccountInv

\* An event more, and an event less.
LEMMA SendingIs ==
    ASSUME Account!NamesAssumption, arrivals \in Nat, SendingOK
    PROVE  /\ Cardinality(sent) \in Nat /\ Account!Sending = arrivals + Cardinality(sent)
           /\ \A e : /\ IsFiniteSet(sent \cup {e}) /\ Cardinality(sent \cup {e}) \in Nat
                     /\ Cardinality(sent \cup {e}) <= Cardinality(sent) + 1
           /\ \A e \in sent : /\ IsFiniteSet(sent \ {e})
                              /\ Cardinality(sent \ {e}) = Cardinality(sent) - 1
                              /\ Cardinality(sent) > 0
<1>1. IsFiniteSet(sent) /\ Cardinality(sent) \in Nat /\ Account!Sending = arrivals + Cardinality(sent)
  BY SameCardinality, FS_CardinalityType DEF SendingOK, Account!Sending
<1>2. \A e : /\ IsFiniteSet(sent \cup {e}) /\ Cardinality(sent \cup {e}) \in Nat
             /\ Cardinality(sent \cup {e}) <= Cardinality(sent) + 1
  <2>. TAKE e
  <2>1. IsFiniteSet(sent \cup {e}) /\ Cardinality(sent \cup {e})
            = IF e \in sent THEN Cardinality(sent) ELSE Cardinality(sent) + 1
    BY <1>1, FS_AddElement
  <2>. QED  BY <1>1, <2>1
<1>3. \A e \in sent : /\ IsFiniteSet(sent \ {e})
                      /\ Cardinality(sent \ {e}) = Cardinality(sent) - 1
                      /\ Cardinality(sent) > 0
  <2>. TAKE e \in sent
  <2>1. IsFiniteSet(sent \ {e}) /\ Cardinality(sent \ {e}) = Cardinality(sent) - 1
    BY <1>1, FS_RemoveElement
  <2>2. Cardinality(sent \ {e}) \in Nat
    BY <2>1, FS_CardinalityType
  <2>. QED  BY <1>1, <2>1, <2>2
<1>. QED  BY <1>1, <1>2, <1>3

LEMMA SendingStep ==
    ASSUME Account!NamesAssumption, AccountTyped, SendingOK, [Account!Next]_(Account!vars)
    PROVE  SendingOK'
<1>0. arrivals \in Nat
  BY DEF AccountTyped, Account!TypeOK, Account!NamesAssumption
<1>1. ASSUME NEW e \in sent, Account!Arrive(e)
      PROVE  SendingOK'
  <2>1. sent' = sent \ {e} /\ arrivals' = arrivals + 1
    BY <1>1 DEF Account!Arrive
  <2>. QED  BY <1>0, <2>1, SendingIs, SameCardinality DEF SendingOK, Account!Sending
<1>2. ASSUME Account!Sending < MaxEvents, arrivals' = arrivals, NEW e, sent' = sent \cup {e}
      PROVE  SendingOK'
  <2>1. /\ IsFiniteSet(sent') /\ Cardinality(sent') \in Nat
        /\ Cardinality(sent') <= Cardinality(sent) + 1 /\ Cardinality(sent) \in Nat
        /\ Account!Sending = arrivals + Cardinality(sent)
    BY <1>0, <1>2, SendingIs
  <2>2. arrivals + Cardinality(sent') <= MaxEvents
    BY <1>0, <1>2, <2>1 DEF Account!NamesAssumption
  <2>. QED  BY <1>2, <2>1, <2>2, SameCardinality DEF SendingOK, Account!Sending
<1>3. ASSUME NEW s \in Sessions, Account!Pay(s)
      PROVE  SendingOK'
  <2>1. /\ Account!Sending + 1 < MaxEvents /\ arrivals' = arrivals
        /\ \E d, e : sent' \in {sent \cup {d}, (sent \cup {d}) \cup {e}}
    <3>. DEFINE d == [kind |-> "checkout", of |-> s, status |-> "complete", price |-> None]
                e == [kind |-> "created", of |-> s, status |-> "active", price |-> session[s].price]
    <3>1. /\ Account!Sending + 1 < MaxEvents /\ arrivals' = arrivals
          /\ sent' \in {sent \cup {d}, sent \cup {d, e}}
      BY <1>3 DEF Account!Pay
    <3>. HIDE DEF d, e
    <3>2. sent \cup {d, e} = (sent \cup {d}) \cup {e}
      OBVIOUS
    <3>. QED  BY <3>1, <3>2
  <2>2. PICK d, e : sent' \in {sent \cup {d}, (sent \cup {d}) \cup {e}}
    BY <2>1
  <2>3. /\ IsFiniteSet(sent \cup {d}) /\ Cardinality(sent \cup {d}) \in Nat
        /\ Cardinality(sent \cup {d}) <= Cardinality(sent) + 1 /\ Cardinality(sent) \in Nat
        /\ Account!Sending = arrivals + Cardinality(sent)
    BY <1>0, SendingIs
  <2>4. /\ IsFiniteSet((sent \cup {d}) \cup {e})
        /\ Cardinality((sent \cup {d}) \cup {e}) \in {Cardinality(sent \cup {d}), Cardinality(sent \cup {d}) + 1}
    BY <2>3, FS_AddElement
  <2>. QED  BY <1>0, <2>1, <2>2, <2>3, <2>4, SameCardinality
            DEF SendingOK, Account!Sending, Account!NamesAssumption
<1>4. ASSUME NEW c \in Commands, Account!SubscriptionSet(c), sent' # sent
      PROVE  SendingOK'
  BY <1>2, <1>4 DEF Account!SubscriptionSet, Account!Emits
<1>5. ASSUME NEW s \in Sessions, Account!Resume(s) \/ Account!PeriodEnds(s)
      PROVE  SendingOK'
  BY <1>2, <1>5 DEF Account!Resume, Account!PeriodEnds, Account!Emits
<1>6. ASSUME UNCHANGED <<sent, arrivals>>
      PROVE  SendingOK'
  BY <1>6 DEF SendingOK, Account!Sending
<1>7. ASSUME NEW c \in Commands, Account!SubscriptionSet(c)
      PROVE  arrivals' = arrivals
  BY <1>7 DEF Account!SubscriptionSet
<1>. QED
  BY <1>1, <1>3, <1>4, <1>5, <1>6, <1>7
  DEF Account!Next, Account!vars, Account!webhooks, Account!ProvisionStarts, Account!CustomerMade,
      Account!RowInserted, Account!ProvisionFails, Account!Command, Account!CommandEnds,
      Account!SessionMade, Account!Handle

LEMMA Fields ==
    /\ \A x \in Subscription, p \in Prices \cup {None} : /\ [x EXCEPT !.price = p] \in Subscription
                                                         /\ [x EXCEPT !.ending = TRUE] \in Subscription
                                                         /\ [x EXCEPT !.ending = FALSE] \in Subscription
                                                         /\ [x EXCEPT !.status = "canceled"] \in Subscription
    /\ \A x \in Wish, p \in Prices \cup {None} : /\ [x EXCEPT !.price = p] \in Wish
                                                 /\ [x EXCEPT !.ending = TRUE] \in Wish
                                                 /\ [x EXCEPT !.ending = FALSE] \in Wish
BY DEF Subscription, Wish

LEMMA AccountTypedStep ==
    ASSUME Account!NamesAssumption, AccountInv, SendingOK', [Account!Next]_(Account!vars)
    PROVE  AccountTyped'
<1>. USE DEF AccountInv, AccountTyped, Account!TypeOK, Account!history, Account!webhooks
<1>0. \A e \in sent : e \in Account!Events
  OBVIOUS
<1>1. CASE Account!ProvisionStarts
  <2>1. provisioning' \in [at : {"waiting", "creating", "inserting", "done", "failed"}, attempts : 0..MaxTries]
    BY <1>1 DEF Account!ProvisionStarts, MadeOK, Account!NamesAssumption
  <2>. QED  BY <1>1, <2>1 DEF Account!ProvisionStarts, Emitted
<1>2. CASE Account!CustomerMade
  <2>1. made' \in 0..MaxTries
    BY <1>2 DEF Account!CustomerMade, MadeOK, Account!NamesAssumption
  <2>. QED  BY <1>2, <2>1 DEF Account!CustomerMade, Emitted
<1>3. CASE Account!RowInserted \/ Account!ProvisionFails
  BY <1>3 DEF Account!RowInserted, Account!ProvisionFails, Emitted
<1>4. ASSUME NEW c \in Commands, NEW op \in Account!Ops, NEW p \in Prices \cup {None},
             Account!Command(c, op, p)
      PROVE  AccountTyped'
  BY <1>4 DEF Account!Command, Account!Refs, Account!Ref, Account!NoRef, Emitted
<1>5. ASSUME NEW c \in Commands, Account!CommandEnds(c) \/ \E s \in Sessions : Account!SessionMade(c, s)
      PROVE  AccountTyped'
  <2>1. Account!NoCall \in [at : {"idle", "asking"}, op : Account!Ops, price : Prices \cup {None},
                            sub : Account!Refs] /\ Account!NoCall.sub.kind = "none"
    BY DEF Account!NoCall, Account!Refs, Account!Ref, Account!NoRef, Account!Ops
  <2>2. CASE Account!CommandEnds(c)
    BY <2>1, <2>2 DEF Account!CommandEnds, Emitted
  <2>3. ASSUME NEW s \in Sessions, Account!SessionMade(c, s)
        PROVE  AccountTyped'
    BY <2>1, <2>3 DEF Account!SessionMade, Emitted
  <2>. QED  BY <1>5, <2>2, <2>3
<1>6. ASSUME NEW c \in Commands, Account!SubscriptionSet(c)
      PROVE  AccountTyped'
  <2>. DEFINE s == request[c].sub.of
  <2>1. s \in Sessions /\ request[c].price \in Prices \cup {None}
    BY <1>6 DEF Account!SubscriptionSet
  <2>. HIDE DEF s
  <2>2. /\ wish' \in [Sessions -> [price : Prices \cup {None}, ending : BOOLEAN]]
        /\ request' = [request EXCEPT ![c] = Account!NoCall]
        /\ UNCHANGED <<provider, made, provisioning, customer, session, inbox, arrivals>>
    <3>1. /\ wish[s] \in Wish /\ [wish[s] EXCEPT !.ending = TRUE] \in Wish
          /\ [wish[s] EXCEPT !.price = request[c].price] \in Wish
      <4>1. wish[s] \in Wish
        BY <2>1 DEF Wish
      <4>2. ASSUME NEW k \in Wish, NEW p \in Prices \cup {None}
            PROVE  [k EXCEPT !.ending = TRUE] \in Wish /\ [k EXCEPT !.price = p] \in Wish
        BY DEF Wish
      <4>. QED  BY <2>1, <4>1, <4>2
    <3>2. \/ wish' = [wish EXCEPT ![s] = [wish[s] EXCEPT !.ending = TRUE]]
          \/ wish' = [wish EXCEPT ![s] = [wish[s] EXCEPT !.price = request[c].price]]
      BY <1>6 DEF Account!SubscriptionSet, s
    <3>3. wish' \in [Sessions -> Wish]
      BY <3>1, <3>2 DEF Wish
    <3>. QED  BY <1>6, <3>3 DEF Account!SubscriptionSet, Wish
  <2>3. sub' \in [Sessions -> [status : {"none", "active", "canceled"}, price : Prices \cup {None},
                             ending : BOOLEAN]]
    <3>0. sub[s] \in Subscription
      BY <2>1 DEF Subscription
    <3>1. /\ [sub[s] EXCEPT !.ending = TRUE] \in Subscription
          /\ [sub[s] EXCEPT !.price = request[c].price] \in Subscription
      BY <2>1, <3>0, Fields
    <3>2. \/ sub' = sub
          \/ sub' = [sub EXCEPT ![s] = [sub[s] EXCEPT !.ending = TRUE]]
          \/ sub' = [sub EXCEPT ![s] = [sub[s] EXCEPT !.price = request[c].price]]
      BY <1>6 DEF Account!SubscriptionSet, s
    <3>. QED  BY <3>1, <3>2 DEF Subscription
  <2>4. \/ sent' = sent
        \/ sent' = sent \cup {[kind |-> "updated", of |-> s, status |-> "active", price |-> sub'[s].price]}
    BY <1>6 DEF Account!SubscriptionSet, Account!Emits, s
  <2>5. sent' \subseteq Account!Events /\ \A e \in sent' : e.kind # "checkout" => e.status # "complete"
    BY <2>1, <2>3, <2>4 DEF Account!Events, Emitted
  <2>6. /\ request' \in [Commands -> [at : {"idle", "asking"}, op : Account!Ops,
                               price : Prices \cup {None}, sub : Account!Refs]]
        /\ \A d \in Commands : request'[d].sub.kind # "none" => request'[d].sub.of \in Sessions
    BY <2>2 DEF Account!NoCall, Account!Refs, Account!Ref, Account!NoRef, Account!Ops
  <2>. QED  BY <2>2, <2>3, <2>5, <2>6 DEF Emitted
<1>7. ASSUME NEW s \in Sessions, Account!Pay(s)
      PROVE  AccountTyped'
  <2>1. session[s].price \in Prices \cup {None}
    OBVIOUS
  <2>2. session' \in [Sessions -> [at : {"none", "open", "paid"}, mode : {"payment", "subscription"},
                                  price : Prices \cup {None}]]
    BY <1>7 DEF Account!Pay
  <2>3. /\ sub' \in [Sessions -> [status : {"none", "active", "canceled"}, price : Prices \cup {None},
                                 ending : BOOLEAN]]
        /\ wish' \in [Sessions -> [price : Prices \cup {None}, ending : BOOLEAN]]
    <3>0. wish[s] \in Wish /\ sub \in [Sessions -> Subscription] /\ wish \in [Sessions -> Wish]
      BY DEF Wish, Subscription
    <3>1. [wish[s] EXCEPT !.price = session[s].price] \in Wish
      BY <2>1, <3>0, Fields
    <3>2. [status |-> "active", price |-> session[s].price, ending |-> FALSE] \in Subscription
      BY <2>1 DEF Subscription
    <3>3. \/ UNCHANGED <<sub, wish>>
          \/ /\ sub' = [sub EXCEPT ![s] = [status |-> "active", price |-> session[s].price,
                                           ending |-> FALSE]]
             /\ wish' = [wish EXCEPT ![s] = [wish[s] EXCEPT !.price = session[s].price]]
      BY <1>7 DEF Account!Pay
    <3>4. sub' \in [Sessions -> Subscription] /\ wish' \in [Sessions -> Wish]
      <4>. HIDE DEF AccountInv, AccountTyped, Account!TypeOK
      <4>. QED  BY <3>0, <3>1, <3>2, <3>3
    <3>. QED  BY <3>4 DEF Subscription, Wish
  <2>4. \A e \in sent' : \/ e \in sent
                         \/ e = [kind |-> "checkout", of |-> s, status |-> "complete", price |-> None]
                         \/ e = [kind |-> "created", of |-> s, status |-> "active",
                                price |-> session[s].price]
    BY <1>7 DEF Account!Pay
  <2>5. sent' \subseteq Account!Events /\ \A e \in sent' : e.kind # "checkout" => e.status # "complete"
    BY <2>1, <2>4 DEF Account!Events, Emitted
  <2>. QED  BY <1>7, <2>2, <2>3, <2>5 DEF Account!Pay, Emitted
<1>8. ASSUME NEW s \in Sessions, Account!Resume(s) \/ Account!PeriodEnds(s)
      PROVE  AccountTyped'
  <2>1. /\ sub' \in [Sessions -> [status : {"none", "active", "canceled"}, price : Prices \cup {None},
                                 ending : BOOLEAN]]
        /\ wish' \in [Sessions -> [price : Prices \cup {None}, ending : BOOLEAN]]
        /\ UNCHANGED <<provider, made, provisioning, customer, session, inbox, arrivals, request>>
    <3>1. /\ wish[s] \in Wish /\ wish \in [Sessions -> Wish]
          /\ sub[s] \in Subscription /\ sub \in [Sessions -> Subscription]
      BY DEF Wish, Subscription
    <3>2. /\ [sub[s] EXCEPT !.ending = FALSE] \in Subscription
          /\ [sub[s] EXCEPT !.status = "canceled"] \in Subscription
          /\ [wish[s] EXCEPT !.ending = FALSE] \in Wish
      BY <3>1, Fields
    <3>3. /\ sub' \in {[sub EXCEPT ![s] = [sub[s] EXCEPT !.ending = FALSE]],
                      [sub EXCEPT ![s] = [sub[s] EXCEPT !.status = "canceled"]]}
          /\ wish' \in {wish, [wish EXCEPT ![s] = [wish[s] EXCEPT !.ending = FALSE]]}
          /\ UNCHANGED <<provider, made, provisioning, customer, session, inbox, arrivals, request>>
      BY <1>8 DEF Account!Resume, Account!PeriodEnds
    <3>4. sub' \in [Sessions -> Subscription] /\ wish' \in [Sessions -> Wish]
      <4>. HIDE DEF AccountInv, AccountTyped, Account!TypeOK
      <4>. QED  BY <3>1, <3>2, <3>3
    <3>. QED  BY <3>3, <3>4 DEF Subscription, Wish
  <2>2. PICK kind \in {"updated", "cancelled"}, status \in {"active", "canceled"} :
            sent' = sent \cup {[kind |-> kind, of |-> s, status |-> status, price |-> sub[s].price]}
    BY <1>8 DEF Account!Resume, Account!PeriodEnds, Account!Emits
  <2>3. sent' \subseteq Account!Events /\ \A e \in sent' : e.kind # "checkout" => e.status # "complete"
    BY <2>2 DEF Account!Events, Emitted
  <2>. QED  BY <2>1, <2>3 DEF Emitted
<1>9. ASSUME NEW e \in sent, Account!Arrive(e)
      PROVE  AccountTyped'
  <2>1. /\ sent' = sent \ {e} /\ arrivals' = arrivals + 1
        /\ inbox' = inbox \cup {[event |-> e, stamp |-> arrivals + 1]}
        /\ UNCHANGED <<provider, made, provisioning, customer, session, sub, request, wish>>
    BY <1>9 DEF Account!Arrive
  <2>2. arrivals' \in 1..MaxEvents
    <3>1. IsFiniteSet(sent') /\ Account!Sending' <= MaxEvents /\ Cardinality(sent') \in Nat
      BY FS_CardinalityType DEF SendingOK
    <3>. QED  BY <2>1, <3>1, SameCardinality DEF Account!Sending, Account!NamesAssumption
  <2>3. Emitted' \subseteq Emitted
    BY <2>1 DEF Emitted
  <2>4. [event |-> e, stamp |-> arrivals + 1] \in [event : Account!Events, stamp : 1..MaxEvents]
    BY <1>0, <2>1, <2>2
  <2>. QED  BY <2>1, <2>2, <2>3, <2>4
<1>10. ASSUME NEW i \in inbox, Account!Handle(i)
      PROVE  AccountTyped'
  <2>1. Emitted' \subseteq Emitted
    BY <1>10 DEF Account!Handle, Emitted
  <2>2. /\ i.event \in Account!Events /\ i.stamp \in 0..MaxEvents
        /\ i.event.kind # "checkout" => i.event.status # "complete"
    BY DEF Emitted, Account!NamesAssumption
  <2>3. customer' \in {customer, Account!Written(i.event, i.stamp)}
    BY <1>10 DEF Account!Handle
  <2>4. /\ Account!SubscriptionId(i.event) \in Account!Refs
        /\ Account!SubscriptionId(i.event).of \in Sessions
    BY <2>2 DEF Account!SubscriptionId, Account!Ref, Account!Refs, Account!Events
  <2>5. /\ customer' \in [exists : BOOLEAN, sub : Account!Refs, price : Prices \cup {None},
                     status : {"inactive", "active", "canceled"}, last : 0..MaxEvents]
        /\ customer'.sub.kind # "none" => customer'.sub.of \in Sessions
    <3>. HIDE DEF Account!SubscriptionId
    <3>1. CASE customer' = customer
      BY <3>1
    <3>2. CASE i.event.kind = "checkout" /\ customer' = [customer EXCEPT !.sub = Account!SubscriptionId(i.event),
                                                !.status = "active", !.last = arrivals]
      BY <2>4, <3>2
    <3>3. CASE customer' = [customer EXCEPT !.status = "canceled", !.last = i.stamp]
      BY <2>2, <3>3
    <3>4. CASE i.event.kind # "checkout" /\ customer' = [customer EXCEPT !.sub = Account!SubscriptionId(i.event),
                          !.price = i.event.price, !.status = i.event.status, !.last = i.stamp]
      BY <2>2, <2>4, <3>4 DEF Account!Events
    <3>. QED  BY <2>2, <2>3, <3>1, <3>2, <3>3, <3>4 DEF Account!Written
  <2>. QED  BY <1>10, <2>1, <2>5 DEF Account!Handle
<1>11. CASE UNCHANGED Account!vars
  BY <1>11 DEF Account!vars, Emitted
<1>. QED
  BY <1>1, <1>2, <1>3, <1>4, <1>5, <1>6, <1>7, <1>8, <1>9, <1>10, <1>11 DEF Account!Next

LEMMA MadeStep ==
    ASSUME Account!NamesAssumption, AccountInv, [Account!Next]_(Account!vars)
    PROVE  MadeOK'
<1>. USE DEF AccountInv, AccountTyped, Account!TypeOK, MadeOK, Account!NamesAssumption
<1>1. CASE Account!ProvisionStarts
  BY <1>1 DEF Account!ProvisionStarts
<1>2. CASE Account!CustomerMade
  BY <1>2 DEF Account!CustomerMade
<1>3. CASE Account!RowInserted \/ Account!ProvisionFails
  BY <1>3 DEF Account!RowInserted, Account!ProvisionFails
<1>4. ASSUME UNCHANGED <<provider, made, provisioning>>, keys \subseteq keys'
      PROVE  MadeOK'
  BY <1>4
<1>5. ASSUME NEW c \in Commands, Account!SubscriptionSet(c)
      PROVE  MadeOK'
  BY <1>4, <1>5 DEF Account!SubscriptionSet
<1>. QED
  BY <1>1, <1>2, <1>3, <1>4, <1>5
  DEF Account!Next, Account!vars, Account!Command, Account!CommandEnds,
      Account!SessionMade, Account!Pay, Account!Resume, Account!PeriodEnds, Account!Arrive, Account!Handle

\* What one subscription's part in these is.
SubscriptionOK(s) ==
    /\ session[s].at # "paid" => sub[s].status = "none"
    /\ sub[s].status = "none" => ~wish[s].ending
    /\ s \notin again /\ sub[s].status = "active" => /\ sub[s].ending = wish[s].ending
                                                     /\ sub[s].price = wish[s].price

LEMMA OneSubscription ==
    ASSUME NEW s \in Sessions, SubsOK, Account!AnswersHold, again \subseteq again', SubscriptionOK(s)',
           \A z \in Sessions \ {s} : session'[z] = session[z] /\ sub'[z] = sub[z] /\ wish'[z] = wish[z]
    PROVE  SubsOK' /\ Account!AnswersHold'
<1>1. \A z \in Sessions : SubscriptionOK(z)
  BY DEF SubsOK, Account!AnswersHold, SubscriptionOK
<1>2. \A z \in Sessions \ {s} : SubscriptionOK(z)'
  <2>. TAKE z \in Sessions \ {s}
  <2>1. z \notin again' => z \notin again
    OBVIOUS
  <2>. QED  BY <1>1, <2>1 DEF SubscriptionOK
<1>3. \A z \in Sessions : SubscriptionOK(z)'
  BY <1>2
<1>. QED  BY <1>3 DEF SubsOK, Account!AnswersHold, SubscriptionOK

LEMMA SubscriptionsStep ==
    ASSUME Account!NamesAssumption, AccountInv, [Account!Next]_(Account!vars)
    PROVE  SubsOK' /\ Account!AnswersHold'
<1>. USE DEF AccountInv, AccountTyped, Account!TypeOK, SubsOK, Account!AnswersHold
<1>1. ASSUME NEW c \in Commands, Account!SubscriptionSet(c)
      PROVE  SubsOK' /\ Account!AnswersHold'
  <2>0. PICK s \in Sessions : s = request[c].sub.of
    BY <1>1 DEF Account!SubscriptionSet
  <2>1. sub[s].status = "active" /\ session' = session
    BY <1>1, <2>0 DEF Account!SubscriptionSet
  <2>2. CASE Account!Key(c) \in keys
    <3>1. <<request[c].op, s, request[c].price>> \in done
      BY <1>1, <2>0, <2>1, <2>2 DEF KeysOK, Account!Key, Account!SubscriptionSet
    <3>2. sub' = sub /\ again' = again \cup {s} /\ \A z \in Sessions \ {s} : wish'[z] = wish[z]
      BY <1>1, <2>0, <2>2, <3>1 DEF Account!SubscriptionSet
    <3>3. SubscriptionOK(s)'
      BY <2>1, <3>2 DEF SubscriptionOK
    <3>4. \A z \in Sessions \ {s} : session'[z] = session[z] /\ sub'[z] = sub[z] /\ wish'[z] = wish[z]
      BY <2>1, <3>2
    <3>. HIDE DEF AccountTyped, Account!TypeOK, SubsOK, Account!AnswersHold
    <3>. QED  BY <3>2, <3>3, <3>4, OneSubscription
  <2>3. CASE Account!Key(c) \notin keys
    <3>1. /\ sub' = IF request[c].op = "cancel" THEN [sub EXCEPT ![s].ending = TRUE]
                                             ELSE [sub EXCEPT ![s].price = request[c].price]
          /\ wish' = IF request[c].op = "cancel" THEN [wish EXCEPT ![s].ending = TRUE]
                                              ELSE [wish EXCEPT ![s].price = request[c].price]
          /\ again \subseteq again'
      BY <1>1, <2>0, <2>3 DEF Account!SubscriptionSet
    <3>2. \A z \in Sessions \ {s} : sub'[z] = sub[z] /\ wish'[z] = wish[z]
      BY <2>1, <3>1
    <3>3. /\ sub'[s].status = "active" /\ session'[s].at = "paid"
          /\ s \notin again' => sub[s].ending = wish[s].ending /\ sub[s].price = wish[s].price
      BY <2>1, <3>1
    <3>4. CASE request[c].op = "cancel"
      <4>1. /\ sub'[s].ending = TRUE /\ sub'[s].price = sub[s].price
            /\ wish'[s].ending = TRUE /\ wish'[s].price = wish[s].price
        BY <2>1, <3>1, <3>4
      <4>2. SubscriptionOK(s)'
        BY <3>3, <4>1 DEF SubscriptionOK
      <4>3. \A z \in Sessions \ {s} : session'[z] = session[z] /\ sub'[z] = sub[z] /\ wish'[z] = wish[z]
        BY <2>1, <3>2
      <4>. HIDE DEF AccountTyped, Account!TypeOK, SubsOK, Account!AnswersHold
      <4>. QED  BY <2>1, <3>1, <4>2, <4>3, OneSubscription
    <3>5. CASE request[c].op # "cancel"
      <4>1. /\ sub'[s].ending = sub[s].ending /\ sub'[s].price = request[c].price
            /\ wish'[s].ending = wish[s].ending /\ wish'[s].price = request[c].price
        BY <2>1, <3>1, <3>5
      <4>2. SubscriptionOK(s)'
        BY <3>3, <4>1 DEF SubscriptionOK
      <4>3. \A z \in Sessions \ {s} : session'[z] = session[z] /\ sub'[z] = sub[z] /\ wish'[z] = wish[z]
        BY <2>1, <3>2
      <4>. HIDE DEF AccountTyped, Account!TypeOK, SubsOK, Account!AnswersHold
      <4>. QED  BY <2>1, <3>1, <4>2, <4>3, OneSubscription
    <3>. QED  BY <3>4, <3>5
  <2>. QED  BY <2>2, <2>3
<1>2. ASSUME NEW s \in Sessions, Account!Pay(s)
      PROVE  SubsOK' /\ Account!AnswersHold'
  <2>1. /\ session[s].at = "open" /\ session' = [session EXCEPT ![s].at = "paid"] /\ again' = again
        /\ \/ UNCHANGED <<sub, wish>>
           \/ /\ sub' = [sub EXCEPT ![s] = [status |-> "active", price |-> session[s].price,
                                             ending |-> FALSE]]
              /\ wish' = [wish EXCEPT ![s].price = session[s].price]
    BY <1>2 DEF Account!Pay
  <2>2. sub[s].status = "none" /\ wish[s].ending = FALSE
    BY <2>1
  <2>3. /\ session'[s].at = "paid"
        /\ \A z \in Sessions \ {s} : /\ session'[z] = session[z] /\ sub'[z] = sub[z]
                                     /\ wish'[z] = wish[z]
    BY <2>1
  <2>4. \/ sub'[s] = sub[s] /\ wish'[s] = wish[s]
        \/ /\ sub'[s].status = "active" /\ sub'[s].ending = FALSE /\ sub'[s].price = session[s].price
           /\ wish'[s].ending = FALSE /\ wish'[s].price = session[s].price
    BY <2>1, <2>2
  <2>5. SubscriptionOK(s)'
    BY <2>1, <2>2, <2>3, <2>4 DEF SubscriptionOK
  <2>. QED  BY <2>1, <2>3, <2>5, OneSubscription
<1>3. ASSUME NEW s \in Sessions, Account!Resume(s)
      PROVE  SubsOK' /\ Account!AnswersHold'
  <2>1. /\ sub[s].status = "active" /\ sub' = [sub EXCEPT ![s].ending = FALSE]
        /\ wish' = [wish EXCEPT ![s].ending = FALSE] /\ UNCHANGED <<session, again>>
    BY <1>3 DEF Account!Resume, Account!history
  <2>2. \A z \in Sessions \ {s} : sub'[z] = sub[z] /\ wish'[z] = wish[z]
    BY <2>1
  <2>3. /\ sub'[s].status = "active" /\ sub'[s].ending = FALSE /\ sub'[s].price = sub[s].price
        /\ wish'[s].ending = FALSE /\ wish'[s].price = wish[s].price
    BY <2>1
  <2>4. SubscriptionOK(s)'
    BY <2>1, <2>3 DEF SubscriptionOK
  <2>. QED  BY <2>1, <2>2, <2>4, OneSubscription
<1>4. ASSUME NEW s \in Sessions, Account!PeriodEnds(s)
      PROVE  SubsOK' /\ Account!AnswersHold'
  BY <1>4 DEF Account!PeriodEnds, Account!history
<1>5. ASSUME NEW c \in Commands, NEW s \in Sessions, Account!SessionMade(c, s)
      PROVE  SubsOK' /\ Account!AnswersHold'
  BY <1>5 DEF Account!SessionMade, Account!history
<1>6. ASSUME UNCHANGED <<session, sub, again, wish>>
      PROVE  SubsOK' /\ Account!AnswersHold'
  BY <1>6
<1>. QED
  BY <1>1, <1>2, <1>3, <1>4, <1>5, <1>6
  DEF Account!Next, Account!vars, Account!history, Account!Command, Account!CommandEnds,
      Account!ProvisionStarts, Account!CustomerMade, Account!RowInserted, Account!ProvisionFails,
      Account!Arrive, Account!Handle

LEMMA KeysStep ==
    ASSUME Account!NamesAssumption, AccountInv, [Account!Next]_(Account!vars)
    PROVE  KeysOK'
<1>1. CASE Account!CustomerMade
  <2>1. done' = done /\ keys' \subseteq keys \cup {<<"customer">>}
    BY <1>1 DEF Account!CustomerMade, Account!history
  <2>2. \A x, y, z : <<x, y, z>> # <<"customer">>
    OBVIOUS
  <2>. QED  BY <2>1, <2>2 DEF AccountInv, KeysOK
<1>2. ASSUME NEW c \in Commands, Account!SubscriptionSet(c)
      PROVE  KeysOK'
  <2>1. /\ keys' \subseteq keys \cup {<<request[c].op, request[c].price, request[c].sub.of>>}
        /\ done' = done \cup {<<request[c].op, request[c].sub.of, request[c].price>>}
    BY <1>2 DEF Account!SubscriptionSet, Account!Key
  <2>. QED  BY <2>1 DEF AccountInv, KeysOK
<1>3. ASSUME UNCHANGED <<keys, done>>
      PROVE  KeysOK'
  BY <1>3 DEF AccountInv, KeysOK
<1>. QED
  BY <1>1, <1>2, <1>3
  DEF Account!Next, Account!vars, Account!history, Account!Command, Account!CommandEnds,
      Account!ProvisionStarts, Account!RowInserted, Account!ProvisionFails, Account!SessionMade,
      Account!Pay, Account!Resume, Account!PeriodEnds, Account!Arrive, Account!Handle

\* BillingAccount by itself.
LEMMA AccountIsHeld ==
    ASSUME Account!NamesAssumption
    PROVE  Account!Spec => []Account!AccountHolds
<1>1. Account!Init => AccountInv
  BY AccountInitial
<1>2. AccountInv /\ [Account!Next]_(Account!vars) => AccountInv'
  <2>. SUFFICES ASSUME AccountInv, [Account!Next]_(Account!vars)
                PROVE  AccountInv'
    OBVIOUS
  <2>1. SendingOK'
    BY SendingStep DEF AccountInv
  <2>. QED  BY <2>1, AccountTypedStep, MadeStep, SubscriptionsStep, KeysStep DEF AccountInv
<1>3. AccountInv => Account!AccountHolds
  BY DEF AccountInv, AccountTyped, MadeOK, Account!TypeOK, Account!OneCustomer,
     Account!AccountHolds
<1>. QED  BY <1>1, <1>2, <1>3, PTL DEF Account!Spec
-----------------------------------------------------------------------------
(***************************************************************************)
(* NotificationFanout.                                                     *)
(***************************************************************************)
\* A job that is going on has attempts left, and a delivery's was added for its row once
\* its call had written all of them.
JobsOK ==
    /\ \A m \in Fan!Mails : mailJob[m].state \in {"waiting", "active"} => mailJob[m].made < MaxAttempts
    /\ \A d \in Fan!Deliveries : mailJob[d].state # "none" => mailRow[d] # "none"
    /\ \A c \in Calls, u \in Users :
          call[c].pc \in {"idle", "gate", "loop", "queue"} => mailJob[<<c, u>>] = Fan!NoJob

\* A run has a mail, of which the row is there, and the lock of its job alone.
RunsOK ==
    /\ \A r \in Runs : run[r].pc # "idle" =>
          /\ run[r].mail \in Fan!Mails
          /\ run[r].mail \in Fan!Deliveries => mailRow[run[r].mail] # "none"
          /\ run[r].pc # "send" => run[r].mail \in Fan!Deliveries
    /\ \A r \in Runs : run[r].locked => run[r].pc # "idle" /\ mailJob[run[r].mail].state = "active"
    /\ \A r, s \in Runs : run[r].locked /\ run[s].locked /\ run[r].mail = run[s].mail => r = s

\* What the gate will see, and what it saw; who is still to come has no rows.
CallOK(c) ==
    /\ call[c].pc = "gate" => /\ ~Fan!Bypasses(call[c].kind) /\ call[c].to = call[c].all
                              /\ firmly[c] \subseteq optedOut /\ optedOut \cap call[c].all \subseteq ever[c]
    /\ call[c].pc \in {"loop", "queue", "done"} =>
          /\ call[c].muted \subseteq ever[c]
          /\ Fan!Bypasses(call[c].kind) => call[c].muted = {}
          /\ ~Fan!Bypasses(call[c].kind) => firmly[c] \cap call[c].all \subseteq call[c].muted
    /\ call[c].pc \in {"idle", "gate"} => \A u \in Users : mailRow[<<c, u>>] = "none"
    /\ call[c].pc = "loop" => \A u \in call[c].to : mailRow[<<c, u>>] = "none"
    /\ call[c].pc = "queue" => call[c].to = {}

CallsOK == \A c \in Calls : CallOK(c)

MailsInv == Fan!TypeOK /\ JobsOK /\ RunsOK /\ CallsOK /\ Fan!NoMailForgotten /\ Fan!GateHonoured

LEMMA MailsInitial == Fan!NamesAssumption /\ Fan!Init => MailsInv
<1>. SUFFICES ASSUME Fan!NamesAssumption, Fan!Init
              PROVE  MailsInv
  OBVIOUS
<1>. USE DEF Fan!NamesAssumption, Fan!Init, Fan!NoCall, Fan!NoMail, Fan!IdleRun
<1>1. \A d \in Fan!Deliveries : d \in Fan!Mails
  BY DEF Fan!Mails
<1>2. \A c \in Calls, u \in Users : <<c, u>> \in Fan!Deliveries
  BY DEF Fan!Deliveries
<1>3. Fan!TypeOK
  <2>1. Fan!NoJob \in Fan!Job
    BY DEF Fan!NoJob, Fan!Job, Fan!CreateQueueAttempts, Fan!MaxStalls
  <2>. QED  BY <2>1 DEF Fan!TypeOK, Fan!Kinds
<1>4. JobsOK
  BY <1>1, <1>2 DEF JobsOK, Fan!NoJob
<1>5. RunsOK /\ CallsOK
  BY <1>2 DEF RunsOK, CallsOK, CallOK
<1>6. Fan!NoMailForgotten /\ Fan!GateHonoured
  BY <1>2 DEF Fan!NoMailForgotten, Fan!GateHonoured
<1>. QED  BY <1>3, <1>4, <1>5, <1>6 DEF MailsInv

\* What a job comes to.
LEMMA JobsBecome ==
    ASSUME Fan!NamesAssumption, NEW j \in Fan!Job
    PROVE  /\ Fan!NoJob \in Fan!Job /\ Fan!NoJob.state = "none"
           /\ Fan!AddedJob \in Fan!Job /\ Fan!AddedJob.state = "waiting" /\ Fan!AddedJob.made = 0
           /\ Fan!Taken(j) \in Fan!Job /\ Fan!Taken(j).state = "active" /\ Fan!Taken(j).made = j.made
           /\ Fan!Ended(Fan!Returned(j)) \in Fan!Job /\ Fan!Ended(Fan!Returned(j)).state = "completed"
           /\ j.made < MaxAttempts =>
                LET k == Fan!Ended(Fan!Thrown(j, MaxAttempts))
                IN  /\ k \in Fan!Job /\ k.state \in {"waiting", "failed"}
                    /\ k.state = "waiting" => k.made < MaxAttempts
           /\ LET k == Fan!Ended(Fan!Stalled(j))
              IN  /\ k \in Fan!Job /\ k.state \in {"waiting", "failed"}
                  /\ k.state = "waiting" => k.made = j.made
<1>0. /\ j = [state |-> j.state, made |-> j.made, stalls |-> j.stalls]
      /\ j.made \in 0..3 /\ j.stalls \in 0..1 /\ MaxAttempts \in 1..3
  BY DEF Fan!Job, Fan!CreateQueueAttempts, Fan!MaxStalls, Fan!NamesAssumption
<1>1. /\ \A s \in {"none", "waiting", "active", "completed", "failed"}, n \in 0..3, k \in 0..1 :
            [state |-> s, made |-> n, stalls |-> k] \in Fan!Job
  BY DEF Fan!Job, Fan!CreateQueueAttempts, Fan!MaxStalls
<1>2. \A s \in {"none", "waiting", "active", "completed", "failed"} :
         [Fan!NoJob EXCEPT !.state = s] = [state |-> s, made |-> 0, stalls |-> 0]
  BY DEF Fan!NoJob
<1>3. \A s, n, k : Fan!Ended([state |-> s, made |-> n, stalls |-> k])
                 = IF s \in {"completed", "failed"} THEN [state |-> s, made |-> 0, stalls |-> 0]
                   ELSE [state |-> s, made |-> n, stalls |-> k]
  BY <1>2 DEF Fan!Ended
<1>4. /\ Fan!NoJob = [state |-> "none", made |-> 0, stalls |-> 0]
      /\ Fan!AddedJob = [state |-> "waiting", made |-> 0, stalls |-> 0]
  BY <1>2 DEF Fan!NoJob, Fan!AddedJob
<1>5. /\ Fan!Taken(j) = [state |-> "active", made |-> j.made, stalls |-> j.stalls]
      /\ Fan!Returned(j) = [state |-> "completed", made |-> j.made, stalls |-> j.stalls]
  BY <1>0 DEF Fan!Taken, Fan!Returned
<1>6. Fan!Thrown(j, MaxAttempts) =
        [state |-> IF j.made + 1 < MaxAttempts THEN "waiting" ELSE "failed",
         made |-> j.made + 1, stalls |-> j.stalls]
  <2>. DEFINE k == [j EXCEPT !.made = j.made + 1]
  <2>1. k = [state |-> j.state, made |-> j.made + 1, stalls |-> j.stalls]
    BY <1>0
  <2>2. Fan!Thrown(j, MaxAttempts) =
          [k EXCEPT !.state = IF j.made + 1 < MaxAttempts THEN "waiting" ELSE "failed"]
    BY DEF Fan!Thrown
  <2>. HIDE DEF k
  <2>. QED  BY <2>1, <2>2
<1>7. Fan!Stalled(j) = IF j.stalls < 1
                       THEN [state |-> "waiting", made |-> j.made, stalls |-> j.stalls + 1]
                       ELSE [state |-> "failed", made |-> j.made, stalls |-> j.stalls]
  <2>1. CASE j.stalls < 1
    <3>. DEFINE k == [j EXCEPT !.state = "waiting"]
    <3>1. k = [state |-> "waiting", made |-> j.made, stalls |-> j.stalls]
      BY <1>0
    <3>2. Fan!Stalled(j) = [k EXCEPT !.stalls = j.stalls + 1]
      BY <2>1 DEF Fan!Stalled, Fan!MaxStalls
    <3>. HIDE DEF k
    <3>. QED  BY <2>1, <3>1, <3>2
  <2>2. CASE ~(j.stalls < 1)
    <3>1. Fan!Stalled(j) = [j EXCEPT !.state = "failed"]
      BY <2>2 DEF Fan!Stalled, Fan!MaxStalls
    <3>. QED  BY <1>0, <2>2, <3>1
  <2>. QED  BY <2>1, <2>2
<1>. HIDE DEF Fan!NoJob
<1>8. /\ Fan!Taken(j) \in Fan!Job /\ Fan!Taken(j).state = "active" /\ Fan!Taken(j).made = j.made
  BY <1>0, <1>1, <1>5
<1>9. Fan!Ended(Fan!Returned(j)) \in Fan!Job /\ Fan!Ended(Fan!Returned(j)).state = "completed"
  BY <1>1, <1>3, <1>5
<1>10. j.made < MaxAttempts =>
                LET k == Fan!Ended(Fan!Thrown(j, MaxAttempts))
                IN  /\ k \in Fan!Job /\ k.state \in {"waiting", "failed"}
                    /\ k.state = "waiting" => k.made < MaxAttempts
  <2>. SUFFICES ASSUME j.made < MaxAttempts
                PROVE  LET k == Fan!Ended(Fan!Thrown(j, MaxAttempts))
                       IN  /\ k \in Fan!Job /\ k.state \in {"waiting", "failed"}
                           /\ k.state = "waiting" => k.made < MaxAttempts
    OBVIOUS
  <2>1. CASE j.made + 1 < MaxAttempts
    <3>1. Fan!Ended(Fan!Thrown(j, MaxAttempts)) = [state |-> "waiting", made |-> j.made + 1, stalls |-> j.stalls]
      BY <1>3, <1>6, <2>1
    <3>. QED  BY <1>0, <1>1, <2>1, <3>1
  <2>2. CASE ~(j.made + 1 < MaxAttempts)
    <3>1. Fan!Ended(Fan!Thrown(j, MaxAttempts)) = [state |-> "failed", made |-> 0, stalls |-> 0]
      BY <1>3, <1>6, <2>2
    <3>. QED  BY <1>1, <3>1
  <2>. QED  BY <2>1, <2>2
<1>11. LET k == Fan!Ended(Fan!Stalled(j))
       IN  /\ k \in Fan!Job /\ k.state \in {"waiting", "failed"}
           /\ k.state = "waiting" => k.made = j.made
  <2>1. CASE j.stalls < 1
    <3>1. Fan!Ended(Fan!Stalled(j)) = [state |-> "waiting", made |-> j.made, stalls |-> j.stalls + 1]
      BY <1>3, <1>7, <2>1
    <3>. QED  BY <1>0, <1>1, <2>1, <3>1
  <2>2. CASE ~(j.stalls < 1)
    <3>1. Fan!Ended(Fan!Stalled(j)) = [state |-> "failed", made |-> 0, stalls |-> 0]
      BY <1>3, <1>7, <2>2
    <3>. QED  BY <1>1, <3>1
  <2>. QED  BY <2>1, <2>2
<1>. QED  BY <1>1, <1>4, <1>8, <1>9, <1>10, <1>11

CallState == [pc : {"idle", "gate", "loop", "queue", "done", "broken"}, kind : Fan!Kinds,
              all : SUBSET Users, to : SUBSET Users, muted : SUBSET Users]
RowStates == {"none", "pending"} \cup Fan!Outcomes
RunState == [pc : {"idle", "send"} \cup Fan!Outcomes, mail : Fan!Mails \cup {Fan!NoMail},
             locked : BOOLEAN]

\* What the runs and the queue may do to rows and jobs: a row that is there gets an
\* outcome, a job that goes on gets further, and completes when its mail has its outcome.
RunsWrite ==
    /\ UNCHANGED <<optedOut, call, firmly, ever>>
    /\ mailRow' \in [Fan!Deliveries -> RowStates] /\ mailJob' \in [Fan!Mails -> Fan!Job]
    /\ \A d \in Fan!Deliveries : mailRow'[d] = mailRow[d] \/ (mailRow[d] # "none" /\ mailRow'[d] \in Fan!Outcomes)
    /\ \A m \in Fan!Mails : mailJob'[m] # mailJob[m] =>
          /\ mailJob[m].state \in {"waiting", "active"} /\ mailJob'[m].state # "none"
          /\ mailJob'[m].state \in {"waiting", "active"} => mailJob'[m].made < MaxAttempts
          /\ mailJob'[m].state = "completed" => (m \in Fan!Deliveries => mailRow'[m] # "pending")

LEMMA RunsKeep ==
    ASSUME MailsInv, RunsWrite, run' \in [Runs -> RunState]
    PROVE  Fan!TypeOK' /\ JobsOK' /\ CallsOK' /\ Fan!NoMailForgotten' /\ Fan!GateHonoured'
<1>0. UNCHANGED <<optedOut, call, firmly, ever>>
  BY DEF RunsWrite
<1>1. \A d \in Fan!Deliveries : /\ d \in Fan!Mails
                                /\ mailRow'[d] = "none" <=> mailRow[d] = "none"
                                /\ mailRow'[d] = "pending" => mailRow[d] = "pending"
  <2>. TAKE d \in Fan!Deliveries
  <2>1. mailRow'[d] = mailRow[d] \/ (mailRow[d] # "none" /\ mailRow'[d] \in {"sent", "failed", "skipped"})
    BY DEF RunsWrite, Fan!Outcomes
  <2>. QED  BY <2>1 DEF Fan!Mails
<1>2. \A c \in Calls, u \in Users : <<c, u>> \in Fan!Deliveries
  BY DEF Fan!Deliveries
<1>3. \A m \in Fan!Mails : /\ mailJob[m] = Fan!NoJob => mailJob'[m] = mailJob[m]
                           /\ mailJob[m].state # "none" => mailJob'[m].state # "none"
                           /\ mailJob'[m].state # "none" => mailJob[m].state # "none"
  BY DEF RunsWrite, Fan!NoJob
<1>4. Fan!TypeOK'
  BY DEF MailsInv, RunsWrite, Fan!TypeOK, RunState, RowStates
<1>5. JobsOK'
  <2>1. \A m \in Fan!Mails : mailJob'[m].state \in {"waiting", "active"} => mailJob'[m].made < MaxAttempts
    BY DEF MailsInv, RunsWrite, JobsOK
  <2>2. \A d \in Fan!Deliveries : mailJob'[d].state # "none" => mailRow'[d] # "none"
    BY <1>1, <1>3 DEF MailsInv, JobsOK
  <2>3. \A c \in Calls, u \in Users :
          call'[c].pc \in {"idle", "gate", "loop", "queue"} => mailJob'[<<c, u>>] = Fan!NoJob
    <3>. TAKE c \in Calls, u \in Users
    <3>1. <<c, u>> \in Fan!Mails
      BY <1>1, <1>2
    <3>. QED  BY <1>0, <1>3, <3>1 DEF MailsInv, JobsOK
  <2>. QED  BY <2>1, <2>2, <2>3 DEF JobsOK
<1>6. CallsOK'
  <2>1. \A c \in Calls : \A u \in call[c].to : u \in Users
    BY DEF MailsInv, Fan!TypeOK
  <2>. QED  BY <1>0, <1>1, <1>2, <2>1 DEF MailsInv, CallsOK, CallOK
<1>7. Fan!NoMailForgotten'
  <2>. SUFFICES ASSUME NEW d \in Fan!Deliveries, mailRow'[d] = "pending"
                PROVE  \/ call[d[1]].pc \in {"loop", "queue", "broken"}
                       \/ mailJob'[d].state \in {"waiting", "active", "failed"}
    BY <1>0 DEF Fan!NoMailForgotten
  <2>1. mailRow[d] = "pending" /\ d \in Fan!Mails
    BY <1>1
  <2>2. \/ call[d[1]].pc \in {"loop", "queue", "broken"}
        \/ mailJob[d].state \in {"waiting", "active", "failed"}
    BY <2>1 DEF MailsInv, Fan!NoMailForgotten
  <2>3. mailJob'[d] # mailJob[d] => mailJob'[d].state # "none" /\ mailJob'[d].state # "completed"
    BY <2>1 DEF RunsWrite
  <2>4. mailJob'[d].state \in {"none", "waiting", "active", "completed", "failed"}
    BY <2>1 DEF RunsWrite, Fan!Job
  <2>. QED  BY <2>2, <2>3, <2>4
<1>8. Fan!GateHonoured'
  <2>1. \A c \in Calls : \A u \in call[c].all : u \in Users
    BY DEF MailsInv, Fan!TypeOK
  <2>2. \A c \in Calls, u \in Users : mailRow'[<<c, u>>] = "none" <=> mailRow[<<c, u>>] = "none"
    BY <1>1, <1>2
  <2>3. \A c \in Calls : \A u \in call[c].all \ call[c].to :
          mailRow'[<<c, u>>] = "none" <=> mailRow[<<c, u>>] = "none"
    BY <2>1, <2>2
  <2>. QED  BY <1>0, <2>3 DEF MailsInv, Fan!GateHonoured
<1>. QED  BY <1>4, <1>5, <1>6, <1>7, <1>8

\* A run that leaves its handler: what becomes of its job, if it still has the lock.
Leaves(r, states) ==
    /\ run' = [run EXCEPT ![r] = Fan!IdleRun]
    /\ mailJob' \in [Fan!Mails -> Fan!Job]
    /\ \A m \in Fan!Mails : mailJob'[m] # mailJob[m] =>
          /\ run[r].locked /\ run[r].mail = m /\ mailJob'[m].state \in states
          /\ mailJob'[m].state = "waiting" => mailJob'[m].made < MaxAttempts

LEMMA RunLeaves ==
    ASSUME Fan!NamesAssumption, MailsInv, NEW r \in Runs, run[r].pc # "idle"
    PROVE  /\ Fan!Record(r) => Leaves(r, {"completed"})
           /\ Fan!Throw(r) => Leaves(r, {"waiting", "failed"})
           /\ \A outcome \in Fan!Outcomes : Fan!Send(r, outcome) /\ run[r].mail \in Addressed =>
                 Leaves(r, {"waiting", "completed", "failed"})
<1>. DEFINE m == run[r].mail
            returned == Fan!Ended(Fan!Returned(mailJob[m]))
            thrown == Fan!Ended(Fan!Thrown(mailJob[m], MaxAttempts))
<1>1. m \in Fan!Mails /\ mailJob \in [Fan!Mails -> Fan!Job] /\ mailJob[m] \in Fan!Job
  BY DEF MailsInv, RunsOK, Fan!TypeOK
<1>2. run[r].locked => mailJob[m].state = "active" /\ mailJob[m].made < MaxAttempts
  BY <1>1 DEF MailsInv, RunsOK, JobsOK
<1>3. returned \in Fan!Job /\ returned.state = "completed"
  BY <1>1, JobsBecome
<1>4. run[r].locked => /\ thrown \in Fan!Job /\ thrown.state \in {"waiting", "failed"}
                       /\ thrown.state = "waiting" => thrown.made < MaxAttempts
  BY <1>1, <1>2, JobsBecome
<1>5. ASSUME Fan!Record(r)
      PROVE  Leaves(r, {"completed"})
  <2>1. /\ run' = [run EXCEPT ![r] = Fan!IdleRun]
        /\ mailJob' = IF run[r].locked THEN [mailJob EXCEPT ![m] = returned] ELSE mailJob
    BY <1>5 DEF Fan!Record, Fan!EndRun
  <2>. HIDE DEF returned, thrown
  <2>. QED  BY <1>1, <1>3, <2>1 DEF Leaves
<1>6. ASSUME Fan!Throw(r)
      PROVE  Leaves(r, {"waiting", "failed"})
  <2>1. /\ run' = [run EXCEPT ![r] = Fan!IdleRun]
        /\ mailJob' = IF run[r].locked THEN [mailJob EXCEPT ![m] = thrown] ELSE mailJob
    BY <1>6 DEF Fan!Throw, Fan!EndRun
  <2>. HIDE DEF returned, thrown
  <2>. QED  BY <1>1, <1>4, <2>1 DEF Leaves
<1>7. ASSUME NEW outcome \in Fan!Outcomes, Fan!Send(r, outcome), run[r].mail \in Addressed
      PROVE  Leaves(r, {"waiting", "completed", "failed"})
  <2>1. /\ run' = [run EXCEPT ![r] = Fan!IdleRun]
        /\ \/ mailJob' = IF run[r].locked THEN [mailJob EXCEPT ![m] = returned] ELSE mailJob
           \/ mailJob' = IF run[r].locked THEN [mailJob EXCEPT ![m] = thrown] ELSE mailJob
    BY <1>7 DEF Fan!Send, Fan!EndRun
  <2>. HIDE DEF returned, thrown
  <2>. QED  BY <1>1, <1>3, <1>4, <2>1 DEF Leaves
<1>. QED  BY <1>5, <1>6, <1>7

\* Jobs added for mails that had none.
JobsAdded(ds) == /\ ds \subseteq Fan!Mails /\ Fan!Adds(ds)
                 /\ \A m \in ds : mailJob[m] = Fan!NoJob

LEMMA AddsKeep ==
    ASSUME Fan!NamesAssumption, MailsInv, NEW ds, JobsAdded(ds), run' = run
    PROVE  /\ mailJob' \in [Fan!Mails -> Fan!Job]
           /\ \A m \in Fan!Mails : IF m \in ds THEN mailJob'[m].state = "waiting" /\ mailJob'[m].made = 0
                                              ELSE mailJob'[m] = mailJob[m]
           /\ mailRow' = mailRow => RunsOK'
<1>1. /\ mailJob \in [Fan!Mails -> Fan!Job]
      /\ mailJob' = [m \in Fan!Mails |-> IF m \in ds THEN Fan!AddedJob ELSE mailJob[m]]
  BY DEF MailsInv, Fan!TypeOK, JobsAdded, Fan!Adds
<1>2. Fan!AddedJob \in Fan!Job /\ Fan!AddedJob.state = "waiting" /\ Fan!AddedJob.made = 0
  <2>1. Fan!NoJob \in Fan!Job
    BY DEF Fan!NoJob, Fan!Job, Fan!CreateQueueAttempts, Fan!MaxStalls
  <2>. QED  BY <2>1, JobsBecome
<1>3. \A m \in Fan!Mails : mailJob[m].state = "active" => m \notin ds
  BY DEF JobsAdded, Fan!NoJob
<1>4. \A r \in Runs : run[r].locked => run[r].mail \in Fan!Mails \ ds
  BY <1>3 DEF MailsInv, RunsOK
<1>5. mailRow' = mailRow => RunsOK'
  BY <1>1, <1>4 DEF MailsInv, RunsOK
<1>. QED  BY <1>1, <1>2, <1>5

LEMMA MailsStep == Fan!NamesAssumption /\ MailsInv /\ [Fan!Next]_(Fan!vars) => MailsInv'
<1>. SUFFICES ASSUME Fan!NamesAssumption, MailsInv, [Fan!Next]_(Fan!vars)
              PROVE  MailsInv'
  OBVIOUS
<1>a. \A c \in Calls, u \in Users : <<c, u>> \in Fan!Deliveries
  BY DEF Fan!Deliveries
<1>b. Fan!Deliveries \subseteq Fan!Mails
  BY DEF Fan!Mails
<1>c. /\ call \in [Calls -> CallState]
      /\ mailJob \in [Fan!Mails -> Fan!Job] /\ run \in [Runs -> RunState]
      /\ mailRow \in [Fan!Deliveries -> RowStates] /\ optedOut \subseteq Users
      /\ firmly \in [Calls -> SUBSET Users] /\ ever \in [Calls -> SUBSET Users]
  BY DEF MailsInv, Fan!TypeOK, CallState, RunState, RowStates
<1>. USE DEF CallState
<1>1. ASSUME NEW u \in Users, NEW kind \in Fan!Kinds, NEW enabled \in BOOLEAN,
             Fan!SetPreferences(u, kind, enabled)
      PROVE  MailsInv'
  <2>1. /\ optedOut' \subseteq Users /\ UNCHANGED <<call, mailRow, mailJob, run>>
        /\ firmly' = [c \in Calls |-> IF call[c].pc = "gate" THEN firmly[c] \cap optedOut' ELSE firmly[c]]
        /\ ever' = [c \in Calls |-> IF call[c].pc = "gate" THEN ever[c] \cup (optedOut' \cap call[c].all)
                                                           ELSE ever[c]]
    BY <1>1, <1>c DEF Fan!SetPreferences
  <2>2. firmly' \in [Calls -> SUBSET Users] /\ ever' \in [Calls -> SUBSET Users]
    BY <1>c, <2>1
  <2>3. \A c \in Calls : /\ firmly'[c] \subseteq firmly[c] /\ ever[c] \subseteq ever'[c]
                         /\ call[c].pc = "gate" => /\ firmly'[c] \subseteq optedOut'
                                                   /\ optedOut' \cap call[c].all \subseteq ever'[c]
    BY <2>1
  <2>4. Fan!TypeOK'
    BY <2>1, <2>2 DEF MailsInv, Fan!TypeOK
  <2>5. JobsOK' /\ RunsOK' /\ Fan!NoMailForgotten'
    BY <2>1 DEF MailsInv, JobsOK, RunsOK, Fan!NoMailForgotten
  <2>6. CallsOK'
    BY <2>1, <2>3 DEF MailsInv, CallsOK, CallOK
  <2>7. Fan!GateHonoured'
    BY <2>1, <2>3 DEF MailsInv, Fan!GateHonoured
  <2>. QED  BY <2>4, <2>5, <2>6, <2>7 DEF MailsInv
<1>2. ASSUME NEW c \in Calls, NEW kind \in Fan!Kinds, NEW named \in SUBSET Users,
             NEW found \in {{}, Holders}, Fan!NotifyStarts(c, kind, named, found)
      PROVE  MailsInv'
  <2>. DEFINE all == named \cup found
              k == [pc |-> IF Fan!Bypasses(kind) THEN "loop" ELSE "gate", kind |-> kind,
                    all |-> all, to |-> all, muted |-> {}]
  <2>1. /\ call[c].pc = "idle" /\ call' = [call EXCEPT ![c] = k] /\ UNCHANGED <<optedOut, mailRow, mailJob, run>>
        /\ firmly' = [firmly EXCEPT ![c] = optedOut \cap all]
        /\ ever' = [ever EXCEPT ![c] = optedOut \cap all]
    BY <1>2 DEF Fan!NotifyStarts
  <2>2. all \in SUBSET Users
    BY DEF Fan!NamesAssumption
  <2>3. /\ k \in CallState
        /\ k.all = all /\ k.to = all /\ k.muted = {} /\ k.kind = kind
        /\ k.pc \in {"loop", "gate"} /\ (k.pc = "loop" <=> Fan!Bypasses(kind))
    BY <2>2
  <2>. HIDE DEF k, all
  <2>4. /\ call'[c] = k /\ \A b \in Calls \ {c} : call'[b] = call[b]
        /\ firmly'[c] = optedOut \cap all /\ ever'[c] = optedOut \cap all
        /\ \A b \in Calls \ {c} : firmly'[b] = firmly[b] /\ ever'[b] = ever[b]
    BY <1>c, <2>1
  <2>5. Fan!TypeOK'
    BY <1>c, <2>1, <2>2, <2>3 DEF MailsInv, Fan!TypeOK
  <2>6. JobsOK' /\ RunsOK'
    BY <2>1, <2>3, <2>4 DEF MailsInv, JobsOK, RunsOK
  <2>7. CallsOK'
    BY <2>1, <2>2, <2>3, <2>4 DEF MailsInv, CallsOK, CallOK
  <2>8. Fan!NoMailForgotten'
    <3>1. \A d \in Fan!Deliveries : mailRow[d] = "pending" => d[1] # c /\ d[1] \in Calls
      BY <2>1 DEF MailsInv, CallsOK, CallOK, Fan!Deliveries
    <3>. QED  BY <2>1, <2>4, <3>1 DEF MailsInv, Fan!NoMailForgotten
  <2>9. Fan!GateHonoured'
    <3>1. call'[c].all \ call'[c].to = {}
      BY <2>3, <2>4
    <3>2. \A b \in Calls \ {c} : \A u \in call'[b].all \ call'[b].to :
             /\ mailRow'[<<b, u>>] = "none" => ~Fan!Bypasses(call'[b].kind) /\ u \in ever'[b]
             /\ mailRow'[<<b, u>>] # "none" => Fan!Bypasses(call'[b].kind) \/ u \notin firmly'[b]
      BY <2>1, <2>4 DEF MailsInv, Fan!GateHonoured
    <3>. QED  BY <3>1, <3>2 DEF Fan!GateHonoured
  <2>. QED  BY <2>5, <2>6, <2>7, <2>8, <2>9 DEF MailsInv
<1>3. ASSUME NEW c \in Calls, Fan!Gate(c)
      PROVE  MailsInv'
  <2>1. /\ call[c].pc = "gate" /\ UNCHANGED <<optedOut, mailRow, mailJob, run, firmly, ever>>
        /\ call' = [call EXCEPT ![c].pc = "loop", ![c].muted = call[c].to \cap optedOut]
    BY <1>3 DEF Fan!Gate
  <2>2. /\ call'[c].pc = "loop" /\ call'[c].muted = call[c].to \cap optedOut
        /\ call'[c].to = call[c].to /\ call'[c].all = call[c].all /\ call'[c].kind = call[c].kind
        /\ \A b \in Calls \ {c} : call'[b] = call[b]
    BY <1>c, <2>1
  <2>3. call' \in [Calls -> CallState]
    <3>. DEFINE k == [[call[c] EXCEPT !.pc = "loop"] EXCEPT !.muted = call[c].to \cap optedOut]
    <3>1. k \in CallState
      BY <1>c
    <3>2. call' = [call EXCEPT ![c] = k]
      BY <1>c, <2>1
    <3>. HIDE DEF k
    <3>. QED  BY <1>c, <3>1, <3>2
  <2>4. Fan!TypeOK'
    BY <2>1, <2>3 DEF MailsInv, Fan!TypeOK
  <2>5. JobsOK' /\ RunsOK'
    <3>1. RunsOK'
      BY <2>1 DEF MailsInv, RunsOK
    <3>2. \A b \in Calls : call'[b].pc \in {"idle", "gate", "loop", "queue"} =>
                             call[b].pc \in {"idle", "gate", "loop", "queue"}
      BY <2>1, <2>2
    <3>3. JobsOK'
      BY <2>1, <3>2 DEF MailsInv, JobsOK
    <3>. QED  BY <3>1, <3>3
  <2>6. CallsOK'
    <3>1. call[c].to \subseteq Users /\ \A u \in Users : mailRow[<<c, u>>] = "none"
      BY <1>c, <2>1 DEF MailsInv, CallsOK, CallOK
    <3>2. /\ ~Fan!Bypasses(call[c].kind) /\ call[c].to = call[c].all
          /\ firmly[c] \subseteq optedOut /\ optedOut \cap call[c].all \subseteq ever[c]
      BY <2>1 DEF MailsInv, CallsOK, CallOK
    <3>3. /\ call'[c].muted \subseteq ever[c]
          /\ firmly[c] \cap call'[c].all \subseteq call'[c].muted
          /\ \A u \in call'[c].to : mailRow[<<c, u>>] = "none"
      BY <2>2, <3>1, <3>2
    <3>4. CallOK(c)'
      BY <2>1, <2>2, <3>2, <3>3 DEF CallOK
    <3>5. \A b \in Calls \ {c} : CallOK(b)'
      <4>. TAKE b \in Calls \ {c}
      <4>1. CallOK(b)
        BY DEF MailsInv, CallsOK
      <4>2. call'[b] = call[b] /\ UNCHANGED <<optedOut, mailRow, firmly, ever>>
        BY <2>1, <2>2
      <4>. QED  BY <4>1, <4>2 DEF CallOK
    <3>. QED  BY <3>4, <3>5 DEF CallsOK
  <2>7. Fan!NoMailForgotten'
    <3>1. \A d \in Fan!Deliveries : d[1] \in Calls
      BY DEF Fan!Deliveries
    <3>. QED  BY <2>1, <2>2, <3>1 DEF MailsInv, Fan!NoMailForgotten
  <2>8. Fan!GateHonoured'
    BY <2>1, <2>2 DEF MailsInv, Fan!GateHonoured
  <2>. QED  BY <2>4, <2>5, <2>6, <2>7, <2>8 DEF MailsInv
<1>4. ASSUME NEW c \in Calls, NEW u \in Users, Fan!WriteRows(c, u)
      PROVE  MailsInv'
  <2>. DEFINE to == call[c].to \ {u}
  <2>1. /\ call[c].pc = "loop" /\ u \in call[c].to
        /\ call' = [call EXCEPT ![c].to = to, ![c].pc = IF to = {} THEN "queue" ELSE "loop"]
        /\ mailRow' = IF u \in call[c].muted THEN mailRow ELSE [mailRow EXCEPT ![<<c, u>>] = "pending"]
        /\ UNCHANGED <<optedOut, mailJob, run, firmly, ever>>
    BY <1>4 DEF Fan!WriteRows
  <2>2. /\ call'[c].to = to /\ call'[c].muted = call[c].muted /\ call'[c].all = call[c].all
        /\ call'[c].kind = call[c].kind /\ (call'[c].pc = "queue" => to = {})
        /\ call'[c].pc \in {"loop", "queue"}
        /\ \A b \in Calls \ {c} : call'[b] = call[b]
    BY <1>c, <2>1
  <2>3. call' \in [Calls -> CallState]
    <3>. DEFINE k == [[call[c] EXCEPT !.to = to] EXCEPT !.pc = IF to = {} THEN "queue" ELSE "loop"]
    <3>1. k \in CallState
      BY <1>c
    <3>2. call' = [call EXCEPT ![c] = k]
      BY <1>c, <2>1
    <3>. HIDE DEF k
    <3>. QED  BY <1>c, <3>1, <3>2
  <2>. HIDE DEF to
  <2>4. /\ mailRow' \in [Fan!Deliveries -> RowStates]
        /\ \A d \in Fan!Deliveries : d # <<c, u>> => mailRow'[d] = mailRow[d]
        /\ mailRow[<<c, u>>] = "none"
        /\ u \in call[c].muted => mailRow'[<<c, u>>] = "none"
        /\ u \notin call[c].muted => mailRow'[<<c, u>>] = "pending"
    BY <1>a, <1>c, <2>1 DEF RowStates, MailsInv, CallsOK, CallOK
  <2>5. Fan!TypeOK'
    BY <2>1, <2>3, <2>4 DEF MailsInv, Fan!TypeOK, RowStates
  <2>6. \A d \in Fan!Deliveries : mailRow[d] # "none" => mailRow'[d] # "none"
    BY <2>4
  <2>7. JobsOK' /\ RunsOK'
    <3>1. RunsOK'
      BY <2>1, <2>6 DEF MailsInv, RunsOK
    <3>2. \A b \in Calls : call'[b].pc \in {"idle", "gate", "loop", "queue"} =>
                             call[b].pc \in {"idle", "gate", "loop", "queue"}
      BY <2>1, <2>2
    <3>3. JobsOK'
      BY <2>1, <2>6, <3>2 DEF MailsInv, JobsOK
    <3>. QED  BY <3>1, <3>3
  <2>8. CallsOK'
    <3>1. \A b \in Calls, v \in Users : (b # c \/ v # u) => mailRow'[<<b, v>>] = mailRow[<<b, v>>]
      BY <1>a, <2>4
    <3>2. \A b \in Calls : call[b].to \subseteq Users
      BY <1>c
    <3>3. /\ call[c].muted \subseteq ever[c]
          /\ Fan!Bypasses(call[c].kind) => call[c].muted = {}
          /\ ~Fan!Bypasses(call[c].kind) => firmly[c] \cap call[c].all \subseteq call[c].muted
          /\ \A v \in call[c].to : mailRow[<<c, v>>] = "none"
      BY <2>1 DEF MailsInv, CallsOK, CallOK
    <3>4. \A v \in call'[c].to : mailRow'[<<c, v>>] = "none"
      BY <2>2, <3>1, <3>2, <3>3 DEF to
    <3>5. \A b \in Calls \ {c} : \A v \in Users : mailRow'[<<b, v>>] = mailRow[<<b, v>>]
      BY <3>1
    <3>6. CallOK(c)'
      <4>1. call'[c].pc = "queue" => call'[c].to = {}
        BY <2>2
      <4>. QED  BY <2>1, <2>2, <3>3, <3>4, <4>1 DEF CallOK
    <3>7. \A b \in Calls \ {c} : CallOK(b)'
      <4>. TAKE b \in Calls \ {c}
      <4>1. CallOK(b) /\ call'[b] = call[b] /\ call[b].to \subseteq Users
        BY <2>2, <3>2 DEF MailsInv, CallsOK
      <4>2. \A v \in Users : mailRow'[<<b, v>>] = mailRow[<<b, v>>]
        BY <3>5
      <4>. QED  BY <2>1, <4>1, <4>2 DEF CallOK
    <3>. QED  BY <3>6, <3>7 DEF CallsOK
  <2>9. Fan!NoMailForgotten'
    <3>1. \A d \in Fan!Deliveries : d[1] \in Calls
      BY DEF Fan!Deliveries
    <3>. SUFFICES ASSUME NEW d \in Fan!Deliveries, mailRow'[d] = "pending",
                         call'[d[1]].pc \notin {"loop", "queue", "broken"}
                  PROVE  mailJob[d].state \in {"waiting", "active", "failed"}
      BY <2>1 DEF Fan!NoMailForgotten
    <3>2. d[1] # c
      BY <2>2
    <3>3. d # <<c, u>>
      BY <3>2
    <3>. QED  BY <2>2, <2>4, <3>1, <3>2, <3>3 DEF MailsInv, Fan!NoMailForgotten
  <2>10. Fan!GateHonoured'
    <3>1. \A b \in Calls, v \in Users : (b # c \/ v # u) => mailRow'[<<b, v>>] = mailRow[<<b, v>>]
      BY <1>a, <2>4
    <3>2. \A b \in Calls : call[b].all \subseteq Users
      BY <1>c
    <3>3. \A b \in Calls \ {c} : \A v \in call[b].all \ call[b].to :
             /\ mailRow'[<<b, v>>] = "none" => ~Fan!Bypasses(call[b].kind) /\ v \in ever[b]
             /\ mailRow'[<<b, v>>] # "none" => Fan!Bypasses(call[b].kind) \/ v \notin firmly[b]
      BY <3>1, <3>2 DEF MailsInv, Fan!GateHonoured
    <3>4. \A v \in call[c].all \ to :
             /\ mailRow'[<<c, v>>] = "none" => ~Fan!Bypasses(call[c].kind) /\ v \in ever[c]
             /\ mailRow'[<<c, v>>] # "none" => Fan!Bypasses(call[c].kind) \/ v \notin firmly[c]
      <4>1. CASE u \notin call[c].all
        BY <2>1, <3>1, <3>2, <4>1 DEF MailsInv, Fan!GateHonoured, to
      <4>2. /\ mailRow'[<<c, u>>] = "none" => ~Fan!Bypasses(call[c].kind) /\ u \in ever[c]
            /\ mailRow'[<<c, u>>] # "none" => Fan!Bypasses(call[c].kind) \/ u \notin firmly[c]
                                         \/ u \notin call[c].all
        BY <2>1, <2>4 DEF MailsInv, CallsOK, CallOK
      <4>3. \A v \in call[c].all \ call[c].to : v # u
        BY <2>1
      <4>. QED  BY <2>1, <3>1, <3>2, <4>1, <4>2, <4>3 DEF MailsInv, Fan!GateHonoured, to
    <3>5. \A b \in Calls : \A v \in call'[b].all \ call'[b].to :
             /\ mailRow'[<<b, v>>] = "none" => ~Fan!Bypasses(call'[b].kind) /\ v \in ever[b]
             /\ mailRow'[<<b, v>>] # "none" => Fan!Bypasses(call'[b].kind) \/ v \notin firmly[b]
      <4>. TAKE b \in Calls
      <4>1. CASE b = c
        BY <2>2, <3>4, <4>1
      <4>2. CASE b # c
        BY <2>2, <3>3, <4>2
      <4>. QED  BY <4>1, <4>2
    <3>. QED  BY <2>1, <3>5 DEF Fan!GateHonoured
  <2>. QED  BY <2>5, <2>7, <2>8, <2>9, <2>10 DEF MailsInv
<1>5. ASSUME NEW c \in Calls, Fan!QueueAll(c) \/ Fan!NotifyBreaksOff(c)
      PROVE  MailsInv'
  <2>1. PICK ds \in SUBSET Fan!Unqueued(c) :
           /\ Fan!Adds(ds) /\ UNCHANGED <<optedOut, mailRow, run, firmly, ever>>
           /\ \/ /\ call[c].pc = "queue" /\ ds = Fan!Unqueued(c)
                 /\ call' = [call EXCEPT ![c].pc = "done"]
              \/ /\ call[c].pc \notin {"idle", "done", "broken"}
                 /\ call' = [call EXCEPT ![c] = [Fan!NoCall EXCEPT !.pc = "broken"]]
    BY <1>5 DEF Fan!QueueAll, Fan!NotifyBreaksOff
  <2>2. /\ \A d \in ds : d \in Fan!Deliveries /\ d[1] = c /\ mailRow[d] = "pending" /\ mailJob[d] = Fan!NoJob
        /\ \A d \in Fan!Deliveries : d[1] = c /\ mailRow[d] = "pending" /\ mailJob[d] = Fan!NoJob
                                       => d \in Fan!Unqueued(c)
    BY DEF Fan!Unqueued, Fan!Deliveries
  <2>3. JobsAdded(ds)
    BY <1>b, <2>1, <2>2 DEF JobsAdded
  <2>4. /\ mailJob' \in [Fan!Mails -> Fan!Job] /\ RunsOK'
        /\ \A m \in Fan!Mails : IF m \in ds THEN mailJob'[m].state = "waiting" /\ mailJob'[m].made = 0
                                            ELSE mailJob'[m] = mailJob[m]
    BY <2>1, <2>3, AddsKeep
  <2>5. call' \in [Calls -> CallState]
    BY <1>c, <2>1 DEF Fan!NoCall, Fan!Kinds
  <2>6. /\ \A b \in Calls \ {c} : call'[b] = call[b]
        /\ \/ /\ call[c].pc = "queue" /\ ds = Fan!Unqueued(c) /\ call'[c].pc = "done"
              /\ call'[c].to = call[c].to /\ call'[c].all = call[c].all
              /\ call'[c].muted = call[c].muted /\ call'[c].kind = call[c].kind
           \/ call'[c].pc = "broken" /\ call'[c].all = {}
    BY <1>c, <2>1 DEF Fan!NoCall
  <2>7. Fan!TypeOK'
    BY <2>1, <2>4, <2>5 DEF MailsInv, Fan!TypeOK
  <2>8. JobsOK'
    <3>1. \A m \in Fan!Mails : mailJob'[m].state \in {"waiting", "active"} => mailJob'[m].made < MaxAttempts
      <4>1. 0 < MaxAttempts
        BY DEF Fan!NamesAssumption, Fan!CreateQueueAttempts
      <4>. QED  BY <2>4, <4>1 DEF MailsInv, JobsOK
    <3>2. \A d \in Fan!Deliveries : mailJob'[d].state # "none" => mailRow'[d] # "none"
      BY <1>b, <2>1, <2>2, <2>4 DEF MailsInv, JobsOK
    <3>3. \A b \in Calls, u \in Users : b # c => <<b, u>> \notin ds /\ mailJob'[<<b, u>>] = mailJob[<<b, u>>]
      BY <1>a, <1>b, <2>2, <2>4
    <3>4. \A b \in Calls, u \in Users :
             call'[b].pc \in {"idle", "gate", "loop", "queue"} => mailJob'[<<b, u>>] = Fan!NoJob
      BY <2>6, <3>3 DEF MailsInv, JobsOK
    <3>. QED  BY <3>1, <3>2, <3>4 DEF JobsOK
  <2>9. CallsOK'
    BY <2>1, <2>6 DEF MailsInv, CallsOK, CallOK
  <2>10. Fan!NoMailForgotten'
    <3>. SUFFICES ASSUME NEW d \in Fan!Deliveries, mailRow[d] = "pending"
                  PROVE  \/ call'[d[1]].pc \in {"loop", "queue", "broken"}
                         \/ mailJob'[d].state \in {"waiting", "active", "failed"}
      BY <2>1 DEF Fan!NoMailForgotten
    <3>1. PICK b \in Calls, u \in Users : d = <<b, u>> /\ b = d[1]
      BY DEF Fan!Deliveries
    <3>2. \/ call[b].pc \in {"loop", "queue", "broken"}
          \/ mailJob[d].state \in {"waiting", "active", "failed"}
      BY <3>1 DEF MailsInv, Fan!NoMailForgotten
    <3>3. mailJob'[d] = mailJob[d] \/ mailJob'[d].state = "waiting"
      BY <1>b, <2>4
    <3>4. CASE b # c
      BY <2>6, <3>1, <3>2, <3>3, <3>4
    <3>5. CASE b = c /\ call'[c].pc = "broken"
      BY <3>1, <3>5
    <3>6. CASE b = c /\ call[c].pc = "queue" /\ ds = Fan!Unqueued(c)
      <4>1. d \in Fan!Mails /\ mailJob[d] = Fan!NoJob
        BY <1>b, <3>1, <3>6 DEF MailsInv, JobsOK
      <4>2. d \in ds
        BY <2>2, <3>1, <3>6, <4>1
      <4>. QED  BY <2>4, <4>1, <4>2
    <3>. QED  BY <2>6, <3>4, <3>5, <3>6
  <2>11. Fan!GateHonoured'
    <3>1. \A b \in Calls : \A u \in call[b].all \ call[b].to :
             /\ mailRow[<<b, u>>] = "none" => ~Fan!Bypasses(call[b].kind) /\ u \in ever[b]
             /\ mailRow[<<b, u>>] # "none" => Fan!Bypasses(call[b].kind) \/ u \notin firmly[b]
      BY DEF MailsInv, Fan!GateHonoured
    <3>2. \A b \in Calls : \A u \in call'[b].all \ call'[b].to :
             /\ mailRow'[<<b, u>>] = "none" => ~Fan!Bypasses(call'[b].kind) /\ u \in ever'[b]
             /\ mailRow'[<<b, u>>] # "none" => Fan!Bypasses(call'[b].kind) \/ u \notin firmly'[b]
      <4>1. ASSUME NEW b \in Calls, NEW u \in call'[b].all \ call'[b].to
            PROVE  b \in Calls /\ u \in call[b].all \ call[b].to /\ call'[b].kind = call[b].kind
        BY <2>6, <4>1
      <4>. QED  BY <2>1, <3>1, <4>1
    <3>. QED  BY <3>2 DEF Fan!GateHonoured
  <2>. QED  BY <2>4, <2>7, <2>8, <2>9, <2>10, <2>11 DEF MailsInv
<1>6. ASSUME NEW m \in Fan!Mails, Fan!SendTransactionalEmail(m)
      PROVE  MailsInv'
  <2>1. /\ m \in Addressed /\ mailJob[m] = Fan!NoJob /\ Fan!Adds({m})
        /\ UNCHANGED <<optedOut, call, mailRow, run, firmly, ever>>
    BY <1>6 DEF Fan!SendTransactionalEmail
  <2>2. JobsAdded({m})
    BY <2>1 DEF JobsAdded
  <2>3. /\ mailJob' \in [Fan!Mails -> Fan!Job] /\ RunsOK'
        /\ mailJob'[m].state = "waiting" /\ mailJob'[m].made = 0
        /\ \A n \in Fan!Mails : n # m => mailJob'[n] = mailJob[n]
    BY <2>1, <2>2, AddsKeep
  <2>4. \A d \in Fan!Deliveries : mailJob'[d] = mailJob[d]
    BY <1>b, <2>1, <2>3 DEF Fan!NamesAssumption
  <2>5. Fan!TypeOK'
    BY <2>1, <2>3 DEF MailsInv, Fan!TypeOK
  <2>6. JobsOK'
    <3>1. 0 < MaxAttempts
      BY DEF Fan!NamesAssumption, Fan!CreateQueueAttempts
    <3>. QED  BY <1>a, <2>1, <2>3, <2>4, <3>1 DEF MailsInv, JobsOK
  <2>7. CallsOK' /\ Fan!NoMailForgotten' /\ Fan!GateHonoured'
    BY <2>1, <2>4 DEF MailsInv, CallsOK, CallOK, Fan!NoMailForgotten, Fan!GateHonoured
  <2>. QED  BY <2>3, <2>5, <2>6, <2>7 DEF MailsInv
<1>7. ASSUME NEW r \in Runs, NEW m \in Fan!Mails, Fan!StartRun(r, m)
      PROVE  MailsInv'
  <2>. DEFINE taken == Fan!Taken(mailJob[m])
              begun == [pc |-> "send", mail |-> m, locked |-> TRUE]
  <2>1. /\ run[r].pc = "idle" /\ mailJob[m].state = "waiting"
        /\ mailJob' = [mailJob EXCEPT ![m] = taken] /\ run' = [run EXCEPT ![r] = begun]
        /\ UNCHANGED <<optedOut, call, mailRow, firmly, ever>>
    BY <1>7 DEF Fan!StartRun
  <2>2. /\ taken \in Fan!Job /\ taken.state = "active" /\ taken.made = mailJob[m].made
        /\ begun \in RunState
    BY <1>c, JobsBecome DEF RunState
  <2>. HIDE DEF taken
  <2>3. RunsWrite /\ run' \in [Runs -> RunState]
    BY <1>c, <2>1, <2>2 DEF RunsWrite, MailsInv, JobsOK
  <2>4. RunsOK'
    <3>1. \A s \in Runs : run[s].locked => run[s].mail # m
      BY <2>1 DEF MailsInv, RunsOK
    <3>2. run'[r] = begun /\ \A s \in Runs \ {r} : run'[s] = run[s]
      BY <1>c, <2>1
    <3>3. mailJob'[m].state = "active" /\ \A n \in Fan!Mails : n # m => mailJob'[n] = mailJob[n]
      BY <1>c, <2>1, <2>2
    <3>4. m \in Fan!Deliveries => mailRow[m] # "none"
      BY <2>1 DEF MailsInv, JobsOK
    <3>. QED  BY <2>1, <3>1, <3>2, <3>3, <3>4 DEF MailsInv, RunsOK
  <2>. QED  BY <2>3, <2>4, RunsKeep DEF MailsInv
<1>8. ASSUME NEW r \in Runs, NEW outcome \in Fan!Outcomes, Fan!Send(r, outcome),
             run[r].mail \notin Addressed
      PROVE  MailsInv'
  <2>1. /\ run[r].pc = "send" /\ run' = [run EXCEPT ![r].pc = outcome]
        /\ UNCHANGED <<optedOut, call, mailRow, mailJob, firmly, ever>>
    BY <1>8 DEF Fan!Send
  <2>2. RunsWrite /\ run' \in [Runs -> RunState]
    BY <1>c, <2>1 DEF RunsWrite, RunState
  <2>3. /\ run'[r].pc = outcome /\ run'[r].mail = run[r].mail /\ run'[r].locked = run[r].locked
        /\ \A s \in Runs \ {r} : run'[s] = run[s]
    BY <1>c, <2>1 DEF RunState
  <2>4. run[r].mail \in Fan!Deliveries
    BY <1>8, <2>1 DEF MailsInv, RunsOK, Fan!Mails
  <2>5. RunsOK'
    BY <2>1, <2>3, <2>4 DEF MailsInv, RunsOK, Fan!Outcomes
  <2>. QED  BY <2>2, <2>5, RunsKeep DEF MailsInv
<1>9. ASSUME NEW r \in Runs, Leaves(r, {"waiting", "completed", "failed"}), run[r].pc # "idle",
             UNCHANGED <<optedOut, call, firmly, ever>>,
             \/ mailRow' = mailRow /\ (run[r].mail \in Addressed \/ Leaves(r, {"waiting", "failed"}))
             \/ run[r].mail \in Fan!Deliveries /\ run[r].pc \in Fan!Outcomes
                   /\ mailRow' = [mailRow EXCEPT ![run[r].mail] = run[r].pc]
      PROVE  MailsInv'
  <2>. DEFINE m == run[r].mail
  <2>1. /\ run' = [run EXCEPT ![r] = Fan!IdleRun] /\ mailJob' \in [Fan!Mails -> Fan!Job]
        /\ \A n \in Fan!Mails : mailJob'[n] # mailJob[n] =>
              /\ run[r].locked /\ n = m /\ mailJob'[n].state \in {"waiting", "completed", "failed"}
              /\ mailJob'[n].state = "waiting" => mailJob'[n].made < MaxAttempts
    BY <1>9 DEF Leaves
  <2>2. m \in Fan!Mails /\ (m \in Fan!Deliveries => mailRow[m] # "none")
    BY <1>9 DEF MailsInv, RunsOK
  <2>3. /\ mailRow' \in [Fan!Deliveries -> RowStates]
        /\ \A d \in Fan!Deliveries : mailRow'[d] = mailRow[d] \/ (mailRow[d] # "none" /\ mailRow'[d] \in Fan!Outcomes)
    BY <1>9, <1>c, <2>2 DEF RowStates
  <2>4. mailJob'[m].state = "completed" /\ mailJob'[m] # mailJob[m] /\ m \in Fan!Deliveries => mailRow'[m] # "pending"
    <3>1. CASE m \in Addressed
      BY <3>1 DEF Fan!NamesAssumption
    <3>2. CASE Leaves(r, {"waiting", "failed"})
      BY <2>2, <3>2 DEF Leaves
    <3>3. CASE m \in Fan!Deliveries /\ run[r].pc \in Fan!Outcomes
                 /\ mailRow' = [mailRow EXCEPT ![m] = run[r].pc]
      BY <1>c, <3>3 DEF Fan!Outcomes
    <3>. QED  BY <1>9, <3>1, <3>2, <3>3
  <2>5. Fan!IdleRun \in RunState
    BY DEF Fan!IdleRun, RunState
  <2>6. run' \in [Runs -> RunState] /\ run'[r] = Fan!IdleRun /\ \A s \in Runs \ {r} : run'[s] = run[s]
    BY <1>c, <2>1, <2>5
  <2>7. run[r].locked => mailJob[m].state = "active"
    BY DEF MailsInv, RunsOK
  <2>8. RunsWrite
    BY <1>9, <2>1, <2>2, <2>3, <2>4, <2>7 DEF RunsWrite
  <2>9. RunsOK'
    <3>1. \A s \in Runs \ {r} : run[s].locked => mailJob'[run[s].mail] = mailJob[run[s].mail]
      BY <2>1 DEF MailsInv, RunsOK
    <3>2. \A d \in Fan!Deliveries : mailRow[d] # "none" => mailRow'[d] # "none"
      BY <2>3 DEF Fan!Outcomes
    <3>. QED  BY <2>6, <3>1, <3>2 DEF MailsInv, RunsOK, Fan!IdleRun
  <2>. QED  BY <2>6, <2>8, <2>9, RunsKeep DEF MailsInv
<1>10. ASSUME NEW r \in Runs, Fan!Die(r)
      PROVE  MailsInv'
  <2>1. run' = [run EXCEPT ![r] = Fan!IdleRun] /\ UNCHANGED <<optedOut, call, mailRow, mailJob, firmly, ever>>
    BY <1>10 DEF Fan!Die
  <2>2. Fan!IdleRun \in RunState
    BY DEF Fan!IdleRun, RunState
  <2>3. run' \in [Runs -> RunState] /\ run'[r] = Fan!IdleRun /\ \A s \in Runs \ {r} : run'[s] = run[s]
    BY <1>c, <2>1, <2>2
  <2>4. RunsWrite
    BY <1>c, <2>1 DEF RunsWrite
  <2>5. RunsOK'
    BY <2>1, <2>3 DEF MailsInv, RunsOK, Fan!IdleRun
  <2>. QED  BY <2>3, <2>4, <2>5, RunsKeep DEF MailsInv
<1>11. ASSUME NEW m \in Fan!Mails, Fan!Stall(m)
      PROVE  MailsInv'
  <2>. DEFINE stalled == Fan!Ended(Fan!Stalled(mailJob[m]))
  <2>1. /\ mailJob[m].state = "active" /\ mailJob' = [mailJob EXCEPT ![m] = stalled]
        /\ run' = [r \in Runs |-> IF run[r].mail = m THEN [run[r] EXCEPT !.locked = FALSE] ELSE run[r]]
        /\ UNCHANGED <<optedOut, call, mailRow, firmly, ever>>
    BY <1>11 DEF Fan!Stall
  <2>2. /\ stalled \in Fan!Job /\ stalled.state \in {"waiting", "failed"}
        /\ stalled.state = "waiting" => stalled.made = mailJob[m].made
    BY <1>c, JobsBecome
  <2>. HIDE DEF stalled
  <2>3. /\ run' \in [Runs -> RunState]
        /\ \A r \in Runs : /\ run'[r].pc = run[r].pc /\ run'[r].mail = run[r].mail
                           /\ run'[r].locked <=> run[r].locked /\ run[r].mail # m
    BY <1>c, <2>1 DEF RunState
  <2>4. mailJob'[m] = stalled /\ \A n \in Fan!Mails : n # m => mailJob'[n] = mailJob[n]
    BY <1>c, <2>1
  <2>5. RunsWrite
    BY <1>c, <2>1, <2>2, <2>4 DEF RunsWrite, MailsInv, JobsOK
  <2>6. RunsOK'
    BY <2>1, <2>3, <2>4 DEF MailsInv, RunsOK
  <2>. QED  BY <2>3, <2>5, <2>6, RunsKeep DEF MailsInv
<1>12. ASSUME NEW r \in Runs, NEW outcome \in Fan!Outcomes, Fan!Send(r, outcome)
      PROVE  MailsInv'
  <2>1. CASE run[r].mail \in Addressed
    <3>1. /\ run[r].pc # "idle" /\ UNCHANGED <<optedOut, call, mailRow, firmly, ever>>
      BY <1>12 DEF Fan!Send
    <3>2. Leaves(r, {"waiting", "completed", "failed"})
      BY <1>12, <2>1, <3>1, RunLeaves
    <3>. QED  BY <1>9, <2>1, <3>1, <3>2
  <2>. QED  BY <1>8, <1>12, <2>1
<1>13. ASSUME NEW r \in Runs, Fan!Record(r)
      PROVE  MailsInv'
  <2>1. /\ run[r].pc \in Fan!Outcomes /\ mailRow' = [mailRow EXCEPT ![run[r].mail] = run[r].pc]
        /\ UNCHANGED <<optedOut, call, firmly, ever>>
    BY <1>13 DEF Fan!Record
  <2>2. run[r].pc # "idle" /\ run[r].mail \in Fan!Deliveries
    BY <2>1 DEF MailsInv, RunsOK, Fan!Outcomes
  <2>3. Leaves(r, {"completed"})
    BY <1>13, <2>2, RunLeaves
  <2>4. Leaves(r, {"waiting", "completed", "failed"})
    BY <2>3 DEF Leaves
  <2>. QED  BY <1>9, <2>1, <2>2, <2>4
<1>14. ASSUME NEW r \in Runs, Fan!Throw(r)
      PROVE  MailsInv'
  <2>1. run[r].pc # "idle" /\ UNCHANGED <<optedOut, call, mailRow, firmly, ever>>
    BY <1>14 DEF Fan!Throw
  <2>2. Leaves(r, {"waiting", "failed"})
    BY <1>14, <2>1, RunLeaves
  <2>3. Leaves(r, {"waiting", "completed", "failed"})
    BY <2>2 DEF Leaves
  <2>. QED  BY <1>9, <2>1, <2>2, <2>3
<1>15. CASE UNCHANGED Fan!vars
  BY <1>15
     DEF Fan!vars, MailsInv, Fan!TypeOK, JobsOK, RunsOK, CallsOK, CallOK, Fan!NoMailForgotten,
         Fan!GateHonoured
<1>. QED
  BY <1>1, <1>2, <1>3, <1>4, <1>5, <1>6, <1>7, <1>10, <1>11, <1>12, <1>13, <1>14, <1>15
  DEF Fan!Next, Fan!CallStep, Fan!RunStep

\* NotificationFanout by itself.
LEMMA MailsAreHeld ==
    ASSUME Fan!NamesAssumption
    PROVE  Fan!Spec => []Fan!MailsHold
<1>1. MailsInv => Fan!MailsHold
  BY DEF MailsInv, Fan!MailsHold
<1>. QED  BY <1>1, MailsInitial, MailsStep, PTL DEF Fan!Spec

-----------------------------------------------------------------------------
(***************************************************************************)
(* ErrorWindow.                                                            *)
(***************************************************************************)
Entries == [key : Keys, count : 1..MaxCount]

ErrorsTyped ==
    /\ running \in BOOLEAN
    /\ buffer \in Seq(Entries)
    /\ index \in [Keys -> 0..Capacity] /\ reports \in [Keys -> 0..MaxCount]
    /\ carried \in Keys \cup {None}
    /\ latest \in [what : {"none", "captured", "refused", "failed"}, key : Keys \cup {None}]

\* The index has the place of every entry and of nothing else; no entry counts more than was
\* reported.
PlacesOK ==
    /\ Len(buffer) <= Capacity
    /\ \A i \in 1..Len(buffer) : /\ index[buffer[i].key] = i
                                 /\ buffer[i].count <= reports[buffer[i].key]
    /\ \A k \in Keys : index[k] # 0 => index[k] \in 1..Len(buffer) /\ buffer[index[k]].key = k

LatestOK == latest.what = "captured" => \E i \in 1..Len(buffer) : buffer[i].key = latest.key

ErrorsInv == ErrorsTyped /\ PlacesOK /\ LatestOK

\* What an error's report and its entry do to the window, whether it was known or not.
LEMMA AppendKeeps ==
    ASSUME Errors!NamesAssumption, ErrorsTyped, PlacesOK, NEW k \in Keys,
           Errors!Reported(k), Errors!Appended(k)
    PROVE  /\ buffer' \in Seq(Entries) /\ index' \in [Keys -> 0..Capacity]
           /\ reports' \in [Keys -> 0..MaxCount] /\ PlacesOK'
           /\ \E i \in 1..Len(buffer') : buffer'[i].key = k
<1>. USE DEF Errors!NamesAssumption
<1>e. /\ \A x \in Entries : x.key \in Keys /\ x.count \in 1..MaxCount
      /\ [key |-> k, count |-> 1] \in Entries
      /\ \A x \in Entries, n \in 1..MaxCount :
           LET y == [x EXCEPT !.count = n] IN y \in Entries /\ y.key = x.key /\ y.count = n
  BY DEF Entries
<1>b. Len(buffer) \in Nat /\ \A i \in 1..Len(buffer) : buffer[i] \in Entries
  BY DEF ErrorsTyped
<1>1. \A n \in 0..MaxCount : Errors!Capped(n) \in 1..MaxCount /\ Errors!Capped(n) >= n
  BY DEF Errors!Capped
<1>2. \A m, n \in 0..MaxCount : m <= n => Errors!Capped(m) <= Errors!Capped(n)
  BY DEF Errors!Capped
<1>3. /\ reports' = [reports EXCEPT ![k] = Errors!Capped(reports[k])]
      /\ reports' \in [Keys -> 0..MaxCount] /\ reports'[k] >= 1
      /\ \A j \in Keys : reports'[j] >= reports[j]
  BY <1>1 DEF Errors!Reported, ErrorsTyped
<1>4. CASE Errors!Known(k) /\ Errors!Counted(k)
  <2>. DEFINE p == index[k]
              e == [buffer[p] EXCEPT !.count = Errors!Capped(@)]
  <2>1. p \in 1..Len(buffer) /\ buffer[p] \in Entries /\ buffer[p].key = k
    BY <1>4 DEF Errors!Known, ErrorsTyped, PlacesOK
  <2>2. e \in Entries /\ e.key = k /\ e.count = Errors!Capped(buffer[p].count)
    <3>1. buffer[p].count \in 0..MaxCount
      BY <1>e, <2>1
    <3>. QED  BY <1>1, <1>e, <2>1, <3>1
  <2>3. buffer' = [buffer EXCEPT ![p] = e] /\ index' = index
    BY <1>4 DEF Errors!Counted
  <2>. HIDE DEF e
  <2>4. /\ buffer' \in Seq(Entries) /\ Len(buffer') = Len(buffer) /\ buffer'[p] = e
        /\ \A i \in 1..Len(buffer) : i # p => buffer'[i] = buffer[i]
    BY <2>1, <2>2, <2>3 DEF ErrorsTyped
  <2>5. e.count <= reports'[k]
    <3>1. buffer[p].count \in 0..MaxCount /\ reports[k] \in 0..MaxCount /\ buffer[p].count <= reports[k]
      BY <1>e, <2>1 DEF ErrorsTyped, PlacesOK
    <3>2. reports'[k] = Errors!Capped(reports[k])
      BY <1>3 DEF ErrorsTyped
    <3>. QED  BY <1>2, <2>2, <3>1, <3>2
  <2>6. \A i \in 1..Len(buffer') : /\ index'[buffer'[i].key] = i
                                   /\ buffer'[i].count <= reports'[buffer'[i].key]
    <3>. TAKE i \in 1..Len(buffer')
    <3>1. CASE i = p
      BY <2>1, <2>2, <2>3, <2>4, <2>5, <3>1
    <3>2. CASE i # p
      <4>1. i \in 1..Len(buffer) /\ buffer'[i] = buffer[i] /\ buffer[i] \in Entries
        BY <2>4, <3>2 DEF ErrorsTyped
      <4>2. buffer[i].count <= reports[buffer[i].key] /\ reports[buffer[i].key] <= reports'[buffer[i].key]
        BY <1>3, <1>e, <4>1 DEF PlacesOK
      <4>3. reports[buffer[i].key] \in Int /\ reports'[buffer[i].key] \in Int /\ buffer[i].count \in Int
        BY <1>3, <1>e, <4>1 DEF ErrorsTyped
      <4>. QED  BY <2>3, <4>1, <4>2, <4>3 DEF PlacesOK
    <3>. QED  BY <3>1, <3>2
  <2>7. \A j \in Keys : index'[j] # 0 => index'[j] \in 1..Len(buffer') /\ buffer'[index'[j]].key = j
    BY <2>1, <2>2, <2>3, <2>4 DEF PlacesOK
  <2>. QED  BY <1>3, <2>1, <2>2, <2>3, <2>4, <2>6, <2>7 DEF ErrorsTyped, PlacesOK
<1>5. CASE ~Errors!Known(k) /\ Errors!Added(k)
  <2>. DEFINE e == [key |-> k, count |-> 1]
              n == Len(buffer) + 1
  <2>1. e \in Entries /\ n \in 1..Capacity
    BY <1>5, <1>e, <1>b DEF Errors!Added
  <2>2. buffer' = Append(buffer, e) /\ index' = [index EXCEPT ![k] = n]
    BY <1>5 DEF Errors!Added
  <2>3. /\ buffer' \in Seq(Entries) /\ Len(buffer') = n /\ buffer'[n] = e
        /\ \A i \in 1..Len(buffer) : buffer'[i] = buffer[i] /\ buffer[i] \in Entries
    BY <2>1, <2>2 DEF ErrorsTyped
  <2>4. index' \in [Keys -> 0..Capacity] /\ index'[k] = n /\ \A j \in Keys \ {k} : index'[j] = index[j]
    BY <2>1, <2>2 DEF ErrorsTyped
  <2>5. index[k] = 0
    BY <1>5 DEF Errors!Known, ErrorsTyped, PlacesOK
  <2>. HIDE DEF e
  <2>6. \A i \in 1..Len(buffer') : /\ index'[buffer'[i].key] = i
                                   /\ buffer'[i].count <= reports'[buffer'[i].key]
    <3>. TAKE i \in 1..Len(buffer')
    <3>1. CASE i = n
      BY <1>3, <2>3, <2>4, <3>1 DEF e
    <3>2. CASE i # n
      <4>1. i \in 1..Len(buffer) /\ buffer'[i] = buffer[i] /\ buffer[i] \in Entries
        BY <2>3, <3>2 DEF ErrorsTyped
      <4>2. buffer[i].key # k
        BY <2>5, <4>1 DEF PlacesOK
      <4>3. buffer[i].count <= reports[buffer[i].key] /\ reports[buffer[i].key] <= reports'[buffer[i].key]
        BY <1>3, <1>e, <4>1 DEF PlacesOK
      <4>4. reports[buffer[i].key] \in Int /\ reports'[buffer[i].key] \in Int /\ buffer[i].count \in Int
        BY <1>3, <1>e, <4>1 DEF ErrorsTyped
      <4>5. buffer[i].key \in Keys \ {k}
        BY <1>e, <4>1, <4>2
      <4>6. index[buffer[i].key] = i
        BY <4>1 DEF PlacesOK
      <4>. QED  BY <2>4, <4>1, <4>3, <4>4, <4>5, <4>6
    <3>. QED  BY <3>1, <3>2
  <2>7. \A j \in Keys : index'[j] # 0 => index'[j] \in 1..Len(buffer') /\ buffer'[index'[j]].key = j
    BY <2>1, <2>3, <2>4 DEF PlacesOK, e
  <2>8. n \in 1..Len(buffer') /\ buffer'[n].key = k
    BY <2>1, <2>3 DEF e
  <2>9. PlacesOK'
    BY <2>1, <2>3, <2>6, <2>7 DEF PlacesOK
  <2>. QED  BY <1>3, <2>3, <2>4, <2>8, <2>9
<1>6. CASE ~Errors!Known(k) /\ Errors!Dropped(k)
  <2>. DEFINE e == [key |-> k, count |-> 1]
  <2>1. e \in Entries /\ Len(buffer) = Capacity /\ Capacity \in Nat /\ Capacity >= 1
    BY <1>6, <1>e DEF Errors!Dropped
  <2>2. /\ buffer' = Append(Tail(buffer), e)
        /\ index' = [j \in Keys |-> IF j = k THEN Capacity ELSE IF index[j] = 0 THEN 0 ELSE index[j] - 1]
    BY <1>6 DEF Errors!Dropped
  <2>3. Tail(buffer) \in Seq(Entries) /\ Len(Tail(buffer)) = Capacity - 1
        /\ \A i \in 1..(Capacity - 1) : Tail(buffer)[i] = buffer[i + 1]
    BY <2>1 DEF ErrorsTyped
  <2>4. /\ buffer' \in Seq(Entries) /\ Len(buffer') = Capacity /\ buffer'[Capacity] = e
        /\ \A i \in 1..(Capacity - 1) : buffer'[i] = buffer[i + 1] /\ buffer[i + 1] \in Entries
    BY <2>1, <2>2, <2>3 DEF ErrorsTyped
  <2>5. /\ index' \in [Keys -> 0..Capacity] /\ index'[k] = Capacity
        /\ \A j \in Keys \ {k} : index'[j] = IF index[j] = 0 THEN 0 ELSE index[j] - 1
    BY <2>1, <2>2 DEF ErrorsTyped
  <2>6. index[k] = 0
    BY <1>6 DEF Errors!Known, ErrorsTyped, PlacesOK
  <2>. HIDE DEF e
  <2>7. \A i \in 1..Len(buffer') : /\ index'[buffer'[i].key] = i
                                   /\ buffer'[i].count <= reports'[buffer'[i].key]
    <3>. TAKE i \in 1..Len(buffer')
    <3>1. CASE i = Capacity
      BY <1>3, <2>4, <2>5, <3>1 DEF e
    <3>2. CASE i # Capacity
      <4>1. /\ i \in 1..(Capacity - 1) /\ buffer'[i] = buffer[i + 1] /\ buffer[i + 1] \in Entries
            /\ i + 1 \in 1..Len(buffer)
        BY <2>1, <2>4, <3>2 DEF ErrorsTyped
      <4>2. index[buffer[i + 1].key] = i + 1
        BY <4>1 DEF PlacesOK
      <4>3. buffer[i + 1].key # k
        BY <2>6, <4>1, <4>2
      <4>4. /\ buffer[i + 1].count <= reports[buffer[i + 1].key]
            /\ reports[buffer[i + 1].key] <= reports'[buffer[i + 1].key]
        BY <1>3, <1>e, <4>1 DEF PlacesOK
      <4>5. /\ reports[buffer[i + 1].key] \in Int /\ reports'[buffer[i + 1].key] \in Int
            /\ buffer[i + 1].count \in Int
        <5>1. buffer[i + 1].key \in Keys /\ buffer[i + 1].count \in Int
          BY <1>e, <4>1
        <5>. QED  BY <1>3, <5>1 DEF ErrorsTyped
      <4>6. buffer[i + 1].key \in Keys \ {k} /\ i + 1 # 0 /\ (i + 1) - 1 = i
        BY <1>e, <4>1, <4>3
      <4>7. index'[buffer[i + 1].key] = i
        BY <2>5, <4>2, <4>6
      <4>. QED  BY <4>1, <4>4, <4>5, <4>7
    <3>. QED  BY <3>1, <3>2
  <2>8. \A j \in Keys : index'[j] # 0 => index'[j] \in 1..Len(buffer') /\ buffer'[index'[j]].key = j
    <3>. SUFFICES ASSUME NEW j \in Keys, index'[j] # 0
                  PROVE  index'[j] \in 1..Len(buffer') /\ buffer'[index'[j]].key = j
      OBVIOUS
    <3>1. CASE j = k
      BY <2>1, <2>4, <2>5, <3>1 DEF e
    <3>2. CASE j # k
      <4>1. index[j] # 0 /\ index'[j] = index[j] - 1
        BY <2>5, <3>2
      <4>2. index[j] \in 1..Capacity /\ buffer[index[j]].key = j
        BY <2>1, <4>1 DEF PlacesOK
      <4>3. index'[j] \in 1..(Capacity - 1) /\ index'[j] + 1 = index[j]
        BY <2>1, <4>1, <4>2
      <4>. QED  BY <2>1, <2>4, <4>2, <4>3
    <3>. QED  BY <3>1, <3>2
  <2>9. Capacity \in 1..Len(buffer') /\ buffer'[Capacity].key = k
    BY <2>1, <2>4 DEF e
  <2>. QED  BY <1>3, <2>1, <2>4, <2>5, <2>7, <2>8, <2>9 DEF PlacesOK
<1>. QED  BY <1>4, <1>5, <1>6 DEF Errors!Appended

LEMMA ErrorsStep == Errors!NamesAssumption /\ ErrorsInv /\ [Errors!Next]_(Errors!vars) => ErrorsInv'
<1>. SUFFICES ASSUME Errors!NamesAssumption, ErrorsInv, [Errors!Next]_(Errors!vars)
              PROVE  ErrorsInv'
  OBVIOUS
<1>. USE DEF Errors!Happened
<1>0. /\ 0 \in 0..MaxCount /\ 0 \in 0..Capacity
      /\ \A n \in 0..MaxCount : Errors!Capped(n) \in 0..MaxCount /\ Errors!Capped(n) >= n
  BY DEF Errors!Capped, Errors!NamesAssumption
<1>1. ASSUME NEW k \in Keys, Errors!CommandThrows(k) \/ Errors!Fatal(k)
      PROVE  ErrorsInv'
  <2>1. /\ Errors!Reported(k) /\ Errors!Appended(k) /\ latest' = [what |-> "captured", key |-> k]
        /\ running' \in BOOLEAN /\ carried' \in Keys \cup {None}
    BY <1>1 DEF Errors!CommandThrows, Errors!Fatal, ErrorsInv, ErrorsTyped
  <2>2. /\ buffer' \in Seq(Entries) /\ index' \in [Keys -> 0..Capacity]
        /\ reports' \in [Keys -> 0..MaxCount] /\ PlacesOK'
        /\ \E i \in 1..Len(buffer') : buffer'[i].key = k
    BY <2>1, AppendKeeps DEF ErrorsInv
  <2>. QED  BY <2>1, <2>2 DEF ErrorsInv, ErrorsTyped, LatestOK
<1>2. ASSUME NEW k \in Keys, Errors!Reported(k), UNCHANGED <<running, buffer, index>>,
             latest' = [what |-> "failed", key |-> k], carried' \in {carried, None}
      PROVE  ErrorsInv'
  <2>1. /\ reports' \in [Keys -> 0..MaxCount]
        /\ \A j \in Keys : reports'[j] \in Int /\ reports[j] \in Int /\ reports'[j] >= reports[j]
    <3>1. reports \in [Keys -> 0..MaxCount] /\ reports' = [reports EXCEPT ![k] = Errors!Capped(@)]
      BY <1>2 DEF Errors!Reported, ErrorsInv, ErrorsTyped
    <3>2. ASSUME NEW j \in Keys
          PROVE  reports[j] \in 0..MaxCount /\ reports'[j] \in 0..MaxCount /\ reports'[j] >= reports[j]
      <4>1. reports[j] \in 0..MaxCount /\ reports'[j] = IF j = k THEN Errors!Capped(reports[j]) ELSE reports[j]
        BY <3>1
      <4>. QED  BY <1>0, <4>1
    <3>3. reports' \in [Keys -> 0..MaxCount]
      BY <3>1, <3>2
    <3>. QED  BY <3>2, <3>3
  <2>2. PlacesOK'
    <3>1. \A i \in 1..Len(buffer) : buffer[i].key \in Keys /\ buffer[i].count \in Int
      <4>1. \A i \in 1..Len(buffer) : buffer[i] \in Entries
        BY DEF ErrorsInv, ErrorsTyped
      <4>. QED  BY <4>1 DEF Entries
    <3>2. /\ Len(buffer') <= Capacity
          /\ \A i \in 1..Len(buffer') : index'[buffer'[i].key] = i
          /\ \A j \in Keys : index'[j] # 0 => index'[j] \in 1..Len(buffer') /\ buffer'[index'[j]].key = j
      BY <1>2 DEF ErrorsInv, PlacesOK
    <3>3. ASSUME NEW i \in 1..Len(buffer)
          PROVE  buffer[i].count <= reports'[buffer[i].key]
      <4>1. buffer[i].count <= reports[buffer[i].key]
        BY DEF ErrorsInv, PlacesOK
      <4>. QED  BY <2>1, <3>1, <4>1
    <3>. QED  BY <1>2, <3>2, <3>3 DEF PlacesOK
  <2>. QED  BY <1>2, <2>1, <2>2 DEF ErrorsInv, ErrorsTyped, LatestOK
<1>3. ASSUME NEW k \in Keys, UNCHANGED <<running, buffer, index, reports>>,
             latest' = [what |-> "refused", key |-> k], carried' \in {carried, None}
      PROVE  ErrorsInv'
  BY <1>3 DEF ErrorsInv, ErrorsTyped, PlacesOK, LatestOK
<1>4. CASE Errors!Restart
  <2>1. /\ buffer' = <<>> /\ index' = [k \in Keys |-> 0] /\ running' = TRUE
        /\ latest' = [what |-> "none", key |-> None] /\ UNCHANGED <<reports, carried>>
    BY <1>4 DEF Errors!Restart
  <2>2. buffer' \in Seq(Entries) /\ Len(buffer') = 0
    BY <2>1
  <2>. QED  BY <1>0, <2>1, <2>2 DEF ErrorsInv, ErrorsTyped, PlacesOK, LatestOK, Errors!NamesAssumption
<1>5. CASE UNCHANGED Errors!vars
  BY <1>5 DEF Errors!vars, ErrorsInv, ErrorsTyped, PlacesOK, LatestOK
<1>6. CASE Errors!CarriedRefused \/ Errors!CarriedFails
  <2>1. carried \in Keys
    BY <1>6 DEF Errors!CarriedRefused, Errors!CarriedFails, ErrorsInv, ErrorsTyped
  <2>. QED  BY <1>2, <1>3, <1>6, <2>1 DEF Errors!CarriedRefused, Errors!CarriedFails
<1>7. ASSUME NEW k \in Keys, Errors!ClientError(k) \/ Errors!RouteThrows(k)
      PROVE  ErrorsInv'
  BY <1>2, <1>3, <1>7 DEF Errors!ClientError, Errors!RouteThrows
<1>. QED  BY <1>1, <1>4, <1>5, <1>6, <1>7 DEF Errors!Next

\* ErrorWindow by itself.
LEMMA ErrorsAreHeld ==
    ASSUME Errors!NamesAssumption
    PROVE  Errors!Spec => []Errors!TypeOK /\ []Errors!WindowExact
<1>1. Errors!Init => ErrorsInv
  <2>. SUFFICES ASSUME Errors!Init
                PROVE  ErrorsInv
    OBVIOUS
  <2>1. buffer \in Seq(Entries) /\ Len(buffer) = 0
    BY DEF Errors!Init
  <2>. QED  BY <2>1 DEF Errors!Init, ErrorsInv, ErrorsTyped, PlacesOK, LatestOK, Errors!NamesAssumption
<1>2. ErrorsInv => Errors!TypeOK /\ Errors!WindowExact
  <2>. SUFFICES ASSUME ErrorsInv
                PROVE  Errors!TypeOK /\ Errors!WindowExact
    OBVIOUS
  <2>1. DOMAIN buffer = 1..Len(buffer) /\ \A i \in 1..Len(buffer) : buffer[i] \in Entries
    BY DEF ErrorsInv, ErrorsTyped
  <2>2. Errors!TypeOK
    BY <2>1 DEF ErrorsInv, ErrorsTyped, Entries, Errors!TypeOK
  <2>3. \A k \in Keys : IF k \in Errors!InWindow THEN {i \in DOMAIN buffer : buffer[i].key = k} = {index[k]}
                        ELSE index[k] = 0
    BY <2>1 DEF ErrorsInv, PlacesOK, Errors!InWindow
  <2>4. latest.what = "captured" => latest.key \in Errors!InWindow
    BY <2>1 DEF ErrorsInv, LatestOK, Errors!InWindow
  <2>. QED  BY <2>1, <2>2, <2>3, <2>4 DEF ErrorsInv, PlacesOK, Errors!WindowExact
<1>. QED  BY <1>1, <1>2, ErrorsStep, PTL DEF Errors!Spec

-----------------------------------------------------------------------------
(***************************************************************************)
(* WorkerHealth.                                                           *)
(***************************************************************************)
Orders == Beats!Beat \cup [op : {"del"}, age : 0..Beats!Dead]

BeatsTyped ==
    /\ life \in [Workers -> {"off", "up", "stopping", "draining", "stopped", "killed"}]
    /\ timer \in [Workers -> BOOLEAN] /\ due \in [Workers -> BOOLEAN]
    /\ lost \in [Workers -> BOOLEAN] /\ gone \in [Workers -> 0..Beats!Dead]
    /\ key \in [Workers -> Beats!Entry \cup {None}]
    /\ commands \in [Workers -> Seq(Orders)]

\* Only a running worker has a timer and only it sets its key; the deletion is the last command of
\* one that stops; the key of a running worker outlives the interval in which it is renewed.
WorkerOK(w) ==
    /\ timer[w] <=> life[w] = "up"
    /\ due[w] => timer[w]
    /\ life[w] = "up" => \A i \in 1..Len(commands[w]) : commands[w][i].op = "set"
    /\ life[w] = "up" /\ commands[w] = <<>> /\ ~lost[w] =>
         key[w] \in Beats!Entry /\ (~due[w] => key[w].left = Beats!TTL)
    /\ life[w] = "stopping" /\ commands[w] # <<>> => commands[w][Len(commands[w])].op = "del"
    /\ life[w] \in {"draining", "stopped"} => commands[w] = <<>>
    /\ life[w] \in {"stopping", "draining", "stopped"} /\ commands[w] = <<>> /\ ~lost[w] => key[w] = None

BeatsInv == BeatsTyped /\ \A w \in Workers : WorkerOK(w)

LEMMA OrdersAre ==
    /\ \A a \in 0..Beats!Dead : Beats!Older(a) \in 0..Beats!Dead
    /\ \A a \in 0..Beats!Dead : [op |-> "set", age |-> a] \in Orders
    /\ Beats!Del \in Orders /\ Beats!Del.op = "del"
    /\ \A c \in Orders : /\ c.op \in {"set", "del"} /\ c.age \in 0..Beats!Dead
                         /\ LET d == [c EXCEPT !.age = Beats!Older(@)] IN d \in Orders /\ d.op = c.op
    /\ \A a \in 0..Beats!Dead, n \in 1..Beats!TTL :
         LET e == [left |-> n, age |-> a] IN e \in Beats!Entry /\ e.left = n
    /\ \A e \in Beats!Entry : e.left \in 1..Beats!TTL /\ e.age \in 0..Beats!Dead
    /\ 0 \in 0..Beats!Dead /\ Beats!TTL = 2
<1>1. \A a \in 0..Beats!Dead : Beats!Older(a) \in 0..Beats!Dead
  BY DEF Beats!Older, Beats!Dead
<1>. QED  BY <1>1 DEF Orders, Beats!Beat, Beats!Del, Beats!Entry, Beats!TTL, Beats!Dead

LEMMA BeatsTick == Beats!NamesAssumption /\ BeatsInv /\ Beats!Tick => BeatsInv'
<1>. SUFFICES ASSUME Beats!NamesAssumption, BeatsInv, Beats!Tick
              PROVE  BeatsInv'
  OBVIOUS
<1>1. /\ UNCHANGED <<life, timer, lost>> /\ due' = timer /\ \A w \in Workers : ~due[w]
      /\ key' = [w \in Workers |-> Beats!Later(key[w])]
      /\ commands' = [w \in Workers |-> [i \in DOMAIN commands[w] |->
                                           [commands[w][i] EXCEPT !.age = Beats!Older(@)]]]
      /\ gone' = [w \in Workers |-> IF life[w] = "killed" THEN Beats!Older(gone[w]) ELSE 0]
  BY DEF Beats!Tick
<1>2. \A w \in Workers : /\ commands'[w] \in Seq(Orders) /\ Len(commands'[w]) = Len(commands[w])
                         /\ \A i \in 1..Len(commands[w]) : commands'[w][i].op = commands[w][i].op
  <2>. TAKE w \in Workers
  <2>1. /\ commands[w] \in Seq(Orders) /\ Len(commands[w]) \in Nat
        /\ DOMAIN commands[w] = 1..Len(commands[w])
        /\ \A i \in 1..Len(commands[w]) : commands[w][i] \in Orders
    BY DEF BeatsInv, BeatsTyped
  <2>. DEFINE f(i) == [commands[w][i] EXCEPT !.age = Beats!Older(@)]
  <2>2. \A i \in 1..Len(commands[w]) : f(i) \in Orders /\ f(i).op = commands[w][i].op
    BY <2>1, OrdersAre
  <2>3. commands'[w] = [i \in 1..Len(commands[w]) |-> f(i)]
    BY <1>1, <2>1
  <2>. HIDE DEF f
  <2>4. commands'[w] \in Seq(Orders) /\ Len(commands'[w]) = Len(commands[w])
    BY <2>1, <2>2, <2>3
  <2>. QED  BY <2>2, <2>3, <2>4
<1>3. \A w \in Workers : /\ commands[w] = <<>> <=> commands'[w] = <<>>
                         /\ commands[w] = <<>> <=> Len(commands[w]) = 0
                         /\ Len(commands[w]) \in Nat
  <2>. TAKE w \in Workers
  <2>1. commands[w] \in Seq(Orders)
    BY DEF BeatsInv, BeatsTyped
  <2>. QED  BY <1>2, <2>1
<1>4. \A k \in Beats!Entry \cup {None} :
        /\ Beats!Later(k) \in Beats!Entry \cup {None}
        /\ k = None => Beats!Later(k) = None
        /\ k \in Beats!Entry /\ k.left = Beats!TTL => Beats!Later(k) \in Beats!Entry
  <2>. TAKE k \in Beats!Entry \cup {None}
  <2>1. CASE k = None
    BY <2>1 DEF Beats!Later, Beats!NamesAssumption
  <2>2. CASE k \in Beats!Entry
    <3>1. k # None /\ k.left \in 1..2 /\ Beats!Older(k.age) \in 0..Beats!Dead
      BY <2>2, OrdersAre DEF Beats!NamesAssumption
    <3>2. k.left # 1 => k.left - 1 \in 1..Beats!TTL
      BY <3>1, OrdersAre
    <3>3. CASE k.left = 1
      BY <2>2, <3>1, <3>3, OrdersAre DEF Beats!Later
    <3>4. CASE k.left # 1
      <4>1. Beats!Later(k) = [left |-> k.left - 1, age |-> Beats!Older(k.age)]
        BY <3>1, <3>4 DEF Beats!Later
      <4>2. Beats!Later(k) \in Beats!Entry
        BY <3>1, <3>2, <3>4, <4>1, OrdersAre
      <4>. QED  BY <3>1, <4>2
    <3>. QED  BY <3>3, <3>4
  <2>. QED  BY <2>1, <2>2
<1>5. BeatsTyped'
  <2>1. gone' \in [Workers -> 0..Beats!Dead]
    BY <1>1, OrdersAre DEF BeatsInv, BeatsTyped
  <2>2. key' \in [Workers -> Beats!Entry \cup {None}]
    BY <1>1, <1>4 DEF BeatsInv, BeatsTyped
  <2>3. commands' \in [Workers -> Seq(Orders)]
    BY <1>1, <1>2
  <2>. QED  BY <1>1, <2>1, <2>2, <2>3 DEF BeatsInv, BeatsTyped
<1>6. \A w \in Workers : WorkerOK(w)'
  <2>. TAKE w \in Workers
  <2>1. WorkerOK(w) /\ ~due[w] /\ due'[w] = timer[w] /\ key'[w] = Beats!Later(key[w])
    BY <1>1 DEF BeatsInv
  <2>2. key[w] \in Beats!Entry \cup {None}
    BY DEF BeatsInv, BeatsTyped
  <2>3. life[w] = "up" /\ commands[w] = <<>> /\ ~lost[w] => key'[w] \in Beats!Entry
    BY <1>4, <2>1, <2>2 DEF WorkerOK
  <2>4. life[w] \in {"stopping", "draining", "stopped"} /\ commands[w] = <<>> /\ ~lost[w] => key'[w] = None
    BY <1>4, <2>1, <2>2 DEF WorkerOK
  <2>5. life[w] = "up" => \A i \in 1..Len(commands'[w]) : commands'[w][i].op = "set"
    BY <1>2, <2>1 DEF WorkerOK
  <2>6. life[w] = "stopping" /\ commands[w] # <<>> => commands'[w][Len(commands'[w])].op = "del"
    <3>1. commands[w] # <<>> => Len(commands[w]) \in 1..Len(commands[w])
      BY <1>3
    <3>. QED  BY <1>2, <2>1, <3>1 DEF WorkerOK
  <2>. QED  BY <1>1, <1>3, <2>1, <2>3, <2>4, <2>5, <2>6 DEF WorkerOK
<1>. QED  BY <1>5, <1>6 DEF BeatsInv

\* A step of the worker w leaves the others alone.
LEMMA OtherWorkers ==
    ASSUME BeatsInv, NEW w \in Workers, WorkerOK(w)',
           \A v \in Workers \ {w} :
             /\ life'[v] = life[v] /\ timer'[v] = timer[v] /\ due'[v] = due[v]
             /\ lost'[v] = lost[v] /\ key'[v] = key[v] /\ commands'[v] = commands[v]
    PROVE  \A v \in Workers : WorkerOK(v)'
<1>. TAKE v \in Workers
<1>1. CASE v = w
  BY <1>1
<1>2. CASE v # w
  BY <1>2 DEF BeatsInv, WorkerOK
<1>. QED  BY <1>1, <1>2

LEMMA BeatsWorker == ASSUME Beats!NamesAssumption, BeatsInv, NEW w \in Workers, Beats!Step(w)
                     PROVE  BeatsInv'
<1>. DEFINE s == commands[w]
<1>0. s \in Seq(Orders) /\ Len(s) \in Nat /\ (s = <<>> <=> Len(s) = 0) /\ WorkerOK(w) /\ BeatsTyped
  BY DEF BeatsInv, BeatsTyped
<1>a. ASSUME NEW c \in Orders, commands' = [commands EXCEPT ![w] = Append(@, c)]
      PROVE  /\ commands' \in [Workers -> Seq(Orders)] /\ commands'[w] = Append(s, c)
             /\ Len(commands'[w]) = Len(s) + 1 /\ commands'[w] # <<>>
             /\ commands'[w][Len(s) + 1] = c /\ \A i \in 1..Len(s) : commands'[w][i] = s[i]
             /\ \A v \in Workers \ {w} : commands'[v] = commands[v]
  <2>1. Append(s, c) \in Seq(Orders) /\ Len(Append(s, c)) = Len(s) + 1
    BY <1>0
  <2>2. commands' \in [Workers -> Seq(Orders)] /\ commands'[w] = Append(s, c)
    BY <1>0, <1>a, <2>1 DEF BeatsTyped
  <2>3. Append(s, c)[Len(s) + 1] = c /\ \A i \in 1..Len(s) : Append(s, c)[i] = s[i]
    BY <1>0
  <2>4. Append(s, c) # <<>>
    BY <1>0, <2>1
  <2>5. \A v \in Workers \ {w} : commands'[v] = commands[v]
    BY <1>0, <1>a DEF BeatsTyped
  <2>. QED  BY <2>1, <2>2, <2>3, <2>4, <2>5
<1>b. ASSUME s # <<>>, commands' = [commands EXCEPT ![w] = Tail(@)]
      PROVE  /\ commands' \in [Workers -> Seq(Orders)] /\ commands'[w] = Tail(s)
             /\ Len(commands'[w]) = Len(s) - 1 /\ (commands'[w] = <<>> <=> Len(s) = 1)
             /\ \A i \in 1..(Len(s) - 1) : commands'[w][i] = s[i + 1]
             /\ Head(s) = s[1] /\ Head(s) \in Orders
             /\ \A v \in Workers \ {w} : commands'[v] = commands[v]
  <2>1. /\ Tail(s) \in Seq(Orders) /\ Len(Tail(s)) = Len(s) - 1 /\ Head(s) = s[1] /\ Head(s) \in Orders
        /\ \A i \in 1..(Len(s) - 1) : Tail(s)[i] = s[i + 1]
    BY <1>0, <1>b
  <2>2. commands' \in [Workers -> Seq(Orders)] /\ commands'[w] = Tail(s)
    BY <1>0, <1>b, <2>1 DEF BeatsTyped
  <2>3. Tail(s) = <<>> <=> Len(s) = 1
    <3>1. \A t \in Seq(Orders) : t = <<>> <=> Len(t) = 0
      OBVIOUS
    <3>2. Len(Tail(s)) = 0 <=> Len(s) = 1
      BY <1>0, <2>1
    <3>3. Tail(s) \in Seq(Orders)
      BY <2>1
    <3>. HIDE DEF s
    <3>. QED  BY <3>1, <3>2, <3>3
  <2>. QED  BY <1>b, <2>1, <2>2, <2>3 DEF BeatsInv, BeatsTyped
<1>1. CASE Beats!Start(w)
  <2>1. /\ s = <<>> /\ life' = [life EXCEPT ![w] = "up"] /\ timer' = [timer EXCEPT ![w] = TRUE]
        /\ commands' = [commands EXCEPT ![w] = Append(@, [op |-> "set", age |-> 0])]
        /\ gone' = [gone EXCEPT ![w] = 0] /\ lost' = [lost EXCEPT ![w] = FALSE] /\ UNCHANGED <<due, key>>
    BY <1>1 DEF Beats!Start, Beats!Sends
  <2>2. [op |-> "set", age |-> 0] \in Orders /\ [op |-> "set", age |-> 0].op = "set" /\ 0 \in 0..Beats!Dead
    BY OrdersAre
  <2>3. BeatsTyped'
    BY <1>0, <1>a, <2>1, <2>2 DEF BeatsTyped
  <2>4. WorkerOK(w)'
    <3>1. \A i \in 1..Len(commands'[w]) : commands'[w][i].op = "set"
      BY <1>0, <1>a, <2>1, <2>2
    <3>2. life'[w] = "up" /\ timer'[w] = TRUE /\ commands'[w] # <<>>
      BY <1>0, <1>a, <2>1, <2>2 DEF BeatsTyped
    <3>. QED  BY <3>1, <3>2 DEF WorkerOK
  <2>. QED  BY <1>0, <1>a, <2>1, <2>2, <2>3, <2>4, OtherWorkers DEF BeatsInv, BeatsTyped
<1>2. CASE Beats!Publish(w)
  <2>1. /\ timer[w] /\ due' = [due EXCEPT ![w] = FALSE] /\ UNCHANGED <<life, timer, key, lost, gone>>
        /\ commands' = [commands EXCEPT ![w] = Append(@, [op |-> "set", age |-> 0])]
    BY <1>2 DEF Beats!Publish, Beats!Sends
  <2>2. [op |-> "set", age |-> 0] \in Orders /\ [op |-> "set", age |-> 0].op = "set"
    BY OrdersAre
  <2>3. BeatsTyped'
    BY <1>0, <1>a, <2>1, <2>2 DEF BeatsTyped
  <2>4. WorkerOK(w)'
    <3>1. life[w] = "up" /\ \A i \in 1..Len(s) : s[i].op = "set"
      BY <1>0, <2>1 DEF WorkerOK
    <3>2. \A i \in 1..Len(commands'[w]) : commands'[w][i].op = "set"
      BY <1>0, <1>a, <2>1, <2>2, <3>1
    <3>3. commands'[w] # <<>> /\ ~due'[w]
      BY <1>0, <1>a, <2>1, <2>2 DEF BeatsTyped
    <3>. QED  BY <1>0, <2>1, <3>1, <3>2, <3>3 DEF WorkerOK
  <2>. QED  BY <1>0, <1>a, <2>1, <2>2, <2>3, <2>4, OtherWorkers DEF BeatsInv, BeatsTyped
<1>3. CASE Beats!Executed(w)
  <2>. DEFINE k == IF Head(s).op = "set" THEN [left |-> Beats!TTL, age |-> Head(s).age] ELSE None
  <2>1. /\ s # <<>> /\ key' = [key EXCEPT ![w] = k] /\ commands' = [commands EXCEPT ![w] = Tail(@)]
        /\ lost' = [lost EXCEPT ![w] = FALSE] /\ UNCHANGED <<life, timer, due, gone>>
    BY <1>3 DEF Beats!Executed
  <2>2. /\ k \in Beats!Entry \cup {None} /\ (Head(s).op = "del" => k = None)
        /\ (Head(s).op = "set" => k \in Beats!Entry /\ k.left = Beats!TTL)
    <3>0. Head(s) \in Orders
      BY <1>b, <2>1
    <3>. HIDE DEF s
    <3>1. Head(s).age \in 0..Beats!Dead /\ Beats!TTL \in 1..Beats!TTL
      <4>1. \A c \in Orders : c.age \in 0..Beats!Dead
        <5>1. ASSUME NEW c \in Orders PROVE c.age \in 0..Beats!Dead
          BY OrdersAre
        <5>. QED  BY <5>1
      <4>2. Beats!TTL \in 1..Beats!TTL
        BY DEF Beats!TTL
      <4>. QED  BY <3>0, <4>1, <4>2
    <3>2. CASE Head(s).op = "set"
      BY <3>1, <3>2, OrdersAre
    <3>3. CASE Head(s).op # "set"
      BY <3>3
    <3>. QED  BY <3>2, <3>3
  <2>. HIDE DEF k
  <2>3. BeatsTyped'
    BY <1>0, <1>b, <2>1, <2>2 DEF BeatsTyped
  <2>4. key'[w] = k /\ \A v \in Workers \ {w} : key'[v] = key[v] /\ lost'[v] = lost[v]
    BY <1>0, <2>1 DEF BeatsTyped
  <2>5. WorkerOK(w)'
    <3>1. CASE life[w] = "up"
      <4>1. \A i \in 1..Len(s) : s[i].op = "set"
        BY <1>0, <3>1 DEF WorkerOK
      <4>2. Head(s).op = "set" /\ \A i \in 1..Len(commands'[w]) : commands'[w][i].op = "set"
        BY <1>0, <1>b, <2>1, <4>1
      <4>. QED  BY <1>0, <2>1, <2>2, <2>4, <3>1, <4>2 DEF WorkerOK
    <3>2. CASE life[w] = "stopping"
      <4>1. s[Len(s)].op = "del"
        BY <1>0, <2>1, <3>2 DEF WorkerOK
      <4>2. CASE Len(s) = 1
        <5>1. key'[w] = None /\ commands'[w] = <<>>
          BY <1>b, <2>1, <2>2, <2>4, <4>1, <4>2
        <5>. QED  BY <1>0, <2>1, <3>2, <5>1 DEF WorkerOK
      <4>3. CASE Len(s) # 1
        <5>1. commands'[w] # <<>> /\ commands'[w][Len(commands'[w])] = s[Len(s)]
          BY <1>0, <1>b, <2>1, <4>3
        <5>. QED  BY <1>0, <2>1, <3>2, <4>1, <5>1 DEF WorkerOK
      <4>. QED  BY <4>2, <4>3
    <3>3. life[w] \notin {"draining", "stopped"}
      BY <1>0, <2>1 DEF WorkerOK
    <3>. QED  BY <1>0, <2>1, <3>1, <3>2, <3>3 DEF WorkerOK
  <2>. QED  BY <1>b, <2>1, <2>3, <2>4, <2>5, OtherWorkers DEF BeatsInv
<1>4. CASE Beats!Fails(w)
  <2>1. /\ s # <<>> /\ commands' = [commands EXCEPT ![w] = Tail(@)]
        /\ lost' = [lost EXCEPT ![w] = TRUE] /\ UNCHANGED <<life, timer, due, key, gone>>
    BY <1>4 DEF Beats!Fails
  <2>2. BeatsTyped' /\ lost'[w] = TRUE /\ \A v \in Workers \ {w} : lost'[v] = lost[v]
    BY <1>0, <1>b, <2>1 DEF BeatsTyped
  <2>3. WorkerOK(w)'
    <3>1. life[w] = "up" => \A i \in 1..Len(commands'[w]) : commands'[w][i].op = "set"
      BY <1>0, <1>b, <2>1 DEF WorkerOK
    <3>2. life[w] = "stopping" /\ commands'[w] # <<>> => commands'[w][Len(commands'[w])].op = "del"
      <4>1. life[w] = "stopping" => s[Len(s)].op = "del"
        BY <1>0, <2>1 DEF WorkerOK
      <4>2. commands'[w] # <<>> => commands'[w][Len(commands'[w])] = s[Len(s)]
        BY <1>0, <1>b, <2>1
      <4>. QED  BY <4>1, <4>2
    <3>3. life[w] \notin {"draining", "stopped"}
      BY <1>0, <2>1 DEF WorkerOK
    <3>. QED  BY <1>0, <2>1, <2>2, <3>1, <3>2, <3>3 DEF WorkerOK
  <2>. QED  BY <1>b, <2>1, <2>2, <2>3, OtherWorkers DEF BeatsInv
<1>5. CASE Beats!Stop(w)
  <2>1. /\ life[w] = "up" /\ life' = [life EXCEPT ![w] = "stopping"]
        /\ timer' = [timer EXCEPT ![w] = FALSE] /\ due' = [due EXCEPT ![w] = FALSE]
        /\ commands' = [commands EXCEPT ![w] = Append(@, Beats!Del)] /\ UNCHANGED <<key, lost, gone>>
    BY <1>5 DEF Beats!Stop, Beats!Sends
  <2>2. BeatsTyped'
    BY <1>0, <1>a, <2>1, OrdersAre DEF BeatsTyped
  <2>3. WorkerOK(w)'
    <3>1. life'[w] = "stopping" /\ ~timer'[w] /\ ~due'[w]
      BY <1>0, <2>1 DEF BeatsTyped
    <3>2. commands'[w] # <<>> /\ commands'[w][Len(commands'[w])].op = "del"
      <4>1. /\ commands'[w] # <<>> /\ Len(commands'[w]) = Len(s) + 1
            /\ commands'[w][Len(s) + 1] = Beats!Del
        BY <1>a, <2>1, OrdersAre
      <4>. QED  BY <4>1, OrdersAre
    <3>. QED  BY <3>1, <3>2 DEF WorkerOK
  <2>. QED  BY <1>0, <1>a, <2>1, <2>2, <2>3, OrdersAre, OtherWorkers DEF BeatsInv, BeatsTyped
<1>6. CASE Beats!StopAnswered(w)
  <2>1. /\ life[w] = "stopping" /\ s = <<>> /\ life' = [life EXCEPT ![w] = "draining"]
        /\ UNCHANGED <<timer, due, commands, key, lost, gone>>
    BY <1>6 DEF Beats!StopAnswered
  <2>2. BeatsTyped' /\ life'[w] = "draining"
    BY <1>0, <2>1 DEF BeatsTyped
  <2>3. WorkerOK(w)'
    BY <1>0, <2>1, <2>2 DEF WorkerOK
  <2>. QED  BY <1>0, <2>1, <2>2, <2>3, OtherWorkers DEF BeatsInv, BeatsTyped
<1>7. CASE Beats!Exit(w)
  <2>1. /\ life[w] = "draining" /\ life' = [life EXCEPT ![w] = "stopped"]
        /\ timer' = [timer EXCEPT ![w] = FALSE] /\ due' = [due EXCEPT ![w] = FALSE]
        /\ UNCHANGED <<commands, key, lost, gone>>
    BY <1>7 DEF Beats!Exit
  <2>2. BeatsTyped' /\ life'[w] = "stopped" /\ ~timer'[w] /\ ~due'[w]
    BY <1>0, <2>1 DEF BeatsTyped
  <2>3. WorkerOK(w)'
    BY <1>0, <2>1, <2>2 DEF WorkerOK
  <2>. QED  BY <1>0, <2>1, <2>2, <2>3, OtherWorkers DEF BeatsInv, BeatsTyped
<1>8. CASE Beats!Kill(w)
  <2>1. /\ life' = [life EXCEPT ![w] = "killed"]
        /\ timer' = [timer EXCEPT ![w] = FALSE] /\ due' = [due EXCEPT ![w] = FALSE]
        /\ UNCHANGED <<key, lost, gone>>
    BY <1>8 DEF Beats!Kill
  <2>2. PICK n \in 0..Len(s) : commands' = [commands EXCEPT ![w] = SubSeq(@, 1, n)]
    BY <1>8 DEF Beats!Kill
  <2>3. SubSeq(s, 1, n) \in Seq(Orders)
    BY <1>0, <2>2
  <2>4. commands' \in [Workers -> Seq(Orders)]
    BY <1>0, <2>2, <2>3 DEF BeatsTyped
  <2>5. BeatsTyped' /\ life'[w] = "killed" /\ ~timer'[w] /\ ~due'[w]
    BY <1>0, <2>1, <2>4 DEF BeatsTyped
  <2>6. WorkerOK(w)'
    BY <2>5 DEF WorkerOK
  <2>. QED  BY <1>0, <2>1, <2>2, <2>5, <2>6, OtherWorkers DEF BeatsInv, BeatsTyped
<1>. QED  BY <1>1, <1>2, <1>3, <1>4, <1>5, <1>6, <1>7, <1>8 DEF Beats!Step

\* WorkerHealth by itself.
LEMMA BeatsAreHeld ==
    ASSUME Beats!NamesAssumption
    PROVE  Beats!Spec => []Beats!TypeOK /\ []Beats!KeysTellLife
<1>1. Beats!Init => BeatsInv
  <2>. SUFFICES ASSUME Beats!Init
                PROVE  BeatsInv
    OBVIOUS
  <2>1. BeatsTyped
    BY OrdersAre DEF Beats!Init, BeatsTyped
  <2>. QED  BY <2>1 DEF Beats!Init, BeatsInv, WorkerOK
<1>2. BeatsInv => Beats!TypeOK /\ Beats!KeysTellLife
  <2>. SUFFICES ASSUME BeatsInv
                PROVE  Beats!TypeOK /\ Beats!KeysTellLife
    OBVIOUS
  <2>1. \A w \in Workers : \A i \in DOMAIN commands[w] : commands[w][i] \in Orders
    BY DEF BeatsInv, BeatsTyped
  <2>2. Beats!TypeOK
    BY <2>1 DEF BeatsInv, BeatsTyped, Orders, Beats!TypeOK
  <2>3. Beats!KeysTellLife
    BY DEF BeatsInv, WorkerOK, Beats!KeysTellLife, Beats!NamesAssumption
  <2>. QED  BY <2>2, <2>3
<1>3. BeatsInv /\ [Beats!Next]_(Beats!vars) => BeatsInv'
  <2>1. BeatsInv /\ UNCHANGED Beats!vars => BeatsInv'
    BY DEF Beats!vars, BeatsInv, BeatsTyped, WorkerOK
  <2>. QED  BY <2>1, BeatsTick, BeatsWorker DEF Beats!Next
<1>. QED  BY <1>1, <1>2, <1>3, PTL DEF Beats!Spec

-----------------------------------------------------------------------------
(***************************************************************************)
(* HealthReport.                                                           *)
(***************************************************************************)
ReportTyped ==
    /\ state \in [Contributors -> {"healthy", "unhealthy", "hung"}]
    /\ since \in [Contributors -> 0..Report!Bound]
    /\ cached = None \/ cached \in [value : Report!Results, left : 1..Cache]
    /\ handling \in [Readers -> {"idle", "probing", "composing"}]
    /\ probe \in [Readers -> [Contributors -> {"none", "running", "healthy", "unhealthy"}]]
    /\ wait \in [Readers -> 0..Report!Longest]
    /\ value \in [Readers -> Report!Results \cup {None}]
    /\ shown \in {"loading", "error", "healthy", "unhealthy"}

\* What the report should say of a contributor.
Truth(c) == IF state[c] = "healthy" THEN "healthy" ELSE "unhealthy"

\* A result of a fan-out is true, unless the contributor changed while the fan-out ran.
ProbesRecent ==
    \A q \in Readers : handling[q] = "probing" =>
      \A c \in Contributors :
        \/ probe[q][c] = "running"
        \/ probe[q][c] \in {"healthy", "unhealthy"} /\ (probe[q][c] = Truth(c) \/ since[c] <= wait[q])

\* So is a result in the cache, unless it changed within the longest fan-out and the time that the
\* cache has lived.
CacheRecent ==
    cached # None => \A c \in Contributors :
      cached.value[c] = Truth(c) \/ since[c] + cached.left <= Report!Longest + Cache

ReportInv == ReportTyped /\ ProbesRecent /\ CacheRecent

LEMMA LongestIs ==
    ASSUME Report!NamesAssumption
    PROVE  /\ Report!Longest \in Nat /\ Report!Bound \in Nat /\ Cache \in Nat \ {0}
           /\ Report!Bound = Report!Longest + Cache
           /\ \A c \in Contributors : Timeout[c] \in Nat /\ Timeout[c] <= Report!Longest
<1>1. \E t \in {Timeout[c] : c \in Contributors} : \A c \in Contributors : Timeout[c] <= t
  BY DEF Report!NamesAssumption
<1>2. /\ Report!Longest \in {Timeout[c] : c \in Contributors}
      /\ \A c \in Contributors : Timeout[c] <= Report!Longest
  BY <1>1 DEF Report!Longest
<1>. QED  BY <1>2 DEF Report!NamesAssumption, Report!Bound

LEMMA ReportStep == Report!NamesAssumption /\ ReportInv /\ [Report!Next]_(Report!vars) => ReportInv'
<1>. SUFFICES ASSUME Report!NamesAssumption, ReportInv, [Report!Next]_(Report!vars)
              PROVE  ReportInv'
  OBVIOUS
<1>. DEFINE L == Report!Longest
            B == Report!Bound
<1>0. /\ L \in Nat /\ B \in Nat /\ Cache \in Nat \ {0} /\ B = L + Cache
      /\ \A c \in Contributors : Timeout[c] \in Nat /\ Timeout[c] <= L
  BY LongestIs
<1>a. ReportTyped /\ ProbesRecent /\ CacheRecent
  BY DEF ReportInv
<1>. HIDE DEF L, B
<1>1. ASSUME NEW q \in Readers, Report!Hit(q)
      PROVE  ReportInv'
  <2>1. /\ cached # None /\ handling' = [handling EXCEPT ![q] = "composing"]
        /\ value' = [value EXCEPT ![q] = cached.value]
        /\ UNCHANGED <<state, since, cached, probe, wait, shown>>
    BY <1>1 DEF Report!Hit
  <2>2. cached.value \in Report!Results
    BY <1>a, <2>1 DEF ReportTyped
  <2>3. ReportTyped'
    BY <1>a, <2>1, <2>2 DEF ReportTyped
  <2>4. ProbesRecent'
    BY <1>a, <2>1 DEF ReportTyped, ProbesRecent, Truth
  <2>. QED  BY <1>a, <2>1, <2>3, <2>4 DEF ReportInv, CacheRecent, Truth
<1>2. ASSUME NEW q \in Readers, Report!Miss(q)
      PROVE  ReportInv'
  <2>1. /\ handling' = [handling EXCEPT ![q] = "probing"] /\ wait' = [wait EXCEPT ![q] = 0]
        /\ probe' = [probe EXCEPT ![q] = [c \in Contributors |-> "running"]]
        /\ UNCHANGED <<state, since, cached, value, shown>>
    BY <1>2 DEF Report!Miss
  <2>2. [c \in Contributors |-> "running"] \in [Contributors -> {"none", "running", "healthy", "unhealthy"}]
    OBVIOUS
  <2>3. ReportTyped'
    BY <1>0, <1>a, <2>1, <2>2 DEF ReportTyped, L
  <2>4. ProbesRecent'
    <3>1. \A c \in Contributors : probe'[q][c] = "running"
      BY <1>a, <2>1 DEF ReportTyped
    <3>2. \A r \in Readers \ {q} : handling'[r] = handling[r] /\ probe'[r] = probe[r] /\ wait'[r] = wait[r]
      BY <1>a, <2>1 DEF ReportTyped
    <3>. QED  BY <1>a, <2>1, <3>1, <3>2 DEF ProbesRecent, Truth
  <2>. QED  BY <1>a, <2>1, <2>3, <2>4 DEF ReportInv, CacheRecent, Truth
<1>3. ASSUME NEW q \in Readers, NEW c \in Contributors, NEW r \in {"healthy", "unhealthy"},
             handling[q] = "probing", probe' = [probe EXCEPT ![q][c] = r],
             r = Truth(c) \/ since[c] <= wait[q],
             UNCHANGED <<state, since, cached, handling, wait, value, shown>>
      PROVE  ReportInv'
  <2>1. /\ probe' \in [Readers -> [Contributors -> {"none", "running", "healthy", "unhealthy"}]]
        /\ probe'[q][c] = r /\ \A d \in Contributors \ {c} : probe'[q][d] = probe[q][d]
        /\ \A p \in Readers \ {q} : probe'[p] = probe[p]
    BY <1>3, <1>a DEF ReportTyped
  <2>2. ReportTyped'
    BY <1>3, <1>a, <2>1 DEF ReportTyped
  <2>3. ProbesRecent'
    <3>. SUFFICES ASSUME NEW p \in Readers, handling[p] = "probing", NEW d \in Contributors
                  PROVE  \/ probe'[p][d] = "running"
                         \/ /\ probe'[p][d] \in {"healthy", "unhealthy"}
                            /\ probe'[p][d] = Truth(d) \/ since[d] <= wait[p]
      BY <1>3 DEF ProbesRecent, Truth
    <3>1. CASE p = q /\ d = c
      BY <1>3, <2>1, <3>1
    <3>2. CASE p # q \/ d # c
      BY <1>a, <2>1, <3>2 DEF ProbesRecent
    <3>. QED  BY <3>1, <3>2
  <2>. QED  BY <1>3, <1>a, <2>2, <2>3 DEF ReportInv, CacheRecent, Truth
<1>4. ASSUME NEW q \in Readers, NEW c \in Contributors, Report!CheckDone(q, c)
      PROVE  ReportInv'
  <2>1. /\ handling[q] = "probing" /\ state[c] \in {"healthy", "unhealthy"}
        /\ probe' = [probe EXCEPT ![q][c] = state[c]]
        /\ UNCHANGED <<state, since, cached, handling, wait, value, shown>>
    BY <1>4, <1>a DEF Report!CheckDone, Report!Running, ReportTyped
  <2>. QED  BY <1>3, <2>1 DEF Truth
<1>5. ASSUME NEW q \in Readers, NEW c \in Contributors, Report!TimesOut(q, c)
      PROVE  ReportInv'
  <2>1. /\ handling[q] = "probing" /\ probe' = [probe EXCEPT ![q][c] = "unhealthy"]
        /\ state[c] = "hung" \/ since[c] <= wait[q]
        /\ UNCHANGED <<state, since, cached, handling, wait, value, shown>>
    BY <1>5 DEF Report!TimesOut, Report!Running
  <2>. QED  BY <1>3, <2>1 DEF Truth
<1>6. ASSUME NEW q \in Readers, Report!Settle(q)
      PROVE  ReportInv'
  <2>1. /\ handling[q] = "probing" /\ \A c \in Contributors : probe[q][c] # "running"
        /\ cached' = [value |-> probe[q], left |-> Cache] /\ value' = [value EXCEPT ![q] = probe[q]]
        /\ handling' = [handling EXCEPT ![q] = "composing"] /\ wait' = [wait EXCEPT ![q] = 0]
        /\ probe' = [probe EXCEPT ![q] = Report!Idle] /\ UNCHANGED <<state, since, shown>>
    BY <1>6 DEF Report!Settle, Report!AllIn, Report!Running
  <2>2. \A c \in Contributors : /\ probe[q][c] \in {"healthy", "unhealthy"}
                                /\ probe[q][c] = Truth(c) \/ since[c] <= wait[q]
    BY <1>a, <2>1 DEF ProbesRecent
  <2>3. probe[q] \in Report!Results
    BY <1>a, <2>2 DEF ReportTyped, Report!Results
  <2>4. Report!Idle \in [Contributors -> {"none", "running", "healthy", "unhealthy"}]
    BY DEF Report!Idle
  <2>5. cached' \in [value : Report!Results, left : 1..Cache]
    BY <1>0, <2>1, <2>3
  <2>6. ReportTyped'
    BY <1>0, <1>a, <2>1, <2>3, <2>4, <2>5 DEF ReportTyped, L
  <2>7. ProbesRecent'
    <3>1. \A r \in Readers : handling'[r] = "probing" =>
             handling[r] = "probing" /\ probe'[r] = probe[r] /\ wait'[r] = wait[r]
      BY <1>a, <2>1 DEF ReportTyped
    <3>. QED  BY <1>a, <2>1, <3>1 DEF ProbesRecent, Truth
  <2>8. CacheRecent'
    <3>. SUFFICES ASSUME NEW c \in Contributors
                  PROVE  probe[q][c] = Truth(c) \/ since[c] + Cache <= L + Cache
      BY <2>1 DEF CacheRecent, Truth, L
    <3>1. since[c] \in Int /\ wait[q] \in Int /\ wait[q] <= L
      BY <1>0, <1>a DEF ReportTyped, L, B
    <3>. QED  BY <1>0, <2>2, <3>1
  <2>. QED  BY <2>6, <2>7, <2>8 DEF ReportInv
<1>7. ASSUME NEW q \in Readers, Report!Answer(q)
      PROVE  ReportInv'
  <2>1. /\ handling' = [handling EXCEPT ![q] = "idle"] /\ value' = [value EXCEPT ![q] = None]
        /\ shown' \in {shown, "healthy", "unhealthy"} /\ UNCHANGED <<state, since, cached, probe, wait>>
    BY <1>7 DEF Report!Answer, Report!Rollup
  <2>2. ReportTyped'
    BY <1>a, <2>1 DEF ReportTyped
  <2>3. ProbesRecent'
    BY <1>a, <2>1 DEF ReportTyped, ProbesRecent, Truth
  <2>. QED  BY <1>a, <2>1, <2>2, <2>3 DEF ReportInv, CacheRecent, Truth
<1>8. CASE Report!PageFails
  BY <1>a, <1>8 DEF Report!PageFails, ReportInv, ReportTyped, ProbesRecent, CacheRecent, Truth
<1>9. ASSUME NEW c \in Contributors, Report!Changes(c)
      PROVE  ReportInv'
  <2>1. PICK s \in {"healthy", "unhealthy", "hung"} : state' = [state EXCEPT ![c] = s]
    BY <1>9 DEF Report!Changes
  <2>2. since' = [since EXCEPT ![c] = 0] /\ UNCHANGED <<cached, handling, probe, wait, value, shown>>
    BY <1>9 DEF Report!Changes
  <2>3. ReportTyped'
    BY <1>0, <1>a, <2>1, <2>2 DEF ReportTyped, B
  <2>4. since'[c] = 0 /\ \A d \in Contributors \ {c} : since'[d] = since[d] /\ state'[d] = state[d]
    BY <1>a, <2>1, <2>2 DEF ReportTyped
  <2>5. ProbesRecent'
    <3>1. \A q \in Readers : wait[q] \in Nat
      BY <1>0, <1>a DEF ReportTyped, L
    <3>. QED  BY <1>a, <2>2, <2>4, <3>1 DEF ProbesRecent, Truth
  <2>6. CacheRecent'
    <3>1. cached # None => cached.left \in 1..Cache
      BY <1>a DEF ReportTyped
    <3>2. cached # None => 0 + cached.left <= L + Cache
      BY <1>0, <3>1
    <3>. QED  BY <1>a, <2>2, <2>4, <3>2 DEF CacheRecent, Truth, L
  <2>. QED  BY <2>3, <2>5, <2>6 DEF ReportInv
<1>10. CASE Report!Tick
  <2>1. /\ since' = [c \in Contributors |-> IF since[c] = B THEN B ELSE since[c] + 1]
        /\ wait' = [q \in Readers |-> IF handling[q] = "probing" THEN wait[q] + 1 ELSE 0]
        /\ cached' = IF cached = None \/ cached.left = 1 THEN None ELSE [cached EXCEPT !.left = @ - 1]
        /\ UNCHANGED <<state, handling, probe, value, shown>>
    BY <1>10 DEF Report!Tick, B
  <2>2. \A c \in Contributors : since[c] \in 0..B /\ since'[c] \in 0..B /\ since'[c] <= since[c] + 1
    <3>. TAKE c \in Contributors
    <3>1. since[c] \in 0..B /\ since'[c] = IF since[c] = B THEN B ELSE since[c] + 1
      BY <1>a, <2>1 DEF ReportTyped, B
    <3>. QED  BY <1>0, <3>1
  <2>3. \A q \in Readers : wait[q] \in 0..L /\ wait'[q] \in 0..L
                           /\ (handling[q] = "probing" => wait'[q] = wait[q] + 1)
    <3>. TAKE q \in Readers
    <3>1. wait[q] \in 0..L
      BY <1>a DEF ReportTyped, L
    <3>2. CASE handling[q] = "probing"
      <4>1. PICK c \in Contributors : ~(wait[q] >= Timeout[c])
        BY <1>10, <3>2 DEF Report!Tick, Report!AllIn, Report!Running
      <4>2. wait[q] + 1 \in 0..L
        BY <1>0, <3>1, <4>1
      <4>. QED  BY <2>1, <3>1, <3>2, <4>2
    <3>3. CASE handling[q] # "probing"
      BY <1>0, <2>1, <3>1, <3>3
    <3>. QED  BY <3>2, <3>3
  <2>4. ASSUME cached # None, cached' # None
        PROVE  /\ cached'.value = cached.value /\ cached'.left = cached.left - 1
               /\ cached' \in [value : Report!Results, left : 1..Cache] /\ cached.left \in 1..Cache
    <3>1. cached \in [value : Report!Results, left : 1..Cache] /\ cached.left # 1
      BY <1>a, <2>1, <2>4 DEF ReportTyped
    <3>2. cached' = [cached EXCEPT !.left = cached.left - 1] /\ cached.left - 1 \in 1..Cache
      BY <1>0, <2>1, <2>4, <3>1
    <3>. QED  BY <3>1, <3>2
  <2>5. cached' # None => cached # None
    BY <2>1
  <2>6. since' \in [Contributors -> 0..B] /\ wait' \in [Readers -> 0..L]
    BY <2>1, <2>2, <2>3
  <2>7. ReportTyped'
    BY <1>a, <2>1, <2>4, <2>5, <2>6 DEF ReportTyped, L, B
  <2>8. ProbesRecent'
    BY <1>0, <1>a, <2>1, <2>2, <2>3 DEF ProbesRecent, Truth
  <2>9. CacheRecent'
    <3>. SUFFICES ASSUME cached' # None, NEW c \in Contributors
                  PROVE  cached'.value[c] = Truth(c) \/ since'[c] + cached'.left <= L + Cache
      BY <2>1 DEF CacheRecent, Truth, L
    <3>1. cached.value[c] = Truth(c) \/ since[c] + cached.left <= L + Cache
      BY <1>a, <2>5 DEF CacheRecent, L
    <3>2. cached'.value = cached.value /\ cached'.left = cached.left - 1 /\ cached.left \in 1..Cache
      BY <2>4, <2>5
    <3>. QED  BY <1>0, <2>2, <3>1, <3>2
  <2>. QED  BY <2>7, <2>8, <2>9 DEF ReportInv
<1>11. CASE UNCHANGED Report!vars
  BY <1>a, <1>11 DEF Report!vars, ReportInv, ReportTyped, ProbesRecent, CacheRecent, Truth
<1>. QED  BY <1>1, <1>2, <1>4, <1>5, <1>6, <1>7, <1>8, <1>9, <1>10, <1>11 DEF Report!Next, Report!Handles

\* HealthReport by itself.
LEMMA ReportIsHeld ==
    ASSUME Report!NamesAssumption
    PROVE  Report!Spec => []Report!TypeOK /\ []Report!OutageShows
<1>1. Report!Init => ReportInv
  <2>. SUFFICES ASSUME Report!Init
                PROVE  ReportInv
    OBVIOUS
  <2>1. /\ Report!Idle \in [Contributors -> {"none", "running", "healthy", "unhealthy"}]
        /\ 0 \in 0..Report!Longest /\ 0 \in 0..Report!Bound
    BY LongestIs DEF Report!Idle
  <2>2. ReportTyped
    BY <2>1 DEF Report!Init, ReportTyped
  <2>. QED  BY <2>2 DEF Report!Init, ReportInv, ProbesRecent, CacheRecent
<1>2. ReportInv => Report!TypeOK /\ Report!OutageShows
  <2>. SUFFICES ASSUME ReportInv
                PROVE  Report!TypeOK /\ Report!OutageShows
    OBVIOUS
  <2>1. Report!TypeOK
    BY DEF ReportInv, ReportTyped, Report!TypeOK
  <2>2. ASSUME cached # None, NEW c \in Contributors, since[c] = Report!Bound
        PROVE  cached.value[c] = Truth(c)
    <3>1. cached.left \in 1..Cache
      BY <2>2 DEF ReportInv, ReportTyped
    <3>2. cached.value[c] = Truth(c) \/ Report!Bound + cached.left <= Report!Bound
      BY <2>2, LongestIs DEF ReportInv, CacheRecent
    <3>. QED  BY <3>1, <3>2, LongestIs
  <2>3. Report!OutageShows
    BY <2>2 DEF Report!OutageShows, Truth
  <2>. QED  BY <2>1, <2>3
<1>. QED  BY <1>1, <1>2, ReportStep, PTL DEF Report!Spec

-----------------------------------------------------------------------------
(***************************************************************************)
(* LiveNotifications.                                                      *)
(***************************************************************************)
\* The rows, the signals and the bell.
NotesTyped ==
    /\ note \in [Notes -> {"none", "open", "unread", "read", "gone"}]
    /\ signal \in [Notes -> {"none", "sent", "inbox", "done"}]
    /\ tab \in Streams \cup {None}
    /\ bell \in Bridge!QueryOf(SUBSET Notes)
    /\ marking \in [Notes \cup {All} -> {"idle", "sent", "done", "adrift"}]
    /\ missed \subseteq Notes

Connections == [stream : {"none", "open", "closed"}, start : {"none", "sent", "replied", "done"},
                set : Streams \cup {None}]

StreamsTyped ==
    /\ stream \in [Streams -> Connections]
    /\ current \in Streams \cup {None}
    /\ members \in [Streams -> Seq(Streams)] /\ wire \in Seq(Streams \cup {None})
    /\ listens \in BOOLEAN /\ raced \in BOOLEAN

\* A connection is in a Set once it has started, and only once, and asks Redis once.
Fresh(c) == stream[c].start = "none"
JoinedOnce(c) ==
    /\ stream[c].stream = "none" <=> Fresh(c)
    /\ Fresh(c) => current # c /\ members[c] = <<>>
    /\ stream[c].start \in {"sent", "replied"} => stream[c].set = c
    /\ \A i \in 1..Len(members[c]) :
         /\ stream[members[c][i]].start = "done"
         /\ \A j \in 1..Len(members[c]) : members[c][i] = members[c][j] => i = j
WireOK ==
    \A i \in 1..Len(wire) : wire[i] # None =>
      /\ stream[wire[i]].start = "sent"
      /\ \A j \in 1..Len(wire) : wire[i] = wire[j] => i = j

\* Without a race the Map has the Set of every connection that starts or is open, and Redis
\* will be subscribed exactly while there is a Set.
Joins(c) ==
    /\ stream[c].start \in {"sent", "replied"} => stream[c].stream = "open" /\ current = c
    /\ stream[c].stream = "open" /\ stream[c].start = "done" =>
         current # None /\ \E i \in 1..Len(members[current]) : members[current][i] = c
MapOK ==
    /\ \A c \in Streams : Joins(c)
    /\ current # None =>
         /\ \A i \in 1..Len(members[current]) : stream[members[current][i]].stream = "open"
         /\ members[current] = <<>> => stream[current].start \in {"sent", "replied"}
    /\ Bridge!WillListen <=> current # None

StreamsOK == StreamsTyped /\ (\A c \in Streams : JoinedOnce(c)) /\ WireOK /\ (~raced => MapOK)
BridgeInv == NotesTyped /\ StreamsOK

\* What QueryCache does to a query.
LEMMA QueryTypes ==
    ASSUME NEW D, NEW q \in Bridge!QueryOf(D)
    PROVE  /\ Bridge!Asked(q) \in Bridge!QueryOf(D) /\ Bridge!Settled(q) \in Bridge!QueryOf(D)
           /\ Bridge!FetchFailed(q) \in Bridge!QueryOf(D)
           /\ Bridge!Invalidated(q) \in Bridge!QueryOf(D)
           /\ \A v \in D : Bridge!Answered(q, v) \in Bridge!QueryOf(D)
<1>1. q.data \in D /\ q.answer \in D
  BY DEF Bridge!QueryOf
<1>2. Bridge!Asked(q) \in Bridge!QueryOf(D)
  BY <1>1 DEF Bridge!QueryOf, Bridge!Asked
<1>3. \A r \in Bridge!QueryOf(D) : [r EXCEPT !.stale = TRUE] \in Bridge!QueryOf(D)
  BY DEF Bridge!QueryOf
<1>4. Bridge!Invalidated(q) \in Bridge!QueryOf(D)
  BY <1>2, <1>3 DEF Bridge!Invalidated
<1>5. Bridge!Settled(q) \in Bridge!QueryOf(D) /\ Bridge!FetchFailed(q) \in Bridge!QueryOf(D)
  BY <1>1 DEF Bridge!QueryOf, Bridge!Settled, Bridge!FetchFailed
<1>6. \A v \in D : Bridge!Answered(q, v) \in Bridge!QueryOf(D)
  BY DEF Bridge!QueryOf, Bridge!Answered
<1>. QED  BY <1>2, <1>4, <1>5, <1>6

\* A Set without one of its elements.
LEMMA RemovedIs ==
    ASSUME NEW S, NEW s \in Seq(S), NEW c,
           \A i, j \in 1..Len(s) : s[i] = s[j] => i = j
    PROVE  LET t == Bridge!RemoveFirst(s, c)
           IN /\ t \in Seq(S)
              /\ \A i \in 1..Len(t) : t[i] # c /\ \E j \in 1..Len(s) : t[i] = s[j]
              /\ \A j \in 1..Len(s) : s[j] # c => \E i \in 1..Len(t) : t[i] = s[j]
              /\ \A i, j \in 1..Len(t) : t[i] = t[j] => i = j
<1>. DEFINE t == Bridge!RemoveFirst(s, c)
<1>1. CASE ~ \E i \in 1..Len(s) : s[i] = c
  BY <1>1 DEF Bridge!RemoveFirst
<1>2. ASSUME NEW k \in 1..Len(s), s[k] = c
      PROVE  t = SubSeq(s, 1, k - 1) \o SubSeq(s, k + 1, Len(s))
  <2>1. \A i \in 1..Len(s) : s[i] = c <=> i = k
    BY <1>2
  <2>2. {i \in 1..Len(s) : s[i] = c} = {k}
    BY <2>1
  <2>3. Bridge!Min({k}) = k
    BY DEF Bridge!Min
  <2>4. Bridge!SelectInSeq(s, LAMBDA v : v = c) = k
    BY <2>2, <2>3 DEF Bridge!SelectInSeq
  <2>. QED  BY <1>2, <2>4 DEF Bridge!RemoveFirst, Bridge!RemoveAt
<1>3. ASSUME NEW k \in 1..Len(s), s[k] = c
      PROVE  /\ t \in Seq(S) /\ Len(t) = Len(s) - 1
             /\ \A i \in 1..(Len(s) - 1) : t[i] = IF i < k THEN s[i] ELSE s[i + 1]
  <2>. DEFINE a == SubSeq(s, 1, k - 1)
              b == SubSeq(s, k + 1, Len(s))
  <2>1. a \in Seq(S) /\ Len(a) = k - 1 /\ \A i \in 1..(k - 1) : a[i] = s[i]
    OBVIOUS
  <2>2. b \in Seq(S) /\ Len(b) = Len(s) - k /\ \A i \in 1..(Len(s) - k) : b[i] = s[k + i]
    OBVIOUS
  <2>3. t = a \o b
    BY <1>2, <1>3
  <2>. HIDE DEF a, b, t
  <2>a. /\ t \in Seq(S) /\ Len(t) = Len(a) + Len(b)
        /\ \A i \in 1..(Len(a) + Len(b)) : t[i] = IF i <= Len(a) THEN a[i] ELSE b[i - Len(a)]
    <3>1. a \in Seq(S) /\ b \in Seq(S)
      BY <2>1, <2>2
    <3>2. /\ a \o b \in Seq(S) /\ Len(a \o b) = Len(a) + Len(b)
          /\ \A i \in 1..(Len(a) + Len(b)) : (a \o b)[i] = IF i <= Len(a) THEN a[i] ELSE b[i - Len(a)]
      BY <3>1, ConcatProperties
    <3>. QED  BY <2>3, <3>2
  <2>4. t \in Seq(S) /\ Len(t) = Len(s) - 1
    BY <2>1, <2>2, <2>a
  <2>5. \A i \in 1..(Len(s) - 1) : t[i] = IF i < k THEN a[i] ELSE b[i - (k - 1)]
    <3>. TAKE i \in 1..(Len(s) - 1)
    <3>1. Len(a) = k - 1 /\ Len(b) = Len(s) - k /\ Len(s) \in Nat /\ k \in 1..Len(s)
      BY <2>1, <2>2
    <3>. HIDE DEF a
    <3>2. i \in 1..(Len(a) + Len(b)) /\ (i <= Len(a) <=> i < k)
      BY <3>1
    <3>3. t[i] = IF i <= Len(a) THEN a[i] ELSE b[i - Len(a)]
      BY <2>a, <3>2
    <3>. QED  BY <3>1, <3>2, <3>3
  <2>6. ASSUME NEW i \in 1..(Len(s) - 1)
        PROVE  t[i] = IF i < k THEN s[i] ELSE s[i + 1]
    <3>1. CASE i < k
      BY <2>1, <2>5, <3>1
    <3>2. CASE ~(i < k)
      <4>1. i - (k - 1) \in 1..(Len(s) - k) /\ k + (i - (k - 1)) = i + 1
        BY <3>2
      <4>. QED  BY <2>2, <2>5, <3>2, <4>1
    <3>. QED  BY <3>1, <3>2
  <2>. QED  BY <2>4, <2>6
<1>. HIDE DEF t
<1>4. ASSUME NEW k \in 1..Len(s), s[k] = c
      PROVE  /\ t \in Seq(S)
             /\ \A i \in 1..Len(t) : t[i] # c /\ \E j \in 1..Len(s) : t[i] = s[j]
             /\ \A j \in 1..Len(s) : s[j] # c => \E i \in 1..Len(t) : t[i] = s[j]
             /\ \A i, j \in 1..Len(t) : t[i] = t[j] => i = j
  <2>1. t \in Seq(S) /\ Len(t) = Len(s) - 1
        /\ \A i \in 1..(Len(s) - 1) : t[i] = IF i < k THEN s[i] ELSE s[i + 1]
    BY <1>3, <1>4
  <2>2. \A i \in 1..Len(t) : t[i] # c /\ \E j \in 1..Len(s) : t[i] = s[j]
    <3>. TAKE i \in 1..Len(t)
    <3>1. CASE i < k
      BY <1>4, <2>1, <3>1
    <3>2. CASE ~(i < k)
      BY <1>4, <2>1, <3>2
    <3>. QED  BY <3>1, <3>2
  <2>3. ASSUME NEW j \in 1..Len(s), s[j] # c
        PROVE  \E i \in 1..Len(t) : t[i] = s[j]
    <3>1. CASE j < k
      BY <2>1, <3>1
    <3>2. CASE j > k
      <4>1. j - 1 \in 1..Len(t) /\ ~(j - 1 < k) /\ (j - 1) + 1 = j
        BY <2>1, <3>2
      <4>. QED  BY <2>1, <4>1
    <3>. QED  BY <1>4, <2>3, <3>1, <3>2
  <2>4. \A i, j \in 1..Len(t) : t[i] = t[j] => i = j
    BY <2>1
  <2>. QED  BY <2>1, <2>2, <2>3, <2>4
<1>. QED  BY <1>1, <1>4 DEF t

\* Everything that happens to the rows, the signals and the bell.
LEMMA NotesStep == NotesTyped /\ Bridge!Next => NotesTyped'
<1>. SUFFICES ASSUME NotesTyped, Bridge!Next
              PROVE  NotesTyped'
  OBVIOUS
<1>. USE DEF NotesTyped
<1>0. /\ Bridge!Unread \in SUBSET Notes
      /\ \A v \in SUBSET Notes : Bridge!Answered(bell, v) \in Bridge!QueryOf(SUBSET Notes)
      /\ Bridge!Settled(bell) \in Bridge!QueryOf(SUBSET Notes)
      /\ Bridge!FetchFailed(bell) \in Bridge!QueryOf(SUBSET Notes)
      /\ Bridge!Invalidated(bell) \in Bridge!QueryOf(SUBSET Notes)
  BY QueryTypes DEF Bridge!Unread
<1>1. ASSUME NEW n \in Notes, Bridge!Gone(n)
      PROVE  signal' \in [Notes -> {"none", "sent", "inbox", "done"}] /\ missed' \subseteq Notes
  BY <1>1 DEF Bridge!Gone, Bridge!NotTold
<1>2. ASSUME NEW n \in Notes, Bridge!NoteStep(n)
      PROVE  NotesTyped'
  <2>1. CASE Bridge!Insert(n) \/ Bridge!RollBack(n)
    BY <2>1 DEF Bridge!Insert, Bridge!RollBack
  <2>2. CASE Bridge!Commit(n)
    BY <2>2 DEF Bridge!Commit, Bridge!NotTold
  <2>3. CASE Bridge!Publish(n)
    BY <1>1, <2>3 DEF Bridge!Publish
  <2>4. CASE Bridge!SignalLost(n) \/ Bridge!Unheard(n)
    BY <1>1, <2>4 DEF Bridge!SignalLost, Bridge!Unheard
  <2>5. CASE Bridge!Heard(n)
    BY <1>0, <2>5 DEF Bridge!Heard
  <2>. QED  BY <1>2, <2>1, <2>2, <2>3, <2>4, <2>5 DEF Bridge!NoteStep
<1>3. ASSUME NEW m \in Notes \cup {All}, Bridge!MarkStep(m)
      PROVE  NotesTyped'
  <2>1. CASE Bridge!Choose(m)
    BY <2>1 DEF Bridge!Choose
  <2>2. CASE Bridge!Marks(m)
    <3>1. missed' \subseteq Notes
      BY <2>2 DEF Bridge!Marks, Bridge!NotTold
    <3>2. marking' \in [Notes \cup {All} -> {"idle", "sent", "done", "adrift"}]
      BY <2>2 DEF Bridge!Marks
    <3>3. note' \in [Notes -> {"none", "open", "unread", "read", "gone"}]
      BY <2>2 DEF Bridge!Marks
    <3>. QED  BY <2>2, <3>1, <3>2, <3>3 DEF Bridge!Marks
  <2>3. CASE Bridge!MarkSettles(m)
    BY <1>0, <2>3 DEF Bridge!MarkSettles
  <2>4. CASE Bridge!MarkFails(m)
    BY <2>4 DEF Bridge!MarkFails, Bridge!NotTold
  <2>. QED  BY <1>3, <2>1, <2>2, <2>3, <2>4 DEF Bridge!MarkStep
<1>4. CASE Bridge!BellAnswered
  BY <1>0, <1>4 DEF Bridge!BellAnswered
<1>5. CASE Bridge!BellSettles \/ Bridge!BellFails
  BY <1>0, <1>5 DEF Bridge!BellSettles, Bridge!BellFails
<1>6. ASSUME NEW c \in Streams, Bridge!PageOpens(c)
      PROVE  NotesTyped'
  BY <1>6 DEF Bridge!PageOpens
<1>7. ASSUME UNCHANGED <<note, signal, tab, bell, marking, missed>>
      PROVE  NotesTyped'
  BY <1>7
<1>8. ASSUME NEW c \in Streams, Bridge!Connect(c) \/ Bridge!Subscribed(c) \/ Bridge!Cancel(c)
      PROVE  NotesTyped'
  BY <1>7, <1>8 DEF Bridge!Connect, Bridge!Subscribed, Bridge!Cancel
<1>9. CASE Bridge!RedisTakes
  BY <1>7, <1>9 DEF Bridge!RedisTakes
<1>. QED  BY <1>2, <1>3, <1>4, <1>5, <1>6, <1>8, <1>9 DEF Bridge!Next, Bridge!StreamStep
LEMMA AppendIs ==
    ASSUME NEW S, NEW s \in Seq(S), NEW e \in S
    PROVE  /\ Append(s, e) \in Seq(S) /\ Append(s, e) # <<>>
           /\ Len(s) \in Nat /\ Len(Append(s, e)) = Len(s) + 1 /\ Append(s, e)[Len(s) + 1] = e
           /\ \A i \in 1..Len(s) : Append(s, e)[i] = s[i]
OBVIOUS

LEMMA TailIs ==
    ASSUME NEW S, NEW s \in Seq(S), s # <<>>
    PROVE  /\ Len(s) \in Nat \ {0} /\ Head(s) = s[1] /\ s[1] \in S
           /\ Tail(s) \in Seq(S) /\ Len(Tail(s)) = Len(s) - 1 /\ (Tail(s) = <<>> <=> Len(s) = 1)
           /\ \A i \in 1..(Len(s) - 1) : Tail(s)[i] = s[i + 1]
<1>1. /\ Len(s) \in Nat \ {0} /\ Head(s) = s[1] /\ s[1] \in S
      /\ Tail(s) \in Seq(S) /\ Len(Tail(s)) = Len(s) - 1
      /\ \A i \in 1..(Len(s) - 1) : Tail(s)[i] = s[i + 1]
  OBVIOUS
<1>2. \A t \in Seq(S) : t = <<>> <=> Len(t) = 0
  OBVIOUS
<1>3. Len(Tail(s)) = 0 <=> Len(s) = 1
  BY <1>1
<1>. QED  BY <1>1, <1>2, <1>3

\* GET /stream, its first emitter's start() and those that join it.
LEMMA ConnectKeeps ==
    ASSUME Bridge!NamesAssumption, StreamsOK, NEW c \in Streams, Bridge!Connect(c)
    PROVE  StreamsOK'
<1>. USE DEF Bridge!NamesAssumption
<1>0. /\ StreamsTyped /\ WireOK /\ (~raced => MapOK) /\ \A d \in Streams : JoinedOnce(d)
      /\ stream[c] = Bridge!NewConn
  BY DEF StreamsOK, Bridge!Connect
<1>1. /\ stream[c].start = "none" /\ current # c /\ members[c] = <<>> /\ Len(members[c]) = 0
      /\ wire \in Seq(Streams \cup {None}) /\ c \in Streams \cup {None}
      /\ \A d \in Streams : members[d] \in Seq(Streams) /\ Len(members[d]) \in Nat
  <2>1. stream[c].start = "none" /\ stream[c].stream = "none"
    BY <1>0 DEF Bridge!NewConn
  <2>2. current # c /\ members[c] = <<>>
    BY <1>0, <2>1 DEF JoinedOnce, Fresh
  <2>. QED  BY <1>0, <2>1, <2>2 DEF StreamsTyped
<1>2. /\ \A i \in 1..Len(wire) : wire[i] # c
      /\ \A d \in Streams : \A i \in 1..Len(members[d]) : members[d][i] \in Streams \ {c}
  <2>1. \A i \in 1..Len(wire) : wire[i] # c
    BY <1>0, <1>1 DEF WireOK
  <2>2. \A d \in Streams : \A i \in 1..Len(members[d]) : members[d][i] \in Streams
    BY <1>1
  <2>3. \A d \in Streams : \A i \in 1..Len(members[d]) : members[d][i] # c
    BY <1>0, <1>1 DEF JoinedOnce
  <2>. QED  BY <2>1, <2>2, <2>3
<1>3. CASE current = None
  <2>. DEFINE n == [stream |-> "open", start |-> "sent", set |-> c]
  <2>1. /\ stream' = [stream EXCEPT ![c] = n] /\ current' = c /\ wire' = Append(wire, c)
        /\ UNCHANGED <<members, listens, raced>>
    BY <1>3 DEF Bridge!Connect
  <2>2. n \in Connections /\ n.stream = "open" /\ n.start = "sent" /\ n.set = c
    BY DEF Connections
  <2>. HIDE DEF n
  <2>3. /\ wire' \in Seq(Streams \cup {None}) /\ wire' # <<>> /\ Len(wire) \in Nat
        /\ Len(wire') = Len(wire) + 1 /\ wire'[Len(wire) + 1] = c
        /\ \A i \in 1..Len(wire) : wire'[i] = wire[i]
    BY <1>1, <2>1, AppendIs
  <2>4. StreamsTyped' /\ stream'[c] = n /\ \A d \in Streams \ {c} : stream'[d] = stream[d]
    BY <1>0, <2>1, <2>2, <2>3 DEF StreamsTyped
  <2>5. \A d \in Streams : JoinedOnce(d)'
    <3>. TAKE d \in Streams
    <3>1. CASE d = c
      BY <1>1, <2>1, <2>2, <2>4, <3>1 DEF JoinedOnce, Fresh
    <3>2. CASE d # c
      <4>1. JoinedOnce(d) /\ stream'[d] = stream[d] /\ members' = members /\ current' # d
        BY <1>0, <2>1, <2>4, <3>2
      <4>2. \A i \in 1..Len(members[d]) : stream'[members[d][i]] = stream[members[d][i]]
        BY <1>2, <2>4
      <4>. QED  BY <4>1, <4>2 DEF JoinedOnce, Fresh
    <3>. QED  BY <3>1, <3>2
  <2>6. WireOK'
    <3>. SUFFICES ASSUME NEW i \in 1..Len(wire'), wire'[i] # None
                  PROVE  /\ stream'[wire'[i]].start = "sent"
                         /\ \A j \in 1..Len(wire') : wire'[i] = wire'[j] => i = j
      BY DEF WireOK
    <3>1. CASE i = Len(wire) + 1
      BY <1>2, <2>2, <2>3, <2>4, <3>1
    <3>2. CASE i # Len(wire) + 1
      <4>1. i \in 1..Len(wire) /\ wire'[i] = wire[i] /\ wire[i] \in Streams \ {c}
        BY <1>1, <1>2, <2>3, <3>2
      <4>. QED  BY <1>0, <2>3, <2>4, <4>1 DEF WireOK
    <3>. QED  BY <3>1, <3>2
  <2>7. ASSUME ~raced
        PROVE  MapOK'
    <3>1. \A d \in Streams : Joins(d)'
      <4>. TAKE d \in Streams
      <4>1. CASE d = c
        BY <2>1, <2>2, <2>4, <4>1 DEF Joins
      <4>2. CASE d # c
        <5>1. Joins(d)
          BY <1>0, <2>7 DEF MapOK
        <5>. QED  BY <1>3, <2>4, <4>2, <5>1 DEF Joins
      <4>. QED  BY <4>1, <4>2
    <3>2. Bridge!WillListen'
      BY <2>3 DEF Bridge!WillListen, Bridge!Last
    <3>. QED  BY <1>1, <2>1, <2>2, <2>4, <3>1, <3>2 DEF MapOK
  <2>. QED  BY <2>1, <2>4, <2>5, <2>6, <2>7 DEF StreamsOK
<1>4. CASE current # None
  <2>. DEFINE n == [stream |-> "open", start |-> "done", set |-> current]
              k == current
  <2>1. /\ stream' = [stream EXCEPT ![c] = n] /\ members' = [members EXCEPT ![k] = Append(@, c)]
        /\ UNCHANGED <<current, wire, listens, raced>>
    BY <1>4 DEF Bridge!Connect
  <2>2. n \in Connections /\ n.stream = "open" /\ n.start = "done" /\ k \in Streams \ {c}
    BY <1>0, <1>1, <1>4 DEF Connections, StreamsTyped
  <2>. HIDE DEF n
  <2>3. /\ members'[k] \in Seq(Streams) /\ members'[k] # <<>> /\ Len(members'[k]) = Len(members[k]) + 1
        /\ members'[k][Len(members[k]) + 1] = c /\ Len(members[k]) \in Nat
        /\ \A i \in 1..Len(members[k]) : members'[k][i] = members[k][i]
    <3>1. members'[k] = Append(members[k], c)
      BY <1>0, <2>1, <2>2 DEF StreamsTyped
    <3>. QED  BY <1>1, <2>2, <3>1, AppendIs
  <2>4. /\ StreamsTyped' /\ stream'[c] = n /\ \A d \in Streams \ {c} : stream'[d] = stream[d]
        /\ \A d \in Streams \ {k} : members'[d] = members[d]
    BY <1>0, <2>1, <2>2, <2>3 DEF StreamsTyped
  <2>5. \A d \in Streams : JoinedOnce(d)'
    <3>. TAKE d \in Streams
    <3>1. CASE d = c
      BY <1>1, <2>1, <2>2, <2>4, <3>1 DEF JoinedOnce, Fresh
    <3>2. CASE d = k
      <4>1. JoinedOnce(k) /\ stream'[k] = stream[k] /\ stream[k].start # "none"
        BY <1>0, <2>2, <2>4 DEF JoinedOnce, Fresh
      <4>2. \A i \in 1..Len(members'[k]) :
              \/ i = Len(members[k]) + 1 /\ members'[k][i] = c
              \/ i \in 1..Len(members[k]) /\ members'[k][i] = members[k][i] /\ members[k][i] \in Streams \ {c}
        BY <1>2, <2>2, <2>3
      <4>3. \A i \in 1..Len(members'[k]) : stream'[members'[k][i]].start = "done"
        BY <2>2, <2>4, <4>1, <4>2 DEF JoinedOnce
      <4>4. \A i, j \in 1..Len(members'[k]) : members'[k][i] = members'[k][j] => i = j
        BY <4>1, <4>2 DEF JoinedOnce
      <4>. QED  BY <3>2, <4>1, <4>3, <4>4 DEF JoinedOnce, Fresh
    <3>3. CASE d # c /\ d # k
      <4>1. JoinedOnce(d) /\ stream'[d] = stream[d] /\ members'[d] = members[d] /\ current' # d
        BY <1>0, <2>1, <2>4, <3>3
      <4>2. \A i \in 1..Len(members[d]) : stream'[members[d][i]] = stream[members[d][i]]
        BY <1>2, <2>4
      <4>. QED  BY <4>1, <4>2 DEF JoinedOnce, Fresh
    <3>. QED  BY <3>1, <3>2, <3>3
  <2>6. WireOK'
    <3>1. \A i \in 1..Len(wire) : wire[i] # None => stream'[wire[i]] = stream[wire[i]]
      BY <1>1, <1>2, <2>4
    <3>. QED  BY <1>0, <2>1, <3>1 DEF WireOK
  <2>7. ASSUME ~raced
        PROVE  MapOK'
    <3>0. MapOK
      BY <1>0, <2>7
    <3>1. \A d \in Streams : Joins(d)'
      <4>. TAKE d \in Streams
      <4>1. CASE d = c
        <5>1. Len(members[k]) + 1 \in 1..Len(members'[k])
          BY <2>3
        <5>. QED  BY <1>4, <2>1, <2>2, <2>3, <2>4, <4>1, <5>1 DEF Joins
      <4>2. CASE d # c
        <5>1. Joins(d)
          BY <3>0 DEF MapOK
        <5>2. \A i \in 1..Len(members[k]) : i \in 1..Len(members'[k]) /\ members'[k][i] = members[k][i]
          BY <2>3
        <5>. QED  BY <2>1, <2>4, <4>2, <5>1, <5>2 DEF Joins
      <4>. QED  BY <4>1, <4>2
    <3>2. \A i \in 1..Len(members'[k]) : stream'[members'[k][i]].stream = "open"
      <4>1. \A i \in 1..Len(members'[k]) :
              members'[k][i] = c \/ (i \in 1..Len(members[k]) /\ members'[k][i] = members[k][i])
        BY <2>3
      <4>2. \A i \in 1..Len(members[k]) : members[k][i] \in Streams \ {c} /\ stream[members[k][i]].stream = "open"
        BY <1>2, <1>4, <2>2, <3>0 DEF MapOK
      <4>. QED  BY <2>2, <2>4, <4>1, <4>2
    <3>3. Bridge!WillListen' <=> current' # None
      BY <2>1, <3>0 DEF MapOK, Bridge!WillListen
    <3>. QED  BY <2>1, <2>3, <3>1, <3>2, <3>3 DEF MapOK
  <2>. QED  BY <2>1, <2>4, <2>5, <2>6, <2>7 DEF StreamsOK
<1>. QED  BY <1>3, <1>4

LEMMA SubscribedKeeps ==
    ASSUME Bridge!NamesAssumption, StreamsOK, NEW c \in Streams, Bridge!Subscribed(c)
    PROVE  StreamsOK'
<1>. USE DEF Bridge!NamesAssumption
<1>0. /\ StreamsTyped /\ WireOK /\ (~raced => MapOK) /\ \A d \in Streams : JoinedOnce(d)
      /\ stream[c].start = "replied" /\ stream[c].set = c /\ stream[c] \in Connections
  BY DEF StreamsOK, StreamsTyped, Bridge!Subscribed, JoinedOnce
<1>1. /\ members' = [members EXCEPT ![c] = Append(@, c)]
      /\ stream' = [stream EXCEPT ![c] = [@ EXCEPT !.start = "done"]]
      /\ UNCHANGED <<current, wire, listens, raced>>
  BY <1>0 DEF Bridge!Subscribed
<1>2. \A d \in Streams : /\ members[d] \in Seq(Streams) /\ Len(members[d]) \in Nat
                         /\ \A i \in 1..Len(members[d]) : members[d][i] \in Streams \ {c}
  <2>1. \A d \in Streams : members[d] \in Seq(Streams)
    BY <1>0 DEF StreamsTyped
  <2>2. \A d \in Streams : \A i \in 1..Len(members[d]) : members[d][i] # c
    BY <1>0 DEF JoinedOnce
  <2>. QED  BY <2>1, <2>2
<1>3. /\ members'[c] \in Seq(Streams) /\ members'[c] # <<>> /\ Len(members'[c]) = Len(members[c]) + 1
      /\ members'[c][Len(members[c]) + 1] = c /\ Len(members[c]) \in Nat
      /\ \A i \in 1..Len(members[c]) : members'[c][i] = members[c][i]
  <2>1. members'[c] = Append(members[c], c)
    BY <1>0, <1>1 DEF StreamsTyped
  <2>. QED  BY <1>2, <2>1, AppendIs
<1>4. /\ stream'[c] \in Connections /\ stream'[c].start = "done" /\ stream'[c].stream = stream[c].stream
      /\ \A d \in Streams \ {c} : stream'[d] = stream[d] /\ members'[d] = members[d]
  BY <1>0, <1>1 DEF StreamsTyped, Connections
<1>5. StreamsTyped'
  <2>1. stream' \in [Streams -> Connections]
    BY <1>0, <1>1, <1>4 DEF StreamsTyped
  <2>. QED  BY <1>0, <1>1, <1>3, <2>1 DEF StreamsTyped
<1>6. \A i \in 1..Len(members'[c]) :
        \/ i = Len(members[c]) + 1 /\ members'[c][i] = c
        \/ i \in 1..Len(members[c]) /\ members'[c][i] = members[c][i] /\ members[c][i] \in Streams \ {c}
  BY <1>2, <1>3
<1>7. \A d \in Streams : JoinedOnce(d)'
  <2>. TAKE d \in Streams
  <2>1. CASE d = c
    <3>1. JoinedOnce(c) /\ stream'[c].stream # "none" /\ ~Fresh(c)'
      BY <1>0, <1>4 DEF JoinedOnce, Fresh
    <3>2. \A i \in 1..Len(members'[c]) : stream'[members'[c][i]].start = "done"
      BY <1>4, <1>6, <3>1 DEF JoinedOnce
    <3>3. \A i, j \in 1..Len(members'[c]) : members'[c][i] = members'[c][j] => i = j
      BY <1>6, <3>1 DEF JoinedOnce
    <3>. QED  BY <1>4, <2>1, <3>1, <3>2, <3>3 DEF JoinedOnce
  <2>2. CASE d # c
    <3>1. JoinedOnce(d) /\ stream'[d] = stream[d] /\ members'[d] = members[d] /\ current' = current
      BY <1>0, <1>1, <1>4, <2>2
    <3>2. \A i \in 1..Len(members[d]) : stream'[members[d][i]] = stream[members[d][i]]
      BY <1>2, <1>4
    <3>. QED  BY <3>1, <3>2 DEF JoinedOnce, Fresh
  <2>. QED  BY <2>1, <2>2
<1>8. WireOK'
  <2>1. \A i \in 1..Len(wire) : wire[i] \in Streams \cup {None}
    BY <1>0 DEF StreamsTyped
  <2>2. \A i \in 1..Len(wire) : wire[i] # None => stream'[wire[i]] = stream[wire[i]]
    BY <1>0, <1>4, <2>1 DEF WireOK
  <2>. QED  BY <1>0, <1>1, <2>2 DEF WireOK
<1>9. ASSUME ~raced
      PROVE  MapOK'
  <2>1. MapOK /\ current = c /\ stream[c].stream = "open"
    BY <1>0, <1>9 DEF MapOK, Joins
  <2>2. \A d \in Streams : Joins(d)'
    <3>. TAKE d \in Streams
    <3>1. CASE d = c
      <4>1. Len(members[c]) + 1 \in 1..Len(members'[c])
        BY <1>3
      <4>. QED  BY <1>1, <1>3, <1>4, <2>1, <3>1, <4>1 DEF Joins
    <3>2. CASE d # c
      <4>1. Joins(d)
        BY <2>1 DEF MapOK
      <4>2. \A i \in 1..Len(members[c]) : i \in 1..Len(members'[c]) /\ members'[c][i] = members[c][i]
        BY <1>3
      <4>. QED  BY <1>1, <1>4, <2>1, <3>2, <4>1, <4>2 DEF Joins
    <3>. QED  BY <3>1, <3>2
  <2>3. \A i \in 1..Len(members'[c]) : stream'[members'[c][i]].stream = "open"
    <3>1. \A i \in 1..Len(members[c]) : stream[members[c][i]].stream = "open"
      BY <2>1 DEF MapOK
    <3>. QED  BY <1>4, <1>6, <2>1, <3>1
  <2>4. Bridge!WillListen' <=> current' # None
    BY <1>1, <2>1 DEF MapOK, Bridge!WillListen
  <2>. QED  BY <1>1, <1>3, <2>1, <2>2, <2>3, <2>4 DEF MapOK
<1>. QED  BY <1>1, <1>5, <1>7, <1>8, <1>9 DEF StreamsOK

LEMMA RedisTakesKeeps ==
    ASSUME Bridge!NamesAssumption, StreamsOK, Bridge!RedisTakes
    PROVE  StreamsOK'
<1>. USE DEF Bridge!NamesAssumption
<1>. DEFINE h == wire[1]
<1>0. /\ StreamsTyped /\ WireOK /\ (~raced => MapOK) /\ \A d \in Streams : JoinedOnce(d)
      /\ wire # <<>> /\ wire \in Seq(Streams \cup {None})
  BY DEF StreamsOK, StreamsTyped, Bridge!RedisTakes
<1>1. /\ Len(wire) \in Nat \ {0} /\ Head(wire) = h /\ h \in Streams \cup {None}
      /\ Tail(wire) \in Seq(Streams \cup {None}) /\ Len(Tail(wire)) = Len(wire) - 1
      /\ (Tail(wire) = <<>> <=> Len(wire) = 1)
      /\ \A i \in 1..(Len(wire) - 1) : Tail(wire)[i] = wire[i + 1]
  BY <1>0, TailIs
<1>2. /\ wire' = Tail(wire) /\ listens' = (h # None) /\ UNCHANGED <<current, members, raced>>
      /\ stream' = IF h # None THEN [stream EXCEPT ![h] = [@ EXCEPT !.start = "replied"]] ELSE stream
  BY <1>1 DEF Bridge!RedisTakes
<1>. HIDE DEF h
<1>3. h # None => h \in Streams /\ stream[h].start = "sent" /\ stream[h] \in Connections
  <2>1. 1 \in 1..Len(wire)
    BY <1>1
  <2>. QED  BY <1>0, <1>1, <2>1 DEF WireOK, StreamsTyped, h
<1>4. /\ h # None => /\ stream'[h] \in Connections /\ stream'[h].start = "replied"
                     /\ stream'[h].stream = stream[h].stream /\ stream'[h].set = stream[h].set
      /\ \A d \in Streams : d # h => stream'[d] = stream[d]
  BY <1>0, <1>2, <1>3 DEF StreamsTyped, Connections
<1>5. StreamsTyped'
  <2>1. stream' \in [Streams -> Connections]
    BY <1>0, <1>2, <1>3, <1>4 DEF StreamsTyped
  <2>. QED  BY <1>0, <1>1, <1>2, <2>1 DEF StreamsTyped
<1>6. \A d \in Streams : JoinedOnce(d)'
  <2>. TAKE d \in Streams
  <2>1. JoinedOnce(d)
    BY <1>0
  <2>2. /\ Fresh(d)' <=> Fresh(d)
        /\ stream'[d].stream = stream[d].stream /\ stream'[d].set = stream[d].set
        /\ stream'[d].start \in {"sent", "replied"} => stream[d].start \in {"sent", "replied"}
    BY <1>3, <1>4 DEF Fresh
  <2>3. \A i \in 1..Len(members[d]) : stream'[members[d][i]] = stream[members[d][i]]
    <3>1. \A i \in 1..Len(members[d]) : members[d][i] \in Streams
      BY <1>0 DEF StreamsTyped
    <3>. QED  BY <1>3, <1>4, <2>1, <3>1 DEF JoinedOnce
  <2>4. \A i \in 1..Len(members'[d]) :
          /\ stream'[members'[d][i]].start = "done"
          /\ \A j \in 1..Len(members'[d]) : members'[d][i] = members'[d][j] => i = j
    BY <1>2, <2>1, <2>3 DEF JoinedOnce
  <2>5. /\ stream'[d].stream = "none" <=> Fresh(d)'
        /\ Fresh(d)' => current' # d /\ members'[d] = <<>>
    BY <1>2, <2>1, <2>2 DEF JoinedOnce
  <2>6. stream'[d].start \in {"sent", "replied"} => stream'[d].set = d
    BY <2>1, <2>2 DEF JoinedOnce
  <2>. QED  BY <2>4, <2>5, <2>6 DEF JoinedOnce
<1>7. WireOK'
  <2>. SUFFICES ASSUME NEW i \in 1..Len(wire'), wire'[i] # None
                PROVE  /\ stream'[wire'[i]].start = "sent"
                       /\ \A j \in 1..Len(wire') : wire'[i] = wire'[j] => i = j
    BY DEF WireOK
  <2>1. \A j \in 1..Len(wire') : j + 1 \in 1..Len(wire) /\ wire'[j] = wire[j + 1]
    BY <1>1, <1>2
  <2>2. wire[i + 1] # None /\ wire[i + 1] \in Streams \cup {None}
    BY <1>0, <2>1
  <2>3. stream[wire[i + 1]].start = "sent" /\ \A j \in 1..Len(wire) : wire[i + 1] = wire[j] => i + 1 = j
    BY <1>0, <2>1, <2>2 DEF WireOK
  <2>4. wire[i + 1] # h
    <3>1. 1 \in 1..Len(wire) /\ i + 1 # 1
      BY <1>1
    <3>. QED  BY <2>3, <3>1 DEF h
  <2>5. stream'[wire'[i]].start = "sent"
    BY <1>4, <2>1, <2>2, <2>3, <2>4
  <2>6. \A j \in 1..Len(wire') : wire'[i] = wire'[j] => i = j
    <3>. TAKE j \in 1..Len(wire')
    <3>1. wire'[i] = wire'[j] => i + 1 = j + 1
      BY <2>1, <2>3
    <3>. QED  BY <3>1
  <2>. QED  BY <2>5, <2>6
<1>8. ASSUME ~raced
      PROVE  MapOK'
  <2>1. MapOK
    BY <1>0, <1>8
  <2>2. \A d \in Streams : /\ stream'[d].stream = stream[d].stream
                           /\ stream'[d].start = "done" <=> stream[d].start = "done"
                           /\ stream'[d].start \in {"sent", "replied"} <=> stream[d].start \in {"sent", "replied"}
    BY <1>3, <1>4
  <2>3. \A d \in Streams : Joins(d)'
    BY <1>2, <2>1, <2>2 DEF MapOK, Joins
  <2>4. current # None => /\ current \in Streams
                          /\ \A i \in 1..Len(members[current]) : members[current][i] \in Streams
    BY <1>0 DEF StreamsTyped
  <2>5. Bridge!WillListen' <=> Bridge!WillListen
    <3>1. CASE Len(wire) = 1
      BY <1>0, <1>1, <1>2, <3>1 DEF Bridge!WillListen, Bridge!Last, h
    <3>2. CASE Len(wire) # 1
      <4>1. Tail(wire)[Len(Tail(wire))] = wire[Len(wire)] /\ Tail(wire) # <<>>
        BY <1>1, <3>2
      <4>. QED  BY <1>0, <1>2, <4>1 DEF Bridge!WillListen, Bridge!Last
    <3>. QED  BY <3>1, <3>2
  <2>. QED  BY <1>2, <2>1, <2>2, <2>3, <2>4, <2>5 DEF MapOK
<1>. QED  BY <1>2, <1>5, <1>6, <1>7, <1>8 DEF StreamsOK

\* The server learns that a connection is gone.
LEMMA CancelKeeps ==
    ASSUME Bridge!NamesAssumption, StreamsOK, NEW c \in Streams, Bridge!Cancel(c)
    PROVE  StreamsOK'
<1>. USE DEF Bridge!NamesAssumption
<1>0. /\ StreamsTyped /\ WireOK /\ (~raced => MapOK) /\ \A d \in Streams : JoinedOnce(d)
      /\ stream[c].stream = "open" /\ stream[c] \in Connections
  BY DEF StreamsOK, StreamsTyped, Bridge!Cancel
<1>1. stream' = [stream EXCEPT ![c] = [@ EXCEPT !.stream = "closed"]] /\ UNCHANGED listens
  BY DEF Bridge!Cancel
<1>2. /\ stream' \in [Streams -> Connections] /\ stream'[c].stream = "closed"
      /\ \A d \in Streams : stream'[d].start = stream[d].start /\ stream'[d].set = stream[d].set
      /\ \A d \in Streams \ {c} : stream'[d] = stream[d]
  BY <1>0, <1>1 DEF StreamsTyped, Connections
<1>3. \A d \in Streams : members[d] \in Seq(Streams) /\ \A i \in 1..Len(members[d]) : members[d][i] \in Streams
  BY <1>0 DEF StreamsTyped
<1>4. CASE stream[c].start = "done" /\ current # None
  <2>. DEFINE k == current
              left == Bridge!RemoveFirst(members[k], c)
  <2>1. /\ members' = [members EXCEPT ![k] = left]
        /\ IF left = <<>> THEN current' = None /\ wire' = Append(wire, None) ELSE UNCHANGED <<current, wire>>
        /\ raced' = (raced \/ (left = <<>> /\ \E b \in Streams : Bridge!Starting(b) /\ stream[b].set = k))
    BY <1>4 DEF Bridge!Cancel
  <2>2. k \in Streams /\ JoinedOnce(k)
    BY <1>0, <1>4 DEF StreamsTyped
  <2>3. /\ left \in Seq(Streams)
        /\ \A i \in 1..Len(left) : left[i] # c /\ \E j \in 1..Len(members[k]) : left[i] = members[k][j]
        /\ \A j \in 1..Len(members[k]) : members[k][j] # c => \E i \in 1..Len(left) : left[i] = members[k][j]
        /\ \A i, j \in 1..Len(left) : left[i] = left[j] => i = j
    <3>1. \A i, j \in 1..Len(members[k]) : members[k][i] = members[k][j] => i = j
      BY <2>2 DEF JoinedOnce
    <3>. QED  BY <1>3, <2>2, <3>1, RemovedIs
  <2>. HIDE DEF left
  <2>4. /\ members' \in [Streams -> Seq(Streams)] /\ members'[k] = left
        /\ \A d \in Streams \ {k} : members'[d] = members[d]
    BY <1>0, <2>1, <2>2, <2>3 DEF StreamsTyped
  <2>5. /\ wire' \in Seq(Streams \cup {None}) /\ current' \in {current, None}
        /\ left = <<>> => Bridge!WillListen' = FALSE
        /\ Len(wire) \in Nat /\ (left # <<>> => wire' = wire)
        /\ left = <<>> => /\ Len(wire') = Len(wire) + 1 /\ wire'[Len(wire) + 1] = None
                          /\ \A i \in 1..Len(wire) : wire'[i] = wire[i]
    <3>1. wire \in Seq(Streams \cup {None}) /\ None \in Streams \cup {None}
      BY <1>0 DEF StreamsTyped
    <3>2. CASE left = <<>>
      <4>1. /\ wire' \in Seq(Streams \cup {None}) /\ wire' # <<>> /\ Len(wire) \in Nat
            /\ Len(wire') = Len(wire) + 1 /\ wire'[Len(wire) + 1] = None
            /\ \A i \in 1..Len(wire) : wire'[i] = wire[i]
        <5>1. wire' = Append(wire, None)
          BY <2>1, <3>2
        <5>. QED  BY <3>1, <5>1, AppendIs
      <4>2. ~Bridge!WillListen'
        BY <4>1 DEF Bridge!WillListen, Bridge!Last
      <4>. QED  BY <2>1, <3>2, <4>1, <4>2
    <3>3. CASE left # <<>>
      BY <2>1, <3>1, <3>3
    <3>. QED  BY <3>2, <3>3
  <2>6. StreamsTyped'
    BY <1>0, <1>1, <1>2, <2>1, <2>4, <2>5 DEF StreamsTyped
  <2>7. \A d \in Streams : JoinedOnce(d)'
    <3>. TAKE d \in Streams
    <3>1. JoinedOnce(d) /\ (Fresh(d)' <=> Fresh(d))
      BY <1>0, <1>2 DEF Fresh
    <3>2. stream'[d].stream = "none" <=> Fresh(d)'
      BY <1>0, <1>2, <1>4, <3>1 DEF JoinedOnce, Fresh
    <3>3. Fresh(d)' => current' # d /\ members'[d] = <<>>
      BY <2>2, <2>4, <2>5, <3>1 DEF JoinedOnce
    <3>4. stream'[d].start \in {"sent", "replied"} => stream'[d].set = d
      BY <1>2, <3>1 DEF JoinedOnce
    <3>5. \A i \in 1..Len(members'[d]) :
            /\ stream'[members'[d][i]].start = "done"
            /\ \A j \in 1..Len(members'[d]) : members'[d][i] = members'[d][j] => i = j
      <4>1. CASE d = k
        <5>1. \A i \in 1..Len(left) : left[i] \in Streams /\ stream[left[i]].start = "done"
          <6>. TAKE i \in 1..Len(left)
          <6>1. PICK j \in 1..Len(members[k]) : left[i] = members[k][j]
            BY <2>3
          <6>. QED  BY <1>3, <2>2, <6>1 DEF JoinedOnce
        <5>2. members'[d] = left /\ \A i, j \in 1..Len(left) : left[i] = left[j] => i = j
          BY <2>3, <2>4, <4>1
        <5>3. \A i \in 1..Len(left) : stream'[left[i]].start = "done"
          BY <1>2, <5>1
        <5>. QED  BY <5>2, <5>3
      <4>2. CASE d # k
        <5>1. \A i \in 1..Len(members[d]) : stream'[members[d][i]].start = stream[members[d][i]].start
          BY <1>2, <1>3
        <5>. QED  BY <2>4, <3>1, <4>2, <5>1 DEF JoinedOnce
      <4>. QED  BY <4>1, <4>2
    <3>. QED  BY <3>2, <3>3, <3>4, <3>5 DEF JoinedOnce
  <2>8. WireOK'
    <3>0. \A i \in 1..Len(wire) : wire[i] # None => stream'[wire[i]].start = stream[wire[i]].start
      BY <1>0, <1>2 DEF StreamsTyped
    <3>1. CASE left # <<>>
      BY <1>0, <2>5, <3>0, <3>1 DEF WireOK
    <3>2. CASE left = <<>>
      <4>1. \A i \in 1..Len(wire') : wire'[i] # None => i \in 1..Len(wire) /\ wire'[i] = wire[i]
        BY <2>5, <3>2
      <4>. QED  BY <1>0, <3>0, <4>1 DEF WireOK
    <3>. QED  BY <3>1, <3>2
  <2>9. ASSUME ~raced'
        PROVE  MapOK'
    <3>0. MapOK
      BY <1>0, <2>1, <2>9
    <3>1. ASSUME NEW d \in Streams, stream'[d].stream = "open", stream'[d].start = "done"
          PROVE  left # <<>> /\ \E i \in 1..Len(left) : left[i] = d
      <4>1. d # c /\ stream[d] = stream'[d]
        BY <1>2, <3>1
      <4>2. PICK j \in 1..Len(members[k]) : members[k][j] = d
        BY <3>0, <3>1, <4>1 DEF MapOK, Joins
      <4>3. PICK i \in 1..Len(left) : left[i] = d
        BY <2>3, <4>1, <4>2
      <4>4. left # <<>>
        BY <4>3
      <4>. QED  BY <4>3, <4>4
    <3>2. ASSUME NEW d \in Streams, stream[d].start \in {"sent", "replied"}
          PROVE  stream'[d].stream = "open" /\ current' = d
      <4>1. Joins(d) /\ JoinedOnce(d)
        BY <1>0, <3>0 DEF MapOK
      <4>2. stream[d].stream = "open" /\ k = d /\ stream[d].set = d /\ d # c
        BY <1>4, <3>2, <4>1 DEF Joins, JoinedOnce
      <4>3. left # <<>>
        BY <2>1, <2>9, <3>2, <4>2 DEF Bridge!Starting
      <4>. QED  BY <1>2, <2>1, <4>2, <4>3
    <3>3. \A d \in Streams : Joins(d)'
      BY <1>2, <1>4, <2>1, <2>4, <3>1, <3>2 DEF Joins
    <3>4. ASSUME current' # None
          PROVE  /\ current' = k /\ left # <<>> /\ members'[k] = left
                 /\ \A i \in 1..Len(left) : stream'[left[i]].stream = "open"
      <4>1. current' = k /\ left # <<>>
        BY <2>1, <3>4
      <4>2. \A i \in 1..Len(left) : left[i] \in Streams \ {c} /\ stream[left[i]].stream = "open"
        BY <1>3, <1>4, <2>2, <2>3, <3>0 DEF MapOK
      <4>. QED  BY <1>2, <2>4, <4>1, <4>2
    <3>5. Bridge!WillListen' <=> current' # None
      <4>1. CASE left = <<>>
        BY <2>1, <2>5, <4>1
      <4>2. CASE left # <<>>
        BY <1>1, <1>4, <2>1, <3>0, <4>2 DEF MapOK, Bridge!WillListen
      <4>. QED  BY <4>1, <4>2
    <3>. QED  BY <3>3, <3>4, <3>5 DEF MapOK
  <2>. QED  BY <2>6, <2>7, <2>8, <2>9 DEF StreamsOK
<1>5. CASE ~(stream[c].start = "done" /\ current # None)
  <2>1. raced' = (raced \/ Bridge!Starting(c)) /\ UNCHANGED <<current, members, wire>>
    BY <1>5 DEF Bridge!Cancel
  <2>2. StreamsTyped'
    BY <1>0, <1>1, <1>2, <2>1 DEF StreamsTyped
  <2>3. \A d \in Streams : JoinedOnce(d)'
    <3>. TAKE d \in Streams
    <3>1. JoinedOnce(d) /\ (Fresh(d)' <=> Fresh(d))
      BY <1>0, <1>2 DEF Fresh
    <3>2. stream'[d].stream = "none" <=> Fresh(d)'
      BY <1>0, <1>2, <3>1 DEF JoinedOnce, Fresh
    <3>3. \A i \in 1..Len(members[d]) : stream'[members[d][i]].start = stream[members[d][i]].start
      BY <1>2, <1>3
    <3>. QED  BY <1>2, <2>1, <3>1, <3>2, <3>3 DEF JoinedOnce
  <2>4. WireOK'
    <3>1. \A i \in 1..Len(wire) : wire[i] # None => stream'[wire[i]].start = stream[wire[i]].start
      BY <1>0, <1>2 DEF StreamsTyped
    <3>. QED  BY <1>0, <2>1, <3>1 DEF WireOK
  <2>5. raced'
    <3>. SUFFICES ASSUME ~raced'
                  PROVE  FALSE
      OBVIOUS
    <3>1. MapOK /\ stream[c].start \notin {"sent", "replied"}
      BY <1>0, <2>1 DEF Bridge!Starting
    <3>2. stream[c].start # "none"
      BY <1>0 DEF JoinedOnce, Fresh
    <3>3. stream[c].start = "done" /\ current = None
      BY <1>0, <1>5, <3>1, <3>2 DEF Connections
    <3>. QED  BY <1>0, <3>1, <3>3 DEF MapOK, Joins
  <2>. QED  BY <2>2, <2>3, <2>4, <2>5 DEF StreamsOK
<1>. QED  BY <1>4, <1>5

LEMMA BridgeStep == Bridge!NamesAssumption /\ BridgeInv /\ [Bridge!Next]_(Bridge!vars) => BridgeInv'
<1>. SUFFICES ASSUME Bridge!NamesAssumption, BridgeInv, [Bridge!Next]_(Bridge!vars)
              PROVE  BridgeInv'
  OBVIOUS
<1>1. ASSUME UNCHANGED <<stream, current, members, wire, listens, raced>>
      PROVE  StreamsOK'
  BY <1>1 DEF BridgeInv, StreamsOK, StreamsTyped, JoinedOnce, Fresh, WireOK, MapOK, Joins,
              Bridge!WillListen
<1>2. CASE Bridge!Next
  <2>. USE DEF Bridge!stream
  <2>1. ASSUME NEW c \in Streams, Bridge!StreamStep(c)
        PROVE  StreamsOK'
    <3>1. Bridge!PageOpens(c) => StreamsOK'
      BY <1>1 DEF Bridge!PageOpens
    <3>. QED  BY <2>1, <3>1, ConnectKeeps, SubscribedKeeps, CancelKeeps DEF BridgeInv, Bridge!StreamStep
  <2>2. Bridge!RedisTakes => StreamsOK'
    BY RedisTakesKeeps DEF BridgeInv
  <2>3. ASSUME NEW n \in Notes, Bridge!NoteStep(n)
        PROVE  StreamsOK'
    BY <1>1, <2>3 DEF Bridge!NoteStep, Bridge!Insert, Bridge!Commit, Bridge!RollBack, Bridge!Publish,
                      Bridge!SignalLost, Bridge!Heard, Bridge!Unheard
  <2>4. ASSUME NEW m \in Notes \cup {All}, Bridge!MarkStep(m)
        PROVE  StreamsOK'
    BY <1>1, <2>4 DEF Bridge!MarkStep, Bridge!Choose, Bridge!Marks, Bridge!MarkSettles, Bridge!MarkFails
  <2>5. Bridge!BellAnswered \/ Bridge!BellSettles \/ Bridge!BellFails => StreamsOK'
    BY <1>1 DEF Bridge!BellAnswered, Bridge!BellSettles, Bridge!BellFails
  <2>6. StreamsOK'
    BY <1>2, <2>1, <2>2, <2>3, <2>4, <2>5 DEF Bridge!Next
  <2>. QED  BY <1>2, <2>6, NotesStep DEF BridgeInv
<1>3. CASE UNCHANGED Bridge!vars
  <2>1. UNCHANGED <<note, signal, tab, bell, marking, missed>>
        /\ UNCHANGED <<stream, current, members, wire, listens, raced>>
    BY <1>3 DEF Bridge!vars, Bridge!stream
  <2>. QED  BY <1>1, <2>1 DEF BridgeInv, NotesTyped
<1>. QED  BY <1>2, <1>3

\* LiveNotifications by itself.
LEMMA BridgeIsHeld ==
    ASSUME Bridge!NamesAssumption
    PROVE  Bridge!Spec => []Bridge!TypeOK /\ []Bridge!BridgeExact
<1>1. Bridge!Init => BridgeInv
  <2>. SUFFICES ASSUME Bridge!Init
                PROVE  BridgeInv
    OBVIOUS
  <2>1. Bridge!NewConn \in Connections /\ Bridge!NewConn.stream = "none" /\ Bridge!NewConn.start = "none"
    BY DEF Bridge!NewConn, Connections
  <2>2. Bridge!NoQuery({}) \in Bridge!QueryOf(SUBSET Notes)
    BY DEF Bridge!NoQuery, Bridge!QueryOf
  <2>3. NotesTyped
    BY <2>2, QueryTypes DEF Bridge!Init, NotesTyped
  <2>4. /\ StreamsTyped /\ Len(wire) = 0 /\ current = None
        /\ \A c \in Streams : stream[c] = Bridge!NewConn /\ members[c] = <<>> /\ Len(members[c]) = 0
    <3>1. /\ stream = [c \in Streams |-> Bridge!NewConn] /\ current = None /\ wire = <<>>
          /\ members = [c \in Streams |-> <<>>] /\ listens = FALSE /\ raced = FALSE
      BY DEF Bridge!Init
    <3>2. <<>> \in Seq(Streams) /\ <<>> \in Seq(Streams \cup {None}) /\ Len(<<>>) = 0
      OBVIOUS
    <3>3. stream \in [Streams -> Connections] /\ members \in [Streams -> Seq(Streams)]
      BY <2>1, <3>1, <3>2
    <3>. QED  BY <3>1, <3>2, <3>3 DEF StreamsTyped
  <2>5. \A c \in Streams : JoinedOnce(c) /\ Joins(c)
    BY <2>1, <2>4 DEF JoinedOnce, Fresh, Joins, Bridge!NamesAssumption
  <2>6. ~Bridge!WillListen
    BY DEF Bridge!Init, Bridge!WillListen
  <2>. QED  BY <2>3, <2>4, <2>5, <2>6 DEF BridgeInv, StreamsOK, WireOK, MapOK
<1>2. BridgeInv => Bridge!TypeOK /\ Bridge!BridgeExact
  <2>. SUFFICES ASSUME BridgeInv
                PROVE  Bridge!TypeOK /\ Bridge!BridgeExact
    OBVIOUS
  <2>1. Bridge!TypeOK
    BY DEF BridgeInv, NotesTyped, StreamsOK, StreamsTyped, Connections, Bridge!TypeOK
  <2>2. ASSUME ~raced
        PROVE  MapOK /\ StreamsTyped
    BY <2>2 DEF BridgeInv, StreamsOK
  <2>3. ASSUME ~raced, NEW c \in Streams, stream[c].stream = "open", stream[c].start = "done"
        PROVE  c \in Bridge!Reached /\ Bridge!WillListen
    <3>1. current # None /\ current \in Streams /\ members[current] \in Seq(Streams)
      BY <2>2, <2>3 DEF MapOK, Joins, StreamsTyped
    <3>2. PICK i \in 1..Len(members[current]) : members[current][i] = c
      BY <2>2, <2>3 DEF MapOK, Joins
    <3>3. DOMAIN members[current] = 1..Len(members[current]) /\ Len(members[current]) \in Nat
      BY <3>1
    <3>4. \A j \in 1..i : stream[members[current][j]].stream = "open"
      BY <2>2, <2>3, <3>1, <3>3 DEF MapOK
    <3>5. c \in Bridge!Reached
      BY <3>1, <3>2, <3>3, <3>4 DEF Bridge!Reached
    <3>. QED  BY <2>2, <2>3, <3>1, <3>5 DEF MapOK
  <2>4. ASSUME ~raced, \A c \in Streams : stream[c].stream # "open"
        PROVE  current = None /\ ~Bridge!WillListen
    <3>1. ASSUME current # None
          PROVE  FALSE
      <4>1. current \in Streams /\ members[current] \in Seq(Streams)
        BY <2>2, <2>4, <3>1 DEF StreamsTyped
      <4>2. members[current] = <<>>
        <5>. SUFFICES ASSUME members[current] # <<>>
                      PROVE  FALSE
          OBVIOUS
        <5>1. 1 \in 1..Len(members[current]) /\ members[current][1] \in Streams
          BY <4>1
        <5>. QED  BY <2>2, <2>4, <3>1, <5>1 DEF MapOK
      <4>. QED  BY <2>2, <2>4, <3>1, <4>1, <4>2 DEF MapOK, Joins
    <3>. QED  BY <2>2, <2>4, <3>1 DEF MapOK
  <2>5. Bridge!BridgeExact
    BY <2>3, <2>4 DEF Bridge!BridgeExact
  <2>. QED  BY <2>1, <2>5
<1>. QED  BY <1>1, <1>2, BridgeStep, PTL DEF Bridge!Spec

-----------------------------------------------------------------------------
(***************************************************************************)
(* Services: each component behaves as it does by itself.                  *)
(***************************************************************************)
LEMMA EachBehaves == Spec => /\ Scope!Spec /\ Fan!Spec /\ Account!Spec /\ Sync!Spec
                             /\ Bridge!Spec /\ Errors!Spec /\ Beats!Spec /\ Report!Spec
<1>1. Init => /\ Scope!Init /\ Fan!Init /\ Account!Init /\ Sync!Init
              /\ Bridge!Init /\ Errors!Init /\ Beats!Init /\ Report!Init
  BY DEF Init
<1>2. ASSUME [Next]_vars
      PROVE  /\ [Scope!Next]_(Scope!vars) /\ [Fan!Next]_(Fan!vars)
             /\ [Account!Next]_(Account!vars) /\ [Sync!Next]_(Sync!vars)
             /\ [Errors!Next]_(Errors!vars) /\ [Beats!Next]_(Beats!vars)
             /\ [Report!Next]_(Report!vars) /\ [Bridge!Next]_(Bridge!vars)
  <2>. USE DEF Others, scopeVars, fanVars, accountVars, usageVars, errorVars, beatVars, reportVars,
               Scope!vars, Fan!vars, Account!vars, Sync!vars, Account!history, Sync!history, Sync!provider,
               Errors!vars, Beats!vars, Report!vars, bridgeVars, Bridge!vars, Bridge!stream
  <2>1. CASE focus = "scope" /\ Scope!Next /\ Others("scope")
    BY <2>1
  <2>2. CASE focus = "mail" /\ Fan!Next /\ Others("mail")
    BY <2>2
  <2>3. CASE focus = "account" /\ Account!Next /\ Others("account")
    BY <2>3
  <2>4. CASE focus = "usage" /\ Sync!Next /\ Others("usage")
    BY <2>4
  <2>5. CASE focus = "errors" /\ Errors!Next /\ Others("errors")
    BY <2>5
  <2>6. CASE focus = "beats" /\ Beats!Next /\ Others("beats")
    BY <2>6
  <2>7. CASE focus = "report" /\ Report!Next /\ Others("report")
    BY <2>7
  <2>8. CASE focus = "bridge" /\ Bridge!Next /\ Others("bridge")
    BY <2>8
  <2>9. CASE UNCHANGED vars
    BY <2>9 DEF vars
  <2>. QED  BY <1>2, <2>1, <2>2, <2>3, <2>4, <2>5, <2>6, <2>7, <2>8, <2>9 DEF Next
<1>. QED  BY <1>1, <1>2, PTL DEF Spec, Scope!Spec, Fan!Spec, Account!Spec, Sync!Spec,
                                 Errors!Spec, Beats!Spec, Report!Spec, Bridge!Spec

\* with-tenant.ts, als.ts and queue/index.ts: a connection that goes from tenant to tenant
\* carries no setting over, a create is answered and followed by a job only once its row
\* is stored, and every run of the job is in the frame of the request that caused it;
\* however requests fail, connections break and processes die.
THEOREM ScopeAlwaysHolds == Spec => []ScopeHolds
<1>1. Spec => []Scope!ScopeHolds
  BY EachBehaves, ScopeIsHeld, NamesAssumption
<1>2. Scope!ScopeHolds => ScopeHolds
  BY DEF ScopeHolds
<1>. QED  BY <1>1, <1>2, PTL

\* list-examples.ts under the policy of the tenant tables: a list answers rows of its own
\* tenant, all that are committed or a full page, whichever connection the pool gave it.
THEOREM ListsOwnRows == Spec => OwnRows
BY EachBehaves, ListsAreOwn, NamesAssumption DEF OwnRows

\* provision-customer.ts and stripe-adapter.ts: the types and bounds; Stripe has one
\* customer for the tenant however often provisioning is tried; and what a command was
\* answered is so at the provider, but for requests that repeat an earlier one.
THEOREM AccountAlwaysHolds == Spec => []AccountHolds
<1>1. Spec => []Account!AccountHolds
  BY EachBehaves, AccountIsHeld, NamesAssumption
<1>2. Account!AccountHolds => AccountHolds
  BY DEF AccountHolds
<1>. QED  BY <1>1, <1>2, PTL

\* sync-usage.ts: a row is marked as synced only if it was in a sum that the provider
\* answered, and is in two sums on the bill only if a run broke off between its report
\* and its mark, or two runs overlapped; whatever is inserted meanwhile.
THEOREM UsageAlwaysReported == Spec => []UsageReported
<1>1. Spec => []Sync!TypeOK /\ []Sync!UsageReported
  BY EachBehaves, SyncHolds, NamesAssumption
<1>2. Sync!TypeOK /\ Sync!UsageReported => UsageReported
  BY DEF UsageReported
<1>. QED  BY <1>1, <1>2, PTL

\* notify.ts and deliver.ts: no mail is left pending by a call that ended, and the opt-out
\* is honoured as it was around the gate, however calls, preferences, runs, stalls and
\* deaths interleave.
THEOREM MailsAlwaysHold == Spec => []MailsHold
<1>1. Spec => []Fan!MailsHold
  BY EachBehaves, MailsAreHeld, NamesAssumption
<1>2. Fan!MailsHold => MailsHold
  BY DEF MailsHold
<1>. QED  BY <1>1, <1>2, PTL

\* bridge.ts and the stream's route: unless a connection ends in the middle of a start(), an
\* open stream is among the emitters that a message reaches, no cancelled one before it, and
\* Redis will be subscribed; and neither the bridge nor Redis keeps anything for streams
\* that are gone, for any number of connections.
THEOREM BridgeAlwaysExact == Spec => []BridgeExact
<1>1. Spec => []Bridge!TypeOK /\ []Bridge!BridgeExact
  BY EachBehaves, BridgeIsHeld, NamesAssumption
<1>2. Bridge!TypeOK /\ Bridge!BridgeExact => BridgeExact
  BY DEF BridgeExact
<1>. QED  BY <1>1, <1>2, PTL

\* ring-buffer-error-tracker.ts, heartbeat.ts and health-aggregator.ts: the window of errors
\* and its index agree through every eviction; a worker that stopped is not listed and one
\* that runs is, unless a command of it is on its way or was lost; and the cached report
\* says of a contributor what has been so for the longest timeout and the cache's life
\* together, however fan-outs overwrite it.
THEOREM ObservedAlwaysTrue == Spec => []ObservedIsTrue
<1>1. Spec => []Errors!TypeOK /\ []Errors!WindowExact
  BY EachBehaves, ErrorsAreHeld, NamesAssumption
<1>2. Spec => []Beats!TypeOK /\ []Beats!KeysTellLife
  BY EachBehaves, BeatsAreHeld, NamesAssumption
<1>3. Spec => []Report!TypeOK /\ []Report!OutageShows
  BY EachBehaves, ReportIsHeld, NamesAssumption
<1>4. Errors!TypeOK /\ Errors!WindowExact /\ Beats!TypeOK /\ Beats!KeysTellLife
      /\ Report!TypeOK /\ Report!OutageShows => ObservedIsTrue
  BY DEF ObservedIsTrue
<1>. QED  BY <1>1, <1>2, <1>3, <1>4, PTL
=============================================================================
