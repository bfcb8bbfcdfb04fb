----------------------- MODULE SessionOwnership_proofs -----------------------
(****************************************************************************)
(* The stored session, for any number of processes and clones of their      *)
(* store handles, and any number of claims, generations, events and prunes. *)
(****************************************************************************)
EXTENDS SessionOwnership, TLAPS

\* The claim is complete: this runtime owns the session.
Owning == {"held", "releasing"}

\* The values of the variables.
Admissions == {"away", "owned", "preparing", "released", "lost", "closed"}
ClaimStages == {"none", "locked", "published", "held", "releasing", "dropping"}
LeaseIds == 0..MaxClaims
Authorities == 1..MaxClaims \cup {None, Locked}
Generations == 0..MaxGen
Frozen == [tail : Nat, name : {0, 1}]
RuntimeState ==
    [admission : Admissions, claim : ClaimStages, lease : LeaseIds, gen : Generations,
     lastEvent : Nat, frozen : Frozen, previous : Records]

\* The types, apart from what ties a handle's table to its claim.
Typed ==
    /\ lock \in Writers \cup {Pruner, None}
    /\ record \in Records
    /\ log \in Seq(LeaseIds)
    /\ name \in {0, 1}
    /\ rt \in [Runtimes -> RuntimeState]
    /\ table \in [Runtimes -> LeaseIds]
    /\ claims \in LeaseIds
    /\ found \in [Clones -> LeaseIds \cup {Idle}]
    /\ writing \in [Writers -> Authorities]
    /\ prune \in {"none", "holding", "cleared"} /\ prunes \in 0..MaxPrunes

\* Who holds the lock can be told from what everybody is doing.
LockTold ==
    /\ \A r \in Runtimes : lock = r <=> rt[r].claim # "none"
    /\ \A c \in Clones : lock = c <=> writing[c] = Locked
    /\ lock = Pruner <=> prune # "none"

\* A runtime's claim agrees with its admission, its handle's table, the record
\* and the log; its own writes happen under its lease.
ClaimTold(r) ==
    /\ rt[r].claim \in {"locked", "published"} => claims < MaxClaims
    /\ rt[r].admission \in {"owned", "preparing"} <=> rt[r].claim \in Owning
    /\ rt[r].claim = "releasing" => /\ rt[r].admission = "preparing"
                                    /\ rt[r].frozen.tail = rt[r].lastEvent
    /\ rt[r].claim \in {"published"} \cup Owning =>
          record.gen = rt[r].gen /\ record.transfer # "released"
    /\ rt[r].claim \in Owning =>
          /\ rt[r].lease = claims /\ claims > 0 /\ table[r] = claims
          /\ rt[r].lastEvent = Len(log)
    /\ table[r] \in {NoLease, rt[r].lease} /\ rt[r].lease <= claims
    /\ writing[r] # None =>
          rt[r].claim = "held" /\ rt[r].admission = "owned" /\ writing[r] = rt[r].lease

\* The latest lease is live while its claim is complete, no other lease is, and
\* no two runtimes remember the same one.
LeaseTold ==
    /\ live = {l \in {claims} : \E r \in Runtimes : rt[r].claim \in Owning}
    /\ \A q, r \in Runtimes :
          rt[q].lease = rt[r].lease /\ rt[q].lease # NoLease => q = r

\* What a clone looked up was its handle's lease, which may have died since; it
\* writes under that lease while it lives, or under the session lock.
CloneTold(c) ==
    /\ found[c] # Idle => found[c] <= claims
    /\ found[c] \in live => found[c] = rt[Handle[c]].lease
    /\ writing[c] # None =>
          /\ found[c] # Idle
          /\ writing[c] = IF found[c] = NoLease THEN Locked ELSE found[c]
    /\ writing[c] \notin {None, Locked} => writing[c] \in live

\* A lease's mutex is held by one writer.
MutexTold == \A x, y \in Writers : writing[x] = writing[y] /\ writing[x] # None => x = y

\* The log, and the record of a hand-over.
LogTold ==
    /\ \A n \in 1..Len(log) : log[n] <= claims
    /\ HandOverIsFrozen

\* The inductive invariant.
OwnInv ==
    /\ Typed /\ LockTold /\ (\A r \in Runtimes : ClaimTold(r)) /\ LeaseTold
    /\ (\A c \in Clones : CloneTold(c)) /\ MutexTold /\ LogTold

----------------------------------------------------------------------------
\* What the constants' assumptions say of the names.
LEMMA Names ==
  /\ Writers = Runtimes \cup Clones /\ Runtimes \cap Clones = {}
  /\ None \notin Writers /\ Pruner \notin Writers /\ Pruner # None
  /\ None \notin Nat /\ MaxClaims \in Nat /\ MaxGen \in Nat /\ MaxPrunes \in Nat
  /\ Handle \in [Clones -> Runtimes]
  BY OwnershipConstants DEF Writers

\* The values the actions assign have the right types.
LEMMA ValuesTyped ==
  /\ {"away", "owned", "preparing", "released", "lost", "closed"} \subseteq Admissions
  /\ {"none", "locked", "published", "held", "releasing", "dropping"} \subseteq ClaimStages
  /\ NoLease \in LeaseIds /\ 0 \in Generations /\ NothingFrozen \in Frozen
  /\ NoRecord \in Records
  /\ None \in Authorities /\ Locked \in Authorities
  /\ \A l \in LeaseIds : l # NoLease => l \in Authorities
  /\ \A n \in Nat, m \in {0, 1} : [tail |-> n, name |-> m] \in Frozen
<1>1. NoRecord \in Records
  BY Names DEF NoRecord, Records
<1>2. /\ NothingFrozen \in Frozen
      /\ \A n \in Nat, m \in {0, 1} : [tail |-> n, name |-> m] \in Frozen
  BY DEF NothingFrozen, Frozen
<1>3. NoLease \in LeaseIds /\ 0 \in Generations
  BY Names DEF NoLease, LeaseIds, Generations
<1>4. /\ None \in Authorities /\ Locked \in Authorities
      /\ \A l \in LeaseIds : l # NoLease => l \in Authorities
  BY Names DEF NoLease, LeaseIds, Authorities
<1> QED  BY <1>1, <1>2, <1>3, <1>4 DEF Admissions, ClaimStages

\* Forgetting a claim, and what is kept of it.
LEMMA NoClaimTyped ==
  /\ NoClaim \in RuntimeState
  /\ \A a \in Admissions, l \in LeaseIds :
        [NoClaim EXCEPT !.admission = a, !.lease = l] \in RuntimeState
<1>1. NoClaim \in RuntimeState
  BY ValuesTyped DEF NoClaim, RuntimeState
<1> QED  BY <1>1 DEF RuntimeState

\* The invariant holds at the start.
LEMMA OwnInit == Init => OwnInv
<1> SUFFICES ASSUME Init PROVE OwnInv
  OBVIOUS
<1> USE Names
<1>0. << >> \in Seq(LeaseIds) /\ Len(<< >>) = 0
  OBVIOUS
<1>1. Typed
  <2>1. record \in Records
    BY DEF Init, Records, NoRecord
  <2>2. rt \in [Runtimes -> RuntimeState]
    BY NoClaimTyped DEF Init
  <2> QED  BY <1>0, <2>1, <2>2, ValuesTyped DEF Init, Typed, NoLease
<1>2. LockTold
  BY DEF Init, LockTold, NoClaim, Locked
<1>3. ASSUME NEW r \in Runtimes PROVE ClaimTold(r)
  BY DEF Init, ClaimTold, NoClaim, NoLease, Owning
<1>4. LeaseTold
  BY DEF Init, LeaseTold, NoClaim, NoLease, Owning
<1>5. ASSUME NEW c \in Clones PROVE CloneTold(c)
  BY DEF Init, CloneTold
<1>6. MutexTold /\ LogTold
  BY <1>0 DEF Init, MutexTold, LogTold, HandOverIsFrozen, NoRecord
<1> QED  BY <1>1, <1>2, <1>3, <1>4, <1>5, <1>6 DEF OwnInv

\* A runtime with a claim holds the lock: nobody else does.
LEMMA Sole ==
  ASSUME OwnInv, NEW r \in Runtimes, rt[r].claim # "none"
  PROVE  /\ lock = r /\ prune = "none"
         /\ \A q \in Runtimes \ {r} : rt[q].claim = "none" /\ writing[q] = None
         /\ \A c \in Clones : writing[c] # Locked
<1>1. lock = r /\ prune = "none" /\ \A c \in Clones : writing[c] # Locked
  BY Names DEF OwnInv, LockTold
<1>2. \A q \in Runtimes \ {r} : rt[q].claim = "none"
  BY <1>1 DEF OwnInv, LockTold
<1>3. \A q \in Runtimes \ {r} : writing[q] = None
  BY <1>2 DEF OwnInv, ClaimTold
<1> QED  BY <1>1, <1>2, <1>3

\* An event is written by the owner, under its lease, which is live.
LEMMA EventUnderLease ==
  ASSUME OwnInv, NEW r \in Runtimes, BeginEvent(r)
  PROVE  /\ rt[r].claim = "held" /\ rt[r].admission = "owned" /\ writing[r] = None
         /\ claims \in 1..MaxClaims /\ claims \in live /\ MutexFree(claims)
         /\ writing' = [writing EXCEPT ![r] = claims]
         /\ UNCHANGED <<lock, store, rt, table, live, claims, found, prune, prunes>>
<1>1. rt[r].claim \in Owning /\ rt[r].claim \in {"none", "held"}
  BY DEF BeginEvent, OwnInv, ClaimTold
<1>2. rt[r].claim = "held"
  BY <1>1 DEF Owning
<1>3. table[r] = claims /\ claims > 0 /\ claims \in 0..MaxClaims
  BY <1>1 DEF OwnInv, ClaimTold, Typed, LeaseIds
<1>4. table[r] # NoLease /\ claims \in 1..MaxClaims
  BY <1>3, Names DEF NoLease
<1>5. claims \in live /\ MutexFree(claims)
  BY <1>3, <1>4 DEF BeginEvent, MayWrite
<1>6. writing' = [writing EXCEPT ![r] = claims] /\ lock' = lock
  BY <1>3, <1>4 DEF BeginEvent, BeginWrite
<1> QED  BY <1>2, <1>4, <1>5, <1>6 DEF BeginEvent, Ready

----------------------------------------------------------------------------
\* One runtime's state is replaced.
LEMMA Replaced ==
  ASSUME rt \in [Runtimes -> RuntimeState], NEW r \in Runtimes, NEW v \in RuntimeState,
         rt' = [rt EXCEPT ![r] = v]
  PROVE  rt' \in [Runtimes -> RuntimeState]
  OBVIOUS

\* Every step keeps the types.
LEMMA TypedStep == OwnInv /\ [Next]_vars => Typed'
<1> SUFFICES ASSUME OwnInv, [Next]_vars PROVE Typed'
  OBVIOUS
<1> USE DEF store
<1>0. Typed
  BY DEF OwnInv
<1>a. /\ rt \in [Runtimes -> RuntimeState]
      /\ \A r \in Runtimes : /\ rt[r] \in RuntimeState
                            /\ rt[r].lease \in LeaseIds /\ rt[r].admission \in Admissions
                            /\ rt[r].lastEvent \in Nat /\ rt[r].frozen \in Frozen
                            /\ rt[r].previous \in Records
  BY <1>0 DEF Typed, RuntimeState
<1>b. ASSUME NEW r \in Runtimes, NEW claim \in ClaimStages
      PROVE  [rt[r] EXCEPT !.claim = claim] \in RuntimeState
  BY <1>a DEF RuntimeState
<1>c. ASSUME NEW r \in Runtimes, NEW claim \in ClaimStages, NEW adm \in Admissions
      PROVE  [rt[r] EXCEPT !.claim = claim, !.admission = adm] \in RuntimeState
  BY <1>a DEF RuntimeState
<1>1. ASSUME NEW r \in Runtimes, TakeLock(r) PROVE Typed'
  <2>1. rt' \in [Runtimes -> RuntimeState]
    BY <1>a, <1>b, <1>1, ValuesTyped, Replaced DEF TakeLock
  <2> QED  BY <1>0, <1>1, <2>1, Names DEF TakeLock, Typed
<1>2. ASSUME NEW r \in Runtimes, PublishClaim(r) PROVE Typed'
  <2>1. record \in Records /\ record' \in Records /\ record.gen + 1 \in Generations
    BY <1>0, <1>2, Names DEF PublishClaim, Typed, Records, Generations
  <2>2. [rt[r] EXCEPT !.claim = "published", !.gen = record.gen + 1, !.previous = record]
            \in RuntimeState
    BY <1>a, <2>1, ValuesTyped DEF RuntimeState
  <2>3. rt' \in [Runtimes -> RuntimeState]
    BY <1>a, <1>2, <2>2, Replaced DEF PublishClaim
  <2> QED  BY <1>0, <1>2, <2>1, <2>3 DEF PublishClaim, Typed
<1>3. ASSUME NEW r \in Runtimes, ClaimFails(r) \/ LogUnreadable(r) \/ Unlock(r)
      PROVE  Typed'
  <2>1. PICK a \in Admissions :
           rt' = [rt EXCEPT ![r] = [NoClaim EXCEPT !.admission = a, !.lease = rt[r].lease]]
    BY <1>a, <1>3, ValuesTyped DEF ClaimFails, LogUnreadable, Unlock
  <2>2. [NoClaim EXCEPT !.admission = a, !.lease = rt[r].lease] \in RuntimeState
    BY <1>a, NoClaimTyped
  <2>3. rt' \in [Runtimes -> RuntimeState]
    BY <1>a, <2>1, <2>2, Replaced
  <2>4. table' = table \/ table' = [table EXCEPT ![r] = NoLease]
    BY <1>3 DEF ClaimFails, LogUnreadable, Unlock
  <2>5. table' \in [Runtimes -> LeaseIds]
    BY <1>0, <2>4, ValuesTyped DEF Typed
  <2> QED  BY <1>0, <1>3, <2>3, <2>5 DEF ClaimFails, LogUnreadable, Unlock, Typed
<1>4. ASSUME NEW r \in Runtimes, BecomeOwner(r) PROVE Typed'
  <2>1. claims' \in LeaseIds
    BY <1>0, <1>4, Names DEF BecomeOwner, OwnInv, ClaimTold, Typed, LeaseIds
  <2>2. log' \in Seq(LeaseIds) /\ Len(log) + 1 \in Nat
    BY <1>0, <1>4, <2>1 DEF BecomeOwner, Typed
  <2>3. [rt[r] EXCEPT !.claim = "held", !.admission = "owned", !.lease = claims',
                      !.lastEvent = Len(log) + 1] \in RuntimeState
    BY <1>a, <2>1, <2>2, ValuesTyped DEF RuntimeState
  <2>4. rt' \in [Runtimes -> RuntimeState]
    BY <1>a, <1>4, <2>3, Replaced DEF BecomeOwner
  <2> QED  BY <1>0, <1>4, <2>1, <2>2, <2>4 DEF BecomeOwner, Typed
<1>5. ASSUME NEW r \in Runtimes, CommitTransfer(r) PROVE Typed'
  <2>1. rt[r].previous.tail \in Nat
    BY <1>a DEF Records
  <2>2. record' \in Records
    BY <1>0, <1>5, <2>1 DEF CommitTransfer, Typed, Records
  <2> QED  BY <1>0, <1>5, <2>2 DEF CommitTransfer, Typed
<1>6. ASSUME NEW r \in Runtimes, Close(r) \/ Leave(r) PROVE Typed'
  <2>1. PICK a \in {"closed", "away"} : DropClaim(r, a)
    BY <1>6 DEF Close, Leave
  <2>2. rt' \in [Runtimes -> RuntimeState]
    BY <1>a, <1>c, <2>1, ValuesTyped, Replaced DEF DropClaim
  <2>3. table' \in [Runtimes -> LeaseIds]
    BY <1>0, <2>1, ValuesTyped DEF DropClaim, Typed
  <2>4. log' = log \/ log' = Append(log, rt[r].lease)
    BY <1>6 DEF Close, Leave
  <2>5. log' \in Seq(LeaseIds)
    BY <1>0, <1>a, <2>4 DEF Typed
  <2> QED  BY <1>0, <1>6, <2>2, <2>3, <2>5 DEF Close, Leave, Typed
<1>7. ASSUME NEW r \in Runtimes, PrepareTransfer(r) PROVE Typed'
  <2>1. [tail |-> rt[r].lastEvent, name |-> name] \in Frozen
    BY <1>0, <1>a, ValuesTyped DEF Typed
  <2>2. [rt[r] EXCEPT !.admission = "preparing",
                      !.frozen = [tail |-> rt[r].lastEvent, name |-> name]] \in RuntimeState
    BY <1>a, <2>1, ValuesTyped DEF RuntimeState
  <2>3. rt' \in [Runtimes -> RuntimeState]
    BY <1>a, <1>7, <2>2, Replaced DEF PrepareTransfer
  <2> QED  BY <1>0, <1>7, <2>3 DEF PrepareTransfer, Typed
<1>8. ASSUME NEW r \in Runtimes, CheckTransfer(r) PROVE Typed'
  <2>1. rt' \in [Runtimes -> RuntimeState]
    BY <1>a, <1>b, <1>8, ValuesTyped, Replaced DEF CheckTransfer
  <2> QED  BY <1>0, <1>8, <2>1 DEF CheckTransfer, Typed
<1>9. ASSUME NEW r \in Runtimes, AbortTransfer(r) PROVE Typed'
  <2>1. [rt[r] EXCEPT !.admission = "owned", !.claim = "held", !.frozen = NothingFrozen]
            \in RuntimeState
    BY <1>a, ValuesTyped DEF RuntimeState
  <2>2. rt' \in [Runtimes -> RuntimeState]
    BY <1>a, <1>9, <2>1, Replaced DEF AbortTransfer
  <2> QED  BY <1>0, <1>9, <2>2 DEF AbortTransfer, Typed
<1>10. ASSUME NEW r \in Runtimes, ReleaseTransfer(r) PROVE Typed'
  <2>1. rt[r].frozen.tail \in Nat
    BY <1>a DEF Frozen
  <2>2. record' \in Records
    BY <1>0, <1>10, <2>1 DEF ReleaseTransfer, Typed, Records
  <2>3. rt' \in [Runtimes -> RuntimeState]
    BY <1>a, <1>c, <1>10, ValuesTyped, Replaced DEF ReleaseTransfer
  <2> QED  BY <1>0, <1>10, <2>2, <2>3 DEF ReleaseTransfer, Typed
<1>11. ASSUME NEW r \in Runtimes, BeginEvent(r) PROVE Typed'
  <2>1. /\ claims \in 1..MaxClaims /\ writing' = [writing EXCEPT ![r] = claims]
        /\ UNCHANGED <<lock, store, rt, table, live, claims, found, prune, prunes>>
    BY <1>11, EventUnderLease
  <2>2. writing' \in [Writers -> Authorities]
    BY <1>0, <2>1 DEF Typed, Authorities
  <2> QED  BY <1>0, <2>1, <2>2 DEF Typed
<1>12. ASSUME NEW r \in Runtimes, EndEvent(r) PROVE Typed'
  <2>1. /\ log' = log \/ log' = Append(log, rt[r].lease)
        /\ rt' = rt \/ rt' = [rt EXCEPT ![r] = [@ EXCEPT !.lastEvent = Len(log) + 1]]
    BY <1>12 DEF EndEvent
  <2>2. log' \in Seq(LeaseIds) /\ Len(log) + 1 \in Nat
    BY <1>0, <1>a, <2>1 DEF Typed
  <2>3. [rt[r] EXCEPT !.lastEvent = Len(log) + 1] \in RuntimeState
    BY <1>a, <2>2 DEF RuntimeState
  <2>4. rt' \in [Runtimes -> RuntimeState]
    BY <1>a, <2>1, <2>3, Replaced
  <2>5. writing' \in [Writers -> Authorities]
    BY <1>0, <1>12, ValuesTyped DEF EndEvent, EndWrite, Typed
  <2> QED  BY <1>0, <1>12, <2>2, <2>4, <2>5 DEF EndEvent, EndWrite, Typed
<1>13. ASSUME NEW r \in Runtimes, Crash(r) PROVE Typed'
  <2>1. rt' \in [Runtimes -> RuntimeState]
    BY <1>a, <1>13, NoClaimTyped DEF Crash
  <2> QED  BY <1>0, <1>13, <2>1, ValuesTyped DEF Crash, Typed
<1>14. ASSUME NEW c \in Clones, LookUpLease(c) \/ RenameRefused(c) PROVE Typed'
  BY <1>0, <1>14, Names DEF LookUpLease, RenameRefused, Typed
<1>15. ASSUME NEW c \in Clones, BeginRename(c) PROVE Typed'
  <2>1. writing' \in [Writers -> Authorities]
    BY <1>0, <1>15, ValuesTyped DEF BeginRename, BeginWrite, Typed
  <2> QED  BY <1>0, <1>15, <2>1, Names DEF BeginRename, BeginWrite, Typed
<1>16. ASSUME NEW c \in Clones, EndRename(c) PROVE Typed'
  <2>1. name' \in {0, 1}
    BY <1>0, <1>16 DEF EndRename, Typed
  <2>2. writing' \in [Writers -> Authorities]
    BY <1>0, <1>16, ValuesTyped DEF EndRename, EndWrite, Typed
  <2>3. found' \in [Clones -> LeaseIds \cup {Idle}] /\ lock' \in Writers \cup {Pruner, None}
    BY <1>0, <1>16 DEF EndRename, EndWrite, Typed
  <2> QED  BY <1>0, <1>16, <2>1, <2>2, <2>3 DEF EndRename, Typed
<1>17. CASE HoldForPrune \/ PruneStops
  BY <1>0, <1>17, Names DEF HoldForPrune, PruneStops, Typed
<1>18. CASE RemoveLog
  BY <1>0, <1>18 DEF RemoveLog, Typed
<1>19. CASE RemoveRecord
  BY <1>0, <1>19, ValuesTyped DEF RemoveRecord, Typed
<1>20. CASE UNCHANGED vars
  BY <1>0, <1>20 DEF vars, Typed
<1> QED
  BY <1>1, <1>2, <1>3, <1>4, <1>5, <1>6, <1>7, <1>8, <1>9, <1>10, <1>11, <1>12, <1>13,
     <1>14, <1>15, <1>16, <1>17, <1>18, <1>19, <1>20 DEF Next

----------------------------------------------------------------------------
\* What the rest of the invariant says, without the types.
Told ==
    /\ LockTold /\ (\A r \in Runtimes : ClaimTold(r)) /\ LeaseTold
    /\ (\A c \in Clones : CloneTold(c)) /\ MutexTold /\ LogTold

\* Taking the lock, and publishing the next generation under it.
LEMMA ClaimingStep ==
  ASSUME OwnInv, NEW r \in Runtimes, TakeLock(r) \/ PublishClaim(r)
  PROVE  Told'
<1> USE DEF store
<1>0. Typed /\ rt \in [Runtimes -> RuntimeState] /\ rt[r] \in RuntimeState
  BY DEF OwnInv, Typed
<1>1. /\ rt' = [rt EXCEPT ![r] = rt'[r]]
      /\ rt'[r].lease = rt[r].lease /\ rt'[r].admission = rt[r].admission
      /\ rt'[r].claim \in {"locked", "published"}
  BY <1>0 DEF TakeLock, PublishClaim, RuntimeState
<1>2. UNCHANGED <<log, name, table, live, claims, found, writing, prune, prunes>>
  BY DEF TakeLock, PublishClaim
<1>3. LockTold'
  <2>1. CASE TakeLock(r)
    BY <1>0, <1>1, <1>2, <2>1, Names DEF OwnInv, LockTold, TakeLock
  <2>2. CASE PublishClaim(r)
    BY <1>0, <1>1, <1>2, <2>2, Names DEF OwnInv, LockTold, PublishClaim
  <2> QED  BY <2>1, <2>2
<1>4. rt[r].claim \in {"none", "locked"} /\ claims < MaxClaims
  BY DEF TakeLock, PublishClaim, OwnInv, ClaimTold
<1>5. \A q \in Runtimes \ {r} : rt[q].claim = "none" /\ rt'[q] = rt[q]
  <2>1. CASE TakeLock(r)
    BY <1>0, <1>1, <2>1, Names DEF TakeLock, OwnInv, LockTold
  <2>2. CASE PublishClaim(r)
    BY <1>0, <1>1, <2>2, Sole DEF PublishClaim
  <2> QED  BY <2>1, <2>2
<1>6. ASSUME NEW q \in Runtimes PROVE ClaimTold(q)'
  <2>1. ClaimTold(q) /\ ClaimTold(r)
    BY DEF OwnInv
  <2>2. CASE q # r
    BY <1>2, <1>5, <2>1, <2>2 DEF ClaimTold, Owning
  <2>3. CASE q = r
    <3>1. writing[r] = None /\ rt[r].claim \notin Owning
      BY <1>4, <2>1 DEF ClaimTold, Owning
    <3>2. rt'[r].claim = "published" => record'.gen = rt'[r].gen /\ record'.transfer = "none"
      <4>1. TakeLock(r) => rt'[r].claim = "locked"
        BY <1>0 DEF TakeLock, RuntimeState
      <4>2. PublishClaim(r) => record'.gen = rt'[r].gen /\ record'.transfer = "none"
        BY <1>0 DEF PublishClaim, RuntimeState
      <4> QED  BY <4>1, <4>2
    <3> QED  BY <1>1, <1>2, <1>4, <2>1, <2>3, <3>1, <3>2 DEF ClaimTold, Owning
  <2> QED  BY <2>2, <2>3
<1>7. \A q \in Runtimes : rt'[q].claim \notin Owning /\ rt[q].claim \notin Owning
  BY <1>1, <1>4, <1>5 DEF Owning
<1>8. LeaseTold'
  BY <1>1, <1>2, <1>5, <1>7 DEF OwnInv, LeaseTold
<1>9. ASSUME NEW c \in Clones PROVE CloneTold(c)'
  <2>1. rt'[Handle[c]].lease = rt[Handle[c]].lease
    BY <1>1, <1>5, Names
  <2> QED  BY <1>2, <2>1 DEF OwnInv, CloneTold
<1>10. MutexTold'
  BY <1>2 DEF OwnInv, MutexTold
<1>11. LogTold'
  <2>1. record' = record \/ record'.transfer = "none"
    BY DEF TakeLock, PublishClaim
  <2> QED  BY <1>2, <2>1 DEF OwnInv, LogTold, HandOverIsFrozen
<1> QED  BY <1>3, <1>6, <1>8, <1>9, <1>10, <1>11 DEF Told

\* The lock is let go: an attempt to claim failed, or a dropped claim's last step.
LEMMA LettingGoStep ==
  ASSUME OwnInv, NEW r \in Runtimes, ClaimFails(r) \/ LogUnreadable(r) \/ Unlock(r)
  PROVE  Told'
<1> USE DEF store
<1>0. /\ Typed /\ rt \in [Runtimes -> RuntimeState] /\ rt[r] \in RuntimeState
      /\ table \in [Runtimes -> LeaseIds] /\ ClaimTold(r)
  BY DEF OwnInv, Typed
<1>1. rt[r].claim \in {"locked", "published", "dropping"}
  BY DEF ClaimFails, LogUnreadable, Unlock
<1>2. /\ lock' = None
      /\ UNCHANGED <<record, log, name, live, claims, found, writing, prune, prunes>>
  BY DEF ClaimFails, LogUnreadable, Unlock
<1>3. PICK a \in {rt[r].admission, "lost"} :
         rt' = [rt EXCEPT ![r] = [NoClaim EXCEPT !.admission = a, !.lease = rt[r].lease]]
  BY DEF ClaimFails, LogUnreadable, Unlock
<1>4. /\ rt'[r].claim = "none" /\ rt'[r].admission = a /\ rt'[r].lease = rt[r].lease
      /\ \A q \in Runtimes \ {r} : rt'[q] = rt[q]
  BY <1>0, <1>3 DEF NoClaim
<1>5. /\ prune = "none" /\ \A c \in Clones : writing[c] # Locked
      /\ \A q \in Runtimes \ {r} : rt[q].claim = "none" /\ writing[q] = None
  BY <1>1, Sole
<1>6. LockTold'
  BY <1>2, <1>4, <1>5, Names DEF LockTold
<1>7. a \notin {"owned", "preparing"} /\ writing[r] = None
  BY <1>0, <1>1, <1>3 DEF ClaimTold, Owning
<1>8. ASSUME NEW q \in Runtimes PROVE ClaimTold(q)'
  <2>1. table' = table \/ table' = [table EXCEPT ![r] = NoLease]
    BY DEF ClaimFails, LogUnreadable, Unlock
  <2>2. table'[q] = table[q] \/ table'[q] = NoLease
    BY <1>0, <2>1
  <2>3. rt'[q].lease = rt[q].lease /\ rt'[q].claim = "none" /\ writing'[q] = None
    BY <1>2, <1>4, <1>5, <1>7
  <2>4. rt'[q].admission \notin {"owned", "preparing"}
    BY <1>4, <1>5, <1>7 DEF OwnInv, ClaimTold, Owning
  <2> QED  BY <1>2, <2>2, <2>3, <2>4 DEF OwnInv, ClaimTold, Owning
<1>9. \A q \in Runtimes : /\ rt'[q].claim \notin Owning /\ rt[q].claim \notin Owning
                          /\ rt'[q].lease = rt[q].lease
  BY <1>1, <1>4, <1>5 DEF Owning
<1>10. LeaseTold'
  BY <1>2, <1>9 DEF OwnInv, LeaseTold
<1>11. ASSUME NEW c \in Clones PROVE CloneTold(c)'
  BY <1>2, <1>9, Names DEF OwnInv, CloneTold
<1>12. MutexTold' /\ LogTold'
  BY <1>2 DEF OwnInv, MutexTold, LogTold, HandOverIsFrozen
<1> QED  BY <1>6, <1>8, <1>10, <1>11, <1>12 DEF Told

\* Appending an event of the latest claim keeps the log in the order of claims.
LEMMA Appended ==
  ASSUME NEW s \in Seq(LeaseIds), NEW k \in Nat,
         \A n \in 1..Len(s) : s[n] <= k,
         \A m, n \in 1..Len(s) : m < n => s[m] <= s[n]
  PROVE  LET t == Append(s, k)
         IN  /\ Len(t) = Len(s) + 1
             /\ \A n \in 1..Len(t) : t[n] <= k
             /\ \A m, n \in 1..Len(t) : m < n => t[m] <= t[n]
<1>1. /\ Len(s) \in Nat /\ Len(Append(s, k)) = Len(s) + 1
      /\ \A n \in 1..Len(s) : Append(s, k)[n] = s[n]
      /\ Append(s, k)[Len(s) + 1] = k
  OBVIOUS
<1>2. \A n \in 1..(Len(s) + 1) : n \in 1..Len(s) \/ n = Len(s) + 1
  BY <1>1
<1>3. \A n \in 1..(Len(s) + 1) : Append(s, k)[n] <= k
  BY <1>1, <1>2
<1>4. ASSUME NEW m \in 1..(Len(s) + 1), NEW n \in 1..(Len(s) + 1), m < n
      PROVE  Append(s, k)[m] <= Append(s, k)[n]
  <2>1. m \in 1..Len(s)
    BY <1>1, <1>4
  <2> QED  BY <1>1, <1>2, <1>4, <2>1
<1> QED  BY <1>1, <1>3, <1>4

\* The claim is complete: a lease newer than every other becomes the live one.
LEMMA BecomeOwnerStep ==
  ASSUME OwnInv, NEW r \in Runtimes, BecomeOwner(r)
  PROVE  Told'
<1> USE DEF store
<1>0. /\ Typed /\ rt \in [Runtimes -> RuntimeState] /\ rt[r] \in RuntimeState
      /\ table \in [Runtimes -> LeaseIds] /\ ClaimTold(r) /\ rt[r].claim = "published"
      /\ claims \in Nat /\ claims < MaxClaims /\ claims' = claims + 1 /\ MaxClaims \in Nat
  BY Names DEF OwnInv, Typed, BecomeOwner, ClaimTold, LeaseIds
<1>1. /\ rt'[r].claim = "held" /\ rt'[r].admission = "owned" /\ rt'[r].lease = claims + 1
      /\ rt'[r].lastEvent = Len(log) + 1 /\ rt'[r].gen = rt[r].gen
      /\ \A q \in Runtimes \ {r} : rt'[q] = rt[q]
  BY <1>0 DEF BecomeOwner, RuntimeState
<1>2. /\ table'[r] = claims + 1 /\ \A q \in Runtimes \ {r} : table'[q] = table[q]
      /\ log' = Append(log, claims + 1) /\ log \in Seq(LeaseIds)
      /\ UNCHANGED <<lock, record, name, found, writing, prune, prunes>>
  BY <1>0 DEF BecomeOwner, Typed
<1>3. /\ \A q \in Runtimes \ {r} : rt[q].claim = "none" /\ writing[q] = None
      /\ \A c \in Clones : writing[c] # Locked
  BY <1>0, Sole
<1>4. live = {} /\ live' = {claims + 1}
  <2>1. \A q \in Runtimes : rt[q].claim \notin Owning
    BY <1>0, <1>3 DEF Owning
  <2> QED  BY <1>0, <2>1 DEF OwnInv, LeaseTold, BecomeOwner
<1>5. \A q \in Runtimes : rt[q].lease \in Nat /\ rt[q].lease <= claims
  BY <1>0, Names DEF OwnInv, ClaimTold, RuntimeState, LeaseIds
<1>6. LockTold'
  BY <1>0, <1>1, <1>2 DEF OwnInv, LockTold
<1>7. ASSUME NEW q \in Runtimes PROVE ClaimTold(q)'
  <2>1. CASE q # r
    <3>1. ClaimTold(q) /\ rt[q].claim = "none" /\ rt'[q] = rt[q] /\ table'[q] = table[q]
      BY <1>1, <1>2, <1>3, <2>1 DEF OwnInv
    <3> QED  BY <1>0, <1>2, <1>3, <1>5, <2>1, <3>1 DEF ClaimTold, Owning
  <2>2. CASE q = r
    <3>1. writing[r] = None /\ Len(log') = Len(log) + 1
      BY <1>0, <1>2 DEF ClaimTold
    <3> QED  BY <1>0, <1>1, <1>2, <2>2, <3>1 DEF ClaimTold, Owning
  <2> QED  BY <2>1, <2>2
<1>8. LeaseTold'
  <2>1. live' = {l \in {claims'} : \E q \in Runtimes : rt'[q].claim \in Owning}
    BY <1>0, <1>1, <1>4 DEF Owning
  <2>2. ASSUME NEW q \in Runtimes, NEW t \in Runtimes, rt'[q].lease = rt'[t].lease,
               rt'[q].lease # NoLease
        PROVE  q = t
    <3>1. q # r /\ t # r => q = t
      BY <1>1, <2>2 DEF OwnInv, LeaseTold
    <3>2. \A u \in Runtimes \ {r} : rt'[u].lease # claims + 1
      BY <1>0, <1>1, <1>5
    <3> QED  BY <1>1, <2>2, <3>1, <3>2
  <2> QED  BY <2>1, <2>2 DEF LeaseTold
<1>9. ASSUME NEW c \in Clones PROVE CloneTold(c)'
  <2>1. CloneTold(c) /\ found[c] \in LeaseIds \cup {Idle}
    BY <1>0 DEF OwnInv, Typed
  <2>2. writing[c] = None
    BY <1>3, <1>4, <2>1 DEF CloneTold
  <2>3. found[c] # claims + 1
    BY <1>0, <2>1 DEF CloneTold, Idle, LeaseIds
  <2>4. found[c] # Idle => found[c] <= claims + 1
    BY <1>0, <2>1 DEF CloneTold, LeaseIds
  <2> QED  BY <1>0, <1>2, <1>4, <2>2, <2>3, <2>4 DEF CloneTold
<1>10. MutexTold'
  BY <1>2 DEF OwnInv, MutexTold
<1>11. LogTold'
  <2>1. record'.transfer # "released"
    BY <1>0, <1>2 DEF ClaimTold
  <2>2. \A n \in 1..Len(log) : log[n] \in Nat /\ log[n] <= claims
    <3>1. LeaseIds \subseteq Nat
      BY Names DEF LeaseIds
    <3>2. \A n \in 1..Len(log) : log[n] \in LeaseIds
      BY <1>2
    <3> QED  BY <3>1, <3>2 DEF OwnInv, LogTold
  <2>3. \A n \in 1..Len(log) : log[n] <= claims + 1
    BY <1>0, <2>2
  <2>4. claims + 1 \in Nat
    BY <1>0
  <2>5. \A m, n \in 1..Len(log) : m < n => log[m] <= log[n]
    BY DEF OwnInv, LogTold, HandOverIsFrozen
  <2>6. /\ \A n \in 1..Len(log') : log'[n] <= claims'
        /\ \A m, n \in 1..Len(log') : m < n => log'[m] <= log'[n]
    BY <1>0, <1>2, <2>3, <2>4, <2>5, Appended
  <2> QED  BY <2>1, <2>6 DEF LogTold, HandOverIsFrozen
<1> QED  BY <1>6, <1>7, <1>8, <1>9, <1>10, <1>11 DEF Told

\* A claim is dropped or released: its lease dies when nobody writes under it.
LEMMA DroppingStep ==
  ASSUME OwnInv, NEW r \in Runtimes, Close(r) \/ Leave(r) \/ ReleaseTransfer(r)
  PROVE  Told'
<1> USE DEF store
<1>0. /\ Typed /\ rt \in [Runtimes -> RuntimeState] /\ rt[r] \in RuntimeState
      /\ table \in [Runtimes -> LeaseIds] /\ ClaimTold(r) /\ log \in Seq(LeaseIds)
  BY DEF OwnInv, Typed
<1>1. rt[r].claim \in Owning /\ rt[r].claim # "none" /\ writing[r] = None
  BY <1>0 DEF Close, Leave, ReleaseTransfer, Ready, ClaimTold, Owning
<1>2. rt[r].lease = claims /\ claims > 0 /\ table[r] = claims /\ claims \in Nat
  BY <1>0, <1>1, Names DEF ClaimTold, Typed, LeaseIds
<1>3. /\ MutexFree(claims) /\ live' = live \ {claims}
      /\ UNCHANGED <<lock, name, claims, found, writing, prune, prunes>>
  BY <1>2 DEF Close, Leave, ReleaseTransfer, DropClaim
<1>4. PICK a \in {"closed", "away", "released"} :
         rt' = [rt EXCEPT ![r] = [@ EXCEPT !.claim = "dropping", !.admission = a]]
  BY DEF Close, Leave, ReleaseTransfer, DropClaim
<1>5. /\ rt'[r].claim = "dropping" /\ rt'[r].admission = a /\ rt'[r].lease = claims
      /\ \A q \in Runtimes \ {r} : rt'[q] = rt[q]
  BY <1>0, <1>2, <1>4 DEF RuntimeState
<1>6. /\ \A q \in Runtimes \ {r} : rt[q].claim = "none" /\ writing[q] = None
      /\ \A c \in Clones : writing[c] # Locked
  BY <1>1, Sole
<1>7. live = {claims} /\ live' = {}
  BY <1>1, <1>3 DEF OwnInv, LeaseTold
<1>8. LockTold'
  BY <1>1, <1>3, <1>5 DEF OwnInv, LockTold
<1>9. ASSUME NEW q \in Runtimes PROVE ClaimTold(q)'
  <2>1. table' = table \/ table' = [table EXCEPT ![r] = IF @ = rt[r].lease THEN NoLease ELSE @]
    BY DEF Close, Leave, ReleaseTransfer, DropClaim
  <2>2. CASE q # r
    <3>1. ClaimTold(q) /\ rt'[q] = rt[q] /\ table'[q] = table[q]
      BY <1>0, <1>5, <2>1, <2>2 DEF OwnInv
    <3> QED  BY <1>3, <1>6, <2>2, <3>1 DEF ClaimTold, Owning
  <2>3. CASE q = r
    <3>1. table'[r] \in {NoLease, claims}
      BY <1>0, <1>2, <2>1
    <3>2. a \notin {"owned", "preparing"}
      BY <1>4
    <3> QED  BY <1>1, <1>2, <1>3, <1>5, <2>3, <3>1, <3>2 DEF ClaimTold, Owning
  <2> QED  BY <2>2, <2>3
<1>10. LeaseTold'
  <2>1. \A q \in Runtimes : rt'[q].claim \notin Owning /\ rt'[q].lease = rt[q].lease
    BY <1>2, <1>5, <1>6 DEF Owning
  <2> QED  BY <1>3, <1>7, <2>1 DEF OwnInv, LeaseTold
<1>11. ASSUME NEW c \in Clones PROVE CloneTold(c)'
  <2>1. writing[c] = None
    BY <1>3, <1>6, <1>7, Names DEF OwnInv, CloneTold, MutexFree
  <2> QED  BY <1>3, <1>7, <2>1 DEF OwnInv, CloneTold
<1>12. MutexTold'
  BY <1>3 DEF OwnInv, MutexTold
<1>13. LogTold'
  <2>0. /\ \A n \in 1..Len(log) : log[n] <= claims
        /\ \A m, n \in 1..Len(log) : m < n => log[m] <= log[n]
    BY DEF OwnInv, LogTold, HandOverIsFrozen
  <2>1. CASE Close(r)
    <3>1. log' = Append(log, claims) /\ record'.transfer # "released"
      BY <1>0, <1>1, <1>2, <2>1 DEF Close, ClaimTold
    <3>2. /\ \A n \in 1..Len(log') : log'[n] <= claims
          /\ \A m, n \in 1..Len(log') : m < n => log'[m] <= log'[n]
      BY <1>0, <1>2, <2>0, <3>1, Appended
    <3> QED  BY <1>3, <3>1, <3>2 DEF LogTold, HandOverIsFrozen
  <2>2. CASE Leave(r)
    BY <1>3, <2>2 DEF OwnInv, LogTold, HandOverIsFrozen, Leave
  <2>3. CASE ReleaseTransfer(r)
    <3>1. log' = log /\ record'.tail = Len(log)
      BY <1>0, <1>1, <2>3 DEF ReleaseTransfer, ClaimTold, Typed, Records
    <3> QED  BY <1>3, <2>0, <3>1 DEF LogTold, HandOverIsFrozen
  <2> QED  BY <2>1, <2>2, <2>3
<1> QED  BY <1>8, <1>9, <1>10, <1>11, <1>12, <1>13 DEF Told

\* The owner freezes its session, looks at it again, thaws it, or says that it
\* took the session over.
LEMMA OwnerStep ==
  ASSUME OwnInv, NEW r \in Runtimes,
         \/ CommitTransfer(r) \/ PrepareTransfer(r) \/ CheckTransfer(r) \/ AbortTransfer(r)
  PROVE  Told'
<1> USE DEF store
<1>0. /\ Typed /\ rt \in [Runtimes -> RuntimeState] /\ rt[r] \in RuntimeState
      /\ ClaimTold(r) /\ record \in Records
  BY DEF OwnInv, Typed
<1>1. UNCHANGED <<lock, log, name, table, live, claims, found, writing, prune, prunes>>
  BY DEF CommitTransfer, PrepareTransfer, CheckTransfer, AbortTransfer
<1>2. rt[r].claim \in Owning
  BY <1>0 DEF CommitTransfer, PrepareTransfer, CheckTransfer, AbortTransfer, ClaimTold, Owning
<1>3. /\ rt'[r].lease = rt[r].lease /\ rt'[r].lastEvent = rt[r].lastEvent
      /\ rt'[r].gen = rt[r].gen /\ \A q \in Runtimes \ {r} : rt'[q] = rt[q]
  <2>1. CASE CommitTransfer(r)
    BY <2>1 DEF CommitTransfer
  <2>2. CASE PrepareTransfer(r)
    BY <1>0, <2>2 DEF PrepareTransfer, RuntimeState
  <2>3. CASE CheckTransfer(r)
    BY <1>0, <2>3 DEF CheckTransfer, RuntimeState
  <2>4. CASE AbortTransfer(r)
    BY <1>0, <2>4 DEF AbortTransfer, RuntimeState
  <2> QED  BY <2>1, <2>2, <2>3, <2>4
<1>4. /\ rt'[r].claim \in Owning /\ rt'[r].admission \in {"owned", "preparing"}
      /\ rt'[r].claim = "releasing" =>
            rt'[r].admission = "preparing" /\ rt'[r].frozen.tail = rt'[r].lastEvent
      /\ writing[r] # None => rt'[r].claim = "held" /\ rt'[r].admission = "owned"
  <2>1. CASE CommitTransfer(r)
    BY <1>0, <1>2, <2>1 DEF CommitTransfer, ClaimTold
  <2>2. CASE PrepareTransfer(r)
    BY <1>0, <2>2 DEF PrepareTransfer, Ready, RuntimeState, Owning
  <2>3. CASE CheckTransfer(r)
    <3>1. writing[r] = None
      BY <1>0, <2>3 DEF CheckTransfer, ClaimTold
    <3> QED  BY <1>0, <2>3, <3>1 DEF CheckTransfer, RuntimeState, Owning
  <2>4. CASE AbortTransfer(r)
    BY <1>0, <2>4 DEF AbortTransfer, RuntimeState, Owning
  <2> QED  BY <2>1, <2>2, <2>3, <2>4
<1>5. record' = record \/ (record'.gen = record.gen /\ record'.transfer = "committed")
  BY <1>0 DEF CommitTransfer, PrepareTransfer, CheckTransfer, AbortTransfer, Records
<1>6. \A q \in Runtimes \ {r} : rt[q].claim = "none"
  BY <1>2, Sole DEF Owning
<1>7. LockTold'
  <2>1. rt[r].claim # "none" /\ rt'[r].claim # "none"
    BY <1>2, <1>4 DEF Owning
  <2> QED  BY <1>1, <1>3, <2>1 DEF OwnInv, LockTold
<1>8. ASSUME NEW q \in Runtimes PROVE ClaimTold(q)'
  <2>1. CASE q # r
    BY <1>1, <1>3, <1>6, <2>1 DEF OwnInv, ClaimTold, Owning
  <2>2. CASE q = r
    <3>1. record'.gen = rt'[r].gen /\ record'.transfer # "released"
      BY <1>0, <1>2, <1>3, <1>5 DEF ClaimTold
    <3> QED  BY <1>0, <1>1, <1>2, <1>3, <1>4, <2>2, <3>1 DEF ClaimTold, Owning
  <2> QED  BY <2>1, <2>2
<1>9. LeaseTold'
  <2>1. \A q \in Runtimes : rt'[q].lease = rt[q].lease
    BY <1>3
  <2>2. live' = {claims'}
    BY <1>1, <1>2 DEF OwnInv, LeaseTold
  <2> QED  BY <1>4, <2>1, <2>2 DEF OwnInv, LeaseTold
<1>10. ASSUME NEW c \in Clones PROVE CloneTold(c)'
  <2>1. rt'[Handle[c]].lease = rt[Handle[c]].lease
    BY <1>3, Names
  <2> QED  BY <1>1, <2>1 DEF OwnInv, CloneTold
<1>11. MutexTold' /\ LogTold'
  BY <1>1, <1>5 DEF OwnInv, MutexTold, LogTold, HandOverIsFrozen
<1> QED  BY <1>7, <1>8, <1>9, <1>10, <1>11 DEF Told

\* The owner takes its lease's mutex for an event, and gives it back.
LEMMA EventStep ==
  ASSUME OwnInv, NEW r \in Runtimes, BeginEvent(r) \/ EndEvent(r)
  PROVE  Told'
<1> USE DEF store
<1>0. /\ Typed /\ rt \in [Runtimes -> RuntimeState] /\ rt[r] \in RuntimeState
      /\ ClaimTold(r) /\ log \in Seq(LeaseIds) /\ writing \in [Writers -> Authorities]
      /\ claims \in Nat /\ r \in Writers
  BY Names DEF OwnInv, Typed, LeaseIds
<1>1. rt[r].claim = "held" /\ rt[r].admission = "owned"
  BY <1>0, EventUnderLease DEF EndEvent, Ready, ClaimTold
<1>2. rt[r].lease = claims /\ claims > 0 /\ claims \in 1..MaxClaims
  BY <1>0, <1>1, Names DEF ClaimTold, Owning, RuntimeState, LeaseIds
<1>3. claims \notin {None, Locked}
  BY <1>2, Names DEF Locked
<1>4. /\ UNCHANGED <<lock, record, name, table, live, claims, found, prune, prunes>>
      /\ writing' = [writing EXCEPT ![r] = claims] \/ writing' = [writing EXCEPT ![r] = None]
  <2>1. CASE BeginEvent(r)
    BY <2>1, EventUnderLease
  <2>2. CASE EndEvent(r)
    <3>1. writing[r] # Locked
      BY <1>0, <1>2, <1>3, <2>2 DEF EndEvent, Ready, ClaimTold
    <3> QED  BY <2>2, <3>1 DEF EndEvent, EndWrite
  <2> QED  BY <2>1, <2>2
<1>5. writing'[r] \in {None, claims} /\ \A x \in Writers \ {r} : writing'[x] = writing[x]
  BY <1>0, <1>4
<1>6. /\ rt'[r].claim = "held" /\ rt'[r].admission = "owned" /\ rt'[r].lease = claims
      /\ rt'[r].gen = rt[r].gen /\ rt'[r].lastEvent = Len(log')
      /\ \A q \in Runtimes \ {r} : rt'[q] = rt[q]
  <2>1. CASE rt' = rt /\ log' = log
    BY <1>0, <1>1, <1>2, <2>1 DEF ClaimTold, Owning
  <2>2. CASE /\ rt' = [rt EXCEPT ![r] = [@ EXCEPT !.lastEvent = Len(log) + 1]]
             /\ log' = Append(log, rt[r].lease)
    <3>1. Len(log') = Len(log) + 1
      BY <1>0, <2>2 DEF RuntimeState
    <3> QED  BY <1>0, <1>1, <1>2, <2>2, <3>1 DEF RuntimeState
  <2>3. BeginEvent(r) => rt' = rt /\ log' = log
    BY EventUnderLease
  <2> QED  BY <2>1, <2>2, <2>3 DEF EndEvent
<1>7. LockTold'
  <2>1. \A c \in Clones : writing'[c] = writing[c]
    BY <1>5, Names
  <2> QED  BY <1>1, <1>4, <1>6, <2>1 DEF OwnInv, LockTold
<1>8. ASSUME NEW q \in Runtimes PROVE ClaimTold(q)'
  <2>1. CASE q # r
    <3>1. rt[q].claim = "none" /\ rt'[q] = rt[q] /\ writing'[q] = writing[q]
      BY <1>1, <1>5, <1>6, <2>1, Sole, Names
    <3> QED  BY <1>4, <3>1 DEF OwnInv, ClaimTold, Owning
  <2>2. CASE q = r
    BY <1>0, <1>1, <1>2, <1>4, <1>5, <1>6, <2>2 DEF ClaimTold, Owning
  <2> QED  BY <2>1, <2>2
<1>9. live = {claims}
  BY <1>1 DEF OwnInv, LeaseTold, Owning
<1>10. LeaseTold'
  <2>1. \A q \in Runtimes : rt'[q].lease = rt[q].lease /\ rt'[q].claim = rt[q].claim
    BY <1>1, <1>2, <1>6
  <2> QED  BY <1>4, <2>1 DEF OwnInv, LeaseTold
<1>11. ASSUME NEW c \in Clones PROVE CloneTold(c)'
  <2>1. writing'[c] = writing[c] /\ rt'[Handle[c]].lease = rt[Handle[c]].lease
    BY <1>2, <1>5, <1>6, Names
  <2> QED  BY <1>4, <2>1 DEF OwnInv, CloneTold
<1>12. MutexTold'
  <2>1. BeginEvent(r) => \A x \in Writers : writing[x] # claims
    BY EventUnderLease DEF MutexFree
  <2>2. EndEvent(r) => writing'[r] = None
    BY <1>0 DEF EndEvent, EndWrite
  <2> QED  BY <1>5, <2>1, <2>2 DEF OwnInv, MutexTold
<1>13. LogTold'
  <2>1. record'.transfer # "released"
    BY <1>0, <1>1, <1>4 DEF ClaimTold, Owning
  <2>2. log' = log \/ log' = Append(log, claims)
    BY <1>2, EventUnderLease DEF EndEvent
  <2>3. /\ \A n \in 1..Len(log) : log[n] <= claims
        /\ \A m, n \in 1..Len(log) : m < n => log[m] <= log[n]
    BY DEF OwnInv, LogTold, HandOverIsFrozen
  <2>4. /\ \A n \in 1..Len(log') : log'[n] <= claims
        /\ \A m, n \in 1..Len(log') : m < n => log'[m] <= log'[n]
    BY <1>0, <2>2, <2>3, Appended
  <2> QED  BY <1>4, <2>1, <2>4 DEF LogTold, HandOverIsFrozen
<1> QED  BY <1>7, <1>8, <1>10, <1>11, <1>12, <1>13 DEF Told

\* A process ends: its own lease dies with its writers, and no other's.
LEMMA CrashStep ==
  ASSUME OwnInv, NEW r \in Runtimes, Crash(r)
  PROVE  Told'
<1> USE DEF store
<1>0. /\ Typed /\ rt \in [Runtimes -> RuntimeState] /\ writing \in [Writers -> Authorities]
      /\ table \in [Runtimes -> LeaseIds] /\ UNCHANGED <<record, log, name, claims, prune, prunes>>
      /\ live' = live \ {rt[r].lease}
      /\ lock \in Writers \cup {Pruner, None}
  BY DEF OwnInv, Typed, Crash
<1>1. /\ \A q \in Runtimes : Handlers(q) = q
      /\ \A c \in Clones : Handlers(c) = Handle[c] /\ Handle[c] \in Runtimes
  BY Names DEF Handlers
<1>2. /\ rt'[r] = NoClaim /\ \A q \in Runtimes \ {r} : rt'[q] = rt[q] /\ table'[q] = table[q]
      /\ table'[r] = NoLease
  BY <1>0 DEF Crash
<1>3. /\ writing'[r] = None /\ \A q \in Runtimes \ {r} : writing'[q] = writing[q]
      /\ \A c \in Clones : IF Handle[c] = r THEN writing'[c] = None /\ found'[c] = Idle
                            ELSE writing'[c] = writing[c] /\ found'[c] = found[c]
  BY <1>1, Names DEF Crash
<1>4. /\ lock = r \/ (lock \in Clones /\ Handle[lock] = r) => lock' = None
      /\ ~ (lock = r \/ (lock \in Clones /\ Handle[lock] = r)) => lock' = lock
  BY <1>0, <1>1, Names DEF Crash
<1>5. NoClaim.claim = "none" /\ NoClaim.admission = "away" /\ NoClaim.lease = NoLease
  BY DEF NoClaim
<1>6. LockTold'
  <2>1. ASSUME NEW q \in Runtimes PROVE lock' = q <=> rt'[q].claim # "none"
    BY <1>2, <1>4, <1>5, Names DEF OwnInv, LockTold
  <2>2. ASSUME NEW c \in Clones PROVE lock' = c <=> writing'[c] = Locked
    BY <1>3, <1>4, Names, ValuesTyped DEF OwnInv, LockTold, Locked
  <2>3. lock' = Pruner <=> prune' # "none"
    BY <1>0, <1>4, Names DEF OwnInv, LockTold
  <2> QED  BY <2>1, <2>2, <2>3 DEF LockTold
<1>7. ASSUME NEW q \in Runtimes PROVE ClaimTold(q)'
  <2>1. CASE q # r
    BY <1>0, <1>2, <1>3, <2>1 DEF OwnInv, ClaimTold
  <2>2. CASE q = r
    <3>1. NoLease <= claims
      BY <1>0, Names DEF Typed, LeaseIds, NoLease
    <3> QED  BY <1>0, <1>2, <1>3, <1>5, <2>2, <3>1 DEF ClaimTold, Owning
  <2> QED  BY <2>1, <2>2
<1>8. \A q \in Runtimes : rt[q].claim \in Owning =>
         rt[q].lease = claims /\ claims # NoLease /\ live = {claims}
  BY <1>0 DEF OwnInv, ClaimTold, LeaseTold, NoLease
<1>9. LeaseTold'
  <2>1. ASSUME NEW q \in Runtimes, NEW t \in Runtimes, rt'[q].lease = rt'[t].lease,
               rt'[q].lease # NoLease
        PROVE  q = t
    BY <1>2, <1>5, <2>1 DEF OwnInv, LeaseTold
  <2>2. CASE rt[r].claim \in Owning
    <3>1. \A q \in Runtimes : rt'[q].claim = "none"
      BY <1>2, <1>5, <2>2, Sole DEF Owning
    <3> QED  BY <1>0, <1>8, <2>1, <2>2, <3>1 DEF LeaseTold, Owning
  <2>3. CASE rt[r].claim \notin Owning
    <3>1. (\E q \in Runtimes : rt'[q].claim \in Owning) <=> (\E q \in Runtimes : rt[q].claim \in Owning)
      BY <1>2, <1>5, <2>3 DEF Owning
    <3>2. rt[r].lease \notin live
      BY <1>8, <2>3 DEF OwnInv, LeaseTold
    <3> QED  BY <1>0, <2>1, <3>1, <3>2 DEF OwnInv, LeaseTold
  <2> QED  BY <2>2, <2>3
<1>10. ASSUME NEW c \in Clones PROVE CloneTold(c)'
  <2>1. CASE Handle[c] = r
    <3>1. Idle \notin live'
      BY <1>0, Names DEF OwnInv, LeaseTold, Typed, LeaseIds, Idle
    <3> QED  BY <1>3, <2>1, <3>1 DEF CloneTold
  <2>2. CASE Handle[c] # r
    <3>1. /\ CloneTold(c) /\ writing'[c] = writing[c] /\ found'[c] = found[c]
          /\ rt'[Handle[c]] = rt[Handle[c]]
      BY <1>1, <1>2, <1>3, <2>2 DEF OwnInv
    <3>2. writing[c] \notin {None, Locked} => writing[c] \in live'
      <4> SUFFICES ASSUME writing[c] \notin {None, Locked} PROVE writing[c] # rt[r].lease
        BY <1>0, <3>1 DEF CloneTold
      <4>1. writing[c] = found[c] /\ writing[c] = rt[Handle[c]].lease
        BY <3>1 DEF CloneTold
      <4>2. writing[c] # NoLease
        BY <1>0, Names DEF Authorities, NoLease
      <4> QED  BY <1>1, <2>2, <4>1, <4>2 DEF OwnInv, LeaseTold
    <3> QED  BY <1>0, <3>1, <3>2 DEF CloneTold
  <2> QED  BY <2>1, <2>2
<1>11. MutexTold'
  <2>1. \A x \in Writers : writing'[x] \in {None, writing[x]}
    BY <1>3, Names
  <2> QED  BY <2>1 DEF OwnInv, MutexTold
<1>12. LogTold'
  BY <1>0 DEF OwnInv, LogTold, HandOverIsFrozen
<1> QED  BY <1>6, <1>7, <1>9, <1>10, <1>11, <1>12 DEF Told

\* A clone looks its handle's lease up, or finds that it may not write.
LEMMA LookUpStep ==
  ASSUME OwnInv, NEW c \in Clones, LookUpLease(c) \/ RenameRefused(c)
  PROVE  Told'
<1> USE DEF store
<1>0. /\ Typed /\ found \in [Clones -> LeaseIds \cup {Idle}]
      /\ UNCHANGED <<lock, record, log, name, rt, table, live, claims, writing, prune, prunes>>
  BY DEF OwnInv, Typed, LookUpLease, RenameRefused
<1>1. /\ found'[c] \in {Idle, table[Handle[c]]}
      /\ \A d \in Clones \ {c} : found'[d] = found[d]
  BY <1>0 DEF LookUpLease, RenameRefused
<1>2. writing[c] = None
  BY DEF OwnInv, CloneTold, LookUpLease, RenameRefused
<1>3. ASSUME NEW d \in Clones PROVE CloneTold(d)'
  <2>1. CASE d # c
    BY <1>0, <1>1, <2>1 DEF OwnInv, CloneTold
  <2>2. CASE d = c
    <3>1. Idle \notin live /\ NoLease \notin live
      <4>1. \A q \in Runtimes : rt[q].claim \in Owning => claims # NoLease
        BY <1>0 DEF OwnInv, ClaimTold, NoLease
      <4> QED  BY <1>0, <4>1, Names DEF OwnInv, LeaseTold, Typed, LeaseIds, Idle
    <3>2. table[Handle[c]] \in {NoLease, rt[Handle[c]].lease} /\ NoLease <= claims
      BY <1>0, Names DEF OwnInv, ClaimTold, Typed, LeaseIds, NoLease
    <3>3. rt[Handle[c]].lease <= claims
      BY Names DEF OwnInv, ClaimTold
    <3> QED  BY <1>0, <1>1, <1>2, <2>2, <3>1, <3>2, <3>3 DEF CloneTold
  <2> QED  BY <2>1, <2>2
<1>4. LockTold' /\ (\A r \in Runtimes : ClaimTold(r)') /\ LeaseTold' /\ MutexTold' /\ LogTold'
  BY <1>0 DEF OwnInv, LockTold, ClaimTold, LeaseTold, MutexTold, LogTold, HandOverIsFrozen
<1> QED  BY <1>3, <1>4 DEF Told

\* A clone takes the authority that the lease it looked up still gives it.
LEMMA BeginRenameStep ==
  ASSUME OwnInv, NEW c \in Clones, BeginRename(c)
  PROVE  Told'
<1> USE DEF store
<1>0. /\ Typed /\ found \in [Clones -> LeaseIds \cup {Idle}] /\ c \in Writers
      /\ writing \in [Writers -> Authorities] /\ writing[c] = None /\ found[c] # Idle
      /\ UNCHANGED <<record, log, name, rt, table, live, claims, found, prune, prunes>>
  BY Names DEF OwnInv, Typed, BeginRename
<1>1. /\ writing'[c] = IF found[c] = NoLease THEN Locked ELSE found[c]
      /\ \A x \in Writers \ {c} : writing'[x] = writing[x]
  BY <1>0 DEF BeginRename, BeginWrite
<1>2. /\ found[c] = NoLease => lock = None /\ lock' = c
      /\ found[c] # NoLease => lock' = lock /\ found[c] \in live /\ MutexFree(found[c])
  BY DEF BeginRename, BeginWrite, MayWrite
<1>3. found[c] \notin {None, Locked} /\ Locked # None
  BY <1>0, Names DEF LeaseIds, Locked
<1>4. LockTold'
  <2>1. CASE found[c] = NoLease
    BY <1>0, <1>1, <1>2, <2>1, Names DEF OwnInv, LockTold
  <2>2. CASE found[c] # NoLease
    BY <1>0, <1>1, <1>2, <1>3, <2>2, Names DEF OwnInv, LockTold
  <2> QED  BY <2>1, <2>2
<1>5. ASSUME NEW r \in Runtimes PROVE ClaimTold(r)'
  <2>1. writing'[r] = writing[r]
    BY <1>1, Names
  <2> QED  BY <1>0, <2>1 DEF OwnInv, ClaimTold
<1>6. LeaseTold' /\ LogTold'
  BY <1>0 DEF OwnInv, LeaseTold, LogTold, HandOverIsFrozen
<1>7. ASSUME NEW d \in Clones PROVE CloneTold(d)'
  <2>1. CASE d # c
    BY <1>0, <1>1, <2>1, Names DEF OwnInv, CloneTold
  <2>2. CASE d = c
    BY <1>0, <1>1, <1>2, <1>3, <2>2 DEF OwnInv, CloneTold
  <2> QED  BY <2>1, <2>2
<1>8. \A x \in Writers \ {c} : writing[x] # writing'[c]
  <2>1. CASE found[c] = NoLease
    <3>1. \A d \in Clones : writing[d] # Locked
      BY <1>2, <2>1, Names DEF OwnInv, LockTold
    <3>2. \A r \in Runtimes : writing[r] = None
      BY <1>2, <2>1, Names DEF OwnInv, LockTold, ClaimTold
    <3> QED  BY <1>1, <1>3, <2>1, <3>1, <3>2, Names
  <2>2. CASE found[c] # NoLease
    BY <1>1, <1>2, <2>2 DEF MutexFree
  <2> QED  BY <2>1, <2>2
<1>9. MutexTold'
  BY <1>1, <1>8 DEF OwnInv, MutexTold
<1> QED  BY <1>4, <1>5, <1>6, <1>7, <1>9 DEF Told

\* A clone has renamed the session and gives its authority back.
LEMMA EndRenameStep ==
  ASSUME OwnInv, NEW c \in Clones, EndRename(c)
  PROVE  Told'
<1> USE DEF store
<1>0. /\ Typed /\ found \in [Clones -> LeaseIds \cup {Idle}] /\ c \in Writers
      /\ writing \in [Writers -> Authorities]
      /\ UNCHANGED <<record, log, rt, table, live, claims, prune, prunes>>
  BY Names DEF OwnInv, Typed, EndRename
<1>1. /\ writing'[c] = None /\ found'[c] = Idle
      /\ \A x \in Writers \ {c} : writing'[x] = writing[x]
      /\ \A d \in Clones \ {c} : found'[d] = found[d]
  BY <1>0 DEF EndRename, EndWrite
<1>2. /\ writing[c] = Locked => lock = c /\ lock' = None
      /\ writing[c] # Locked => lock # c /\ lock' = lock
  BY DEF EndRename, EndWrite, OwnInv, LockTold
<1>3. None # Locked
  BY Names DEF Locked
<1>4. LockTold'
  BY <1>0, <1>1, <1>2, <1>3, Names DEF OwnInv, LockTold
<1>5. ASSUME NEW r \in Runtimes PROVE ClaimTold(r)'
  <2>1. writing'[r] = writing[r]
    BY <1>1, Names
  <2> QED  BY <1>0, <2>1 DEF OwnInv, ClaimTold
<1>6. LeaseTold' /\ LogTold'
  BY <1>0 DEF OwnInv, LeaseTold, LogTold, HandOverIsFrozen
<1>7. ASSUME NEW d \in Clones PROVE CloneTold(d)'
  <2>1. CASE d # c
    BY <1>0, <1>1, <2>1, Names DEF OwnInv, CloneTold
  <2>2. CASE d = c
    <3>1. Idle \notin live
      BY <1>0, Names DEF OwnInv, LeaseTold, Typed, LeaseIds, Idle
    <3> QED  BY <1>0, <1>1, <2>2, <3>1 DEF CloneTold
  <2> QED  BY <2>1, <2>2
<1>8. MutexTold'
  BY <1>1 DEF OwnInv, MutexTold
<1> QED  BY <1>4, <1>5, <1>6, <1>7, <1>8 DEF Told

\* Prune works under the session's lock: nobody has a claim meanwhile.
LEMMA PruneStep ==
  ASSUME OwnInv, HoldForPrune \/ RemoveLog \/ RemoveRecord \/ PruneStops
  PROVE  Told'
<1> USE DEF store
<1>0. UNCHANGED <<name, rt, table, live, claims, found, writing>>
  BY DEF HoldForPrune, RemoveLog, RemoveRecord, PruneStops
<1>1. lock \in {None, Pruner} /\ \A r \in Runtimes : rt[r].claim = "none"
  <2>1. lock \in {None, Pruner}
    BY DEF HoldForPrune, RemoveLog, RemoveRecord, PruneStops, OwnInv, LockTold
  <2> QED  BY <2>1, Names DEF OwnInv, LockTold
<1>2. LockTold'
  <2>1. lock' \in {None, Pruner} /\ (lock' = Pruner <=> prune' # "none")
    BY <1>1, Names DEF HoldForPrune, RemoveLog, RemoveRecord, PruneStops, OwnInv, LockTold
  <2> QED  BY <1>0, <1>1, <2>1, Names DEF OwnInv, LockTold
<1>3. ASSUME NEW r \in Runtimes PROVE ClaimTold(r)'
  BY <1>0, <1>1 DEF OwnInv, ClaimTold, Owning
<1>4. LeaseTold' /\ (\A c \in Clones : CloneTold(c)') /\ MutexTold'
  BY <1>0 DEF OwnInv, LeaseTold, CloneTold, MutexTold
<1>5. LogTold'
  <2>1. CASE HoldForPrune \/ PruneStops
    BY <1>0, <2>1 DEF HoldForPrune, PruneStops, OwnInv, LogTold, HandOverIsFrozen
  <2>2. CASE RemoveLog
    <3>1. log' = << >> /\ Len(log') = 0
      BY <2>2 DEF RemoveLog
    <3> QED  BY <3>1 DEF LogTold, HandOverIsFrozen
  <2>3. CASE RemoveRecord
    BY <1>0, <2>3 DEF RemoveRecord, NoRecord, OwnInv, LogTold, HandOverIsFrozen
  <2> QED  BY <2>1, <2>2, <2>3
<1> QED  BY <1>2, <1>3, <1>4, <1>5 DEF Told

----------------------------------------------------------------------------
\* Every step keeps the invariant.
LEMMA OwnStep == OwnInv /\ [Next]_vars => OwnInv'
<1> SUFFICES ASSUME OwnInv, [Next]_vars PROVE OwnInv'
  OBVIOUS
<1>1. Typed'
  BY TypedStep
<1>2. Told'
  <2>1. CASE \E r \in Runtimes : TakeLock(r) \/ PublishClaim(r)
    BY <2>1, ClaimingStep
  <2>2. CASE \E r \in Runtimes : ClaimFails(r) \/ LogUnreadable(r) \/ Unlock(r)
    BY <2>2, LettingGoStep
  <2>3. CASE \E r \in Runtimes : BecomeOwner(r)
    BY <2>3, BecomeOwnerStep
  <2>4. CASE \E r \in Runtimes : Close(r) \/ Leave(r) \/ ReleaseTransfer(r)
    BY <2>4, DroppingStep
  <2>5. CASE \E r \in Runtimes : \/ CommitTransfer(r) \/ PrepareTransfer(r)
                                 \/ CheckTransfer(r) \/ AbortTransfer(r)
    BY <2>5, OwnerStep
  <2>6. CASE \E r \in Runtimes : BeginEvent(r) \/ EndEvent(r)
    BY <2>6, EventStep
  <2>7. CASE \E r \in Runtimes : Crash(r)
    BY <2>7, CrashStep
  <2>8. CASE \E c \in Clones : LookUpLease(c) \/ RenameRefused(c)
    BY <2>8, LookUpStep
  <2>9. CASE \E c \in Clones : BeginRename(c)
    BY <2>9, BeginRenameStep
  <2>10. CASE \E c \in Clones : EndRename(c)
    BY <2>10, EndRenameStep
  <2>11. CASE HoldForPrune \/ RemoveLog \/ RemoveRecord \/ PruneStops
    BY <2>11, PruneStep
  <2>12. CASE UNCHANGED vars
    BY <2>12 DEF vars, store, OwnInv, Told, LockTold, ClaimTold, LeaseTold, CloneTold,
                 MutexTold, LogTold, HandOverIsFrozen
  <2> QED
    BY <2>1, <2>2, <2>3, <2>4, <2>5, <2>6, <2>7, <2>8, <2>9, <2>10, <2>11, <2>12 DEF Next
<1> QED  BY <1>1, <1>2 DEF OwnInv, Told

\* The inductive invariant holds in every reachable state.
THEOREM OwnershipSafe == Spec => []OwnInv
<1> QED  BY OwnInit, OwnStep, PTL DEF Spec

\* The variables keep their types, for any number of processes and claims.
THEOREM OwnershipTyped == Spec => []TypeOK
<1>1. OwnInv => TypeOK
  <2> SUFFICES ASSUME OwnInv PROVE TypeOK
    OBVIOUS
  <2>1. Typed /\ \A r \in Runtimes : table[r] \in {NoLease, rt[r].lease} /\ rt[r].lease <= claims
    BY DEF OwnInv, ClaimTold
  <2>2. \A r \in Runtimes : rt[r].claim \in Owning => claims > 0
    BY DEF OwnInv, ClaimTold
  <2>3. live \subseteq 1..claims
    BY <2>1, <2>2, Names DEF OwnInv, LeaseTold, Typed, LeaseIds
  <2> QED
    BY <2>1, <2>3 DEF TypeOK, Typed, RuntimeState, Admissions, ClaimStages, LeaseIds,
                      Generations, Frozen, Authorities
<1> QED  BY <1>1, OwnershipSafe, PTL

\* However many processes and clones there are, and wherever they crash, no two
\* of them are in the session's files at once, nor is anybody during a prune.
THEOREM SessionHasOneWriter == Spec => []OneWriter
<1>1. OwnInv => OneWriter
  <2> SUFFICES ASSUME OwnInv PROVE OneWriter
    OBVIOUS
  <2>0. writing \in [Writers -> Authorities]
    BY DEF OwnInv, Typed
  <2>1. ASSUME NEW r \in Runtimes, writing[r] # None
        PROVE  lock = r /\ writing[r] = claims /\ writing[r] # Locked /\ Handlers(r) = r
    <3>1. rt[r].claim = "held" /\ writing[r] = claims
      BY <2>1 DEF OwnInv, ClaimTold, Owning
    <3>2. claims # Locked
      BY Names DEF OwnInv, Typed, LeaseIds, Locked
    <3> QED  BY <3>1, <3>2, Names DEF OwnInv, LockTold, Handlers
  <2>2. ASSUME NEW c \in Clones, writing[c] # None, writing[c] # Locked
        PROVE  lock = Handle[c] /\ writing[c] = claims
    <3>1. writing[c] \in live /\ writing[c] = found[c] /\ found[c] = rt[Handle[c]].lease
      BY <2>2 DEF OwnInv, CloneTold
    <3>2. PICK q \in Runtimes : rt[q].claim \in Owning /\ writing[c] = claims
      BY <3>1 DEF OwnInv, LeaseTold
    <3>3. rt[q].lease = claims /\ claims # NoLease /\ lock = q
      BY <3>2 DEF OwnInv, ClaimTold, LockTold, NoLease, Owning
    <3> QED  BY <3>1, <3>2, <3>3, Names DEF OwnInv, LeaseTold
  <2>3. ASSUME NEW x \in Writers, writing[x] # None
        PROVE  lock = IF writing[x] = Locked THEN x ELSE Handlers(x)
    BY <2>1, <2>2, <2>3, Names DEF OwnInv, LockTold, Handlers
  <2>4. ASSUME NEW x \in Writers, NEW y \in Writers, writing[x] # None, writing[y] # None
        PROVE  x = y
    <3>1. CASE writing[x] = Locked /\ writing[y] = Locked
      BY <2>3, <2>4, <3>1
    <3>2. CASE writing[x] # Locked /\ writing[y] # Locked
      BY <2>1, <2>2, <2>4, <3>2, Names DEF OwnInv, MutexTold
    <3>3. ASSUME NEW u \in Writers, NEW v \in Writers, writing[u] = Locked,
                 writing[v] # None, writing[v] # Locked
          PROVE  FALSE
      <4>1. u \in Clones /\ lock = u
        BY <2>1, <2>3, <3>3, Names DEF OwnInv, LockTold, Locked
      <4>2. lock \in Runtimes
        BY <2>1, <2>2, <3>3, Names
      <4> QED  BY <4>1, <4>2, Names
    <3> QED  BY <2>4, <3>1, <3>2, <3>3
  <2>5. prune # "none" => \A x \in Writers : writing[x] = None
    <3> SUFFICES ASSUME prune # "none", NEW x \in Writers, writing[x] # None PROVE FALSE
      OBVIOUS
    <3>1. lock = Pruner
      BY DEF OwnInv, LockTold
    <3>2. lock \in Writers
      BY <2>3, Names DEF Handlers
    <3> QED  BY <3>1, <3>2, Names
  <2> QED  BY <2>3, <2>4, <2>5 DEF OneWriter
<1> QED  BY <1>1, OwnershipSafe, PTL

\* A runtime that believes it owns the session really does: it holds the lock, a
\* live lease that its handle finds, and the published record is its own.
THEOREM SessionHasOneOwner == Spec => []OneOwner
<1>1. OwnInv => OneOwner
  <2> SUFFICES ASSUME OwnInv, NEW r \in Runtimes, rt[r].admission \in {"owned", "preparing"}
               PROVE  /\ lock = r /\ rt[r].claim \in {"held", "releasing"}
                      /\ rt[r].lease \in live /\ table[r] = rt[r].lease
                      /\ record.gen = rt[r].gen /\ record.transfer # "released"
    BY DEF OneOwner
  <2>1. ClaimTold(r) /\ rt[r].claim \in Owning
    BY DEF OwnInv, ClaimTold
  <2> QED  BY <2>1 DEF OwnInv, ClaimTold, LockTold, LeaseTold, Owning
<1> QED  BY <1>1, OwnershipSafe, PTL

\* A released session stays as its record says, and a replaced owner never
\* appends to the log again, however often the session changes hands.
THEOREM HandOversAreFrozen == Spec => []HandOverIsFrozen
<1>1. OwnInv => HandOverIsFrozen
  BY DEF OwnInv, LogTold
<1> QED  BY <1>1, OwnershipSafe, PTL

=============================================================================
