-------------------------- MODULE SessionOwnership --------------------------
(****************************************************************************)
(* Who may write to one stored session: the operating-system lock and the   *)
(* owner record beside the log, the lease each claim arms in its store      *)
(* handle, a runtime's admission state with the hand-over to another        *)
(* process, and prune.  Runtimes are processes of their own and may crash;  *)
(* the operating system then frees their lock.                              *)
(*                                                                          *)
(* Clones are other users of a runtime's store handle, which rename the     *)
(* session at any time.  A write is two steps, so that what may overlap it  *)
(* is visible: authority is taken (the lease's mutex, or the session lock), *)
(* then the file changes and the authority is given back.                   *)
(****************************************************************************)
EXTENDS Naturals, Sequences, FiniteSets

CONSTANTS
    Runtimes,   \* runtimes, each with a store handle
    Clones,     \* clones of those handles
    Handle,     \* clone -> the runtime whose handle it is
    Pruner,     \* the process that prunes
    None,
    MaxClaims,  \* bounds on claims, published generations, events and prunes
    MaxGen,
    MaxLog,
    MaxPrunes

Writers == Runtimes \cup Clones

ASSUME OwnershipConstants ==
    /\ Handle \in [Clones -> Runtimes]
    /\ Runtimes \cap Clones = {}
    /\ {Pruner, None} \cap Writers = {} /\ Pruner # None /\ None \notin Nat
    /\ {MaxClaims, MaxGen, MaxLog, MaxPrunes} \subseteq Nat

VARIABLES
    lock,       \* who holds sessions/<id>.owner.lock
    record,     \* the published owner record; generation 0: there is none
    log,        \* the event log: for each event the claim it was written under
    name,       \* the session's name in the index
    rt,         \* runtime -> its claim, its admission and what it froze
    table,      \* runtime -> the lease its handle's table holds
    live,       \* leases that are live
    claims,     \* history: claims so far; a lease is named by its claim
    found,      \* clone -> its session_write: idle, or the lease it looked up
    writing,    \* writer -> the authority under which it is writing
    prune,      \* how far the prune is
    prunes      \* prunes so far

store == <<record, log, name>>
vars == <<lock, store, rt, table, live, claims, found, writing, prune, prunes>>

Handlers(x) == IF x \in Clones THEN Handle[x] ELSE x

\* No lease; writing under the session lock rather than under a lease.
NoLease == 0
Locked == MaxClaims + 1
Idle == MaxClaims + 2

Records == [gen : 0..MaxGen, transfer : {"none", "released", "committed"}, tail : Nat]
NoRecord == [gen |-> 0, transfer |-> "none", tail |-> 0]
NothingFrozen == [tail |-> 0, name |-> 0]

\* admission of this session: "away" is a runtime on another session.
NoClaim == [admission |-> "away", claim |-> "none", lease |-> NoLease, gen |-> 0,
            lastEvent |-> 0, frozen |-> NothingFrozen, previous |-> NoRecord]

Init ==
    /\ lock = None
    /\ record = NoRecord /\ log = << >> /\ name = 0
    /\ rt = [r \in Runtimes |-> NoClaim]
    /\ table = [r \in Runtimes |-> NoLease]
    /\ live = {} /\ claims = 0
    /\ found = [c \in Clones |-> Idle]
    /\ writing = [x \in Writers |-> None]
    /\ prune = "none" /\ prunes = 0

\* Nobody is writing under the lease: its mutex can be taken.
MutexFree(lease) == \A x \in Writers : writing[x] # lease

\* A runtime's own operations are sequential.
Ready(r) == writing[r] = None

----------------------------------------------------------------------------
(* Claiming: claim_fresh for a new session, load_session for an old one. *)

\* HeldLock::try_take.  A frozen session is not left; an owned one is not
\* claimed again.
TakeLock(r) ==
    /\ Ready(r)
    /\ rt[r].admission \notin {"owned", "preparing"} /\ rt[r].claim = "none"
    /\ lock = None /\ claims < MaxClaims
    /\ lock' = r
    /\ rt' = [rt EXCEPT ![r] = [@ EXCEPT !.claim = "locked"]]
    /\ UNCHANGED <<store, table, live, claims, found, writing, prune, prunes>>

\* The next generation is published, with the previous record kept for the
\* destination of a hand-over to look at.
PublishClaim(r) ==
    /\ rt[r].claim = "locked" /\ record.gen < MaxGen
    /\ record' = [gen |-> record.gen + 1, transfer |-> "none", tail |-> 0]
    /\ rt' = [rt EXCEPT ![r] = [@ EXCEPT !.claim = "published", !.gen = record.gen + 1,
                                         !.previous = record]]
    /\ UNCHANGED <<lock, log, name, table, live, claims, found, writing, prune, prunes>>

\* The record cannot be read or published: the lock is let go.  A new session's
\* runtime is lost, any other stays as it was.
ClaimFails(r) ==
    /\ rt[r].claim = "locked"
    /\ lock' = None
    /\ \E admission \in {rt[r].admission, "lost"} :
          rt' = [rt EXCEPT ![r] =
                   [NoClaim EXCEPT !.admission = admission, !.lease = rt[r].lease]]
    /\ UNCHANGED <<store, table, live, claims, found, writing, prune, prunes>>

\* load_session cannot read the log: the claim, whose lease is already armed, is
\* dropped again, and with it the table entry of an earlier, dead lease.
LogUnreadable(r) ==
    /\ rt[r].claim = "published"
    /\ lock' = None
    /\ table' = [table EXCEPT ![r] = NoLease]
    /\ rt' = [rt EXCEPT ![r] =
                [NoClaim EXCEPT !.admission = rt[r].admission, !.lease = rt[r].lease]]
    /\ UNCHANGED <<store, live, claims, found, writing, prune, prunes>>

\* Mutant of BecomeOwner: the new lease does not replace a dead one in the table.
BecomeOwnerUnarmed(r) ==
    /\ rt[r].claim = "published"
    /\ claims' = claims + 1
    /\ live' = live \cup {claims'}
    /\ table' = [table EXCEPT ![r] = IF @ = NoLease THEN claims' ELSE @]
    /\ log' = Append(log, claims')
    /\ rt' = [rt EXCEPT ![r] = [@ EXCEPT !.claim = "held", !.admission = "owned",
                                         !.lease = claims', !.lastEvent = Len(log) + 1]]
    /\ UNCHANGED <<lock, record, name, found, writing, prune, prunes>>

\* The lease is armed, the log is read and SessionOpened is appended.
BecomeOwner(r) ==
    /\ rt[r].claim = "published"
    /\ claims' = claims + 1
    /\ live' = live \cup {claims'}
    /\ table' = [table EXCEPT ![r] = claims']
    /\ log' = Append(log, claims')
    /\ rt' = [rt EXCEPT ![r] = [@ EXCEPT !.claim = "held", !.admission = "owned",
                                         !.lease = claims', !.lastEvent = Len(log) + 1]]
    /\ UNCHANGED <<lock, record, name, found, writing, prune, prunes>>

\* commit_transfer: the destination says that it took the session over.
CommitTransfer(r) ==
    /\ Ready(r)
    /\ rt[r].claim = "held" /\ rt[r].previous.transfer = "released"
    /\ record.transfer = "none"
    /\ record' = [record EXCEPT !.transfer = "committed", !.tail = rt[r].previous.tail]
    /\ UNCHANGED <<lock, log, name, rt, table, live, claims, found, writing, prune, prunes>>

----------------------------------------------------------------------------
(* Letting go. *)

\* Mutant of DropClaim: the table entry is removed and the lock is let go, but
\* handles that looked the lease up before may still write under it.
DropClaimKeepsLease(r, admission) ==
    /\ UNCHANGED live
    /\ table' = [table EXCEPT ![r] = NoLease]
    /\ rt' = [rt EXCEPT ![r] = [@ EXCEPT !.claim = "dropping", !.admission = admission]]

\* SessionClaim::drop: a write under the lease is waited for, the lease dies,
\* and only then is the table entry removed; the lock goes last (Unlock).
DropClaim(r, admission) ==
    /\ MutexFree(rt[r].lease)
    /\ live' = live \ {rt[r].lease}
    /\ table' = [table EXCEPT ![r] = IF @ = rt[r].lease THEN NoLease ELSE @]
    /\ rt' = [rt EXCEPT ![r] = [@ EXCEPT !.claim = "dropping", !.admission = admission]]

\* What the runtime remembers of the claim is of no further use: the next claim
\* reads the record and the log again.
Unlock(r) ==
    /\ rt[r].claim = "dropping"
    /\ lock' = None
    /\ rt' = [rt EXCEPT ![r] =
                [NoClaim EXCEPT !.admission = rt[r].admission, !.lease = rt[r].lease]]
    /\ UNCHANGED <<store, table, live, claims, found, writing, prune, prunes>>

\* Mutant of Close: the admission state is left as it was.
CloseStaysOwned(r) ==
    /\ Ready(r)
    /\ rt[r].admission = "owned" /\ rt[r].claim = "held"
    /\ DropClaim(r, "owned")
    /\ log' = Append(log, rt[r].lease)
    /\ UNCHANGED <<lock, record, name, claims, found, writing, prune, prunes>>

\* close of an owned session appends SessionClosed and drops the claim.
Close(r) ==
    /\ Ready(r)
    /\ rt[r].admission = "owned" /\ rt[r].claim = "held"
    /\ DropClaim(r, "closed")
    /\ log' = Append(log, rt[r].lease)
    /\ UNCHANGED <<lock, record, name, claims, found, writing, prune, prunes>>

\* The runtime moves to another session (start_new_session, fork_session,
\* load_session of another): this one's claim is dropped and nothing is written.
Leave(r) ==
    /\ Ready(r)
    /\ rt[r].admission = "owned" /\ rt[r].claim = "held"
    /\ DropClaim(r, "away")
    /\ UNCHANGED <<lock, store, claims, found, writing, prune, prunes>>

----------------------------------------------------------------------------
(* Handing the session over. *)

\* prepare_transfer freezes an idle, owned, claimed session.
PrepareTransfer(r) ==
    /\ Ready(r)
    /\ rt[r].admission = "owned" /\ rt[r].claim = "held"
    /\ rt' = [rt EXCEPT ![r] = [@ EXCEPT !.admission = "preparing",
                         !.frozen = [tail |-> rt[r].lastEvent, name |-> name]]]
    /\ UNCHANGED <<lock, store, table, live, claims, found, writing, prune, prunes>>

\* release_transfer: what was frozen is still so, last_event and the manifest.
\* The lease's mutex is not held yet: a rename may still slip in behind the look.
CheckTransfer(r) ==
    /\ rt[r].admission = "preparing" /\ rt[r].claim = "held"
    /\ rt[r].frozen = [tail |-> rt[r].lastEvent, name |-> name]
    /\ rt' = [rt EXCEPT ![r] = [@ EXCEPT !.claim = "releasing"]]
    /\ UNCHANGED <<lock, store, table, live, claims, found, writing, prune, prunes>>

\* abort_transfer; also release_transfer when something changed, and when the
\* released record cannot be published (the lease is then live again).
AbortTransfer(r) ==
    /\ rt[r].admission = "preparing"
    /\ rt' = [rt EXCEPT ![r] = [@ EXCEPT !.admission = "owned", !.claim = "held",
                                         !.frozen = NothingFrozen]]
    /\ UNCHANGED <<lock, store, table, live, claims, found, writing, prune, prunes>>

\* SessionClaim::release: under the lease's mutex the lease dies and the released
\* record is published; the dead lease stays in the table.
ReleaseTransfer(r) ==
    /\ rt[r].claim = "releasing"
    /\ MutexFree(rt[r].lease)
    /\ live' = live \ {rt[r].lease}
    /\ record' = [record EXCEPT !.transfer = "released", !.tail = rt[r].frozen.tail]
    /\ rt' = [rt EXCEPT ![r] = [@ EXCEPT !.claim = "dropping", !.admission = "released"]]
    /\ UNCHANGED <<lock, log, name, table, claims, found, writing, prune, prunes>>

----------------------------------------------------------------------------
(* session_write. *)

\* Authority to write with the lease a handle looked up: the lease's mutex while
\* it is live, or without a lease the session lock while nobody holds it.
MayWrite(lease) ==
    IF lease = NoLease THEN lock = None ELSE lease \in live /\ MutexFree(lease)

\* Refused at once: OwnershipLost or SessionBusy.
MayNotWrite(lease) == IF lease = NoLease THEN lock # None ELSE lease \notin live

BeginWrite(x, lease) ==
    /\ writing' = [writing EXCEPT ![x] = IF lease = NoLease THEN Locked ELSE lease]
    /\ lock' = IF lease = NoLease THEN x ELSE lock

EndWrite(x) ==
    /\ writing' = [writing EXCEPT ![x] = None]
    /\ lock' = IF writing[x] = Locked THEN None ELSE lock

\* record_event of an owned session, once authority is there.
BeginEvent(r) ==
    /\ Ready(r)
    /\ rt[r].admission = "owned" /\ rt[r].claim \in {"none", "held"}
    /\ Len(log) < MaxLog
    /\ MayWrite(table[r])
    /\ BeginWrite(r, table[r])
    /\ UNCHANGED <<store, rt, table, live, claims, found, prune, prunes>>

\* The event is appended and chained to, or the append fails and is only logged.
EndEvent(r) ==
    /\ ~Ready(r)
    /\ EndWrite(r)
    /\ \/ /\ log' = Append(log, rt[r].lease)
          /\ rt' = [rt EXCEPT ![r] = [@ EXCEPT !.lastEvent = Len(log) + 1]]
       \/ UNCHANGED <<log, rt>>
    /\ UNCHANGED <<record, name, table, live, claims, found, prune, prunes>>

\* A clone's set_session_name: it looks the lease up in the handle's table ...
LookUpLease(c) ==
    /\ found[c] = Idle
    /\ found' = [found EXCEPT ![c] = table[Handle[c]]]
    /\ UNCHANGED <<lock, store, rt, table, live, claims, writing, prune, prunes>>

\* ... and, some time later, writes with it or is refused.
BeginRename(c) ==
    /\ found[c] # Idle /\ writing[c] = None
    /\ MayWrite(found[c])
    /\ BeginWrite(c, found[c])
    /\ UNCHANGED <<store, rt, table, live, claims, found, prune, prunes>>

\* The index is rewritten, or the name is refused as taken.
EndRename(c) ==
    /\ writing[c] # None
    /\ EndWrite(c)
    /\ name' \in {name, 1 - name}
    /\ found' = [found EXCEPT ![c] = Idle]
    /\ UNCHANGED <<record, log, rt, table, live, claims, prune, prunes>>

RenameRefused(c) ==
    /\ found[c] # Idle /\ writing[c] = None
    /\ MayNotWrite(found[c])
    /\ found' = [found EXCEPT ![c] = Idle]
    /\ UNCHANGED <<lock, store, rt, table, live, claims, writing, prune, prunes>>

----------------------------------------------------------------------------
(* prune, and crashes. *)

\* Mutant of HoldForPrune: the session's lock is not asked for.
HoldForPruneAnyway ==
    /\ prune = "none" /\ prunes < MaxPrunes
    /\ lock' = Pruner
    /\ prune' = "holding"
    /\ prunes' = prunes + 1
    /\ UNCHANGED <<store, rt, table, live, claims, found, writing>>

\* hold_session of a session the retention policy dooms.
HoldForPrune ==
    /\ prune = "none" /\ prunes < MaxPrunes
    /\ lock = None
    /\ lock' = Pruner
    /\ prune' = "holding"
    /\ prunes' = prunes + 1
    /\ UNCHANGED <<store, rt, table, live, claims, found, writing>>

RemoveLog ==
    /\ prune = "holding"
    /\ log' = << >>
    /\ prune' = "cleared"
    /\ UNCHANGED <<lock, record, name, rt, table, live, claims, found, writing, prunes>>

RemoveRecord ==
    /\ prune = "cleared"
    /\ record' = NoRecord
    /\ prune' = "none"
    /\ lock' = None
    /\ UNCHANGED <<log, name, rt, table, live, claims, found, writing, prunes>>

\* A file cannot be removed, or the pruning process ends.
PruneStops ==
    /\ prune # "none"
    /\ prune' = "none"
    /\ lock' = None
    /\ UNCHANGED <<store, rt, table, live, claims, found, writing, prunes>>

\* A runtime's process ends at any moment, with its handle's clones.
Crash(r) ==
    LET gone == {x \in Writers : Handlers(x) = r}
    IN  /\ lock' = IF lock \in gone THEN None ELSE lock
        /\ rt' = [rt EXCEPT ![r] = NoClaim]
        /\ table' = [table EXCEPT ![r] = NoLease]
        /\ live' = live \ {rt[r].lease}
        /\ found' = [c \in Clones |-> IF c \in gone THEN Idle ELSE found[c]]
        /\ writing' = [x \in Writers |-> IF x \in gone THEN None ELSE writing[x]]
        /\ UNCHANGED <<store, claims, prune, prunes>>

----------------------------------------------------------------------------
Next ==
    \/ \E r \in Runtimes :
          \/ TakeLock(r) \/ PublishClaim(r) \/ ClaimFails(r)
          \/ LogUnreadable(r) \/ BecomeOwner(r)
          \/ CommitTransfer(r) \/ Unlock(r) \/ Close(r) \/ Leave(r)
          \/ PrepareTransfer(r) \/ CheckTransfer(r) \/ AbortTransfer(r)
          \/ ReleaseTransfer(r)
          \/ BeginEvent(r) \/ EndEvent(r) \/ Crash(r)
    \/ \E c \in Clones :
          LookUpLease(c) \/ BeginRename(c) \/ EndRename(c) \/ RenameRefused(c)
    \/ HoldForPrune \/ RemoveLog \/ RemoveRecord \/ PruneStops

Spec == Init /\ [][Next]_vars

----------------------------------------------------------------------------
(* Properties. *)

\* The variables keep their types; a handle's table holds only its own claim.
TypeOK ==
    /\ lock \in Writers \cup {Pruner, None}
    /\ record \in Records
    /\ log \in Seq(0..MaxClaims)
    /\ name \in {0, 1}
    /\ rt \in [Runtimes ->
          [admission : {"away", "owned", "preparing", "released", "lost", "closed"},
           claim : {"none", "locked", "published", "held", "releasing", "dropping"},
           lease : 0..MaxClaims, gen : 0..MaxGen, lastEvent : Nat,
           frozen : [tail : Nat, name : {0, 1}],
           previous : Records]]
    /\ table \in [Runtimes -> 0..MaxClaims]
    /\ claims \in 0..MaxClaims /\ live \subseteq 1..claims
    /\ \A r \in Runtimes : table[r] \in {NoLease, rt[r].lease} /\ rt[r].lease <= claims
    /\ found \in [Clones -> 0..MaxClaims \cup {Idle}]
    /\ writing \in [Writers -> 1..MaxClaims \cup {None, Locked}]
    /\ prune \in {"none", "holding", "cleared"} /\ prunes \in 0..MaxPrunes

\* No two writers are ever in the session's files at once, in one process or in
\* several, whatever lease a handle looked up before the claim was dropped,
\* released or lost to a crash; and nobody writes while prune removes them.
OneWriter ==
    /\ \A x \in Writers : writing[x] # None =>
          \A y \in Writers \ {x} : writing[y] = None
    /\ prune # "none" => \A x \in Writers : writing[x] = None
    /\ \A x \in Writers : writing[x] # None =>
          lock = IF writing[x] = Locked THEN x ELSE Handlers(x)

\* "A session is run by at most one runtime at a time": a runtime that believes
\* it owns the session holds the lock, its lease is live and is the one its
\* handle finds, and the published record is its own, not released to anybody.
\* So no runtime ever finds its session owned elsewhere.
OneOwner ==
    \A r \in Runtimes : rt[r].admission \in {"owned", "preparing"} =>
        /\ lock = r /\ rt[r].claim \in {"held", "releasing"}
        /\ rt[r].lease \in live /\ table[r] = rt[r].lease
        /\ record.gen = rt[r].gen /\ record.transfer # "released"

\* A session released for a hand-over stays as the record describes it until the
\* destination claims it: the log ends at the recorded tail, or a prune that
\* stopped halfway has removed the log.  The log itself is one stretch per claim,
\* in the order of the claims: an owner that was replaced never appends again.
HandOverIsFrozen ==
    /\ record.transfer = "released" => Len(log) = record.tail \/ log = << >>
    /\ \A m, n \in 1..Len(log) : m < n => log[m] <= log[n]
=============================================================================
