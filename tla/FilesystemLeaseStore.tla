------------------------ MODULE FilesystemLeaseStore ------------------------
(***************************************************************************)
(* FilesystemCapabilityLeaseStore of crates/ironclaw_authorization for one *)
(* owner.  A lease is a file (leases of CapabilityLeaseStore); an index    *)
(* file names the lease files so that a listing need not scan directories. *)
(* The operations that change a lease hold the owner's mutation lock, read *)
(* one file and write it back, so each is one step; issue writes two files *)
(* and is two.  A listing takes no lock and reads one file at a time.      *)
(***************************************************************************)
EXTENDS CapabilityLeaseStore

VARIABLES
    index,     \* the index file: [written : BOOLEAN, paths : SUBSET LeaseId]
    pending,   \* leases whose issue wrote the index and not yet the file
    list,      \* the listing in progress
    legacy     \* history: leases written by a store that kept no index

fsVars == <<index, pending, list, legacy>>
allVars == <<vars, fsVars>>

\* owed is history: what the listing may not miss.
Listing == [pc : {"idle", "read", "done"}, inv : Invocation,
            todo : SUBSET LeaseId, found : SUBSET LeaseId,
            owed : SUBSET LeaseId, faulted : BOOLEAN]

NoListing == [pc |-> "idle", inv |-> NoLease.inv, todo |-> {}, found |-> {},
              owed |-> {}, faulted |-> FALSE]

\* FilesystemCapabilityLeaseStore::new over an empty directory.
FsInit ==
    /\ Init
    /\ index = [written |-> FALSE, paths |-> {}]
    /\ pending = [k \in LeaseId |-> NoLease]
    /\ list = NoListing
    /\ legacy = {}

\* The owner's mutation lock: only an issue holds it between two steps.
LockFree == \A k \in LeaseId : pending[k].status = "Absent"

Present == {k \in LeaseId : leases[k].status # "Absent"}

\* Mutant: the index is started anew instead of being read first.
IndexLeasePathAlone(k) == [written |-> TRUE, paths |-> {k}]

\* index_lease_path: what the index holds once k was added.
IndexLeasePath(k) == [written |-> TRUE, paths |-> index.paths \cup {k}]

\* issue, first half: the path goes into the index.  That the id names no file and
\* no path yet is an assumption on ids (UUIDs); the code writes without a look.
IssueIndex(k, inv, fp, n) ==
    /\ LockFree
    /\ k \notin Present \cup index.paths
    /\ index' = IndexLeasePath(k)
    /\ pending' = [pending EXCEPT ![k] = NewLease(inv, fp, n)]
    /\ UNCHANGED <<vars, list, legacy>>

\* issue, second half: write_lease.
IssueWrite(k) ==
    /\ pending[k].status # "Absent"
    /\ leases' = [leases EXCEPT ![k] = pending[k]]
    /\ budget' = [budget EXCEPT ![k] = pending[k].remaining]
    /\ pending' = [pending EXCEPT ![k] = NoLease]
    /\ UNCHANGED <<spent, index, list, legacy>>

\* The write fails, or the host stops first: the index names no file.
IssueFails(k) ==
    /\ pending[k].status # "Absent"
    /\ pending' = [pending EXCEPT ![k] = NoLease]
    /\ UNCHANGED <<vars, index, list, legacy>>

\* A lease file of the time before there was an index.
IssueUnindexed(k, inv, fp, n) ==
    /\ ~ index.written
    /\ Issue(k, inv, fp, n)
    /\ legacy' = legacy \cup {k}
    /\ UNCHANGED <<index, pending, list>>

\* revoke, claim and consume find the lease by its path, not by the index.
Locked(A) == LockFree /\ A /\ UNCHANGED fsVars

\* The clock takes no lock.
FsExpire(k) == Expire(k) /\ UNCHANGED fsVars

Authority(inv) == {k \in LeaseId : Authorizing(leases[k], inv)}

\* list_lease_paths_from_index_or_scan.
ListedPaths == IF index.written THEN index.paths ELSE Present

\* active_leases_for_context: the paths come from the index or from a scan.
ListStart(inv) ==
    /\ list.pc # "read"
    /\ list' = [pc |-> "read", inv |-> inv, todo |-> ListedPaths, found |-> {},
                owed |-> Authority(inv) \ (IF index.written THEN legacy ELSE {}),
                faulted |-> FALSE]
    /\ UNCHANGED <<vars, index, pending, legacy>>

\* read_lease_file: a path without a file is skipped, a lease that does not
\* authorize is filtered out.
ListRead(k) ==
    /\ list.pc = "read" /\ k \in list.todo
    /\ list' = [list EXCEPT !.todo = @ \ {k},
                            !.found = IF k \in Authority(list.inv) THEN @ \cup {k} ELSE @]
    /\ UNCHANGED <<vars, index, pending, legacy>>

\* An unreadable lease file is skipped without a word, and an unreadable index
\* empties the listing.
ListFault(paths) ==
    /\ list.pc = "read" /\ paths \in SUBSET list.todo /\ paths # {}
    /\ list' = [list EXCEPT !.todo = @ \ paths, !.faulted = TRUE]
    /\ UNCHANGED <<vars, index, pending, legacy>>

ListDone ==
    /\ list.pc = "read" /\ list.todo = {}
    /\ list' = [list EXCEPT !.pc = "done"]
    /\ UNCHANGED <<vars, index, pending, legacy>>

FsNext ==
    \/ \E k \in LeaseId :
          \/ \E inv \in Invocation, fp \in Fingerprint \cup {NoFingerprint},
                n \in MaxInvocations :
                \/ IssueIndex(k, inv, fp, n)
                \/ IssueUnindexed(k, inv, fp, n)
          \/ IssueWrite(k)
          \/ IssueFails(k)
          \/ Locked(Revoke(k))
          \/ \E fp \in Fingerprint : Locked(Claim(k, fp))
          \/ Locked(Consume(k))
          \/ FsExpire(k)
          \/ ListRead(k)
    \/ \E inv \in Invocation : ListStart(inv)
    \/ \E paths \in SUBSET LeaseId : ListFault(paths)
    \/ ListDone

FsSpec == FsInit /\ [][FsNext]_allVars

-----------------------------------------------------------------------------

\* The shape of the files and of the calls in progress.
FsTypeOK ==
    /\ index \in [written : BOOLEAN, paths : SUBSET LeaseId]
    /\ pending \in [LeaseId -> Lease]
    /\ list \in Listing
    /\ legacy \in SUBSET LeaseId

\* A listing that met no unreadable file reports every lease that authorized
\* the invocation when it began and still does, although issues, claims and
\* revocations go on between its reads.  The exception is a lease written
\* without an index: once the first indexed issue has created the index, no
\* listing finds it.
ListingIsComplete ==
    list.pc = "done" /\ ~ list.faulted =>
        \A k \in list.owed : k \in list.found \/ k \notin Authority(list.inv)

\* Its inductive strengthening: an issue in progress wrote the index before
\* anything else and holds a fresh id,
PendingOK(k) ==
    pending[k].status # "Absent" =>
        /\ index.written /\ k \in index.paths
        /\ leases[k].status = "Absent"
        /\ \E inv \in Invocation, fp \in Fingerprint \cup {NoFingerprint},
              n \in MaxInvocations : pending[k] = NewLease(inv, fp, n)

\* the index names every lease but the legacy ones,
IndexNamesLeases ==
    Present \subseteq IF index.written THEN index.paths \cup legacy ELSE legacy

\* only a replay lease is ever claimed, so no lease regains its authority,
ClaimedIsReplay ==
    \A k \in LeaseId : leases[k].status = "Claimed" => leases[k].fingerprint # NoFingerprint

\* and a listing has each lease it owes ahead of it or in its result, unless
\* the lease has lost its authority.
ListingOnTrack ==
    list.pc # "idle" /\ ~ list.faulted =>
        \A k \in list.owed :
            /\ leases[k].status # "Absent"
            /\ k \in list.todo \cup list.found \/ k \notin Authority(list.inv)

FsInv ==
    /\ \A k \in LeaseId : PendingOK(k)
    /\ IndexNamesLeases
    /\ ClaimedIsReplay
    /\ ListingOnTrack
    /\ list.pc = "done" => list.todo = {}
=============================================================================
