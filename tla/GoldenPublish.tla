---------------------------- MODULE GoldenPublish ----------------------------
(***************************************************************************)
(* Releases of the golden dataset: publish, promote, resolve.              *)
(*                                                                         *)
(*   src/evaluation/golden/builder.py   atomic_publish_versioned_release,  *)
(*                                      resolve_current_release,           *)
(*                                      promote_candidate_to_approved_...  *)
(*   src/evaluation/golden/gates.py     validate_multi_hop_audit           *)
(*                                                                         *)
(* Processes that share a directory: generators publish a candidate,       *)
(* promoters an approved copy of one, readers load the current rows.  A    *)
(* process runs one command.  Every step is one effect on the shared file  *)
(* system; steps on a process's own temporary files are part of the next   *)
(* shared one.  The rows of a dataset are a member of Golds.  A process    *)
(* that has ended is only its outcome.                                     *)
(***************************************************************************)
EXTENDS Naturals, FiniteSets

CONSTANTS
  Processes,   \* bound on the processes; they are numbered in the order they start
  Golds,       \* datasets, and so their SHA-256
  NoGold,      \* not a dataset
  MaxFaults,   \* bound on errors, interrupts and crashes
  Unreadable   \* whether CURRENT may fail to be read in a clean-up

ASSUME PublishAssumption ==
  /\ Processes \in Nat /\ MaxFaults \in Nat /\ Unreadable \in BOOLEAN
  /\ NoGold \notin Golds

Procs  == 1..Processes
Nobody == 0

VARIABLES
  dirs,       \* releases/: the release directories by id
  current,    \* the file CURRENT
  lockPath,   \* the inode at the path of the lock file: the process that created
              \* it, Nobody if there is none
  audit,      \* the file multi_hop_audit.jsonl: the dataset it was written for
  pc, job,    \* the processes
  ino,        \* the inode each has open
  holding,    \* the processes that hold the flock of their inode
  faults,
  published,  \* ids that have been CURRENT
  overlap,    \* two processes have held a lock at the same time
  blind       \* a clean-up that could not read CURRENT took its release for another

files == <<dirs, current, audit, blind>>
lock  == <<lockPath, ino, holding, overlap>>
vars  == <<files, lock, pc, job, faults, published>>

Stages == {"candidate", "approved"}

\* A release id: the second of publication and the digest of the manifest.  A
\* candidate's manifest is determined by the rows, an approved one has the time
\* of the promotion to the microsecond.  What matters is whether two ids are the
\* same: "of" is the process for an id that no other process chooses, Nobody for
\* a candidate's id that others choose in the same second.
Id == [stage : Stages, gold : Golds, of : Procs \cup {Nobody}]

NoId == [stage |-> "candidate", gold |-> NoGold, of |-> Nobody]

\* What the checksums of a release's artifacts cover.
Release == [stage : Stages, gold : Golds, cand : Id \cup {NoId}, audit : Golds \cup {NoGold}]

NoRelease == [stage |-> "candidate", gold |-> NoGold, cand |-> NoId, audit |-> NoGold]

Candidate(g) == [stage |-> "candidate", gold |-> g, cand |-> NoId, audit |-> NoGold]

Approved(g, id, a) == [stage |-> "approved", gold |-> g, cand |-> id, audit |-> a]

NoPointer == [id |-> NoId, rel |-> NoRelease]

\* The job of a process: the release it publishes, the pointer it has read,
\* whether it requires an approved one, whether its target directory was
\* created, and how it failed.
NoJob == [kind |-> "none", rel |-> NoRelease, id |-> NoId, ptr |-> NoPointer,
          strict |-> FALSE, created |-> FALSE, how |-> "ok"]

Outcome(p) == [NoJob EXCEPT !.how = job[p].how]

Whole(id)    == id \in DOMAIN dirs /\ dirs[id].whole
Matches(ptr) == Whole(ptr.id) /\ dirs[ptr.id].rel = ptr.rel

Put(f, x, y) == [z \in DOMAIN f \cup {x} |-> IF z = x THEN y ELSE f[z]]
Drop(f, x)   == [z \in DOMAIN f \ {x} |-> f[z]]

Init ==
  /\ dirs = [id \in {} |-> {}] /\ current = NoPointer
  /\ lockPath = Nobody /\ ino = [p \in Procs |-> Nobody]
  /\ holding = {} /\ overlap = FALSE /\ blind = FALSE /\ audit = NoGold
  /\ pc = [p \in Procs |-> "idle"] /\ job = [p \in Procs |-> NoJob]
  /\ faults = 0 /\ published = {}

Step(p, from, to) == pc[p] = from /\ pc' = [pc EXCEPT ![p] = to]

Starts(p, to) == Step(p, "idle", to) /\ \A q \in 1..(p - 1) : pc[q] # "idle"

\* The external auditor writes its file for a dataset in some release directory.
WriteAudit(g) ==
  /\ g \in {id.gold : id \in published \cup DOMAIN dirs}
  /\ audit' = g
  /\ UNCHANGED <<dirs, current, blind, lock, pc, job, faults, published>>

-----------------------------------------------------------------------------
(* The commands up to publication.                                          *)

\* The ids publication may choose.  Another second or a token makes an id unique,
\* and a token is added if the directory exists; no lock is held yet.  The first
\* id of a dataset has nothing to differ from.
Known == published \cup DOMAIN dirs \cup {job[q].id : q \in Procs}

ReleaseIds(rel, p) ==
  {id \in [stage : {rel.stage}, gold : {rel.gold}, of : {p, Nobody}] :
     \/ id.of = Nobody /\ id.stage = "candidate" /\ id \notin DOMAIN dirs
     \/ id.of = p /\ (id.stage = "approved" \/ [id EXCEPT !.of = Nobody] \in Known)}

\* generate_and_freeze_golden_release: build, gates and staging are private.
\* All datasets are alike for the process that starts first.
Generate(p, g) ==
  /\ p = 1 => g = CHOOSE h \in Golds : TRUE
  /\ Starts(p, "open")
  /\ \E id \in ReleaseIds(Candidate(g), p) :
       job' = [job EXCEPT ![p] = [NoJob EXCEPT !.kind = "generate", !.rel = Candidate(g), !.id = id]]
  /\ UNCHANGED <<files, lock, faults, published>>

\* Mutant of Refused: require_approved is not passed on.
Refused_Lax(strict) == current = NoPointer

\* resolve_current_release reads the pointer; without one, or if an approved
\* release is required and the pointer's is not, it refuses.
Refused(strict) == current = NoPointer \/ (strict /\ current.rel.stage # "approved")

ReadPointer(p, kind, strict) ==
  /\ strict => kind = "load"
  /\ ~Refused(strict)
  /\ Starts(p, "resolve")
  /\ job' = [job EXCEPT ![p] = [NoJob EXCEPT !.kind = kind, !.ptr = current, !.strict = strict]]
  /\ UNCHANGED <<files, lock, faults, published>>

\* ... and then validates the directory it names.
Resolve(p) ==
  /\ Matches(job[p].ptr)
  /\ Step(p, "resolve", job[p].kind)
  /\ UNCHANGED <<files, lock, job, faults, published>>

\* promote with the id of any directory there is, also of one that a crash left
\* behind before it was published, or that its publisher is removing.
Name(p, id) ==
  /\ id \in DOMAIN dirs
  /\ Starts(p, "promote")
  /\ job' = [job EXCEPT ![p] = [NoJob EXCEPT !.kind = "promote", !.ptr.id = id]]
  /\ UNCHANGED <<files, lock, faults, published>>

\* load_current_golden_rows: the rows are read after the checks, and may still be
\* there when other files are not.
Load(p) ==
  LET id == job[p].ptr.id
  IN  /\ id \in DOMAIN dirs
      /\ Step(p, "load", "done")
      /\ job' = [job EXCEPT ![p].rel = dirs[id].rel, ![p].ptr = NoPointer]
      /\ UNCHANGED <<files, lock, faults, published>>

\* The candidate and the audit are read and checked against each other.  The one
\* file of a release that is not asked for is an approved one's own audit.
Valid(p) ==
  LET id == job[p].ptr.id
  IN  /\ Whole(id) \/ (id \in DOMAIN dirs /\ dirs[id].rel.stage = "approved")
      /\ dirs[id].rel.gold = audit

Validate(p) ==
  LET id == job[p].ptr.id
  IN  /\ Valid(p)
      /\ Step(p, "promote", "copy")
      /\ job' = [job EXCEPT ![p].rel = Approved(dirs[id].rel.gold, id, audit)]
      /\ UNCHANGED <<files, lock, faults, published>>

\* Mutant of Copied: the audit is copied from its file, not from the bytes that
\* were validated.
Copied_AuditAgain(p) == [job[p].rel EXCEPT !.audit = audit]

Copied(p) == job[p].rel

\* The candidate's artifacts are copied but for its manifest; the rows must be
\* those validated.
Same(p) == job[p].ptr.id \in DOMAIN dirs /\ dirs[job[p].ptr.id].rel.gold = job[p].rel.gold

CopyCandidate(p) ==
  /\ Same(p)
  /\ Step(p, "copy", "open")
  /\ \E id \in ReleaseIds(job[p].rel, p) :
       job' = [job EXCEPT ![p].rel = Copied(p), ![p].id = id, ![p].ptr = NoPointer]
  /\ UNCHANGED <<files, lock, faults, published>>

\* A check that refuses ends the command; nothing has been written.  In a directory
\* that is not whole, what is missing may be what the command reads.
CommandFails(p) ==
  /\ \/ pc[p] = "idle" /\ Starts(p, "failed") /\ \E strict \in BOOLEAN : Refused(strict)
     \/ pc[p] = "resolve" /\ ~Matches(job[p].ptr)
     \/ pc[p] = "load" /\ ~Whole(job[p].ptr.id)
     \/ pc[p] = "promote" /\ (~Whole(job[p].ptr.id) \/ ~Valid(p))
     \/ pc[p] = "copy" /\ (~Whole(job[p].ptr.id) \/ ~Same(p))
  /\ pc' = [pc EXCEPT ![p] = "failed"] /\ job' = [job EXCEPT ![p] = NoJob]
  /\ UNCHANGED <<files, lock, faults, published>>

-----------------------------------------------------------------------------
(* atomic_publish_versioned_release.                                        *)

\* Mutant of OpenLock: the file itself is the lock (O_EXCL).
OpenLock_Exclusive(p) ==
  /\ lockPath = Nobody
  /\ Step(p, "open", "flock")
  /\ lockPath' = p
  /\ ino' = [ino EXCEPT ![p] = lockPath']
  /\ UNCHANGED <<files, holding, overlap, job, faults, published>>

\* open(lock_file, "w") opens the file at the path, or creates one.
OpenLock(p) ==
  /\ Step(p, "open", "flock")
  /\ lockPath' = IF lockPath = Nobody THEN p ELSE lockPath
  /\ ino' = [ino EXCEPT ![p] = lockPath']
  /\ UNCHANGED <<files, holding, overlap, job, faults, published>>

\* The lock is on the inode, whether or not it is still at the path.
Flock(p) ==
  /\ \A q \in holding : ino[q] # ino[p]
  /\ Step(p, "flock", "move")
  /\ holding' = holding \cup {p}
  /\ overlap' = (overlap \/ holding # {})
  /\ UNCHANGED <<files, lockPath, ino, job, faults, published>>

\* The staged directory is renamed to its final name, which must be free.
Move(p) ==
  LET id == job[p].id
  IN  /\ id \notin DOMAIN dirs
      /\ Step(p, "move", "swap")
      /\ dirs' = Put(dirs, id, [rel |-> job[p].rel, by |-> p, whole |-> TRUE])
      /\ job' = [job EXCEPT ![p].created = TRUE]
      /\ UNCHANGED <<current, audit, blind, lock, faults, published>>

\* Mutant of NameTaken: the flag was set before the rename.
NameTaken_Owned(p) ==
  /\ job[p].id \in DOMAIN dirs
  /\ Step(p, "move", "cleanup")
  /\ job' = [job EXCEPT ![p].how = "error", ![p].created = TRUE]
  /\ UNCHANGED <<files, lock, faults, published>>

NameTaken(p) ==
  /\ job[p].id \in DOMAIN dirs
  /\ Step(p, "move", "cleanup")
  /\ job' = [job EXCEPT ![p].how = "error"]
  /\ UNCHANGED <<files, lock, faults, published>>

\* The pointer is written aside and renamed over CURRENT.
Swap(p) ==
  /\ Step(p, "swap", "swapped")
  /\ current' = [id |-> job[p].id, rel |-> job[p].rel]
  /\ published' = published \cup {job[p].id}
  /\ UNCHANGED <<dirs, audit, blind, lock, job, faults>>

-----------------------------------------------------------------------------
(* Failures.  An error comes from a call that had no effect, an interrupt   *)
(* at any point of the block; a crash ends the process anywhere.            *)

Fault == faults < MaxFaults /\ faults' = faults + 1

FileError(p) ==
  /\ \E from \in {"move", "swap"} : Step(p, from, "cleanup")
  /\ Fault
  /\ job' = [job EXCEPT ![p].how = "error"]
  /\ UNCHANGED <<files, lock, published>>

Interrupt(p) ==
  /\ \E from \in {"move", "swap", "swapped"} : Step(p, from, "cleanup")
  /\ Fault
  /\ job' = [job EXCEPT ![p].how = "interrupt"]
  /\ UNCHANGED <<files, lock, published>>

\* The interrupt that comes between the rename and the flag that records it.
InterruptUnrecorded(p) ==
  /\ job[p].id \notin DOMAIN dirs
  /\ Step(p, "move", "cleanup")
  /\ Fault
  /\ dirs' = Put(dirs, job[p].id, [rel |-> job[p].rel, by |-> p, whole |-> TRUE])
  /\ job' = [job EXCEPT ![p].how = "interrupt"]
  /\ UNCHANGED <<current, audit, blind, lock, published>>

\* Mutants of Unreferenced: every created directory; none.
Unreferenced_Blind(p) == job[p].created
Unreferenced_Never(p) == FALSE

\* A created directory that CURRENT does not name.
Unreferenced(p) == job[p].created /\ job[p].id \in DOMAIN dirs /\ current.id # job[p].id

\* except BaseException: such a directory is removed.
CheckActive(p) ==
  /\ Step(p, "cleanup", IF Unreferenced(p) THEN "remove" ELSE "unlock")
  /\ UNCHANGED <<files, lock, job, faults, published>>

\* CURRENT cannot be read: is_active stays FALSE, whatever it names.
CheckUnreadable(p) ==
  /\ Unreadable
  /\ job[p].created /\ job[p].id \in DOMAIN dirs
  /\ Step(p, "cleanup", "remove")
  /\ blind' = (blind \/ current.id = job[p].id)
  /\ UNCHANGED <<dirs, current, audit, lock, job, faults, published>>

\* rmtree removes files, and the directory in the end.
Remove(p) ==
  /\ Step(p, "remove", "rmdir")
  /\ dirs' = [dirs EXCEPT ![job[p].id].whole = FALSE]
  /\ UNCHANGED <<current, audit, blind, lock, job, faults, published>>

Rmdir(p) ==
  /\ Step(p, "rmdir", "unlock")
  /\ dirs' = Drop(dirs, job[p].id)
  /\ UNCHANGED <<current, audit, blind, lock, job, faults, published>>

\* finally: unlock, and then unlink whatever is at the path.
Unlock(p) ==
  /\ \E from \in {"swapped", "unlock"} : Step(p, from, "unlink")
  /\ holding' = holding \ {p}
  /\ UNCHANGED <<files, lockPath, ino, overlap, job, faults, published>>

Unlink(p) ==
  /\ Step(p, "unlink", IF job[p].how = "ok" THEN "done" ELSE "failed")
  /\ lockPath' = Nobody
  /\ ino' = [ino EXCEPT ![p] = Nobody]
  /\ job' = [job EXCEPT ![p] = Outcome(p)]
  /\ UNCHANGED <<files, holding, overlap, faults, published>>

Ended == {"done", "failed", "crashed"}

\* Mutant of Released: the lock stays.
Released_Not(p) == holding

\* The kernel releases the lock of a process that ends.
Released(p) == holding \ {p}

Crash(p) ==
  /\ pc[p] \notin Ended \cup {"idle"}
  /\ Fault
  /\ pc' = [pc EXCEPT ![p] = "crashed"] /\ job' = [job EXCEPT ![p] = NoJob]
  /\ holding' = Released(p)
  /\ ino' = [ino EXCEPT ![p] = Nobody]
  /\ UNCHANGED <<files, lockPath, overlap, published>>

Publish(p) ==
  \/ OpenLock(p) \/ Flock(p) \/ Move(p) \/ NameTaken(p) \/ Swap(p)
  \/ CheckActive(p) \/ CheckUnreadable(p) \/ Remove(p) \/ Rmdir(p) \/ Unlock(p) \/ Unlink(p)

Next ==
  \/ \E g \in Golds : WriteAudit(g)
  \/ \E p \in Procs :
       \/ \E g \in Golds : Generate(p, g)
       \/ \E kind \in {"promote", "load"}, strict \in BOOLEAN : ReadPointer(p, kind, strict)
       \/ \E id \in DOMAIN dirs : Name(p, id)
       \/ Resolve(p) \/ Load(p) \/ Validate(p) \/ CopyCandidate(p) \/ CommandFails(p)
       \/ Publish(p)
       \/ FileError(p) \/ Interrupt(p) \/ InterruptUnrecorded(p) \/ Crash(p)

Spec == Init /\ [][Next]_vars

(* A process that can go on goes on; flock wakes a waiter.                  *)
FairSpec == Spec /\ \A p \in Procs : WF_vars(Publish(p))
-----------------------------------------------------------------------------
Inside == {"move", "swap", "swapped", "cleanup", "remove", "rmdir", "unlock"}

Job == [kind : {"none", "generate", "promote", "load"}, rel : Release \cup {NoRelease},
        id : Id \cup {NoId}, ptr : [id : Id \cup {NoId}, rel : Release \cup {NoRelease}],
        strict : BOOLEAN, created : BOOLEAN, how : {"ok", "error", "interrupt"}]

(* Type invariant; who holds a lock is in the block it protects.            *)
TypeOK ==
  /\ faults \in 0..MaxFaults
  /\ DOMAIN dirs \subseteq Id
  /\ \A id \in DOMAIN dirs : dirs[id] \in [rel : Release, by : Procs, whole : BOOLEAN]
  /\ current \in [id : Id, rel : Release] \cup {NoPointer}
  /\ audit \in Golds \cup {NoGold}
  /\ published \subseteq Id /\ overlap \in BOOLEAN /\ blind \in BOOLEAN
  /\ lockPath \in Procs \cup {Nobody} /\ ino \in [Procs -> Procs \cup {Nobody}]
  /\ pc \in [Procs -> {"idle", "resolve", "promote", "load", "copy", "open", "flock",
                       "unlink"} \cup Inside \cup Ended]
  /\ job \in [Procs -> Job]
  /\ holding = {p \in Procs : pc[p] \in Inside}

(* CURRENT names a release directory that exists, is whole and has the      *)
(* contents the pointer's checksums record: also while publications run     *)
(* that the lock, which every publisher unlinks, does not exclude; unless   *)
(* a clean-up that could not read CURRENT removed the release it names.     *)
PointerWhole == blind \/ (current # NoPointer => Matches(current))

(* A release that was published stays readable for ever, as long as the     *)
(* lock has excluded and no clean-up took the release CURRENT names for     *)
(* another.                                                                 *)
PublishedKept == overlap \/ blind \/ \A id \in published : Whole(id)

(* "Prior releases remain untouched and readable at all times" (builder.py):*)
(* whatever processes publish at the same time.                             *)
PriorReleasesReadable == \A id \in published : Whole(id)

(* "Readers observe either the complete old release or the complete new     *)
(* release" (builder.py): what CURRENT names is complete.                   *)
ReadersFindRelease == current # NoPointer => Matches(current)

(* An approved release has the rows of the release it names, published or   *)
(* not, and an audit that was written for these rows, whatever is           *)
(* generated, audited or removed while it is promoted.                      *)
ApprovedFaithful ==
  \A id \in published : id \in DOMAIN dirs /\ dirs[id].rel.stage = "approved" =>
    LET rel == dirs[id].rel
    IN  rel.audit = rel.gold /\ rel.cand.gold = rel.gold

(* Rows loaded by a reader that requires approval were audited.             *)
AuditedOnly ==
  \A p \in Procs : pc[p] = "done" /\ job[p].kind = "load" /\ job[p].strict =>
    job[p].rel.audit = job[p].rel.gold

(* A publication that failed by an error leaves no directory, unless its    *)
(* name is one CURRENT had kept when its directory was removed unread.      *)
FailedLeavesNothing ==
  blind \/ \A p \in Procs : pc[p] = "failed" /\ job[p].how = "error" =>
    \A id \in DOMAIN dirs : dirs[id].by # p

(* A process that asks for the lock ends, whoever crashes while holding it. *)
PublisherEnds == \A p \in Procs : pc[p] = "open" ~> pc[p] \in Ended
=============================================================================
