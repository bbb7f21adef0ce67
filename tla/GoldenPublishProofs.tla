------------------------- MODULE GoldenPublishProofs -------------------------
(***************************************************************************)
(* Proofs about GoldenPublish, for any number of processes, any datasets   *)
(* and any number of faults: types, a pointer that names a whole release,  *)
(* published releases that stay while the lock excludes, approved releases *)
(* that are faithful, failed publications that leave nothing.              *)
(***************************************************************************)
EXTENDS GoldenPublish, TLAPS

-----------------------------------------------------------------------------
(* The inductive invariant.                                                 *)

Reading    == {"resolve", "promote", "load", "copy"}
Early      == {"open", "flock", "move"}
Owning     == {"swap", "swapped", "cleanup", "remove", "rmdir"}
Publishing == Early \cup Owning \cup {"unlock", "unlink"}

CurrentPublished == current # NoPointer => current.id \in published

\* An approved release was audited for its rows, and they are its candidate's.
Faithful(rel) ==
  rel.stage = "approved" => rel.audit = rel.gold /\ rel.cand.gold = rel.gold

DirsFaithful == \A id \in DOMAIN dirs : dirs[id].rel.gold = id.gold /\ Faithful(dirs[id].rel)

\* What a command has read so far.
Jobs ==
  \A p \in Procs :
    /\ pc[p] \in Reading => job[p].ptr.id \in Id
    /\ pc[p] = "resolve" => job[p].kind \in {"promote", "load"}
    /\ pc[p] \in {"copy"} \cup Publishing => job[p].rel \in Release /\ Faithful(job[p].rel)
    /\ pc[p] \in Publishing => job[p].id \in Id /\ job[p].id.gold = job[p].rel.gold

\* The directory a publisher has created is its own and whole until it removes it.
Owners ==
  \A p \in Procs :
    /\ pc[p] \in Reading \cup Early => ~job[p].created /\ job[p].how = "ok"
    /\ pc[p] \in {"swap", "swapped"} => job[p].created /\ job[p].how = "ok"
    /\ pc[p] \in {"swap", "remove", "rmdir"} =>
         job[p].created /\ (blind \/ current.id # job[p].id)
    /\ pc[p] \in Owning /\ job[p].created =>
         /\ job[p].id \in DOMAIN dirs
         /\ dirs[job[p].id].by = p
         /\ pc[p] # "rmdir" => dirs[job[p].id].whole /\ dirs[job[p].id].rel = job[p].rel

\* A process has created the directory of its id and no other; after an error
\* it removes it.
Made ==
  \A id \in DOMAIN dirs :
    LET p == dirs[id].by
    IN  /\ pc[p] \notin Reading \cup Early \cup {"idle"}
        /\ pc[p] \in Publishing => id = job[p].id
        /\ job[p].how = "error" =>
             blind \/ /\ pc[p] \in {"cleanup", "remove", "rmdir"}
                      /\ job[p].created /\ current.id # id

\* While the lock excludes, one process is in the block, and a release of its
\* that was published is still current.
Exclusion ==
  overlap \/ blind \/
  \A p \in holding :
    /\ \A q \in holding : q = p
    /\ job[p].created /\ job[p].id \in published => current.id = job[p].id

IInv == /\ TypeOK /\ PointerWhole /\ PublishedKept
        /\ CurrentPublished /\ DirsFaithful /\ Jobs /\ Owners /\ Made /\ Exclusion

USE DEF Procs, Nobody, Stages
-----------------------------------------------------------------------------
LEMMA Constants == NoId \notin Id /\ NoRelease \notin Release /\ NoJob \in Job
BY PublishAssumption DEF NoId, Id, NoRelease, Release, NoJob, Job, NoPointer

LEMMA InitIInv == Init => IInv
<1> SUFFICES ASSUME Init PROVE IInv
  OBVIOUS
<1> USE DEF Init
<1>1. TypeOK
  <2>1. pc \in [Procs -> {"idle"}] /\ holding = {p \in Procs : pc[p] \in Inside}
    BY DEF Inside
  <2>2. job \in [Procs -> Job] /\ ino \in [Procs -> Procs \cup {Nobody}]
    BY Constants
  <2>3. faults \in 0..MaxFaults
    BY PublishAssumption
  <2> QED
    BY <2>1, <2>2, <2>3 DEF TypeOK
<1>2. PointerWhole /\ PublishedKept /\ CurrentPublished /\ DirsFaithful
  BY DEF PointerWhole, PublishedKept, CurrentPublished, DirsFaithful
<1>3. Jobs /\ Owners
  BY DEF Jobs, Owners, Reading, Publishing, Early, Owning
<1>4. Made /\ Exclusion
  BY DEF Made, Exclusion
<1> QED
  BY <1>1, <1>2, <1>3, <1>4 DEF IInv

-----------------------------------------------------------------------------
(* A step of a command before publication: it changes only its own registers.*)

Commanding == {"idle"} \cup Reading

LEMMA CommandStep ==
  ASSUME IInv, NEW p \in Procs, pc[p] \in Commanding,
         NEW to \in Reading \cup {"open", "done", "failed"},
         NEW j \in Job,
         pc' = [pc EXCEPT ![p] = to], job' = [job EXCEPT ![p] = j],
         to \in Reading => j.ptr.id \in Id,
         to = "resolve" => j.kind \in {"promote", "load"},
         to \in {"copy", "open"} => j.rel \in Release /\ Faithful(j.rel),
         to = "open" => j.id \in Id /\ j.id.gold = j.rel.gold,
         to \in Reading \cup {"open"} => ~j.created /\ j.how = "ok",
         UNCHANGED <<files, lock, faults, published>>
  PROVE  IInv'
<1> USE DEF IInv, files, lock
<1>1. TypeOK'
  BY DEF TypeOK, Commanding, Reading, Inside, Ended
<1>2. PointerWhole' /\ PublishedKept' /\ CurrentPublished' /\ DirsFaithful'
  BY DEF PointerWhole, PublishedKept, CurrentPublished, DirsFaithful, Matches, Whole, Faithful
<1>3. Jobs'
  BY DEF Jobs, TypeOK, Publishing, Reading, Early, Owning, Commanding, Faithful
<1>4. Owners'
  BY DEF Owners, TypeOK, Early, Owning, Reading, Commanding
<1>5. Made'
  BY DEF Made, TypeOK, Publishing, Early, Owning, Reading, Commanding
<1>6. Exclusion'
  BY DEF Exclusion, TypeOK, Inside, Commanding, Reading
<1> QED
  BY <1>1, <1>2, <1>3, <1>4, <1>5, <1>6

\* The registers a command fills in are jobs.
LEMMA GenerateJob ==
  ASSUME NEW rel \in Release, NEW id \in Id
  PROVE  [NoJob EXCEPT !.kind = "generate", !.rel = rel, !.id = id] \in Job
BY DEF Job, NoJob, NoPointer

LEMMA ReadJob ==
  ASSUME NEW kind \in {"promote", "load"}, NEW strict \in BOOLEAN,
         NEW ptr \in [id : Id \cup {NoId}, rel : Release \cup {NoRelease}]
  PROVE  [NoJob EXCEPT !.kind = kind, !.ptr = ptr, !.strict = strict] \in Job
BY DEF Job, NoJob, NoPointer

LEMMA NameJob ==
  ASSUME NEW id \in Id
  PROVE  [NoJob EXCEPT !.kind = "promote", !.ptr.id = id] \in Job
BY DEF Job, NoJob, NoPointer

LEMMA JobUpdates ==
  ASSUME NEW j \in Job, NEW rel \in Release \cup {NoRelease}, NEW id \in Id \cup {NoId},
         NEW how \in {"ok", "error", "interrupt"}
  PROVE  /\ [j EXCEPT !.rel = rel] \in Job
         /\ [j EXCEPT !.rel = rel, !.ptr = NoPointer] \in Job
         /\ [j EXCEPT !.rel = rel, !.id = id, !.ptr = NoPointer] \in Job
         /\ [j EXCEPT !.created = TRUE] \in Job
         /\ [j EXCEPT !.how = how] \in Job
         /\ [NoJob EXCEPT !.how = how] \in Job
<1>1. /\ NoJob \in Job /\ NoPointer \in [id : Id \cup {NoId}, rel : Release \cup {NoRelease}]
  BY DEF Job, NoJob, NoPointer
<1>2. [j EXCEPT !.rel = rel] \in Job /\ [j EXCEPT !.rel = rel, !.ptr = NoPointer] \in Job
  BY <1>1 DEF Job
<1>3. [j EXCEPT !.rel = rel, !.id = id, !.ptr = NoPointer] \in Job
  BY <1>1 DEF Job
<1>4. [j EXCEPT !.created = TRUE] \in Job
  BY DEF Job
<1>5. [j EXCEPT !.how = how] \in Job
  BY DEF Job
<1>6. [NoJob EXCEPT !.how = how] \in Job
  BY <1>1 DEF Job
<1> QED
  BY <1>2, <1>3, <1>4, <1>5, <1>6

LEMMA IdsChosen ==
  ASSUME NEW rel \in Release, NEW p \in Procs, NEW id \in ReleaseIds(rel, p)
  PROVE  id \in Id /\ id.gold = rel.gold
BY DEF ReleaseIds, Id, Release

LEMMA CurrentTyped == ASSUME TypeOK PROVE current \in [id : Id \cup {NoId}, rel : Release \cup {NoRelease}]
BY DEF TypeOK, NoPointer

LEMMA GenerateStep == ASSUME IInv, NEW p \in Procs, NEW g \in Golds, Generate(p, g)
                      PROVE  IInv'
<1> DEFINE rel == Candidate(g)
<1>1. rel \in Release /\ Faithful(rel)
  BY DEF Candidate, Release, Faithful
<1>2. PICK id \in ReleaseIds(rel, p) :
        job' = [job EXCEPT ![p] = [NoJob EXCEPT !.kind = "generate", !.rel = rel, !.id = id]]
  BY DEF Generate
<1> DEFINE j == [NoJob EXCEPT !.kind = "generate", !.rel = rel, !.id = id]
<1>3. id \in Id /\ id.gold = rel.gold
  BY <1>1, IdsChosen
<1>4. j \in Job
  BY <1>1, <1>3, GenerateJob
<1>5. j.rel = rel /\ j.id = id /\ ~j.created /\ j.how = "ok"
  BY DEF NoJob
<1>6. pc[p] \in Commanding /\ pc' = [pc EXCEPT ![p] = "open"]
      /\ UNCHANGED <<files, lock, faults, published>>
  BY DEF Generate, Starts, Step, Commanding
<1> HIDE DEF j, rel
<1> QED
  BY <1>1, <1>2, <1>3, <1>4, <1>5, <1>6, CommandStep DEF j, Reading

LEMMA ReadPointerStep ==
  ASSUME IInv, NEW p \in Procs, NEW kind \in {"promote", "load"}, NEW strict \in BOOLEAN,
         ReadPointer(p, kind, strict)
  PROVE  IInv'
<1> DEFINE j == [NoJob EXCEPT !.kind = kind, !.ptr = current, !.strict = strict]
<1>1. j \in Job
  BY CurrentTyped, ReadJob DEF IInv
<1>2. j.ptr.id \in Id /\ j.kind = kind /\ ~j.created /\ j.how = "ok"
  <2>1. current.id \in Id
    BY DEF ReadPointer, Refused, IInv, TypeOK
  <2> QED
    BY <2>1 DEF NoJob
<1>3. /\ pc[p] \in Commanding /\ pc' = [pc EXCEPT ![p] = "resolve"] /\ job' = [job EXCEPT ![p] = j]
      /\ UNCHANGED <<files, lock, faults, published>>
  BY DEF ReadPointer, Starts, Step, Commanding
<1> HIDE DEF j
<1> QED
  BY <1>1, <1>2, <1>3, CommandStep DEF Reading

LEMMA NameStep == ASSUME IInv, NEW p \in Procs, NEW id \in DOMAIN dirs, Name(p, id)
                  PROVE  IInv'
<1> DEFINE j == [NoJob EXCEPT !.kind = "promote", !.ptr.id = id]
<1>1. j \in Job
  BY NameJob DEF IInv, TypeOK
<1>2. j.ptr.id \in Id /\ ~j.created /\ j.how = "ok"
  BY DEF NoJob, NoPointer, IInv, TypeOK
<1>3. /\ pc[p] \in Commanding /\ pc' = [pc EXCEPT ![p] = "promote"] /\ job' = [job EXCEPT ![p] = j]
      /\ UNCHANGED <<files, lock, faults, published>>
  BY DEF Name, Starts, Step, Commanding
<1> HIDE DEF j
<1> QED
  BY <1>1, <1>2, <1>3, CommandStep DEF Reading

LEMMA ResolveStep == ASSUME IInv, NEW p \in Procs, Resolve(p)
                     PROVE  IInv'
<1>1. job[p] \in Job /\ job' = [job EXCEPT ![p] = job[p]]
  BY DEF IInv, TypeOK, Resolve
<1>2. job[p].ptr.id \in Id
  BY DEF IInv, Jobs, Resolve, Step, Reading
<1>3. job[p].kind \in {"promote", "load"} /\ ~job[p].created /\ job[p].how = "ok"
  BY DEF IInv, Jobs, Owners, Resolve, Step, Reading
<1>4. /\ pc[p] \in Commanding /\ pc' = [pc EXCEPT ![p] = job[p].kind]
      /\ UNCHANGED <<files, lock, faults, published>>
  BY DEF Resolve, Step, Commanding, Reading
<1> QED
  BY <1>1, <1>2, <1>3, <1>4, CommandStep DEF Reading

LEMMA LoadStep == ASSUME IInv, NEW p \in Procs, Load(p)
                  PROVE  IInv'
<1> DEFINE id == job[p].ptr.id
           j  == [job[p] EXCEPT !.rel = dirs[id].rel, !.ptr = NoPointer]
<1>1. dirs[id].rel \in Release
  BY DEF IInv, TypeOK, Load, Whole
<1>2. j \in Job
  <2>1. job[p] \in Job
    BY DEF IInv, TypeOK
  <2> QED
    BY <1>1, <2>1, JobUpdates, Zenon
<1>3. /\ pc[p] \in Commanding /\ pc' = [pc EXCEPT ![p] = "done"]
      /\ UNCHANGED <<files, lock, faults, published>>
  BY DEF Load, Step, Commanding, Reading
<1>4. job' = [job EXCEPT ![p] = j]
  BY DEF Load, IInv, TypeOK
<1> HIDE DEF j
<1> QED
  BY <1>2, <1>3, <1>4, CommandStep DEF Reading

LEMMA ValidateStep == ASSUME IInv, NEW p \in Procs, Validate(p)
                      PROVE  IInv'
<1> DEFINE id  == job[p].ptr.id
           rel == Approved(dirs[id].rel.gold, id, audit)
           j   == [job[p] EXCEPT !.rel = rel]
<1>1. /\ id \in Id /\ id \in DOMAIN dirs
      /\ dirs[id].rel \in Release /\ dirs[id].rel.gold = id.gold /\ dirs[id].rel.gold = audit
  BY DEF IInv, TypeOK, Validate, Valid, Whole, Jobs, Step, Reading, DirsFaithful
<1>2. rel \in Release /\ Faithful(rel)
  BY <1>1 DEF Approved, Release, Faithful, Id
<1>3. job[p] \in Job
  BY DEF IInv, TypeOK
<1>4. j \in Job
  BY <1>2, <1>3, JobUpdates, Zenon
<1>5. j.rel = rel /\ j.ptr.id = id /\ ~j.created /\ j.how = "ok"
  BY <1>3 DEF Job, IInv, Owners, Validate, Step, Reading
<1>6. /\ pc[p] \in Commanding /\ pc' = [pc EXCEPT ![p] = "copy"]
      /\ UNCHANGED <<files, lock, faults, published>>
  BY DEF Validate, Step, Commanding, Reading
<1>7. job' = [job EXCEPT ![p] = j]
  BY <1>3 DEF Validate
<1> HIDE DEF j, rel
<1> QED
  BY <1>1, <1>2, <1>4, <1>5, <1>6, <1>7, CommandStep DEF Reading

LEMMA CopyCandidateStep == ASSUME IInv, NEW p \in Procs, CopyCandidate(p)
                           PROVE  IInv'
<1> DEFINE rel == job[p].rel
<1>1. rel \in Release /\ Faithful(rel) /\ job[p] \in Job
  BY DEF IInv, Jobs, TypeOK, CopyCandidate, Step
<1>2. PICK id \in ReleaseIds(rel, p) :
        job' = [job EXCEPT ![p].rel = rel, ![p].id = id, ![p].ptr = NoPointer]
  BY DEF CopyCandidate, Copied
<1> DEFINE j == [job[p] EXCEPT !.rel = rel, !.id = id, !.ptr = NoPointer]
<1>3. id \in Id /\ id.gold = rel.gold
  BY <1>1, IdsChosen
<1>4. j \in Job
  BY <1>1, <1>3, JobUpdates, Zenon
<1>5. j.rel = rel /\ j.id = id /\ ~j.created /\ j.how = "ok"
  BY <1>1 DEF Job, IInv, Owners, CopyCandidate, Step, Reading
<1>6. /\ pc[p] \in Commanding /\ pc' = [pc EXCEPT ![p] = "open"]
      /\ UNCHANGED <<files, lock, faults, published>>
  BY DEF CopyCandidate, Step, Commanding, Reading
<1>7. job' = [job EXCEPT ![p] = j]
  BY <1>2 DEF IInv, TypeOK
<1> HIDE DEF j, rel
<1> QED
  BY <1>1, <1>3, <1>4, <1>5, <1>6, <1>7, CommandStep DEF Reading

LEMMA CommandFailsStep == ASSUME IInv, NEW p \in Procs, CommandFails(p)
                          PROVE  IInv'
<1>1. /\ pc[p] \in Commanding /\ pc' = [pc EXCEPT ![p] = "failed"] /\ job' = [job EXCEPT ![p] = NoJob]
      /\ UNCHANGED <<files, lock, faults, published>>
  BY DEF CommandFails, Commanding, Reading
<1> QED
  BY <1>1, Constants, CommandStep DEF Reading
-----------------------------------------------------------------------------
(* Publication.                                                             *)

\* What is said of the files alone.
Files == PointerWhole /\ PublishedKept /\ CurrentPublished /\ DirsFaithful

LEMMA SameFiles == ASSUME Files, UNCHANGED <<dirs, current, published>>, overlap => overlap', blind => blind'
                   PROVE  Files'
BY DEF Files, PointerWhole, PublishedKept, CurrentPublished, DirsFaithful, Matches, Whole, Faithful

LEMMA JobTyped == ASSUME TypeOK, NEW p \in Procs PROVE job[p] \in Job
BY DEF TypeOK

LEMMA OpenLockStep == ASSUME IInv, NEW p \in Procs, OpenLock(p)
                     PROVE  IInv'
<1> USE DEF IInv, OpenLock, Step, files, lock
<1>0. job' \in [Procs -> Job]
  BY DEF TypeOK
<1>1. TypeOK'
  BY <1>0, PublishAssumption DEF TypeOK, Inside, Ended
<1>2. Files'
  BY SameFiles DEF Files
<1>3. Jobs'
  BY DEF Jobs, TypeOK, Publishing, Reading, Early, Owning, Faithful, Ended
<1>4. Owners'
  BY DEF Owners, TypeOK, Publishing, Early, Owning, Reading, Ended
<1>5. Made'
  BY DEF Made, Owners, TypeOK, Publishing, Early, Owning, Reading, Ended
<1>6. Exclusion'
  BY DEF Exclusion, Owners, TypeOK, Inside, Early, Owning, Ended
<1> QED
  BY <1>1, <1>2, <1>3, <1>4, <1>5, <1>6 DEF Files

LEMMA FlockStep == ASSUME IInv, NEW p \in Procs, Flock(p)
                  PROVE  IInv'
<1> USE DEF IInv, Flock, Step, files, lock
<1>0. job' \in [Procs -> Job]
  BY DEF TypeOK
<1>1. TypeOK'
  BY <1>0, PublishAssumption DEF TypeOK, Inside, Ended
<1>2. Files'
  BY SameFiles DEF Files
<1>3. Jobs'
  BY DEF Jobs, TypeOK, Publishing, Reading, Early, Owning, Faithful, Ended
<1>4. Owners'
  BY DEF Owners, TypeOK, Publishing, Early, Owning, Reading, Ended
<1>5. Made'
  BY DEF Made, Owners, TypeOK, Publishing, Early, Owning, Reading, Ended
<1>6. Exclusion'
  BY DEF Exclusion, Owners, TypeOK, Inside, Early, Owning, Ended
<1> QED
  BY <1>1, <1>2, <1>3, <1>4, <1>5, <1>6 DEF Files

LEMMA NameTakenStep == ASSUME IInv, NEW p \in Procs, NameTaken(p)
                      PROVE  IInv'
<1> USE DEF IInv, NameTaken, Step, files, lock
<1>0. job' \in [Procs -> Job]
  BY JobTyped, JobUpdates, Constants, Zenon DEF TypeOK
<1>1. TypeOK'
  BY <1>0, PublishAssumption DEF TypeOK, Inside, Ended
<1>2. Files'
  BY SameFiles DEF Files
<1>3. Jobs'
  BY DEF Jobs, TypeOK, Publishing, Reading, Early, Owning, Faithful, Ended
<1>4. Owners'
  BY DEF Owners, TypeOK, Publishing, Early, Owning, Reading, Ended
<1>5. Made'
  BY DEF Made, Owners, TypeOK, Publishing, Early, Owning, Reading, Ended
<1>6. Exclusion'
  BY DEF Exclusion, Owners, TypeOK, Inside, Early, Owning, Ended
<1> QED
  BY <1>1, <1>2, <1>3, <1>4, <1>5, <1>6 DEF Files

LEMMA FileErrorStep == ASSUME IInv, NEW p \in Procs, FileError(p)
                      PROVE  IInv'
<1> USE DEF IInv, FileError, Step, files, lock, Fault
<1>0. job' \in [Procs -> Job]
  BY JobTyped, JobUpdates, Constants, Zenon DEF TypeOK
<1>1. TypeOK'
  BY <1>0, PublishAssumption DEF TypeOK, Inside, Ended
<1>2. Files'
  BY SameFiles DEF Files
<1>3. Jobs'
  BY DEF Jobs, TypeOK, Publishing, Reading, Early, Owning, Faithful, Ended
<1>4. Owners'
  BY DEF Owners, TypeOK, Publishing, Early, Owning, Reading, Ended
<1>5. Made'
  BY DEF Made, Owners, TypeOK, Publishing, Early, Owning, Reading, Ended
<1>6. Exclusion'
  BY DEF Exclusion, Owners, TypeOK, Inside, Early, Owning, Ended
<1> QED
  BY <1>1, <1>2, <1>3, <1>4, <1>5, <1>6 DEF Files

LEMMA InterruptStep == ASSUME IInv, NEW p \in Procs, Interrupt(p)
                      PROVE  IInv'
<1> USE DEF IInv, Interrupt, Step, files, lock, Fault
<1>0. job' \in [Procs -> Job]
  BY JobTyped, JobUpdates, Constants, Zenon DEF TypeOK
<1>1. TypeOK'
  BY <1>0, PublishAssumption DEF TypeOK, Inside, Ended
<1>2. Files'
  BY SameFiles DEF Files
<1>3. Jobs'
  BY DEF Jobs, TypeOK, Publishing, Reading, Early, Owning, Faithful, Ended
<1>4. Owners'
  BY DEF Owners, TypeOK, Publishing, Early, Owning, Reading, Ended
<1>5. Made'
  BY DEF Made, Owners, TypeOK, Publishing, Early, Owning, Reading, Ended
<1>6. Exclusion'
  BY DEF Exclusion, Owners, TypeOK, Inside, Early, Owning, Ended
<1> QED
  BY <1>1, <1>2, <1>3, <1>4, <1>5, <1>6 DEF Files

LEMMA CheckActiveStep == ASSUME IInv, NEW p \in Procs, CheckActive(p)
                        PROVE  IInv'
<1> USE DEF IInv, CheckActive, Step, files, lock, Unreferenced
<1>0. job' \in [Procs -> Job]
  BY DEF TypeOK
<1>1. TypeOK'
  BY <1>0, PublishAssumption DEF TypeOK, Inside, Ended
<1>2. Files'
  BY SameFiles DEF Files
<1>3. Jobs'
  BY DEF Jobs, TypeOK, Publishing, Reading, Early, Owning, Faithful, Ended
<1>4. Owners'
  BY DEF Owners, TypeOK, Publishing, Early, Owning, Reading, Ended
<1>5. Made'
  BY DEF Made, Owners, TypeOK, Publishing, Early, Owning, Reading, Ended
<1>6. Exclusion'
  BY DEF Exclusion, Owners, TypeOK, Inside, Early, Owning, Ended
<1> QED
  BY <1>1, <1>2, <1>3, <1>4, <1>5, <1>6 DEF Files

LEMMA CheckUnreadableStep == ASSUME IInv, NEW p \in Procs, CheckUnreadable(p)
                            PROVE  IInv'
<1> USE DEF IInv, CheckUnreadable, Step, lock
<1>0. job' \in [Procs -> Job]
  BY DEF TypeOK
<1>1. TypeOK'
  BY <1>0, PublishAssumption DEF TypeOK, Inside, Ended
<1>2. Files'
  BY SameFiles DEF Files
<1>3. Jobs'
  BY DEF Jobs, TypeOK, Publishing, Reading, Early, Owning, Faithful, Ended
<1>4. Owners'
  BY DEF Owners, TypeOK, Publishing, Early, Owning, Reading, Ended
<1>5. Made'
  BY DEF Made, Owners, TypeOK, Publishing, Early, Owning, Reading, Ended
<1>6. Exclusion'
  BY DEF Exclusion, Owners, TypeOK, Inside, Early, Owning, Ended
<1> QED
  BY <1>1, <1>2, <1>3, <1>4, <1>5, <1>6 DEF Files

LEMMA UnlockStep == ASSUME IInv, NEW p \in Procs, Unlock(p)
                   PROVE  IInv'
<1> USE DEF IInv, Unlock, Step, files, lock
<1>0. job' \in [Procs -> Job]
  BY DEF TypeOK
<1>1. TypeOK'
  BY <1>0, PublishAssumption DEF TypeOK, Inside, Ended
<1>2. Files'
  BY SameFiles DEF Files
<1>3. Jobs'
  BY DEF Jobs, TypeOK, Publishing, Reading, Early, Owning, Faithful, Ended
<1>4. Owners'
  BY DEF Owners, TypeOK, Publishing, Early, Owning, Reading, Ended
<1>5. Made'
  BY DEF Made, Owners, TypeOK, Publishing, Early, Owning, Reading, Ended
<1>6. Exclusion'
  BY DEF Exclusion, Owners, TypeOK, Inside, Early, Owning, Ended
<1> QED
  BY <1>1, <1>2, <1>3, <1>4, <1>5, <1>6 DEF Files

LEMMA UnlinkStep == ASSUME IInv, NEW p \in Procs, Unlink(p)
                   PROVE  IInv'
<1> USE DEF IInv, Unlink, Step, files, lock, Outcome
<1>0. job' \in [Procs -> Job]
  <2>1. job[p].how \in {"ok", "error", "interrupt"}
    BY JobTyped DEF Job
  <2>2. [NoJob EXCEPT !.how = job[p].how] \in Job
    BY <2>1 DEF NoJob, NoPointer, Job
  <2> QED
    BY <2>2 DEF TypeOK
<1>1. TypeOK'
  BY <1>0, PublishAssumption DEF TypeOK, Inside, Ended
<1>2. Files'
  BY SameFiles DEF Files
<1>3. Jobs'
  BY DEF Jobs, TypeOK, Publishing, Reading, Early, Owning, Faithful, Ended
<1>4. Owners'
  BY DEF Owners, TypeOK, Publishing, Early, Owning, Reading, Ended
<1>5. Made'
  BY DEF Made, Owners, TypeOK, Publishing, Early, Owning, Reading, Ended
<1>6. Exclusion'
  BY DEF Exclusion, Owners, TypeOK, Inside, Early, Owning, Ended
<1> QED
  BY <1>1, <1>2, <1>3, <1>4, <1>5, <1>6 DEF Files

LEMMA CrashStep == ASSUME IInv, NEW p \in Procs, Crash(p)
                  PROVE  IInv'
<1> USE DEF IInv, Crash, Step, files, lock, Released, Fault
<1>0. job' \in [Procs -> Job]
  BY JobTyped, JobUpdates, Constants, Zenon DEF TypeOK
<1>1. TypeOK'
  BY <1>0, PublishAssumption DEF TypeOK, Inside, Ended
<1>2. Files'
  BY SameFiles DEF Files
<1>3. Jobs'
  BY DEF Jobs, TypeOK, Publishing, Reading, Early, Owning, Faithful, Ended
<1>4. Owners'
  BY DEF Owners, TypeOK, Publishing, Early, Owning, Reading, Ended
<1>5. Made'
  BY DEF Made, Owners, NoJob, TypeOK, Publishing, Early, Owning, Reading, Ended
<1>6. Exclusion'
  BY DEF Exclusion, Owners, TypeOK, Inside, Early, Owning, Ended
<1> QED
  BY <1>1, <1>2, <1>3, <1>4, <1>5, <1>6 DEF Files

LEMMA MoveStep == ASSUME IInv, NEW p \in Procs, Move(p)
                 PROVE  IInv'
<1> DEFINE id == job[p].id
           d  == [rel |-> job[p].rel, by |-> p, whole |-> TRUE]
<1>1. /\ id \notin DOMAIN dirs /\ id \in Id /\ id.gold = job[p].rel.gold
      /\ job[p].rel \in Release /\ Faithful(job[p].rel)
      /\ ~job[p].created /\ job[p].how = "ok" /\ pc[p] = "move"
  BY DEF IInv, Jobs, Owners, Move, Step, Publishing, Early
<1>2. /\ DOMAIN dirs' = DOMAIN dirs \cup {id} /\ dirs'[id] = d
      /\ \A x \in DOMAIN dirs : dirs'[x] = dirs[x]
  BY <1>1 DEF Move, Put
<1>3. /\ job' \in [Procs -> Job]
      /\ job'[p].created = TRUE /\ job'[p].how = "ok"
      /\ job'[p].id = id /\ job'[p].rel = job[p].rel
      /\ \A q \in Procs \ {p} : job'[q] = job[q]
  <2>1. job[p] \in Job /\ job' = [job EXCEPT ![p] = [job[p] EXCEPT !.created = TRUE]]
    BY JobTyped DEF IInv, TypeOK, Move
  <2>2. [job[p] EXCEPT !.created = TRUE] \in Job
    BY <2>1, JobUpdates, Zenon
  <2>3. job' \in [Procs -> Job] /\ \A q \in Procs \ {p} : job'[q] = job[q]
    BY <2>1, <2>2 DEF IInv, TypeOK
  <2> QED
    BY <1>1, <2>1, <2>3 DEF IInv, TypeOK, Job
<1>4. blind \/ current.id # id
  BY <1>1, Constants DEF IInv, PointerWhole, Matches, Whole, NoPointer
<1>5. \A x \in DOMAIN dirs : dirs[x].by # p
  BY <1>1 DEF IInv, Made, Early
<1>6. pc' = [pc EXCEPT ![p] = "swap"]
      /\ UNCHANGED <<current, audit, blind, lock, published>>
  BY DEF Move, Step
<1>7. TypeOK'
  <2>1. \A x \in DOMAIN dirs' : x \in Id /\ dirs'[x] \in [rel : Release, by : Procs, whole : BOOLEAN]
    <3>1. d \in [rel : Release, by : Procs, whole : BOOLEAN]
      BY <1>1
    <3>2. \A x \in DOMAIN dirs : x \in Id /\ dirs[x] \in [rel : Release, by : Procs, whole : BOOLEAN]
      BY DEF IInv, TypeOK
    <3> HIDE DEF d
    <3> QED
      BY <1>1, <1>2, <3>1, <3>2
  <2>2. faults' \in 0..MaxFaults
    BY PublishAssumption DEF IInv, TypeOK, Move
  <2> QED
    BY <1>1, <1>3, <1>6, <2>1, <2>2 DEF IInv, TypeOK, lock, Inside
<1>8. Files'
  BY <1>1, <1>2, <1>6 DEF IInv, Files, PointerWhole, PublishedKept, CurrentPublished, DirsFaithful,
     Matches, Whole, Faithful, lock
<1>9. Jobs'
  BY <1>1, <1>3, <1>6 DEF IInv, Jobs, TypeOK, Publishing, Reading, Early, Owning, Faithful
<1>10. Owners'
  BY <1>1, <1>2, <1>3, <1>4, <1>6 DEF IInv, Owners, TypeOK, Early, Owning, Reading
<1>11. Made'
  BY <1>1, <1>2, <1>3, <1>5, <1>6 DEF IInv, Made, TypeOK, Publishing, Early, Owning, Reading
<1>12. Exclusion'
  <2>1. overlap \/ blind \/ id \notin published
    BY <1>1 DEF IInv, PublishedKept, Whole
  <2> QED
    BY <1>1, <1>3, <1>6, <2>1 DEF IInv, Exclusion, TypeOK, lock
<1> QED
  BY <1>7, <1>8, <1>9, <1>10, <1>11, <1>12 DEF IInv, Files

LEMMA InterruptUnrecordedStep == ASSUME IInv, NEW p \in Procs, InterruptUnrecorded(p)
                                PROVE  IInv'
<1> DEFINE id == job[p].id
           d  == [rel |-> job[p].rel, by |-> p, whole |-> TRUE]
<1>1. /\ id \notin DOMAIN dirs /\ id \in Id /\ id.gold = job[p].rel.gold
      /\ job[p].rel \in Release /\ Faithful(job[p].rel)
      /\ ~job[p].created /\ job[p].how = "ok" /\ pc[p] = "move"
  BY DEF IInv, Jobs, Owners, InterruptUnrecorded, Step, Publishing, Early
<1>2. /\ DOMAIN dirs' = DOMAIN dirs \cup {id} /\ dirs'[id] = d
      /\ \A x \in DOMAIN dirs : dirs'[x] = dirs[x]
  BY <1>1 DEF InterruptUnrecorded, Put
<1>3. /\ job' \in [Procs -> Job]
      /\ job'[p].created = FALSE /\ job'[p].how = "interrupt"
      /\ job'[p].id = id /\ job'[p].rel = job[p].rel
      /\ \A q \in Procs \ {p} : job'[q] = job[q]
  <2>1. job[p] \in Job /\ job' = [job EXCEPT ![p] = [job[p] EXCEPT !.how = "interrupt"]]
    BY JobTyped DEF IInv, TypeOK, InterruptUnrecorded
  <2>2. [job[p] EXCEPT !.how = "interrupt"] \in Job
    BY <2>1, JobUpdates, Zenon
  <2>3. job' \in [Procs -> Job] /\ \A q \in Procs \ {p} : job'[q] = job[q]
    BY <2>1, <2>2 DEF IInv, TypeOK
  <2> QED
    BY <1>1, <2>1, <2>3 DEF IInv, TypeOK, Job
<1>4. blind \/ current.id # id
  BY <1>1, Constants DEF IInv, PointerWhole, Matches, Whole, NoPointer
<1>5. \A x \in DOMAIN dirs : dirs[x].by # p
  BY <1>1 DEF IInv, Made, Early
<1>6. pc' = [pc EXCEPT ![p] = "cleanup"]
      /\ UNCHANGED <<current, audit, blind, lock, published>>
  BY DEF InterruptUnrecorded, Step
<1>7. TypeOK'
  <2>1. \A x \in DOMAIN dirs' : x \in Id /\ dirs'[x] \in [rel : Release, by : Procs, whole : BOOLEAN]
    <3>1. d \in [rel : Release, by : Procs, whole : BOOLEAN]
      BY <1>1
    <3>2. \A x \in DOMAIN dirs : x \in Id /\ dirs[x] \in [rel : Release, by : Procs, whole : BOOLEAN]
      BY DEF IInv, TypeOK
    <3> HIDE DEF d
    <3> QED
      BY <1>1, <1>2, <3>1, <3>2
  <2>2. faults' \in 0..MaxFaults
    BY PublishAssumption DEF IInv, TypeOK, InterruptUnrecorded, Fault
  <2> QED
    BY <1>1, <1>3, <1>6, <2>1, <2>2 DEF IInv, TypeOK, lock, Inside
<1>8. Files'
  BY <1>1, <1>2, <1>6 DEF IInv, Files, PointerWhole, PublishedKept, CurrentPublished, DirsFaithful,
     Matches, Whole, Faithful, lock
<1>9. Jobs'
  BY <1>1, <1>3, <1>6 DEF IInv, Jobs, TypeOK, Publishing, Reading, Early, Owning, Faithful
<1>10. Owners'
  BY <1>1, <1>2, <1>3, <1>4, <1>6 DEF IInv, Owners, TypeOK, Early, Owning, Reading
<1>11. Made'
  BY <1>1, <1>2, <1>3, <1>5, <1>6 DEF IInv, Made, TypeOK, Publishing, Early, Owning, Reading
<1>12. Exclusion'
  <2>1. overlap \/ blind \/ id \notin published
    BY <1>1 DEF IInv, PublishedKept, Whole
  <2> QED
    BY <1>1, <1>3, <1>6, <2>1 DEF IInv, Exclusion, TypeOK, lock
<1> QED
  BY <1>7, <1>8, <1>9, <1>10, <1>11, <1>12 DEF IInv, Files

LEMMA SwapStep == ASSUME IInv, NEW p \in Procs, Swap(p)
                 PROVE  IInv'
<1> USE DEF IInv, Swap, Step, files, lock
<1>0. job' \in [Procs -> Job]
  BY DEF TypeOK
<1>1. TypeOK'
  BY <1>0, PublishAssumption DEF TypeOK, Inside, Ended, Jobs, Publishing, Owning
<1>2. Files'
  BY DEF Files, PointerWhole, PublishedKept, CurrentPublished, DirsFaithful, Matches, Whole, Faithful,
         TypeOK, Jobs, Owners, Exclusion, Publishing, Early, Owning, Inside
<1>3. Jobs'
  BY DEF Jobs, TypeOK, Publishing, Reading, Early, Owning, Faithful, Ended
<1>4. Owners'
  BY DEF Owners, TypeOK, Publishing, Early, Owning, Reading, Ended
<1>5. Made'
  BY DEF Made, Owners, TypeOK, Publishing, Early, Owning, Reading, Ended
<1>6. Exclusion'
  BY DEF Exclusion, Owners, TypeOK, Inside, Early, Owning, Ended
<1> QED
  BY <1>1, <1>2, <1>3, <1>4, <1>5, <1>6 DEF Files

LEMMA RemoveStep == ASSUME IInv, NEW p \in Procs, Remove(p)
                   PROVE  IInv'
<1> USE DEF IInv, Remove, Step, files, lock
<1>0. job' \in [Procs -> Job]
  BY DEF TypeOK
<1>1. TypeOK'
  BY <1>0, PublishAssumption DEF TypeOK, Inside, Ended
<1>2. Files'
  BY DEF Files, PointerWhole, PublishedKept, CurrentPublished, DirsFaithful, Matches, Whole, Faithful,
         TypeOK, Jobs, Owners, Exclusion, Publishing, Early, Owning, Inside
<1>3. Jobs'
  BY DEF Jobs, TypeOK, Publishing, Reading, Early, Owning, Faithful, Ended
<1>4. Owners'
  BY DEF Owners, TypeOK, Publishing, Early, Owning, Reading, Ended
<1>5. Made'
  <2>1. DOMAIN dirs' = DOMAIN dirs /\ \A id \in DOMAIN dirs : dirs'[id].by = dirs[id].by
    BY DEF TypeOK
  <2>2. \A q \in Procs : pc'[q] = IF q = p THEN "rmdir" ELSE pc[q]
    BY DEF TypeOK
  <2>3. \A id \in DOMAIN dirs : dirs[id].by \in Procs
    BY DEF TypeOK
  <2>4. job' = job /\ current' = current /\ pc[p] = "remove"
    OBVIOUS
  <2> QED
    BY <2>1, <2>2, <2>3, <2>4 DEF Made, Publishing, Early, Owning, Reading
<1>6. Exclusion'
  BY DEF Exclusion, Owners, TypeOK, Inside, Early, Owning, Ended
<1> QED
  BY <1>1, <1>2, <1>3, <1>4, <1>5, <1>6 DEF Files

LEMMA RmdirStep == ASSUME IInv, NEW p \in Procs, Rmdir(p)
                  PROVE  IInv'
<1> USE DEF IInv, Rmdir, Step, files, lock, Drop
<1>0. job' \in [Procs -> Job]
  BY DEF TypeOK
<1>1. TypeOK'
  BY <1>0, PublishAssumption DEF TypeOK, Inside, Ended
<1>2. Files'
  BY DEF Files, PointerWhole, PublishedKept, CurrentPublished, DirsFaithful, Matches, Whole, Faithful,
         TypeOK, Jobs, Owners, Exclusion, Publishing, Early, Owning, Inside
<1>3. Jobs'
  BY DEF Jobs, TypeOK, Publishing, Reading, Early, Owning, Faithful, Ended
<1>4. Owners'
  BY DEF Owners, TypeOK, Publishing, Early, Owning, Reading, Ended
<1>5. Made'
  BY DEF Made, Owners, TypeOK, Publishing, Early, Owning, Reading, Ended
<1>6. Exclusion'
  BY DEF Exclusion, Owners, TypeOK, Inside, Early, Owning, Ended
<1> QED
  BY <1>1, <1>2, <1>3, <1>4, <1>5, <1>6 DEF Files

LEMMA WriteAuditStep == ASSUME IInv, NEW g \in Golds, WriteAudit(g)
                        PROVE  IInv'
<1> USE DEF IInv, WriteAudit, lock
<1>1. TypeOK'
  BY DEF TypeOK
<1>2. Files'
  BY SameFiles DEF Files
<1>3. Jobs' /\ Owners' /\ Made' /\ Exclusion'
  BY DEF Jobs, Owners, Made, Exclusion, Faithful
<1> QED
  BY <1>1, <1>2, <1>3 DEF Files

LEMMA Stutter == ASSUME IInv, UNCHANGED vars
                 PROVE  IInv'
<1> USE DEF IInv, vars, files, lock
<1>1. TypeOK'
  BY DEF TypeOK
<1>2. Files'
  BY SameFiles DEF Files
<1>3. Jobs' /\ Owners' /\ Made' /\ Exclusion'
  BY DEF Jobs, Owners, Made, Exclusion, Faithful
<1> QED
  BY <1>1, <1>2, <1>3 DEF Files

-----------------------------------------------------------------------------
(* The theorems.                                                            *)

LEMMA CommandNext ==
  ASSUME IInv, NEW p \in Procs,
         \/ \E g \in Golds : Generate(p, g)
         \/ \E kind \in {"promote", "load"}, strict \in BOOLEAN : ReadPointer(p, kind, strict)
         \/ \E id \in DOMAIN dirs : Name(p, id)
         \/ Resolve(p) \/ Load(p) \/ Validate(p) \/ CopyCandidate(p) \/ CommandFails(p)
  PROVE  IInv'
BY GenerateStep, ReadPointerStep, NameStep, ResolveStep, LoadStep, ValidateStep,
   CopyCandidateStep, CommandFailsStep

LEMMA PublishNext ==
  ASSUME IInv, NEW p \in Procs,
         Publish(p) \/ FileError(p) \/ Interrupt(p) \/ InterruptUnrecorded(p) \/ Crash(p)
  PROVE  IInv'
BY OpenLockStep, FlockStep, MoveStep, NameTakenStep, SwapStep, CheckActiveStep, CheckUnreadableStep, RemoveStep,
   RmdirStep, UnlockStep, UnlinkStep, FileErrorStep, InterruptStep, InterruptUnrecordedStep,
   CrashStep DEF Publish

(* The inductive invariant holds for any number of processes and faults.    *)
THEOREM InductiveInvariant == Spec => []IInv
<1>1. IInv /\ [Next]_vars => IInv'
  BY CommandNext, PublishNext, WriteAuditStep, Stutter DEF Next
<1> QED
  BY <1>1, InitIInv, PTL DEF Spec

(* Types, and locks that are held only inside the block they protect.       *)
THEOREM TypeCorrect == Spec => []TypeOK
<1>1. IInv => TypeOK
  BY DEF IInv
<1> QED
  BY <1>1, InductiveInvariant, PTL

(* CURRENT always names a whole release with the recorded contents, with    *)
(* any number of publishers that the lock fails to exclude.                 *)
THEOREM PointerNamesWholeRelease == Spec => []PointerWhole
<1>1. IInv => PointerWhole
  BY DEF IInv
<1> QED
  BY <1>1, InductiveInvariant, PTL

(* While the lock has excluded, no published release has been removed.      *)
THEOREM ReleasesAreKept == Spec => []PublishedKept
<1>1. IInv => PublishedKept
  BY DEF IInv
<1> QED
  BY <1>1, InductiveInvariant, PTL

(* An approved release has its candidate's rows and an audit of these rows. *)
THEOREM ApprovalIsFaithful == Spec => []ApprovedFaithful
<1>1. IInv => ApprovedFaithful
  BY DEF IInv, DirsFaithful, Faithful, ApprovedFaithful
<1> QED
  BY <1>1, InductiveInvariant, PTL

(* A publication that failed by an error has left no directory.             *)
THEOREM ErrorsLeaveNothing == Spec => []FailedLeavesNothing
<1>1. IInv => FailedLeavesNothing
  BY DEF IInv, Made, FailedLeavesNothing
<1> QED
  BY <1>1, InductiveInvariant, PTL

-----------------------------------------------------------------------------
(* What a strict reader has read.  An id shows its release's stage, so the  *)
(* stage that was checked when the pointer was read is that of the rows     *)
(* that are read later.                                                     *)

StagesOfFiles ==
  /\ \A id \in DOMAIN dirs : dirs[id].rel.stage = id.stage
  /\ current # NoPointer => current.rel.stage = current.id.stage

StagesOfJobs ==
  \A p \in Procs :
    /\ pc[p] \in Publishing => job[p].id.stage = job[p].rel.stage
    /\ pc[p] \in {"resolve", "load"} /\ job[p].kind = "load" /\ job[p].strict =>
         job[p].ptr.id.stage = "approved"

StageInv == StagesOfFiles /\ StagesOfJobs /\ AuditedOnly

LEMMA StagesOfFilesKept ==
  ASSUME IInv, StageInv, [Next]_vars
  PROVE  StagesOfFiles'
<1> USE DEF StageInv
<1>1. ASSUME UNCHANGED <<dirs, current>> PROVE StagesOfFiles'
  BY <1>1 DEF StagesOfFiles
<1>2. ASSUME NEW p \in Procs, Move(p) \/ InterruptUnrecorded(p) PROVE StagesOfFiles'
  <2>1. /\ pc[p] = "move" /\ current' = current /\ job[p].id \notin DOMAIN dirs
        /\ dirs' = Put(dirs, job[p].id, [rel |-> job[p].rel, by |-> p, whole |-> TRUE])
    BY <1>2 DEF Move, InterruptUnrecorded, Step
  <2>2. job[p].id.stage = job[p].rel.stage
    BY <2>1 DEF StagesOfJobs, Publishing, Early
  <2>3. /\ DOMAIN dirs' = DOMAIN dirs \cup {job[p].id} /\ dirs'[job[p].id].rel = job[p].rel
        /\ \A x \in DOMAIN dirs : dirs'[x] = dirs[x]
    BY <2>1 DEF Put
  <2> QED
    BY <2>1, <2>2, <2>3 DEF StagesOfFiles
<1>3. ASSUME NEW p \in Procs, Swap(p) PROVE StagesOfFiles'
  BY <1>3 DEF Swap, Step, StagesOfFiles, StagesOfJobs, Publishing, Owning
<1>4. ASSUME NEW p \in Procs, Remove(p) PROVE StagesOfFiles'
  <2>1. current' = current /\ DOMAIN dirs' = DOMAIN dirs
    BY <1>4 DEF Remove
  <2>2. \A x \in DOMAIN dirs : dirs'[x].rel = dirs[x].rel
    BY <1>4 DEF Remove, IInv, TypeOK
  <2> QED
    BY <2>1, <2>2 DEF StagesOfFiles
<1>5. ASSUME NEW p \in Procs, Rmdir(p) PROVE StagesOfFiles'
  BY <1>5 DEF Rmdir, Drop, StagesOfFiles
<1>6. ASSUME NEW p \in Procs, Publish(p) PROVE StagesOfFiles'
  BY <1>1, <1>2, <1>3, <1>4, <1>5, <1>6
     DEF Publish, OpenLock, Flock, NameTaken, CheckActive, CheckUnreadable, Unlock, Unlink, files
<1>7. ASSUME NEW p \in Procs, FileError(p) \/ Interrupt(p) \/ Crash(p) PROVE StagesOfFiles'
  BY <1>1, <1>7 DEF FileError, Interrupt, Crash, files
<1>8. ASSUME NEW p \in Procs,
             \/ \E g \in Golds : Generate(p, g)
             \/ \E kind \in {"promote", "load"}, strict \in BOOLEAN : ReadPointer(p, kind, strict)
             \/ \E id \in DOMAIN dirs : Name(p, id)
             \/ Resolve(p) \/ Load(p) \/ Validate(p) \/ CopyCandidate(p) \/ CommandFails(p)
      PROVE  StagesOfFiles'
  BY <1>1, <1>8 DEF Generate, ReadPointer, Name, Resolve, Load, Validate, CopyCandidate,
     CommandFails, files
<1> QED
  BY <1>1, <1>2, <1>6, <1>7, <1>8 DEF Next, WriteAudit, vars, files

(* A step of p that leaves it with job j at stage to.                       *)
LEMMA OneJob ==
  ASSUME TypeOK, StagesOfJobs, AuditedOnly, NEW p \in Procs, NEW to, NEW j,
         pc' = [pc EXCEPT ![p] = to], job' = [job EXCEPT ![p] = j],
         to \in Publishing => j.id.stage = j.rel.stage,
         to \in {"resolve", "load"} /\ j.kind = "load" /\ j.strict => j.ptr.id.stage = "approved",
         to = "done" /\ j.kind = "load" /\ j.strict => j.rel.audit = j.rel.gold
  PROVE  StagesOfJobs' /\ AuditedOnly'
BY DEF TypeOK, StagesOfJobs, AuditedOnly

LEMMA CommandStages ==
  ASSUME IInv, StageInv, NEW p \in Procs,
         \/ \E g \in Golds : Generate(p, g)
         \/ \E kind \in {"promote", "load"}, strict \in BOOLEAN : ReadPointer(p, kind, strict)
         \/ \E id \in DOMAIN dirs : Name(p, id)
         \/ Resolve(p) \/ Load(p) \/ Validate(p) \/ CopyCandidate(p) \/ CommandFails(p)
  PROVE  StagesOfJobs' /\ AuditedOnly'
<1> USE DEF StageInv, IInv
<1>0. job[p] \in Job /\ job \in [Procs -> Job]
  BY DEF TypeOK
<1> DEFINE Kept == StagesOfJobs' /\ AuditedOnly'
<1>1. ASSUME NEW g \in Golds, Generate(p, g) PROVE Kept
  <2>1. PICK id \in ReleaseIds(Candidate(g), p) :
          job' = [job EXCEPT ![p] = [NoJob EXCEPT !.kind = "generate", !.rel = Candidate(g), !.id = id]]
    BY <1>1 DEF Generate
  <2> DEFINE j == [NoJob EXCEPT !.kind = "generate", !.rel = Candidate(g), !.id = id]
  <2>2. j.kind = "generate" /\ j.id.stage = j.rel.stage
    BY DEF NoJob, ReleaseIds
  <2>3. pc' = [pc EXCEPT ![p] = "open"]
    BY <1>1 DEF Generate, Starts, Step
  <2> HIDE DEF j
  <2> QED
    BY <2>1, <2>2, <2>3, OneJob DEF j
<1>2. ASSUME NEW kind \in {"promote", "load"}, NEW strict \in BOOLEAN, ReadPointer(p, kind, strict)
      PROVE  Kept
  <2> DEFINE j == [NoJob EXCEPT !.kind = kind, !.ptr = current, !.strict = strict]
  <2>1. j.ptr = current /\ j.strict = strict
    BY DEF NoJob
  <2>2. strict => current.id.stage = "approved"
    BY <1>2 DEF ReadPointer, Refused, StagesOfFiles
  <2>3. pc' = [pc EXCEPT ![p] = "resolve"] /\ job' = [job EXCEPT ![p] = j]
    BY <1>2 DEF ReadPointer, Starts, Step
  <2> HIDE DEF j
  <2> QED
    BY <2>1, <2>2, <2>3, OneJob DEF Publishing, Early, Owning
<1>3. ASSUME NEW id \in DOMAIN dirs, Name(p, id) PROVE Kept
  <2> DEFINE j == [NoJob EXCEPT !.kind = "promote", !.ptr.id = id]
  <2>1. pc' = [pc EXCEPT ![p] = "promote"] /\ job' = [job EXCEPT ![p] = j]
    BY <1>3 DEF Name, Starts, Step
  <2> HIDE DEF j
  <2> QED
    BY <2>1, OneJob DEF Publishing, Early, Owning
<1>4. CASE Resolve(p)
  <2>1. pc[p] = "resolve" /\ pc' = [pc EXCEPT ![p] = job[p].kind] /\ job' = [job EXCEPT ![p] = job[p]]
    BY <1>0, <1>4 DEF Resolve, Step
  <2>2. job[p].kind \in {"promote", "load"}
    BY <2>1 DEF Jobs
  <2> QED
    BY <2>1, <2>2, OneJob DEF Publishing, Early, Owning, StagesOfJobs
<1>5. CASE Load(p)
  <2> DEFINE id == job[p].ptr.id
             j  == [job[p] EXCEPT !.rel = dirs[id].rel, !.ptr = NoPointer]
  <2>1. /\ pc[p] = "load" /\ pc' = [pc EXCEPT ![p] = "done"] /\ job' = [job EXCEPT ![p] = j]
        /\ id \in DOMAIN dirs
    BY <1>0, <1>5 DEF Load, Step, Whole
  <2>2. j.rel = dirs[id].rel /\ j.kind = job[p].kind /\ j.strict = job[p].strict
    BY <1>0 DEF Job
  <2>3. job[p].kind = "load" /\ job[p].strict => dirs[id].rel.stage = "approved"
    BY <2>1 DEF StagesOfJobs, StagesOfFiles
  <2>4. dirs[id].rel.stage = "approved" => dirs[id].rel.audit = dirs[id].rel.gold
    BY <2>1 DEF DirsFaithful, Faithful
  <2> HIDE DEF j, id
  <2> QED
    BY <2>1, <2>2, <2>3, <2>4, OneJob DEF Publishing, Early, Owning
<1>6. CASE Validate(p)
  <2>1. pc' = [pc EXCEPT ![p] = "copy"] /\ job' = [job EXCEPT ![p] = job'[p]]
    BY <1>0, <1>6 DEF Validate, Step
  <2> QED
    BY <2>1, OneJob DEF Publishing, Early, Owning
<1>7. CASE CopyCandidate(p)
  <2>1. PICK id \in ReleaseIds(job[p].rel, p) :
          job' = [job EXCEPT ![p].rel = job[p].rel, ![p].id = id, ![p].ptr = NoPointer]
    BY <1>7 DEF CopyCandidate, Copied
  <2> DEFINE j == [job[p] EXCEPT !.rel = job[p].rel, !.id = id, !.ptr = NoPointer]
  <2>2. job' = [job EXCEPT ![p] = j] /\ pc' = [pc EXCEPT ![p] = "open"]
    BY <1>0, <1>7, <2>1 DEF CopyCandidate, Step
  <2>3. j.id.stage = j.rel.stage
    BY <1>0 DEF Job, ReleaseIds
  <2> HIDE DEF j
  <2> QED
    BY <2>2, <2>3, OneJob
<1>8. CASE CommandFails(p)
  <2>1. pc' = [pc EXCEPT ![p] = "failed"] /\ job' = [job EXCEPT ![p] = NoJob]
    BY <1>8 DEF CommandFails
  <2> QED
    BY <2>1, OneJob DEF Publishing, Early, Owning
<1> QED
  BY <1>1, <1>2, <1>3, <1>4, <1>5, <1>6, <1>7, <1>8

LEMMA PublishStages ==
  ASSUME IInv, StageInv, NEW p \in Procs,
         Publish(p) \/ FileError(p) \/ Interrupt(p) \/ InterruptUnrecorded(p) \/ Crash(p)
  PROVE  StagesOfJobs' /\ AuditedOnly'
<1> USE DEF StageInv, IInv
<1>0. job[p] \in Job /\ job \in [Procs -> Job]
  BY DEF TypeOK
<1>1. ASSUME NEW to, NEW j, pc[p] \in Publishing, to # "done" \/ j.kind = "none",
             to \notin {"resolve", "load"},
             to \in Publishing => j.id = job[p].id /\ j.rel = job[p].rel,
             pc' = [pc EXCEPT ![p] = to], job' = [job EXCEPT ![p] = j]
      PROVE  StagesOfJobs' /\ AuditedOnly'
  <2>1. job[p].id.stage = job[p].rel.stage
    BY <1>1 DEF StagesOfJobs
  <2> QED
    BY <1>1, <2>1, OneJob
<1>2. CASE OpenLock(p) \/ Flock(p) \/ Swap(p) \/ CheckActive(p) \/ CheckUnreadable(p) \/ Remove(p) \/ Rmdir(p) \/ Unlock(p)
  <2>1. PICK to \in Publishing : pc' = [pc EXCEPT ![p] = to]
    BY <1>2 DEF OpenLock, Flock, Swap, CheckActive, CheckUnreadable, Remove, Rmdir, Unlock, Step, Publishing, Early, Owning
  <2>2. pc[p] \in Publishing /\ job' = [job EXCEPT ![p] = job[p]]
    BY <1>0, <1>2 DEF OpenLock, Flock, Swap, CheckActive, CheckUnreadable, Remove, Rmdir, Unlock, Step, Publishing, Early, Owning
  <2>3. to # "done" /\ to \notin {"resolve", "load"}
    BY DEF Publishing, Early, Owning
  <2> QED
    BY <1>1, <2>1, <2>2, <2>3
<1>3. CASE Move(p) \/ NameTaken(p) \/ FileError(p) \/ Interrupt(p) \/ InterruptUnrecorded(p)
  <2>1. PICK to \in Publishing : pc' = [pc EXCEPT ![p] = to]
    BY <1>3 DEF Move, NameTaken, FileError, Interrupt, InterruptUnrecorded, Step, Publishing, Early, Owning
  <2>2. pc[p] \in Publishing
    BY <1>3 DEF Move, NameTaken, FileError, Interrupt, InterruptUnrecorded, Step, Publishing, Early, Owning
  <2>3. PICK j \in {[job[p] EXCEPT !.created = TRUE]} \cup
                    {[job[p] EXCEPT !.how = how] : how \in {"error", "interrupt"}} :
          job' = [job EXCEPT ![p] = j]
    BY <1>0, <1>3 DEF Move, NameTaken, FileError, Interrupt, InterruptUnrecorded
  <2>5. j.id = job[p].id /\ j.rel = job[p].rel
    BY <1>0 DEF Job
  <2>4. to # "done" /\ to \notin {"resolve", "load"}
    BY DEF Publishing, Early, Owning
  <2> QED
    BY <1>1, <2>1, <2>2, <2>3, <2>4, <2>5
<1>4. CASE Unlink(p)
  <2>1. PICK to \in {"done", "failed"} : pc' = [pc EXCEPT ![p] = to]
    BY <1>4 DEF Unlink, Step
  <2>2. job' = [job EXCEPT ![p] = Outcome(p)] /\ pc[p] \in Publishing
    BY <1>4 DEF Unlink, Step, Publishing
  <2>3. Outcome(p).kind = "none"
    BY DEF Outcome, NoJob
  <2>4. to \notin Publishing \cup {"resolve", "load"}
    BY DEF Publishing, Early, Owning
  <2> QED
    BY <1>1, <2>1, <2>2, <2>3, <2>4
<1>5. CASE Crash(p)
  <2>1. pc' = [pc EXCEPT ![p] = "crashed"] /\ job' = [job EXCEPT ![p] = NoJob]
    BY <1>5 DEF Crash
  <2> QED
    BY <2>1, OneJob DEF Publishing, Early, Owning
<1> QED
  BY <1>2, <1>3, <1>4, <1>5 DEF Publish

LEMMA StageInvKept ==
  ASSUME IInv, StageInv, [Next]_vars
  PROVE  StageInv'
<1>1. ASSUME UNCHANGED <<pc, job>> PROVE StagesOfJobs' /\ AuditedOnly'
  BY <1>1 DEF StageInv, StagesOfJobs, AuditedOnly
<1>2. StagesOfJobs' /\ AuditedOnly'
  BY <1>1, CommandStages, PublishStages DEF Next, WriteAudit, vars
<1> QED
  BY <1>2, StagesOfFilesKept DEF StageInv

(* A reader that requires approval is given audited rows only, however the  *)
(* pointer moves while it reads (load_current_golden_rows).                 *)
THEOREM OnlyAuditedRows == Spec => []AuditedOnly
<1>1. Init => StageInv
  BY DEF Init, StageInv, StagesOfFiles, StagesOfJobs, AuditedOnly, Publishing, Early, Owning
<1>2. IInv /\ StageInv /\ [Next]_vars => IInv' /\ StageInv'
  BY StageInvKept, CommandNext, PublishNext, WriteAuditStep, Stutter DEF Next
<1>3. Spec => [](IInv /\ StageInv)
  BY <1>1, <1>2, InitIInv, PTL DEF Spec
<1>4. StageInv => AuditedOnly
  BY DEF StageInv
<1> QED
  BY <1>3, <1>4, PTL
=============================================================================
