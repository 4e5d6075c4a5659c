---------------------------- MODULE ArtifactStore ----------------------------
(***************************************************************************)
(* The content-addressed artifact store: processes stage a file, check and *)
(* commit it, and publish its directory by one rename.  They meet only in  *)
(* objects/.  A process may fail or die at any step, which leaves its      *)
(* directory behind under a name nobody else uses; a power loss stops      *)
(* them all and may take whatever no fsync has covered.                    *)
(*                                                                         *)
(* Every hash has a bucket directory of its own.  A file is never called   *)
(* manifest.json, and nobody writes below objects/ but commit.             *)
(***************************************************************************)
EXTENDS FiniteSets

CONSTANTS
    Procs,
    Hashes,        \* content hashes
    Names,         \* file names
    NewBuckets,    \* the hashes whose bucket is created by commit
    Nothing        \* no directory

ASSUME BucketsAssumption == NewBuckets \subseteq Hashes

VARIABLES
    objects,       \* objects[h]: the directory published under h
    anchored,      \* the hashes whose bucket was flushed after they were published
    own,           \* own[p]: the directory p is preparing
    pc,            \* pc[p]: how far it has come
    references     \* history: the ArtifactRefs that commit returned

vars == <<objects, anchored, own, pc, references>>

\* A file and its manifest, and their entries in the directory.
Parts == {"file", "file entry", "manifest", "manifest entry"}

\* synced: the parts a power loss cannot take; altered: the file was written to
\* after it was staged.
Directories == [hash : Hashes, name : Names, parts : SUBSET Parts, synced : SUBSET Parts,
                altered : BOOLEAN]

ASSUME NothingAssumption == Nothing \notin Directories

Points == {"idle", "written", "staged", "hashed", "loaded", "clear", "moved", "described",
           "sealed", "published", "anchored"}

References == [hash : Hashes, name : Names, by : Procs]

Init ==
  /\ objects = [h \in Hashes |-> Nothing]
  /\ anchored = {}
  /\ own = [p \in Procs |-> Nothing]
  /\ pc = [p \in Procs |-> "idle"]
  /\ references = {}

Exists(h) == objects[h] # Nothing

\* resolve: the name of the file, or why there is none.
Resolve(h) ==
  IF ~Exists(h) THEN "absent"
  ELSE IF "manifest entry" \notin objects[h].parts THEN "absent"
  ELSE IF objects[h].altered \/ objects[h].parts # Parts THEN "corrupt"
  ELSE objects[h].name

\* Process p comes to the next point with this directory.
Advance(p, from, to, directory) ==
  /\ pc[p] = from
  /\ pc' = [pc EXCEPT ![p] = to]
  /\ own' = [own EXCEPT ![p] = directory]

\* The call of p ends; what it leaves on disk is never looked at again.
Leave(p) ==
  /\ pc' = [pc EXCEPT ![p] = "idle"]
  /\ own' = [own EXCEPT ![p] = Nothing]
  /\ UNCHANGED <<objects, anchored, references>>

-----------------------------------------------------------------------------
(* stage_bytes *)

Stage(p, h, n) ==
  /\ ~Exists(h)
  /\ Advance(p, "idle", "written",
             [hash |-> h, name |-> n, parts |-> {"file", "file entry"}, synced |-> {},
              altered |-> FALSE])
  /\ UNCHANGED <<objects, anchored, references>>

SyncStaged(p) ==
  /\ Advance(p, "written", "staged", [own[p] EXCEPT !.synced = {"file", "file entry"}])
  /\ UNCHANGED <<objects, anchored, references>>

\* Whoever knows the staged path writes to the file.
Alter(p) ==
  /\ pc[p] \notin {"idle", "written", "published", "anchored"}
  /\ own' = [own EXCEPT ![p].altered = TRUE, ![p].synced = @ \ {"file"}]
  /\ UNCHANGED <<objects, anchored, pc, references>>

-----------------------------------------------------------------------------
(* commit *)

CheckHash(p) ==
  /\ Advance(p, "staged", "hashed", own[p])
  /\ ~own[p].altered
  /\ UNCHANGED <<objects, anchored, references>>

HashChanged(p) == pc[p] = "staged" /\ own[p].altered /\ Leave(p)

Load(p) ==
  /\ Advance(p, "hashed", "loaded", own[p])
  /\ UNCHANGED <<objects, anchored, references>>

LoaderRejects(p) == pc[p] = "hashed" /\ Leave(p)

\* The loader raises: the staged file stays, and commit may be called again.
LoaderRaises(p) ==
  /\ Advance(p, "hashed", "staged", own[p])
  /\ UNCHANGED <<objects, anchored, references>>

CheckAbsent(p) ==
  /\ Advance(p, "loaded", "clear", own[p])
  /\ ~Exists(own[p].hash)
  /\ UNCHANGED <<objects, anchored, references>>

AlreadyExists(p) == pc[p] = "loaded" /\ Exists(own[p].hash) /\ Leave(p)

\* The directory moves into the bucket, under a temporary name.
Move(p) ==
  /\ Advance(p, "clear", "moved", own[p])
  /\ UNCHANGED <<objects, anchored, references>>

Describe(p) ==
  /\ Advance(p, "moved", "described",
             [own[p] EXCEPT !.parts = Parts, !.synced = @ \cup {"manifest"}])
  /\ UNCHANGED <<objects, anchored, references>>

\* Mutant of Seal: the directory is not flushed.
SealUnsynced(p) ==
  /\ Advance(p, "described", "sealed", own[p])
  /\ UNCHANGED <<objects, anchored, references>>

\* _fsync_directory of the temporary directory.
Seal(p) ==
  /\ Advance(p, "described", "sealed", [own[p] EXCEPT !.synced = @ \cup {"manifest entry"}])
  /\ UNCHANGED <<objects, anchored, references>>

\* Mutant of Vacant: the rename replaces what is there.
VacantOrNot(h) == TRUE

\* os.replace onto a directory that is not empty fails.
Vacant(h) == ~Exists(h)

Publish(p) ==
  /\ Advance(p, "sealed", "published", own[p])
  /\ Vacant(own[p].hash)
  /\ objects' = [objects EXCEPT ![own[p].hash] = own[p]]
  /\ anchored' = anchored \ {own[p].hash}
  /\ UNCHANGED references

PublishRefused(p) == pc[p] = "sealed" /\ ~Vacant(own[p].hash) /\ Leave(p)

\* _fsync_directory of the bucket.
Anchor(p) ==
  /\ Advance(p, "published", "anchored", own[p])
  /\ anchored' = anchored \cup {own[p].hash}
  /\ UNCHANGED <<objects, references>>

\* Mutant of Intact: the published file is not read again.
Unread(p) == TRUE

\* The last look at the published file.
Intact(p) == ~objects[own[p].hash].altered

\* Mutant of Reference: two arguments of ArtifactRef are swapped.
ReferenceSwapped(p) == [hash |-> own[p].name, name |-> own[p].hash, by |-> p]

Reference(p) == [hash |-> own[p].hash, name |-> own[p].name, by |-> p]

Return(p) ==
  /\ pc[p] = "anchored"
  /\ Intact(p)
  /\ references' = references \cup {Reference(p)}
  /\ pc' = [pc EXCEPT ![p] = "idle"]
  /\ own' = [own EXCEPT ![p] = Nothing]
  /\ UNCHANGED <<objects, anchored>>

VerificationFails(p) == pc[p] = "anchored" /\ ~Intact(p) /\ Leave(p)

-----------------------------------------------------------------------------

\* An operation raises, or the process dies.
Fail(p) == pc[p] # "idle" /\ Leave(p)

\* The parts of published directories that no fsync has covered.
Unsynced == {u \in Hashes \X Parts :
               Exists(u[1]) /\ u[2] \in objects[u[1]].parts \ objects[u[1]].synced}

\* The entry of a new bucket is never flushed, nor is that of an object before
\* its bucket is.
PowerLoss ==
  \E gone \in SUBSET (NewBuckets \cup (Hashes \ anchored)), torn \in SUBSET Unsynced :
    LET Left(h) == {x \in objects[h].parts : <<h, x>> \notin torn}
    IN  /\ objects' = [h \in Hashes |->
                         IF ~Exists(h) \/ h \in gone THEN Nothing
                         ELSE [objects[h] EXCEPT !.parts = Left(h), !.synced = Left(h)]]
        /\ anchored' = {h \in Hashes : objects'[h] # Nothing}
        /\ own' = [p \in Procs |-> Nothing]
        /\ pc' = [p \in Procs |-> "idle"]
        /\ UNCHANGED references

Step(p) ==
  \/ \E h \in Hashes, n \in Names : Stage(p, h, n)
  \/ SyncStaged(p) \/ Alter(p)
  \/ CheckHash(p) \/ HashChanged(p)
  \/ Load(p) \/ LoaderRejects(p) \/ LoaderRaises(p)
  \/ CheckAbsent(p) \/ AlreadyExists(p)
  \/ Move(p) \/ Describe(p) \/ Seal(p)
  \/ Publish(p) \/ PublishRefused(p)
  \/ Anchor(p) \/ Return(p) \/ VerificationFails(p)
  \/ Fail(p)

Next == (\E p \in Procs : Step(p)) \/ PowerLoss

Spec == Init /\ [][Next]_vars

-----------------------------------------------------------------------------
(* Properties *)

\* Types of the directories, published or in preparation.
TypeOK ==
  /\ objects \in [Hashes -> Directories \cup {Nothing}]
  /\ anchored \subseteq Hashes
  /\ own \in [Procs -> Directories \cup {Nothing}]
  /\ pc \in [Procs -> Points]
  /\ references \subseteq References

\* A returned reference resolves to its file for good, whoever else commits the
\* same content and whatever fails, unless a power loss takes a bucket that
\* commit has created and never flushed
\* (test_artifact_publish_is_immutable_and_loadable).
ReferencesStand ==
  \A r \in references : r.hash \notin NewBuckets => Resolve(r.hash) = r.name

\* Of all the commits of one content, at most one returns a reference.
PublishedOnce ==
  \A r, q \in references : (r.hash = q.hash /\ r.hash \notin NewBuckets) => r = q

\* What is visible under objects/ is complete, also after a power loss: unless
\* somebody wrote to the staged file behind the store's back, it resolves.
NothingTorn ==
  \A h \in Hashes : (Exists(h) /\ ~objects[h].altered) => Resolve(h) \in Names

=============================================================================
