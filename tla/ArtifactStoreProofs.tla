------------------------- MODULE ArtifactStoreProofs -------------------------
(***************************************************************************)
(* What the artifact store shows is complete, and a reference it returned  *)
(* stands, for any number of processes, contents and names; a probe only   *)
(* passes what was measured, and reports rest on records that passed, for  *)
(* any number of runs and reports and whatever their arms have given.      *)
(***************************************************************************)
EXTENDS ArtifactStore, EvidenceReport, ProbeJudgement, TLAPS

-----------------------------------------------------------------------------
(* The store *)

Showing == {"published", "anchored"}

\* What a process has flushed before it comes to a point, and what it may
\* still claim about the object it has published.
Prepared(p) ==
  /\ pc[p] # "idle" => own[p] \in Directories
  /\ pc[p] \notin {"idle", "written"} =>
       "file entry" \in own[p].synced /\ (own[p].altered \/ "file" \in own[p].synced)
  /\ pc[p] \in {"described", "sealed"} \cup Showing =>
       own[p].parts = Parts /\ "manifest" \in own[p].synced
  /\ pc[p] \in {"sealed"} \cup Showing => "manifest entry" \in own[p].synced
  /\ pc[p] \in Showing =>
       /\ objects[own[p].hash] = own[p]
       /\ \A r \in references : r.hash \in NewBuckets \/ r.hash # own[p].hash
  /\ pc[p] = "anchored" => own[p].hash \in anchored

\* No two processes have published the same object.
OneOwner(p, q) ==
  (p # q /\ pc[p] \in Showing /\ pc[q] \in Showing) => own[p].hash # own[q].hash

\* An object nobody wrote to has all its parts, flushed.
Complete(h) ==
  (Exists(h) /\ ~objects[h].altered) => objects[h].parts = Parts /\ objects[h].synced = Parts

\* A reference is to such an object, in a flushed bucket.
Grounded(r) ==
  r.hash \notin NewBuckets =>
    /\ Exists(r.hash) /\ ~objects[r.hash].altered
    /\ objects[r.hash].name = r.name /\ r.hash \in anchored

StoreInv ==
  /\ TypeOK
  /\ \A p \in Procs : Prepared(p)
  /\ \A p, q \in Procs : OneOwner(p, q)
  /\ \A h \in Hashes : Complete(h)
  /\ \A r \in references : Grounded(r)
  /\ PublishedOnce

\* A process whose directory is left alone has prepared what it had.
LEMMA OthersStay ==
  ASSUME NEW q \in Procs, Prepared(q), pc'[q] = pc[q], own'[q] = own[q],
         UNCHANGED <<objects, anchored>>,
         pc[q] \in Showing =>
           \A r \in references' \ references : r.hash \in NewBuckets \/ r.hash # own[q].hash
  PROVE  Prepared(q)'
<1>1. /\ pc'[q] # "idle" => own'[q] \in Directories
      /\ pc'[q] \notin {"idle", "written"} => "file entry" \in own'[q].synced
      /\ pc'[q] \in {"described", "sealed"} \cup Showing =>
           own'[q].parts = Parts /\ "manifest" \in own'[q].synced
      /\ pc'[q] \in {"sealed"} \cup Showing => "manifest entry" \in own'[q].synced
      /\ pc'[q] = "anchored" => own'[q].hash \in anchored'
  BY DEF Prepared, Showing
<1>2. pc'[q] \notin {"idle", "written"} =>
        own'[q].altered \/ "file" \in own'[q].synced
  BY DEF Prepared
<1>3. pc'[q] \in Showing =>
       /\ objects'[own'[q].hash] = own'[q]
       /\ \A r \in references' : r.hash \in NewBuckets \/ r.hash # own'[q].hash
  BY DEF Prepared
<1> QED
  BY <1>1, <1>2, <1>3 DEF Prepared

\* A step that changes nothing but the directory of one process.
LEMMA PrivateStep ==
  ASSUME StoreInv, NEW p \in Procs, NEW to \in Points \ Showing,
         NEW d \in Directories \cup {Nothing},
         pc' = [pc EXCEPT ![p] = to], own' = [own EXCEPT ![p] = d],
         UNCHANGED <<objects, anchored, references>>,
         to # "idle" => d \in Directories,
         to \notin {"idle", "written"} =>
           "file entry" \in d.synced /\ (d.altered \/ "file" \in d.synced),
         to \in {"described", "sealed"} => d.parts = Parts /\ "manifest" \in d.synced,
         to = "sealed" => "manifest entry" \in d.synced
  PROVE  StoreInv'
<1>1. TypeOK'
  BY DEF StoreInv, TypeOK
<1>2. ASSUME NEW q \in Procs PROVE Prepared(q)'
  <2>1. CASE q = p
    <3>1. pc'[q] = to /\ own'[q] = d
      BY <2>1 DEF StoreInv, TypeOK
    <3> QED
      BY <3>1 DEF Prepared, Showing
  <2>2. CASE q # p
    <3>1. pc'[q] = pc[q] /\ own'[q] = own[q] /\ Prepared(q)
      BY <2>2 DEF StoreInv, TypeOK
    <3> QED
      BY <3>1, OthersStay
  <2> QED
    BY <2>1, <2>2
<1>3. ASSUME NEW q \in Procs, NEW s \in Procs PROVE OneOwner(q, s)'
  <2>1. OneOwner(q, s)
    BY DEF StoreInv
  <2>2. \A x \in Procs : pc'[x] \in Showing => pc[x] \in Showing /\ own'[x] = own[x]
    BY DEF StoreInv, TypeOK
  <2> QED
    BY <2>1, <2>2 DEF OneOwner
<1>4. (\A h \in Hashes : Complete(h)') /\ (\A r \in references : Grounded(r)') /\ PublishedOnce'
  BY DEF StoreInv, Complete, Exists, Grounded, PublishedOnce
<1> QED
  BY <1>1, <1>2, <1>3, <1>4 DEF StoreInv

\* The rename: the object was absent, so nobody owns it or refers to it.
LEMMA PublishKeeps ==
  ASSUME StoreInv, NEW p \in Procs, Publish(p)
  PROVE  StoreInv'
<1> DEFINE g == own[p].hash
<1>1. /\ pc[p] = "sealed" /\ own[p] \in Directories /\ g \in Hashes /\ ~Exists(g)
      /\ objects' = [objects EXCEPT ![g] = own[p]] /\ anchored' = anchored \ {g}
      /\ pc' = [pc EXCEPT ![p] = "published"] /\ own' = own /\ UNCHANGED references
  BY DEF Publish, Advance, Vacant, StoreInv, Prepared, TypeOK, Directories
<1>2. /\ own[p].parts = Parts
      /\ {"file entry", "manifest", "manifest entry"} \subseteq own[p].synced
      /\ own[p].altered \/ "file" \in own[p].synced
      /\ own[p].synced \subseteq Parts
  BY <1>1 DEF StoreInv, Prepared, Directories
<1>3. own[p].altered \/ own[p].synced = Parts
  BY <1>2 DEF Parts
<1> HIDE DEF g
<1>4. objects'[g] = own[p] /\ \A h \in Hashes : h # g => objects'[h] = objects[h]
  BY <1>1 DEF StoreInv, TypeOK
<1>5. \A r \in references : r.hash \in NewBuckets \/ r.hash # g
  BY <1>1 DEF StoreInv, Grounded
<1>6. \A q \in Procs : pc[q] \in Showing => own[q].hash # g
  BY <1>1, NothingAssumption DEF StoreInv, Prepared, Exists, Showing
<1>7. TypeOK'
  BY <1>1 DEF StoreInv, TypeOK, Points
<1>8. ASSUME NEW q \in Procs PROVE Prepared(q)'
  <2>1. CASE q = p
    <3>1. pc'[q] = "published" /\ own'[q] = own[p] /\ own[p].hash = g
      BY <1>1, <2>1 DEF StoreInv, TypeOK, g
    <3> QED
      BY <1>1, <1>2, <1>4, <1>5, <3>1 DEF Prepared, Showing
  <2>2. CASE q # p
    <3>1. pc'[q] = pc[q] /\ own'[q] = own[q] /\ Prepared(q)
      BY <1>1, <2>2 DEF StoreInv, TypeOK
    <3>2. pc[q] \in Showing => own[q].hash # g /\ own[q].hash \in Hashes
      BY <1>6, <3>1 DEF Prepared, Showing, Directories
    <3> QED
      BY <1>1, <1>4, <3>1, <3>2 DEF Prepared, Showing
  <2> QED
    BY <2>1, <2>2
<1>9. ASSUME NEW q \in Procs, NEW s \in Procs PROVE OneOwner(q, s)'
  <2>1. OneOwner(q, s) /\ \A x \in Procs : x # p => pc'[x] = pc[x]
    BY <1>1 DEF StoreInv, TypeOK
  <2> QED
    BY <1>1, <1>6, <2>1 DEF OneOwner, g
<1>10. ASSUME NEW h \in Hashes PROVE Complete(h)'
  <2>1. Complete(h)
    BY DEF StoreInv
  <2> QED
    BY <1>2, <1>3, <1>4, <2>1 DEF Complete, Exists
<1>11. ASSUME NEW r \in references PROVE Grounded(r)'
  <2>1. Grounded(r) /\ r.hash \in Hashes
    BY DEF StoreInv, TypeOK, References
  <2> QED
    BY <1>1, <1>4, <1>5, <2>1 DEF Grounded, Exists
<1>12. PublishedOnce'
  BY <1>1 DEF StoreInv, PublishedOnce
<1> QED
  BY <1>1, <1>7, <1>8, <1>9, <1>10, <1>11, <1>12 DEF StoreInv

\* The flush of the bucket.
LEMMA AnchorKeeps ==
  ASSUME StoreInv, NEW p \in Procs, Anchor(p)
  PROVE  StoreInv'
<1>1. /\ pc[p] = "published" /\ own[p] \in Directories /\ own[p].hash \in Hashes
      /\ anchored' = anchored \cup {own[p].hash}
      /\ pc' = [pc EXCEPT ![p] = "anchored"] /\ own' = own /\ UNCHANGED <<objects, references>>
  BY DEF Anchor, Advance, StoreInv, Prepared, TypeOK, Directories
<1>2. TypeOK'
  BY <1>1 DEF StoreInv, TypeOK, Points
<1>3. ASSUME NEW q \in Procs PROVE Prepared(q)'
  <2>1. Prepared(q) /\ (q # p => pc'[q] = pc[q]) /\ (q = p => pc'[q] = "anchored")
    BY <1>1 DEF StoreInv, TypeOK
  <2> QED
    BY <1>1, <2>1 DEF Prepared, Showing
<1>4. ASSUME NEW q \in Procs, NEW s \in Procs PROVE OneOwner(q, s)'
  <2>1. OneOwner(q, s) /\ \A x \in Procs : pc'[x] \in Showing => pc[x] \in Showing
    BY <1>1 DEF StoreInv, TypeOK, Showing
  <2> QED
    BY <1>1, <2>1 DEF OneOwner
<1>5. (\A h \in Hashes : Complete(h)') /\ (\A r \in references : Grounded(r)') /\ PublishedOnce'
  BY <1>1 DEF StoreInv, Complete, Exists, Grounded, PublishedOnce
<1> QED
  BY <1>1, <1>2, <1>3, <1>4, <1>5 DEF StoreInv

\* The reference is the first one to an object its process has published.
LEMMA ReturnKeeps ==
  ASSUME StoreInv, NEW p \in Procs, Return(p)
  PROVE  StoreInv'
<1> DEFINE new == Reference(p)
<1>1. /\ pc[p] = "anchored" /\ own[p] \in Directories /\ objects[own[p].hash] = own[p]
      /\ ~own[p].altered /\ own[p].hash \in anchored
      /\ references' = references \cup {new}
      /\ pc' = [pc EXCEPT ![p] = "idle"] /\ own' = [own EXCEPT ![p] = Nothing]
      /\ UNCHANGED <<objects, anchored>>
  BY DEF Return, Intact, StoreInv, Prepared, Showing
<1>2. new \in References /\ new.hash = own[p].hash /\ new.name = own[p].name
  BY <1>1 DEF Reference, References, Directories
<1>3. \A r \in references : r.hash \in NewBuckets \/ r.hash # own[p].hash
  BY <1>1 DEF StoreInv, Prepared, Showing
<1> HIDE DEF new
<1>4. TypeOK'
  BY <1>1, <1>2 DEF StoreInv, TypeOK, Points
<1>5. ASSUME NEW q \in Procs PROVE Prepared(q)'
  <2>1. CASE q = p
    BY <1>1, <2>1 DEF StoreInv, TypeOK, Prepared, Showing
  <2>2. CASE q # p
    <3>1. pc'[q] = pc[q] /\ own'[q] = own[q] /\ Prepared(q)
      BY <1>1, <2>2 DEF StoreInv, TypeOK
    <3>2. pc[q] \in Showing => own[q].hash # own[p].hash
      BY <1>1, <2>2 DEF StoreInv, OneOwner, Showing
    <3> QED
      BY <1>1, <1>2, <3>1, <3>2, OthersStay
  <2> QED
    BY <2>1, <2>2
<1>6. ASSUME NEW q \in Procs, NEW s \in Procs PROVE OneOwner(q, s)'
  <2>1. OneOwner(q, s)
    BY DEF StoreInv
  <2>2. \A x \in Procs : pc'[x] \in Showing => pc[x] \in Showing /\ own'[x] = own[x]
    BY <1>1 DEF StoreInv, TypeOK, Showing
  <2> QED
    BY <2>1, <2>2 DEF OneOwner
<1>7. \A h \in Hashes : Complete(h)'
  BY <1>1 DEF StoreInv, Complete, Exists
<1>8. ASSUME NEW r \in references' PROVE Grounded(r)'
  <2>1. CASE r = new
    BY <1>1, <1>2, <2>1, NothingAssumption DEF Grounded, Exists
  <2>2. CASE r # new
    BY <1>1, <2>2 DEF StoreInv, Grounded, Exists
  <2> QED
    BY <2>1, <2>2
<1>9. PublishedOnce'
  BY <1>1, <1>2, <1>3 DEF StoreInv, PublishedOnce
<1> QED
  BY <1>4, <1>5, <1>6, <1>7, <1>8, <1>9 DEF StoreInv

\* A power loss takes no part of an object nobody wrote to, and no object whose
\* bucket was flushed.
LEMMA PowerLossKeeps ==
  ASSUME StoreInv, PowerLoss
  PROVE  StoreInv'
<1> DEFINE Left(h, torn) == {x \in objects[h].parts : <<h, x>> \notin torn}
<1>1. PICK gone \in SUBSET (NewBuckets \cup (Hashes \ anchored)), torn \in SUBSET Unsynced :
        /\ objects' = [h \in Hashes |->
                         IF ~Exists(h) \/ h \in gone THEN Nothing
                         ELSE [objects[h] EXCEPT !.parts = Left(h, torn),
                                                 !.synced = Left(h, torn)]]
        /\ anchored' = {h \in Hashes : objects'[h] # Nothing}
        /\ own' = [p \in Procs |-> Nothing]
        /\ pc' = [p \in Procs |-> "idle"]
        /\ UNCHANGED references
  BY DEF PowerLoss
<1>2. ASSUME NEW h \in Hashes, Exists(h)
      PROVE  LET d == [objects[h] EXCEPT !.parts = Left(h, torn), !.synced = Left(h, torn)]
             IN  /\ d \in Directories /\ d.altered = objects[h].altered
                 /\ d.name = objects[h].name
                 /\ d.parts = Left(h, torn) /\ d.synced = Left(h, torn)
  <2>1. objects[h] \in Directories
    BY <1>2 DEF StoreInv, TypeOK, Exists
  <2>2. Left(h, torn) \subseteq Parts
    BY <2>1 DEF Directories
  <2> HIDE DEF Left
  <2> QED
    BY <2>1, <2>2 DEF Directories
<1>3. ASSUME NEW h \in Hashes, Exists(h), ~objects[h].altered
      PROVE  Left(h, torn) = Parts
  <2>1. objects[h].parts = Parts /\ objects[h].synced = Parts
    BY <1>3 DEF StoreInv, Complete
  <2>2. \A x \in Parts : <<h, x>> \notin Unsynced
    BY <2>1 DEF Unsynced
  <2> QED
    BY <1>1, <2>1, <2>2
<1> HIDE DEF Left
<1>4. ASSUME NEW h \in Hashes
      PROVE  /\ objects'[h] \in Directories \cup {Nothing}
             /\ objects'[h] = Nothing \/
                  /\ Exists(h) /\ h \notin gone
                  /\ objects'[h].parts = Left(h, torn) /\ objects'[h].synced = Left(h, torn)
                  /\ objects'[h].altered = objects[h].altered
                  /\ objects'[h].name = objects[h].name
             /\ (Exists(h) /\ h \notin gone) => objects'[h] # Nothing
  <2>1. CASE ~Exists(h) \/ h \in gone
    BY <1>1, <2>1
  <2>2. CASE Exists(h) /\ h \notin gone
    <3>1. objects'[h] = [objects[h] EXCEPT !.parts = Left(h, torn),
                                           !.synced = Left(h, torn)]
      BY <1>1, <2>2
    <3>2. objects[h] \in Directories
      BY <2>2 DEF StoreInv, TypeOK, Exists
    <3>3. /\ objects'[h].parts = Left(h, torn) /\ objects'[h].synced = Left(h, torn)
          /\ objects'[h].altered = objects[h].altered /\ objects'[h].name = objects[h].name
      BY <3>1, <3>2 DEF Directories
    <3>4. objects'[h] \in Directories
      BY <1>2, <2>2, <3>1
    <3> QED
      BY <2>2, <3>3, <3>4, NothingAssumption
  <2> QED
    BY <2>1, <2>2
<1>5. TypeOK'
  <2>1. objects' \in [Hashes -> Directories \cup {Nothing}]
    <3>1. objects' = [h \in Hashes |-> objects'[h]]
      BY <1>1
    <3> QED
      BY <1>4, <3>1
  <2> QED
    BY <1>1, <2>1 DEF StoreInv, TypeOK, Points
<1>6. \A p \in Procs : Prepared(p)' /\ \A q \in Procs : OneOwner(p, q)'
  BY <1>1 DEF Prepared, OneOwner, Showing
<1>7. ASSUME NEW h \in Hashes PROVE Complete(h)'
  BY <1>3, <1>4 DEF Complete, Exists
<1>8. ASSUME NEW r \in references, r.hash \notin NewBuckets PROVE Grounded(r)'
  <2>1. Grounded(r) /\ r.hash \in Hashes /\ Exists(r.hash) /\ r.hash \in anchored
    BY <1>8 DEF StoreInv, TypeOK, References, Grounded
  <2>2. r.hash \notin gone
    BY <1>1, <1>8, <2>1
  <2>3. objects'[r.hash] # Nothing /\ r.hash \in anchored'
    BY <1>1, <1>4, <2>1, <2>2
  <2> QED
    BY <1>4, <1>8, <2>1, <2>3 DEF Grounded, Exists
<1>9. \A r \in references : Grounded(r)'
  BY <1>1, <1>8 DEF Grounded
<1>10. PublishedOnce'
  BY <1>1 DEF StoreInv, PublishedOnce
<1> QED
  BY <1>1, <1>5, <1>6, <1>7, <1>9, <1>10 DEF StoreInv

\* Every step keeps the invariant.
LEMMA StepKeeps ==
  ASSUME StoreInv, [Next]_vars
  PROVE  StoreInv'
<1>1. ASSUME UNCHANGED vars PROVE StoreInv'
  BY <1>1 DEF vars, StoreInv, TypeOK, Prepared, OneOwner, Complete, Grounded, Exists,
              PublishedOnce
<1>2. ASSUME NEW p \in Procs, Step(p) PROVE StoreInv'
  <2>1. Prepared(p) /\ pc[p] \in Points /\ (own[p] \in Directories \/ pc[p] = "idle")
    BY DEF StoreInv, TypeOK, Prepared
  <2>2. ASSUME NEW h \in Hashes, NEW n \in Names, Stage(p, h, n) PROVE StoreInv'
    <3> DEFINE d == [hash |-> h, name |-> n, parts |-> {"file", "file entry"},
                     synced |-> {}, altered |-> FALSE]
    <3>1. d \in Directories
      BY DEF Directories, Parts
    <3>2. /\ pc' = [pc EXCEPT ![p] = "written"] /\ own' = [own EXCEPT ![p] = d]
          /\ UNCHANGED <<objects, anchored, references>>
      BY <2>2 DEF Stage, Advance
    <3> HIDE DEF d
    <3> QED
      BY <3>1, <3>2, PrivateStep DEF Points, Showing
  <2>3. ASSUME SyncStaged(p) PROVE StoreInv'
    <3>1. [own[p] EXCEPT !.synced = {"file", "file entry"}] \in Directories
      BY <2>1, <2>3 DEF SyncStaged, Advance, Directories, Parts
    <3>2. [own[p] EXCEPT !.synced = {"file", "file entry"}].synced = {"file", "file entry"}
      BY <2>1, <2>3 DEF SyncStaged, Advance, Directories
    <3> QED
      BY <2>3, <3>1, <3>2, PrivateStep DEF SyncStaged, Advance, Points, Showing
  <2>4. ASSUME Alter(p) PROVE StoreInv'
    <3> DEFINE d == [own[p] EXCEPT !.altered = TRUE, !.synced = @ \ {"file"}]
    <3>1. own[p] \in Directories /\ pc[p] \notin {"idle", "written"} \cup Showing
      BY <2>1, <2>4 DEF Alter, Showing
    <3>2. /\ d \in Directories /\ d.altered /\ d.parts = own[p].parts
          /\ d.synced = own[p].synced \ {"file"}
      BY <3>1 DEF Directories
    <3>3. own' = [own EXCEPT ![p] = d] /\ UNCHANGED <<objects, anchored, references>>
      BY <2>4 DEF Alter
    <3>4. pc' = [pc EXCEPT ![p] = pc[p]]
      BY <2>4 DEF Alter, StoreInv, TypeOK
    <3> HIDE DEF d
    <3>5. /\ "file entry" \in d.synced
          /\ pc[p] \in {"described", "sealed"} => d.parts = Parts /\ "manifest" \in d.synced
          /\ pc[p] = "sealed" => "manifest entry" \in d.synced
      BY <2>1, <3>1, <3>2 DEF Prepared
    <3> QED
      BY <2>1, <3>1, <3>2, <3>3, <3>4, <3>5, PrivateStep DEF Showing
  <2>5. ASSUME \/ CheckHash(p) \/ Load(p) \/ LoaderRaises(p) \/ CheckAbsent(p) \/ Move(p)
        PROVE  StoreInv'
    <3>1. PICK to \in {"staged", "hashed", "loaded", "clear", "moved"} :
            /\ pc' = [pc EXCEPT ![p] = to] /\ own' = [own EXCEPT ![p] = own[p]]
            /\ UNCHANGED <<objects, anchored, references>>
            /\ pc[p] \notin {"idle", "written"}
      BY <2>5 DEF CheckHash, Load, LoaderRaises, CheckAbsent, Move, Advance
    <3>2. own[p] \in Directories /\ "file entry" \in own[p].synced
          /\ (own[p].altered \/ "file" \in own[p].synced)
      BY <2>1, <3>1 DEF Prepared
    <3> QED
      BY <3>1, <3>2, PrivateStep DEF Points, Showing
  <2>6. ASSUME Describe(p) \/ Seal(p) PROVE StoreInv'
    <3>1. own[p] \in Directories /\ "file entry" \in own[p].synced
          /\ (own[p].altered \/ "file" \in own[p].synced)
      BY <2>1, <2>6 DEF Describe, Seal, Advance, Prepared
    <3>2. CASE Describe(p)
      <4> DEFINE d == [own[p] EXCEPT !.parts = Parts, !.synced = @ \cup {"manifest"}]
      <4>1. /\ d \in Directories /\ d.altered = own[p].altered /\ d.parts = Parts
            /\ d.synced = own[p].synced \cup {"manifest"}
        BY <3>1 DEF Directories, Parts
      <4>2. /\ pc' = [pc EXCEPT ![p] = "described"] /\ own' = [own EXCEPT ![p] = d]
            /\ UNCHANGED <<objects, anchored, references>>
        BY <3>2 DEF Describe, Advance
      <4> HIDE DEF d
      <4> QED
        BY <3>1, <4>1, <4>2, PrivateStep DEF Points, Showing
    <3>3. CASE Seal(p)
      <4> DEFINE d == [own[p] EXCEPT !.synced = @ \cup {"manifest entry"}]
      <4>1. /\ d \in Directories /\ d.altered = own[p].altered /\ d.parts = own[p].parts
            /\ d.synced = own[p].synced \cup {"manifest entry"}
        BY <3>1 DEF Directories, Parts
      <4>2. /\ pc' = [pc EXCEPT ![p] = "sealed"] /\ own' = [own EXCEPT ![p] = d]
            /\ UNCHANGED <<objects, anchored, references>>
            /\ own[p].parts = Parts /\ "manifest" \in own[p].synced
        BY <2>1, <3>3 DEF Seal, Advance, Prepared
      <4> HIDE DEF d
      <4> QED
        BY <3>1, <4>1, <4>2, PrivateStep DEF Points, Showing
    <3> QED
      BY <2>6, <3>2, <3>3
  <2>7. ASSUME Leave(p) PROVE StoreInv'
    BY <2>7, PrivateStep DEF Leave, Points, Showing
  <2> QED
    BY <1>2, <2>2, <2>3, <2>4, <2>5, <2>6, <2>7, PublishKeeps, AnchorKeeps, ReturnKeeps
    DEF Step, HashChanged, LoaderRejects, AlreadyExists, PublishRefused, VerificationFails, Fail
<1> QED
  BY <1>1, <1>2, PowerLossKeeps DEF Next

\* For any processes, contents and names: a returned reference resolves to its
\* file, at most one commit of a content returns one, and whatever nobody wrote
\* to behind the store's back is complete (ContentAddressedArtifactStore.commit).
THEOREM ArtifactsSafe ==
  Spec => [](TypeOK /\ ReferencesStand /\ PublishedOnce /\ NothingTorn)
<1>1. Init => StoreInv
  BY DEF Init, StoreInv, TypeOK, Points, Prepared, OneOwner, Complete, Exists, Showing,
         PublishedOnce
<1>2. StoreInv /\ [Next]_vars => StoreInv'
  BY StepKeeps
<1>3. StoreInv => TypeOK /\ ReferencesStand /\ PublishedOnce /\ NothingTorn
  <2> SUFFICES ASSUME StoreInv PROVE ReferencesStand /\ NothingTorn
    BY DEF StoreInv
  <2>1. ASSUME NEW h \in Hashes, Exists(h), ~objects[h].altered
        PROVE  Resolve(h) = objects[h].name /\ objects[h].name \in Names
    <3>1. objects[h].parts = Parts /\ objects[h] \in Directories
      BY <2>1 DEF StoreInv, Complete, TypeOK, Exists
    <3> QED
      BY <2>1, <3>1 DEF Resolve, Parts, Directories
  <2>2. ReferencesStand
    BY <2>1 DEF StoreInv, TypeOK, References, Grounded, ReferencesStand
  <2>3. NothingTorn
    BY <2>1 DEF NothingTorn
  <2> QED
    BY <2>2, <2>3
<1> QED
  BY <1>1, <1>2, <1>3, PTL DEF Spec

\* However many processes commit one content, only one of them publishes it.
THEOREM PublishedAtMostOnce == Spec => []PublishedOnce
BY ArtifactsSafe, PTL

\* No crash or power loss leaves an incomplete directory where readers look.
THEOREM NeverTorn == Spec => []NothingTorn
BY ArtifactsSafe, PTL

-----------------------------------------------------------------------------
(* The verdicts *)

\* What an arm has is what it may have.
LEMMA ArmShape ==
  ASSUME NEW probe \in Probes, NEW arm \in ArmsOf(probe)
  PROVE  /\ arm.healthy \in BOOLEAN /\ arm.clean \in BOOLEAN
         /\ Len(arm.groups) \in 0 .. Groups(probe) /\ DOMAIN arm.groups = 1 .. Len(arm.groups)
         /\ \A i \in DOMAIN arm.groups : arm.groups[i] \in [1 .. Size(probe) -> Replies(probe)]
         /\ arm.groups # <<>> => arm.healthy /\ Len(arm.groups) # 0
         /\ RepliesOf(arm) \subseteq Replies(probe)
         /\ \A i \in DOMAIN arm.groups, j \in 1 .. Size(probe) : arm.groups[i][j] \in RepliesOf(arm)
<1>1. PICK n \in 0 .. Groups(probe) :
        arm.groups \in [1 .. n -> [1 .. Size(probe) -> Replies(probe)]]
  BY DEF ArmsOf
<1>2. /\ arm.healthy \in BOOLEAN /\ arm.clean \in BOOLEAN
      /\ arm.groups # <<>> => arm.healthy
  BY DEF ArmsOf
<1>3. Groups(probe) \in Nat /\ Size(probe) \in Nat
  BY DEF Groups, Size
<1>4. /\ Len(arm.groups) = n /\ DOMAIN arm.groups = 1 .. n
      /\ arm.groups # <<>> => n # 0
  BY <1>1, <1>3
<1>5. \A i \in DOMAIN arm.groups : arm.groups[i] \in [1 .. Size(probe) -> Replies(probe)]
  BY <1>1, <1>4
<1> DEFINE RepliesIn(i) == {arm.groups[i][j] : j \in DOMAIN arm.groups[i]}
<1>6. \A i \in DOMAIN arm.groups :
        /\ RepliesIn(i) \subseteq Replies(probe)
        /\ \A j \in 1 .. Size(probe) : arm.groups[i][j] \in RepliesIn(i)
  <2> TAKE i \in DOMAIN arm.groups
  <2>1. DOMAIN arm.groups[i] = 1 .. Size(probe)
    BY <1>5
  <2> QED
    BY <1>5, <2>1
<1>7. RepliesOf(arm) = UNION {RepliesIn(i) : i \in DOMAIN arm.groups}
  BY DEF RepliesOf
<1> HIDE DEF RepliesIn
<1>8. /\ RepliesOf(arm) \subseteq Replies(probe)
      /\ \A i \in DOMAIN arm.groups, j \in 1 .. Size(probe) : arm.groups[i][j] \in RepliesOf(arm)
  BY <1>6, <1>7
<1> QED
  BY <1>1, <1>2, <1>3, <1>4, <1>5, <1>8

\* An output comes with a reply that passed.
LEMMA OutputPassed ==
  ASSUME NEW probe \in Probes, NEW r \in Replies(probe), r.output # NoOutput
  PROVE  r.passed
BY DEF Replies, Answer, Refused, Bare

\* An arm has all that it was asked.
Full(probe, arm) ==
  /\ arm.healthy /\ arm.clean
  /\ Len(arm.groups) = Groups(probe) /\ \A r \in RepliesOf(arm) : r.passed

\* What the verdicts look at.
LEMMA PassedIsFull ==
  ASSUME NEW probe \in Probes, NEW arm \in ArmsOf(probe), arm.clean
  PROVE  /\ Groups(probe) = 1 /\ RequestsPassed(arm) => Full(probe, arm)
         /\ arm.healthy /\ Answered(probe, arm) => Full(probe, arm)
         /\ RequestsPassed(arm) => arm.healthy
<1>1. /\ Len(arm.groups) \in 0 .. Groups(probe) /\ RepliesOf(arm) \subseteq Replies(probe)
      /\ arm.groups # <<>> => arm.healthy /\ Len(arm.groups) # 0
  BY ArmShape
<1>2. Groups(probe) = 1 /\ RequestsPassed(arm) => Full(probe, arm)
  BY <1>1 DEF RequestsPassed, Full
<1>3. ASSUME arm.healthy, Answered(probe, arm) PROVE Full(probe, arm)
  BY <1>1, <1>3, OutputPassed DEF Answered, Full
<1> QED
  BY <1>1, <1>2, <1>3 DEF RequestsPassed

\* Every verdict, probe by probe.
LEMMA VerdictMeasured ==
  ASSUME NEW probe \in Probes, NEW arms \in [1 .. NArmsOf(probe) -> ArmsOf(probe)],
         NEW expected, NEW within, Verdict(probe, arms, expected, within) = "passed"
  PROVE  Measured(probe, arms)
<1>1. /\ NArmsOf(probe) \in {1, 2, 4}
      /\ Len(arms) = NArmsOf(probe) /\ DOMAIN arms = 1 .. NArmsOf(probe)
  BY DEF NArmsOf
<1>2. \A i \in DOMAIN arms : arms[i] \in ArmsOf(probe)
  BY <1>1
<1> DEFINE AllFull == \A i \in DOMAIN arms : Full(probe, arms[i])
           AllOut == \A i \in DOMAIN arms : \A r \in RepliesOf(arms[i]) : r.output # NoOutput
<1>3. ASSUME AllFull, Groups(probe) > 1 \/ Drafting(probe) # {} => AllOut,
             Drafting(probe) # {} => \E i \in Drafting(probe) : Drafted(arms[i]),
             probe \in Comparing =>
               \A i \in DOMAIN arms, g \in 1 .. Groups(probe), j \in 1 .. Size(probe) :
                 arms[i].groups[g][j].output = arms[1].groups[g][1].output
      PROVE  Measured(probe, arms)
  BY <1>1, <1>3 DEF Measured, Full
<1>4. CASE probe \in {"target", "dflash", "capture", "ingest", "captured-optimizer"}
  <2>1. ArmPassed(arms[1]) /\ Groups(probe) = 1 /\ Drafting(probe) = {} /\ DOMAIN arms = {1}
        /\ probe \notin Comparing
    BY <1>1, <1>4 DEF Verdict, ServerProbe, CaptureProbe, Status, Groups, Drafting, NArmsOf,
       Comparing
  <2>2. AllFull
    BY <1>2, <2>1, PassedIsFull DEF ArmPassed
  <2> QED
    BY <1>3, <2>1, <2>2
<1>5. CASE probe \in {"tokenizer-identity", "model-port", "reload-diagnostic"}
  <2>1. RequestsPassed(arms[1]) /\ arms[1].clean /\ Groups(probe) = 1 /\ Drafting(probe) = {}
        /\ DOMAIN arms = {1} /\ probe \notin Comparing
    BY <1>1, <1>5 DEF Verdict, ChildProbe, Status, Groups, Drafting, NArmsOf, Comparing
  <2>2. AllFull
    BY <1>2, <2>1, PassedIsFull
  <2> QED
    BY <1>3, <2>1, <2>2
<1>6. CASE probe = "target-sampling-determinism"
  <2>1. ArmPassed(arms[1]) /\ Answered(probe, arms[1]) /\ Drafting(probe) = {} /\ DOMAIN arms = {1}
        /\ probe \notin Comparing
    BY <1>1, <1>6 DEF Verdict, TargetDeterminism, Status, Drafting, NArmsOf, Comparing
  <2>2. AllFull
    BY <1>2, <2>1, PassedIsFull DEF ArmPassed
  <2>3. AllOut
    BY <2>1 DEF Answered
  <2> QED
    BY <1>3, <2>1, <2>2, <2>3
<1>7. CASE probe = "candidate-serving"
  <2>1. /\ Answered(probe, arms[1]) /\ Answered(probe, arms[2])
        /\ arms[1].healthy /\ arms[2].healthy
        /\ arms[1].clean /\ arms[2].clean /\ SameOutputs(arms[1], arms[2]) /\ Drafted(arms[2])
    BY <1>7 DEF Verdict, CandidateServing, Status
  <2>2. DOMAIN arms = {1, 2} /\ Drafting(probe) = {2} /\ Groups(probe) = 1 /\ Size(probe) = 1
    BY <1>1, <1>7 DEF Drafting, NArmsOf, Groups, Size
  <2>3. AllFull
    BY <1>2, <2>1, <2>2, PassedIsFull
  <2>4. AllOut
    BY <2>1, <2>2 DEF Answered
  <2>5. \A i \in DOMAIN arms, g \in 1 .. Groups(probe), j \in 1 .. Size(probe) :
          arms[i].groups[g][j].output = arms[1].groups[g][1].output
    <3>1. 1 \in DOMAIN arms[1].groups \cap DOMAIN arms[2].groups
      BY <1>2, <2>1, <2>2, ArmShape DEF Answered
    <3> QED
      BY <2>1, <2>2, <3>1 DEF SameOutputs
  <2> QED
    BY <1>3, <2>1, <2>2, <2>3, <2>4, <2>5
<1>8. CASE probe = "sampled-rng"
  <2>1. /\ Answered(probe, arms[1]) /\ Answered(probe, arms[2])
        /\ arms[1].healthy /\ arms[2].healthy
        /\ arms[1].clean /\ arms[2].clean /\ SameOutputs(arms[1], arms[2]) /\ Drafted(arms[2])
        /\ Repeatable(arms[1]) /\ Repeatable(arms[2])
    BY <1>8 DEF Verdict, SampledRng, Status
  <2>2. DOMAIN arms = {1, 2} /\ Drafting(probe) = {2} /\ Groups(probe) = 2 /\ Size(probe) = 2
    BY <1>1, <1>8 DEF Drafting, NArmsOf, Groups, Size
  <2>3. AllFull
    BY <1>2, <2>1, <2>2, PassedIsFull
  <2>4. AllOut
    BY <2>1, <2>2 DEF Answered
  <2>5. \A i \in DOMAIN arms, g \in 1 .. Groups(probe), j \in 1 .. Size(probe) :
          arms[i].groups[g][j].output = arms[1].groups[g][1].output
    <3>1. DOMAIN arms[1].groups = {1, 2} /\ DOMAIN arms[2].groups = {1, 2}
      BY <1>2, <2>1, <2>2, ArmShape DEF Answered
    <3>2. \A g \in {1, 2} : arms[1].groups[g][1].output = arms[2].groups[g][1].output
      BY <2>1, <3>1 DEF SameOutputs
    <3>3. \A i \in {1, 2}, g \in {1, 2} : arms[i].groups[g][1].output = arms[i].groups[g][2].output
      BY <2>1, <3>1 DEF Repeatable
    <3> QED
      BY <2>2, <3>2, <3>3
  <2> QED
    BY <1>3, <2>1, <2>2, <2>3, <2>4, <2>5
<1>9. CASE probe = "sampled-distribution"
  <2>1. /\ \A i \in DOMAIN arms : ArmPassed(arms[i]) /\ Answered(probe, arms[i])
        /\ \E i \in {3, 4} : Drafted(arms[i])
    BY <1>9 DEF Verdict, SampledDistribution, Status
  <2>2. Drafting(probe) = {3, 4} /\ probe \notin Comparing
    BY <1>9 DEF Drafting, Comparing
  <2>3. AllFull
    BY <1>2, <2>1, PassedIsFull DEF ArmPassed
  <2>4. AllOut
    BY <2>1 DEF Answered
  <2> QED
    BY <1>3, <2>1, <2>2, <2>3, <2>4
<1>10. CASE probe = "parent-restore"
  <2>1. Answered(probe, arms[1]) /\ Drafted(arms[1]) /\ arms[1].healthy /\ arms[1].clean
    BY <1>10 DEF Verdict, ParentRestore, Status
  <2>2. DOMAIN arms = {1} /\ Drafting(probe) = {1} /\ probe \notin Comparing
    BY <1>1, <1>10 DEF Drafting, NArmsOf, Comparing
  <2>3. AllFull
    BY <1>2, <2>1, <2>2, PassedIsFull
  <2>4. AllOut
    BY <2>1, <2>2 DEF Answered
  <2> QED
    BY <1>3, <2>1, <2>2, <2>3, <2>4
<1> QED
  BY <1>4, <1>5, <1>6, <1>7, <1>8, <1>9, <1>10 DEF Probes

\* Whatever the arms of a probe have given: it passes only when all that was to be measured was
\* (main, the results' validators).
THEOREM VerdictsAreMeasured ==
  ASSUME OutcomesAssumption
  PROVE  JudgementSpec => []PassedIsMeasured
<1>1. JudgementInit => PassedIsMeasured
  BY DEF JudgementInit, Unjudged, PassedIsMeasured
<1>2. PassedIsMeasured /\ [Judge]_judged => PassedIsMeasured'
  <2> SUFFICES ASSUME PassedIsMeasured, [Judge]_judged PROVE PassedIsMeasured'
    OBVIOUS
  <2>1. CASE Judge
    <3>1. PICK probe \in Probes, within \in BOOLEAN, expected \in Outputs \cup {NoOutput} :
            \E arms \in outcomes[probe] :
              judged' = [probe |-> probe, arms |-> arms,
                         status |-> Verdict(probe, arms, expected, within)]
      BY <2>1 DEF Judge
    <3>2. PICK arms \in [1 .. NArmsOf(probe) -> ArmsOf(probe)] :
            judged' = [probe |-> probe, arms |-> arms,
                       status |-> Verdict(probe, arms, expected, within)]
      BY <3>1 DEF OutcomesAssumption
    <3>3. Verdict(probe, arms, expected, within) = "passed" => Measured(probe, arms)
      BY VerdictMeasured
    <3> QED
      BY <3>2, <3>3 DEF PassedIsMeasured
  <2>2. CASE UNCHANGED judged
    BY <2>2 DEF PassedIsMeasured
  <2> QED
    BY <2>1, <2>2
<1> QED
  BY <1>1, <1>2, PTL DEF JudgementSpec

-----------------------------------------------------------------------------
(* Records and reports *)

\* What a record that passed rests on.
Rests(record) ==
  /\ record.probe = "candidate-serving" /\ record.status = "passed" =>
       record.arms[1].groups[1][1].output = CandidateOutput(record)
  /\ record.probe = "parent-restore" /\ record.status = "passed" =>
       /\ record.basis \in store /\ PassingCandidate(record.basis)
       /\ record.arms[1].groups[1][1].output = CandidateOutput(record.basis)

\* A run has something to publish, then to write.
RunGood(r) ==
  /\ run[r] = [pc |-> run[r].pc, to |-> run[r].to, record |-> run[r].record]
  /\ run[r].pc \in {"measured", "published", "writing"} =>
       run[r].to \in Menu /\ Rests(run[r].record)
  /\ run[r].pc \in {"published", "writing"} => run[r].record \in store

Prober ==
  /\ run = [r \in Runs |-> run[r]] /\ file = [f \in Menu |-> file[f]]
  /\ \A r \in Runs : RunGood(r)
  /\ \A record \in store : Rests(record)
  /\ \A f \in Menu : file[f].state = "whole" => file[f].record \in store

\* What a report has taken from the file of a probe.
Taken(record, probe) ==
  record # Missing =>
    /\ record \in store
    /\ probe \notin {"target", "dflash"} => record.probe = probe /\ record.status = "passed"

\* A report has taken one record after the other, then recorded them.
DraftGood(v) ==
  /\ draft[v] = [pc |-> draft[v].pc, next |-> draft[v].next, found |-> draft[v].found]
  /\ draft[v].next \in Nat \ {0}
  /\ draft[v].pc = "new" => draft[v].next = 1 /\ draft[v].found = <<>>
  /\ draft[v].pc \in {"reading", "recording"} =>
       /\ draft[v].found \in Seq(store \cup {Missing}) /\ Len(draft[v].found) <= Len(menu)
       /\ \A i \in 1 .. Len(draft[v].found) : Taken(draft[v].found[i], menu[i])
  /\ draft[v].pc = "reading" => Len(draft[v].found) = draft[v].next - 1
  /\ draft[v].pc = "recording" =>
       /\ Len(draft[v].found) = Len(menu)
       /\ \A i \in 1 .. Len(menu) :
            i < draft[v].next /\ draft[v].found[i] # Missing => draft[v].found[i] \in artifacts

ReportGood ==
  report # Missing =>
    \A i \in 1 .. Len(menu) :
      Taken(report[i], menu[i]) /\ (report[i] # Missing => report[i] \in artifacts)

Reporter ==
  /\ draft = [v \in Reports |-> draft[v]]
  /\ \A v \in Reports : DraftGood(v)
  /\ ReportGood

EvidenceInv == menu \in Menus /\ Prober /\ Reporter

\* Nothing is published yet.
LEMMA EvidenceStarts ==
  ASSUME EvidenceAssumption, EvidenceInit
  PROVE  EvidenceInv
<1>1. menu \in Seq(Probes) /\ Len(menu) \in Nat
  BY DEF EvidenceInit, EvidenceAssumption
<1>2. Prober
  BY DEF EvidenceInit, Prober, RunGood, NoRun, NoFile
<1>3. Reporter
  <2>1. <<>> \in Seq(store \cup {Missing}) /\ Len(<<>>) = 0
    OBVIOUS
  <2> QED
    BY <1>1, <2>1 DEF EvidenceInit, Reporter, DraftGood, ReportGood, NoDraft
<1> QED
  BY <1>2, <1>3 DEF EvidenceInv, EvidenceInit

\* A verdict that passed leaves a record that rests on what it read.
LEMMA RecordRests ==
  ASSUME EvidenceAssumption, NEW probe \in Probes, NEW r, NEW arms \in measurements[probe],
         NEW basis, NEW expected, NEW within,
         probe = "parent-restore" =>
           basis \in store /\ PassingCandidate(basis) /\ expected = CandidateOutput(basis)
  PROVE  Rests(Record(probe, Verdict(probe, arms, expected, within), r, arms, basis))
<1> DEFINE verdict == Verdict(probe, arms, expected, within)
           record == Record(probe, verdict, r, arms, basis)
<1>1. record.status = "passed" =>
        verdict = "passed" /\ record.probe = probe /\ record.arms = arms /\ record.basis = basis
  <2> HIDE DEF verdict
  <2> QED
    BY DEF Record, FailedRecord
<1>2. record.probe = probe
  <2> HIDE DEF verdict
  <2> QED
    BY DEF Record, FailedRecord
<1>3. ASSUME verdict = "passed", probe = "candidate-serving"
      PROVE  arms[1].groups[1][1].output = arms[2].groups[1][1].output
  <2>1. arms \in [1 .. NArmsOf(probe) -> ArmsOf(probe)]
    BY DEF EvidenceAssumption
  <2>2. Measured(probe, arms)
    BY <1>3, <2>1, VerdictMeasured
  <2>3. 2 \in DOMAIN arms /\ 1 \in 1 .. Groups(probe) /\ 1 \in 1 .. Size(probe)
        /\ probe \in Comparing
    BY <1>3, <2>1 DEF NArmsOf, Groups, Size, Comparing
  <2> QED
    BY <2>2, <2>3 DEF Measured
<1>4. ASSUME verdict = "passed", probe = "parent-restore"
      PROVE  arms[1].groups[1][1].output = expected
  BY <1>4 DEF Verdict, ParentRestore, Status
<1> HIDE DEF record, verdict
<1>5. Rests(record)
  BY <1>1, <1>2, <1>3, <1>4 DEF Rests, CandidateOutput
<1> QED
  BY <1>5 DEF record, verdict

\* What others know of the store stays when records are added.
LEMMA StoreGrows ==
  ASSUME store \subseteq store', UNCHANGED menu, artifacts \subseteq artifacts'
  PROVE  /\ \A record : Rests(record) => Rests(record)'
         /\ \A record, probe : Taken(record, probe) => Taken(record, probe)'
         /\ \A found \in Seq(store \cup {Missing}) : found \in Seq(store' \cup {Missing})
<1>1. \A record : Rests(record) => Rests(record)'
  BY DEF Rests
<1>2. \A record, probe : Taken(record, probe) => Taken(record, probe)'
  BY DEF Taken
<1> QED
  BY <1>1, <1>2

\* A step of a run leaves the reports alone.
LEMMA ReporterStays ==
  ASSUME Reporter, store \subseteq store', UNCHANGED <<menu, reporter>>
  PROVE  Reporter'
<1>1. /\ \A record, probe : Taken(record, probe) => Taken(record, probe)'
      /\ \A found \in Seq(store \cup {Missing}) : found \in Seq(store' \cup {Missing})
  BY StoreGrows DEF reporter
<1>2. ASSUME NEW v \in Reports PROVE DraftGood(v)'
  BY <1>1 DEF Reporter, DraftGood, reporter
<1>3. ReportGood'
  BY <1>1 DEF Reporter, ReportGood, reporter
<1> QED
  BY <1>2, <1>3 DEF Reporter, reporter

\* A step of one run.
LEMMA RunStep ==
  ASSUME EvidenceInv, NEW r \in Runs, NEW new,
         new = [pc |-> new.pc, to |-> new.to, record |-> new.record],
         run' = [run EXCEPT ![r] = new], store \subseteq store', UNCHANGED <<menu, reporter>>,
         \A record \in store' \ store : Rests(record),
         new.pc \in {"measured", "published", "writing"} => new.to \in Menu /\ Rests(new.record),
         new.pc \in {"published", "writing"} => new.record \in store',
         file' = [f \in Menu |-> file'[f]],
         \A f \in Menu :
           file'[f] # file[f] /\ file'[f].state = "whole" => file'[f].record \in store'
  PROVE  EvidenceInv'
<1>1. Menu' = Menu /\ artifacts' = artifacts
  BY DEF Menu, reporter
<1>2. \A record : Rests(record) => Rests(record)'
  BY <1>1, StoreGrows
<1>3. run' = [q \in Runs |-> run'[q]] /\ run'[r] = new /\ \A q \in Runs : q # r => run'[q] = run[q]
  BY DEF EvidenceInv, Prober
<1>4. ASSUME NEW q \in Runs PROVE RunGood(q)'
  <2>1. CASE q = r
    BY <1>1, <1>2, <1>3, <2>1 DEF RunGood
  <2>2. CASE q # r
    BY <1>1, <1>2, <1>3, <2>2 DEF EvidenceInv, Prober, RunGood
  <2> QED
    BY <2>1, <2>2
<1>5. \A record \in store' : Rests(record)'
  BY <1>2 DEF EvidenceInv, Prober
<1>6. \A f \in Menu : file'[f].state = "whole" => file'[f].record \in store'
  BY DEF EvidenceInv, Prober
<1>7. Prober'
  BY <1>1, <1>3, <1>4, <1>5, <1>6 DEF Prober
<1>8. Reporter'
  BY ReporterStays DEF EvidenceInv
<1> QED
  BY <1>7, <1>8 DEF EvidenceInv

\* Every step of a run.
LEMMA RunKeeps ==
  ASSUME EvidenceAssumption, EvidenceInv, NEW r \in Runs,
         \/ Measure(r) \/ MeasureFails(r) \/ PublishRecord(r)
         \/ OpenFile(r) \/ WriteResult(r) \/ RunDies(r)
  PROVE  EvidenceInv'
<1>1. /\ RunGood(r) /\ file = [f \in Menu |-> file[f]] /\ run = [q \in Runs |-> run[q]]
      /\ \A f \in Menu : file[f].state = "whole" => file[f].record \in store
      /\ Menu \subseteq Probes
  BY DEF EvidenceInv, Prober, Menu, EvidenceAssumption
<1>2. CASE Measure(r)
  <2>1. PICK probe \in Menu, f \in Menu, g \in Menu, within \in BOOLEAN :
          /\ within \/ probe = "sampled-distribution"
          /\ IF probe = "parent-restore"
               THEN file[g].state = "whole" /\ PassingCandidate(file[g].record) ELSE g = f
          /\ \E arms \in measurements[probe] :
               LET basis == IF probe = "parent-restore" THEN file[g].record ELSE Missing
                   expected == IF probe = "parent-restore" THEN CandidateOutput(basis) ELSE NoOutput
               IN run' = [run EXCEPT ![r] =
                    [pc |-> "measured", to |-> f,
                     record |-> Record(probe, Verdict(probe, arms, expected, within),
                                       r, arms, basis)]]
    BY <1>2, Zenon DEF Measure
  <2> DEFINE basis == IF probe = "parent-restore" THEN file[g].record ELSE Missing
             expected == IF probe = "parent-restore" THEN CandidateOutput(basis) ELSE NoOutput
  <2>2. PICK arms \in measurements[probe] :
          run' = [run EXCEPT ![r] =
            [pc |-> "measured", to |-> f,
             record |-> Record(probe, Verdict(probe, arms, expected, within), r, arms, basis)]]
    BY <2>1
  <2>3. probe = "parent-restore" =>
          basis \in store /\ PassingCandidate(basis) /\ expected = CandidateOutput(basis)
    BY <1>1, <2>1
  <2> DEFINE record == Record(probe, Verdict(probe, arms, expected, within), r, arms, basis)
  <2> HIDE DEF basis, expected
  <2>4. Rests(record)
    BY <1>1, <2>3, RecordRests
  <2> HIDE DEF record
  <2>5. UNCHANGED <<menu, store, file, reporter>>
    BY <1>2 DEF Measure
  <2>6. run' = [run EXCEPT ![r] = [pc |-> "measured", to |-> f, record |-> record]]
    BY <2>2 DEF record
  <2> QED
    BY <1>1, <2>4, <2>5, <2>6, RunStep
<1>3. CASE MeasureFails(r)
  <2>1. PICK probe \in Menu, f \in Menu :
          run' = [run EXCEPT ![r] = [pc |-> "measured", to |-> f, record |-> FailedRecord(probe)]]
    BY <1>3 DEF MeasureFails
  <2>2. \A p : Rests(FailedRecord(p))
    BY DEF Rests, FailedRecord
  <2>3. UNCHANGED <<menu, store, file, reporter>>
    BY <1>3 DEF MeasureFails
  <2> QED
    BY <1>1, <2>1, <2>2, <2>3, RunStep
<1>4. CASE PublishRecord(r)
  <2> DEFINE new == IF run[r].record \in store THEN NoRun("ended")
                                                ELSE [run[r] EXCEPT !.pc = "published"]
  <2>1. /\ run[r].pc = "measured" /\ store' = store \cup {run[r].record}
        /\ UNCHANGED <<menu, file, reporter>>
    BY <1>4 DEF PublishRecord
  <2>2. run' = [run EXCEPT ![r] = new]
    BY <1>4 DEF PublishRecord
  <2>3. /\ new = [pc |-> new.pc, to |-> new.to, record |-> new.record]
        /\ new.pc \in {"ended", "published"}
        /\ new.pc = "published" => new.to = run[r].to /\ new.record = run[r].record
    BY <1>1 DEF RunGood, NoRun
  <2> HIDE DEF new
  <2>4. run[r].to \in Menu /\ Rests(run[r].record)
    BY <1>1, <2>1 DEF RunGood
  <2> QED
    BY <1>1, <2>1, <2>2, <2>3, <2>4, RunStep
<1>5. CASE OpenFile(r)
  <2> DEFINE new == [run[r] EXCEPT !.pc = "writing"]
  <2>1. /\ run[r].pc = "published" /\ run' = [run EXCEPT ![r] = new]
        /\ file' = [file EXCEPT ![run[r].to] = [state |-> "empty", record |-> Missing]]
        /\ UNCHANGED <<menu, store, reporter>>
    BY <1>1, <1>5 DEF OpenFile
  <2>2. new = [pc |-> "writing", to |-> run[r].to, record |-> run[r].record]
    BY <1>1 DEF RunGood
  <2>3. run[r].to \in Menu /\ Rests(run[r].record) /\ run[r].record \in store
    BY <1>1, <2>1 DEF RunGood
  <2>4. /\ file' = [f \in Menu |-> file'[f]]
        /\ \A f \in Menu : file'[f] # file[f] => file'[f].state = "empty"
    BY <1>1, <2>1, <2>3
  <2> HIDE DEF new
  <2> QED
    BY <1>1, <2>1, <2>2, <2>3, <2>4, RunStep
<1>6. CASE WriteResult(r)
  <2>1. PICK content \in {[state |-> "whole", record |-> run[r].record], MixedFile} :
          file' = [file EXCEPT ![run[r].to] = content]
    BY <1>6 DEF WriteResult
  <2>2. /\ run[r].pc = "writing" /\ run' = [run EXCEPT ![r] = NoRun("ended")]
        /\ UNCHANGED <<menu, store, reporter>>
    BY <1>6 DEF WriteResult
  <2>3. run[r].to \in Menu /\ run[r].record \in store
    BY <1>1, <2>2 DEF RunGood
  <2>4. /\ file' = [f \in Menu |-> file'[f]]
        /\ \A f \in Menu : file'[f] # file[f] => file'[f] = content
    BY <1>1, <2>1, <2>3
  <2>5. content.state = "whole" => content.record \in store
    BY <2>1, <2>3 DEF MixedFile
  <2>6. NoRun("ended") = [pc |-> "ended", to |-> Missing, record |-> Missing]
    BY DEF NoRun
  <2> QED
    BY <1>1, <2>2, <2>4, <2>5, <2>6, RunStep
<1>7. CASE RunDies(r)
  <2>1. NoRun("ended") = [pc |-> "ended", to |-> Missing, record |-> Missing]
    BY DEF NoRun
  <2>2. run' = [run EXCEPT ![r] = NoRun("ended")] /\ UNCHANGED <<menu, store, file, reporter>>
    BY <1>7 DEF RunDies
  <2> QED
    BY <1>1, <2>1, <2>2, RunStep
<1> QED
  BY <1>2, <1>3, <1>4, <1>5, <1>6, <1>7

\* A step of a report leaves the runs alone.
LEMMA ProberStays ==
  ASSUME Prober, UNCHANGED <<menu, prober>>
  PROVE  Prober'
<1>1. \A record : Rests(record) <=> Rests(record)'
  BY DEF Rests, prober
<1> QED
  BY <1>1 DEF Prober, RunGood, Menu, prober

\* A step of one report.
LEMMA ReportStep ==
  ASSUME EvidenceInv, NEW v \in Reports, NEW new,
         draft' = [draft EXCEPT ![v] = new], DraftGood(v)', ReportGood',
         artifacts \subseteq artifacts', UNCHANGED <<menu, prober>>
  PROVE  EvidenceInv'
<1>1. /\ draft' = [u \in Reports |-> draft'[u]]
      /\ \A u \in Reports : u # v => draft'[u] = draft[u]
  BY DEF EvidenceInv, Reporter
<1>2. store' = store /\ \A record, probe : Taken(record, probe) => Taken(record, probe)'
  BY DEF prober, Taken
<1>3. ASSUME NEW u \in Reports PROVE DraftGood(u)'
  <2>1. CASE u # v
    BY <1>1, <1>2, <2>1 DEF EvidenceInv, Reporter, DraftGood
  <2> QED
    BY <2>1
<1>4. Reporter'
  BY <1>1, <1>3 DEF Reporter
<1> QED
  BY <1>4, ProberStays DEF EvidenceInv

\* Every step of a report.
LEMMA ReportKeeps ==
  ASSUME EvidenceAssumption, EvidenceInv, NEW v \in Reports,
         \/ BeginReport(v) \/ ReadFile(v) \/ BuildSteps(v)
         \/ RecordArtifact(v) \/ RecordReport(v) \/ ReportDies(v)
  PROVE  EvidenceInv'
<1> DEFINE d == draft[v]
<1>1. /\ DraftGood(v) /\ ReportGood /\ draft = [u \in Reports |-> draft[u]]
      /\ menu \in Seq(Probes) /\ Len(menu) \in Nat
      /\ \A f \in Menu : file[f].state = "whole" => file[f].record \in store
      /\ \A i \in 1 .. Len(menu) : menu[i] \in Menu
  BY DEF EvidenceInv, Prober, Reporter, EvidenceAssumption, Menu
<1>2. UNCHANGED <<menu, prober>> /\ store' = store /\ artifacts \subseteq artifacts'
  BY DEF BeginReport, ReadFile, BuildSteps, RecordArtifact, RecordReport, ReportDies, prober
<1>3. \A record, probe : Taken(record, probe) => Taken(record, probe)'
  BY <1>2 DEF Taken
<1>4. ASSUME report' = report PROVE ReportGood'
  BY <1>1, <1>2, <1>3, <1>4 DEF ReportGood
<1>5. ASSUME End(v), ReportGood' PROVE EvidenceInv'
  <2>1. draft'[v] = [pc |-> "ended", next |-> 1, found |-> <<>>]
    BY <1>1, <1>5 DEF End, NoDraft
  <2>2. DraftGood(v)'
    BY <2>1 DEF DraftGood
  <2> QED
    BY <1>2, <1>5, <2>2, ReportStep DEF End
<1>6. CASE BeginReport(v)
  <2>1. d.pc = "new" /\ draft' = [draft EXCEPT ![v].pc = "reading"] /\ report' = report
    BY <1>6 DEF BeginReport
  <2>2. draft'[v] = [pc |-> "reading", next |-> 1, found |-> <<>>]
    BY <1>1, <2>1 DEF DraftGood
  <2>3. draft' = [draft EXCEPT ![v] = draft'[v]]
    BY <1>1, <2>1
  <2>4. <<>> \in Seq(store \cup {Missing}) /\ Len(<<>>) = 0
    OBVIOUS
  <2>5. DraftGood(v)'
    BY <1>1, <1>2, <2>2, <2>4 DEF DraftGood
  <2> QED
    BY <1>2, <1>4, <2>1, <2>3, <2>5, ReportStep
<1>7. CASE ReadFile(v)
  <2>1. d.pc = "reading" /\ d.next <= Len(menu) /\ report' = report
    BY <1>7 DEF ReadFile
  <2>2. CASE End(v)
    BY <1>4, <1>5, <2>1, <2>2
  <2>3. CASE ~End(v)
    <3> DEFINE f == menu[d.next]
    <3>1. draft' = [draft EXCEPT ![v].next = @ + 1, ![v].found = Append(@, Found(f))]
      BY <1>7, <2>3 DEF ReadFile
    <3>2. draft'[v] = [pc |-> "reading", next |-> d.next + 1, found |-> Append(d.found, Found(f))]
      BY <1>1, <2>1, <3>1 DEF DraftGood
    <3>3. draft' = [draft EXCEPT ![v] = draft'[v]]
      BY <1>1, <3>1
    <3>4. d.next \in 1 .. Len(menu) /\ f \in Menu /\ d.found \in Seq(store \cup {Missing})
          /\ Len(d.found) = d.next - 1
      BY <1>1, <2>1 DEF DraftGood
    <3>5. Taken(Found(f), f) /\ Found(f) \in store \cup {Missing}
      BY <1>1, <3>4 DEF Found, Taken, PassingProbeArtifact
    <3>6. /\ Append(d.found, Found(f)) \in Seq(store \cup {Missing})
          /\ Len(Append(d.found, Found(f))) = d.next
          /\ \A i \in 1 .. d.next : Taken(Append(d.found, Found(f))[i], menu[i])
      <4>1. /\ Append(d.found, Found(f)) \in Seq(store \cup {Missing})
            /\ Len(Append(d.found, Found(f))) = d.next
            /\ \A i \in 1 .. Len(d.found) : Append(d.found, Found(f))[i] = d.found[i]
            /\ Append(d.found, Found(f))[d.next] = Found(f)
        BY <3>4, <3>5
      <4>2. \A i \in 1 .. Len(d.found) : Taken(d.found[i], menu[i])
        BY <1>1, <2>1 DEF DraftGood
      <4> QED
        BY <3>4, <3>5, <4>1, <4>2
    <3> HIDE DEF f
    <3>7. DraftGood(v)'
      BY <1>1, <1>2, <1>3, <3>2, <3>4, <3>6 DEF DraftGood
    <3> QED
      BY <1>2, <1>4, <2>1, <3>3, <3>7, ReportStep
  <2> QED
    BY <2>2, <2>3
<1>8. CASE BuildSteps(v)
  <2>1. /\ d.pc = "reading" /\ d.next > Len(menu) /\ report' = report
        /\ draft' = [draft EXCEPT ![v].pc = "recording", ![v].next = 1]
    BY <1>8 DEF BuildSteps
  <2>2. draft'[v] = [pc |-> "recording", next |-> 1, found |-> d.found]
    BY <1>1, <2>1 DEF DraftGood
  <2>3. draft' = [draft EXCEPT ![v] = draft'[v]]
    BY <1>1, <2>1
  <2>4. DraftGood(v)'
    BY <1>1, <1>2, <1>3, <2>1, <2>2 DEF DraftGood
  <2> QED
    BY <1>2, <1>4, <2>1, <2>3, <2>4, ReportStep
<1>9. CASE RecordArtifact(v)
  <2>1. /\ d.pc = "recording" /\ d.next <= Len(menu) /\ report' = report
        /\ artifacts' = artifacts \cup ({d.found[d.next]} \ {Missing})
        /\ draft' = [draft EXCEPT ![v].next = @ + 1]
    BY <1>9 DEF RecordArtifact
  <2>2. draft'[v] = [pc |-> "recording", next |-> d.next + 1, found |-> d.found]
    BY <1>1, <2>1 DEF DraftGood
  <2>3. draft' = [draft EXCEPT ![v] = draft'[v]]
    BY <1>1, <2>1
  <2>4. \A i \in 1 .. Len(menu) :
          i < d.next + 1 /\ d.found[i] # Missing => d.found[i] \in artifacts'
    BY <1>1, <2>1 DEF DraftGood
  <2>5. DraftGood(v)'
    BY <1>1, <1>2, <1>3, <2>1, <2>2, <2>4 DEF DraftGood
  <2> QED
    BY <1>2, <1>4, <2>1, <2>3, <2>5, ReportStep
<1>10. CASE RecordReport(v)
  <2>1. /\ d.pc = "recording" /\ d.next > Len(menu) /\ report' = d.found /\ artifacts' = artifacts
        /\ End(v)
    BY <1>10 DEF RecordReport, AllRecorded
  <2>2. \A i \in 1 .. Len(menu) :
          Taken(d.found[i], menu[i]) /\ (d.found[i] # Missing => d.found[i] \in artifacts)
    BY <1>1, <2>1 DEF DraftGood
  <2>3. ReportGood'
    BY <1>2, <1>3, <2>1, <2>2 DEF ReportGood
  <2> QED
    BY <1>5, <2>1, <2>3
<1>11. CASE ReportDies(v)
  BY <1>4, <1>5, <1>11 DEF ReportDies
<1> QED
  BY <1>6, <1>7, <1>8, <1>9, <1>10, <1>11

LEMMA EvidenceSafe ==
  ASSUME EvidenceAssumption
  PROVE  EvidenceSpec => []EvidenceInv
<1>1. EvidenceInit => EvidenceInv
  BY EvidenceStarts
<1>2. EvidenceInv /\ [EvidenceNext]_evidenceVars => EvidenceInv'
  <2> SUFFICES ASSUME EvidenceInv, [EvidenceNext]_evidenceVars PROVE EvidenceInv'
    OBVIOUS
  <2>1. CASE EvidenceNext
    BY <2>1, RunKeeps, ReportKeeps DEF EvidenceNext
  <2>2. CASE UNCHANGED evidenceVars
    <3>1. UNCHANGED <<menu, prober>> /\ UNCHANGED reporter /\ store' = store
      BY <2>2 DEF evidenceVars, prober, reporter
    <3> QED
      BY <3>1, ProberStays, ReporterStays DEF EvidenceInv
  <2> QED
    BY <2>1, <2>2
<1> QED
  BY <1>1, <1>2, PTL DEF EvidenceSpec

\* For any runs, reports and files, dying anywhere: passed steps on a physical GPU rest on published
\* records of their own probes that passed (_passing_probe_artifact, probe_source_compatibility).
THEOREM ReportsAreGrounded ==
  ASSUME EvidenceAssumption
  PROVE  EvidenceSpec => []ReportGrounded
<1>1. EvidenceInv => ReportGrounded
  <2> SUFFICES ASSUME EvidenceInv, NEW name \in CompatibilityLadder,
                      PhysicalGpu(name), StepPassed(name), NEW f \in Evidence(name)
               PROVE  /\ EvidenceOf(f).probe = f /\ EvidenceOf(f).status = "passed"
                      /\ EvidenceOf(f) \in store \cap artifacts
    BY DEF ReportGrounded
  <2>1. f \in Menu /\ report # Missing /\ EvidenceOf(f) # Missing /\ f \notin {"target", "dflash"}
    BY DEF StepPassed, PhysicalGpu
  <2>2. menu \in Seq(Probes) /\ DOMAIN menu = 1 .. Len(menu)
    BY DEF EvidenceInv, EvidenceAssumption
  <2> DEFINE i == CHOOSE j \in DOMAIN menu : menu[j] = f
  <2>3. i \in 1 .. Len(menu) /\ menu[i] = f
    BY <2>1, <2>2 DEF Menu
  <2>4. EvidenceOf(f) = report[i]
    BY DEF EvidenceOf
  <2> HIDE DEF i
  <2>5. Taken(report[i], menu[i]) /\ (report[i] # Missing => report[i] \in artifacts)
    BY <2>1, <2>3 DEF EvidenceInv, Reporter, ReportGood
  <2> QED
    BY <2>1, <2>3, <2>4, <2>5 DEF Taken
<1> QED
  BY <1>1, EvidenceSafe, PTL

\* A parent that counts as restored has answered what the target did when the candidate was served
\* (_parent_restore_probe, main).
THEOREM RestoresFollow ==
  ASSUME EvidenceAssumption
  PROVE  EvidenceSpec => []RestoreFollowsCandidate
<1>1. EvidenceInv => RestoreFollowsCandidate
  BY DEF EvidenceInv, Prober, Rests, PassingCandidate, RestoreFollowsCandidate
<1> QED
  BY <1>1, EvidenceSafe, PTL

=============================================================================
