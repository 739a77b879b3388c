-------------------------- MODULE OciPublish_proof --------------------------
(***************************************************************************)
(* Proofs about OciPublish, for any repositories, contents and publishers: *)
(* types, and that what a tag leads to is in its repository, where the     *)
(* registry spares repositories that are being pushed to.                  *)
(***************************************************************************)
EXTENDS OciPublish, TLAPS

\* Where a run is, and what it has in hand there.
At(p) ==
  /\ runs[p].pc = "blobs" =>
       /\ runs[p].repo \in Artifacts /\ runs[p].tag \in Tags /\ runs[p].cur \in Contents
  /\ runs[p].pc \in {"members", "copy"} => runs[p].repo \in Packs /\ runs[p].tag \in Tags
  /\ runs[p].pc = "copy" => runs[p].from \in Artifacts /\ runs[p].cur \in Contents

Typed == TypeOK /\ \A p \in Publishers : At(p)

LEMMA IdleTyped == Idle \in RunStates
  BY DEF Idle, RunStates, Opt

LEMMA BlobsTyped == ASSUME NEW c \in Contents PROVE Blobs[c] \subseteq Data
  BY OciAssumption

LEMMA InitTyped == Init => Typed
  BY IdleTyped DEF Init, Typed, TypeOK, At, Idle, Opt

\* One more thing in one repository.
LEMMA PutTyped ==
  ASSUME NEW S, NEW things \in [Repos -> SUBSET S], NEW r, NEW x \in S
  PROVE  Put(things, r, x) \in [Repos -> SUBSET S]
  BY DEF Put

\* A run that goes on to a state of its type.
LEMMA RunsTyped ==
  ASSUME NEW p \in Publishers, NEW run \in RunStates, Typed, Runs(p, run)
  PROVE  /\ runs' \in [Publishers -> RunStates] /\ runs'[p] = run
         /\ \A o \in Publishers \ {p} : runs'[o] = runs[o]
  BY DEF Runs, Typed, TypeOK

\* A step of p keeps types if what p does next is typed, and the registry.
LEMMA StepTyped ==
  ASSUME NEW p \in Publishers, NEW run \in RunStates, Typed, Runs(p, run),
         blobs' \in [Repos -> SUBSET Data], manifests' \in [Repos -> SUBSET Contents],
         tags' \in [Artifacts -> [Tags -> Opt(Contents)]],
         bundles' \in [Packs -> [Tags -> SUBSET Contents]], missed' \in [Packs -> SUBSET Data],
         run.pc = "blobs" => run.repo \in Artifacts /\ run.tag \in Tags /\ run.cur \in Contents,
         run.pc \in {"members", "copy"} => run.repo \in Packs /\ run.tag \in Tags,
         run.pc = "copy" => run.from \in Artifacts /\ run.cur \in Contents
  PROVE  Typed'
  BY RunsTyped DEF Typed, TypeOK, At

LEMMA NextTyped == Typed /\ [Next]_vars => Typed'
<1> SUFFICES ASSUME Typed, [Next]_vars PROVE Typed'
  OBVIOUS
<1> USE DEF Opt
<1>0. /\ blobs \in [Repos -> SUBSET Data] /\ manifests \in [Repos -> SUBSET Contents]
      /\ tags \in [Artifacts -> [Tags -> Opt(Contents)]]
      /\ bundles \in [Packs -> [Tags -> SUBSET Contents]] /\ missed \in [Packs -> SUBSET Data]
      /\ \A p \in Publishers : runs[p] \in RunStates /\ At(p)
  BY DEF Typed, TypeOK
<1>1. ASSUME NEW p \in Publishers, NEW r \in Artifacts, NEW t \in Tags, NEW c \in Contents,
             PushArtifact(p, r, t, c)
      PROVE  Typed'
  <2> DEFINE run == [Idle EXCEPT !.pc = "blobs", !.repo = r, !.tag = t, !.cur = c,
                                 !.need = Blobs[c]]
  <2>1. run \in RunStates /\ run.pc = "blobs" /\ run.repo = r /\ run.tag = t /\ run.cur = c
    BY BlobsTyped DEF Idle, RunStates, Repos
  <2>2. Runs(p, run) /\ UNCHANGED <<blobs, manifests, tags, bundles, missed>>
    BY <1>1 DEF PushArtifact
  <2> HIDE DEF run
  <2> QED
    BY <1>0, <2>1, <2>2, StepTyped
<1>2. ASSUME NEW p \in Publishers, NEW r \in Packs, NEW t \in Tags, NEW members \in SUBSET Members,
             PushPack(p, r, t, members)
      PROVE  Typed'
  <2> DEFINE run == [Idle EXCEPT !.pc = "members", !.repo = r, !.tag = t, !.todo = members]
  <2>1. run \in RunStates /\ run.pc = "members" /\ run.repo = r /\ run.tag = t
    BY DEF Idle, RunStates, Repos
  <2>2. Runs(p, run) /\ UNCHANGED <<blobs, manifests, tags, bundles, missed>>
    BY <1>2 DEF PushPack
  <2> HIDE DEF run
  <2> QED
    BY <1>0, <2>1, <2>2, StepTyped
<1>3. ASSUME NEW p \in Publishers, NEW b \in Data, PutBlob(p, b)
      PROVE  Typed'
  <2> DEFINE run == [runs[p] EXCEPT !.need = @ \ {b}]
  <2>1. run \in RunStates /\ run.pc = "blobs" /\ run.repo = runs[p].repo
        /\ run.tag = runs[p].tag /\ run.cur = runs[p].cur
    BY <1>0, <1>3 DEF PutBlob, Come, RunStates
  <2>2. Runs(p, run) /\ UNCHANGED <<manifests, tags, bundles, missed>> /\ At(p) /\ runs[p].pc = "blobs"
    BY <1>0, <1>3 DEF PutBlob
  <2>3. blobs' \in [Repos -> SUBSET Data]
    BY <1>0, <1>3, PutTyped DEF PutBlob
  <2> HIDE DEF run
  <2> QED
    BY <1>0, <2>1, <2>2, <2>3, StepTyped DEF At
<1>4. ASSUME NEW p \in Publishers, PutTag(p)
      PROVE  Typed'
  <2>1. runs[p].pc = "blobs" /\ At(p) /\ runs[p] \in RunStates
    BY <1>0, <1>4 DEF PutTag, Tagged
  <2>2. /\ manifests' = Put(manifests, runs[p].repo, runs[p].cur)
        /\ tags' = [tags EXCEPT ![runs[p].repo][runs[p].tag] = runs[p].cur]
        /\ Runs(p, Idle) /\ UNCHANGED <<blobs, bundles, missed>>
    BY <1>4 DEF PutTag
  <2>3. manifests' \in [Repos -> SUBSET Contents]
    BY <1>0, <2>1, <2>2, PutTyped DEF At
  <2>4. tags' \in [Artifacts -> [Tags -> Opt(Contents)]]
    BY <1>0, <2>1, <2>2 DEF At
  <2>5. Idle.pc = "idle"
    BY DEF Idle
  <2> QED
    BY <1>0, <2>2, <2>3, <2>4, <2>5, IdleTyped, StepTyped
<1>5. ASSUME NEW p \in Publishers, NEW m \in Members, ReadMember(p, m)
      PROVE  Typed'
  <2> DEFINE c == tags[m[1]][m[2]]
             run == [runs[p] EXCEPT !.pc = "copy", !.todo = @ \ {m}, !.from = m[1], !.cur = c,
                                    !.need = ToCopy(c)]
  <2>1. m[1] \in Artifacts /\ m[2] \in Tags
    BY DEF Members
  <2>2. c \in Contents
    BY <1>0, <1>5, <2>1 DEF ReadMember
  <2>3. ToCopy(c) \subseteq Data
    BY <2>2, BlobsTyped DEF ToCopy
  <2> HIDE DEF c
  <2>4. run \in RunStates /\ run.pc = "copy" /\ run.repo = runs[p].repo /\ run.tag = runs[p].tag
        /\ run.from = m[1] /\ run.cur = c
    BY <1>0, <1>5, <2>1, <2>2, <2>3 DEF RunStates
  <2>5. Runs(p, run) /\ UNCHANGED <<blobs, manifests, tags, bundles, missed>>
        /\ runs[p].pc = "members" /\ At(p)
    BY <1>0, <1>5 DEF ReadMember, c
  <2> HIDE DEF run
  <2> QED
    BY <1>0, <2>1, <2>2, <2>4, <2>5, StepTyped DEF At
<1>6. ASSUME NEW p \in Publishers, NEW b \in Data, CopyBlob(p, b)
      PROVE  Typed'
  <2> DEFINE run == [runs[p] EXCEPT !.need = @ \ {b}]
  <2>1. run \in RunStates /\ run.pc = "copy" /\ run.repo = runs[p].repo
        /\ run.tag = runs[p].tag /\ run.cur = runs[p].cur /\ run.from = runs[p].from
    <3>1. runs[p] \in RunStates /\ runs[p].pc = "copy"
      BY <1>0, <1>6 DEF CopyBlob
    <3> QED
      BY <3>1 DEF RunStates
  <2>2. Runs(p, run) /\ UNCHANGED <<manifests, tags, bundles>> /\ At(p) /\ runs[p].pc = "copy"
    BY <1>0, <1>6 DEF CopyBlob
  <2>3. blobs' \in [Repos -> SUBSET Data] /\ missed' \in [Packs -> SUBSET Data]
    <3>1. Put(blobs, runs[p].repo, b) \in [Repos -> SUBSET Data]
      BY <1>0, PutTyped
    <3>2. /\ [missed EXCEPT ![runs[p].repo] = @ \ {b}] \in [Packs -> SUBSET Data]
          /\ [missed EXCEPT ![runs[p].repo] = @ \cup ({b} \ blobs[runs[p].repo])]
               \in [Packs -> SUBSET Data]
      BY <1>0
    <3> QED
      BY <1>0, <1>6, <3>1, <3>2 DEF CopyBlob
  <2> HIDE DEF run
  <2> QED
    BY <1>0, <2>1, <2>2, <2>3, StepTyped DEF At
<1>7. ASSUME NEW p \in Publishers, PutMember(p)
      PROVE  Typed'
  <2> DEFINE run == [runs[p] EXCEPT !.pc = "members", !.from = None, !.cur = None,
                                    !.got = @ \cup {Listed(p)}]
  <2>1. runs[p].pc = "copy" /\ At(p) /\ runs[p] \in RunStates
    BY <1>0, <1>7 DEF PutMember
  <2>2. run \in RunStates /\ run.pc = "members" /\ run.repo = runs[p].repo
        /\ run.tag = runs[p].tag
    BY <2>1 DEF RunStates, Listed, At
  <2>3. Runs(p, run) /\ UNCHANGED <<blobs, tags, bundles, missed>>
        /\ manifests' = Put(manifests, runs[p].repo, runs[p].cur)
    BY <1>7 DEF PutMember
  <2>4. manifests' \in [Repos -> SUBSET Contents]
    BY <1>0, <2>1, <2>3, PutTyped DEF At
  <2> HIDE DEF run
  <2> QED
    BY <1>0, <2>1, <2>2, <2>3, <2>4, StepTyped DEF At
<1>8. ASSUME NEW p \in Publishers, PutIndex(p)
      PROVE  Typed'
  <2>1. runs[p].pc = "members" /\ At(p) /\ runs[p].got \in SUBSET Contents
    BY <1>0, <1>8 DEF PutIndex, RunStates
  <2>2. bundles' = [bundles EXCEPT ![runs[p].repo][runs[p].tag] = runs[p].got]
        /\ Runs(p, Idle) /\ UNCHANGED <<blobs, manifests, tags, missed>>
    BY <1>8 DEF PutIndex
  <2>3. bundles' \in [Packs -> [Tags -> SUBSET Contents]]
    BY <1>0, <2>1, <2>2 DEF At
  <2>4. Idle.pc = "idle"
    BY DEF Idle
  <2> QED
    BY <1>0, <2>2, <2>3, <2>4, IdleTyped, StepTyped
<1>9. ASSUME NEW p \in Publishers, Stops(p)
      PROVE  Typed'
  <2>1. Runs(p, Idle) /\ UNCHANGED <<blobs, manifests, tags, bundles, missed>> /\ Idle.pc = "idle"
    BY <1>9 DEF Stops, Idle
  <2> QED
    BY <1>0, <2>1, IdleTyped, StepTyped
<1>10. ASSUME NEW r \in Repos, Collect(r)
       PROVE  Typed'
  <2>1. UNCHANGED <<tags, bundles, runs, missed>> /\ blobs' \in [Repos -> SUBSET Data]
        /\ manifests' \in [Repos -> SUBSET Contents]
    BY <1>0, <1>10 DEF Collect
  <2> QED
    BY <2>1 DEF Typed, TypeOK, At
<1>11. CASE UNCHANGED vars
  BY <1>11 DEF vars, Typed, TypeOK, At
<1> QED
  BY <1>1, <1>2, <1>3, <1>4, <1>5, <1>6, <1>7, <1>8, <1>9, <1>10, <1>11 DEF Next

\* Types hold: an index lists manifests and nothing else, blobs are where blobs belong.
THEOREM PublisherTypes == Spec => []TypeOK
<1>1. Typed => TypeOK
  BY DEF Typed
<1> QED
  BY <1>1, InitTyped, NextTyped, PTL DEF Spec

------------------------------------------------------------------------------
(* What a tag leads to is there. *)

\* A manifest of a pack has all its blobs, but for what was missed.
Copied(r, c) == c \in manifests[r] /\ Blobs[c] \subseteq blobs[r] \cup missed[r]

\* What a run has put so far: of the manifest in hand all blobs but those it still needs, in a pack
\* those apart that it missed; and every member it is going to list.
Had(p) ==
  /\ runs[p].pc = "blobs" => Blobs[runs[p].cur] \ runs[p].need \subseteq blobs[runs[p].repo]
  /\ runs[p].pc = "copy" =>
       Blobs[runs[p].cur] \ runs[p].need \subseteq blobs[runs[p].repo] \cup missed[runs[p].repo]
  /\ runs[p].pc \in {"members", "copy"} => \A c \in runs[p].got : Copied(runs[p].repo, c)

Complete == ArtifactsComplete /\ BundlesComplete /\ \A p \in Publishers : Had(p)

LEMMA InitComplete == Init => Complete
  BY DEF Init, Complete, ArtifactsComplete, BundlesComplete, Had, Idle

\* A step of p that takes nothing from a repository: all that is left to see to is what p does
\* next, and what it tags.
LEMMA Grows ==
  ASSUME NEW p \in Publishers, Typed, Complete,
         \A r \in Repos : blobs[r] \subseteq blobs'[r] /\ manifests[r] \subseteq manifests'[r],
         \A r \in Packs : missed[r] \subseteq blobs'[r] \cup missed'[r],
         \A o \in Publishers \ {p} : runs'[o] = runs[o],
         \A r \in Artifacts, t \in Tags : tags'[r][t] # None =>
           \/ tags'[r][t] = tags[r][t]
           \/ tags'[r][t] \in manifests'[r] /\ Blobs[tags'[r][t]] \subseteq blobs'[r],
         \A r \in Packs, t \in Tags : \A c \in bundles'[r][t] :
           \/ c \in bundles[r][t]
           \/ c \in manifests'[r] /\ Blobs[c] \subseteq blobs'[r] \cup missed'[r],
         Had(p)'
  PROVE  Complete'
<1>1. ArtifactsComplete'
  BY DEF Complete, ArtifactsComplete, Has, Repos
<1>2. BundlesComplete'
  BY DEF Complete, BundlesComplete, Repos
<1>3. ASSUME NEW o \in Publishers \ {p}
      PROVE  Had(o)'
  <2>1. runs'[o] = runs[o] /\ Had(o) /\ At(o)
    BY <1>3 DEF Complete, Typed
  <2>2. runs[o].pc = "blobs" => runs[o].repo \in Repos
    BY <2>1 DEF At, Repos
  <2>3. runs[o].pc \in {"members", "copy"} => runs[o].repo \in Repos \cap Packs
    BY <2>1 DEF At, Repos
  <2> QED
    BY <2>1, <2>2, <2>3 DEF Had, Copied
<1> QED
  BY <1>1, <1>2, <1>3 DEF Complete

LEMMA NextComplete == Grace /\ Typed /\ Complete /\ [Next]_vars => Complete'
<1> SUFFICES ASSUME Grace, Typed, Complete, [Next]_vars PROVE Complete'
  OBVIOUS
<1>0. /\ blobs \in [Repos -> SUBSET Data] /\ manifests \in [Repos -> SUBSET Contents]
      /\ tags \in [Artifacts -> [Tags -> Opt(Contents)]]
      /\ bundles \in [Packs -> [Tags -> SUBSET Contents]] /\ missed \in [Packs -> SUBSET Data]
      /\ \A p \in Publishers : runs[p] \in RunStates /\ At(p) /\ Had(p)
      /\ ArtifactsComplete /\ BundlesComplete /\ runs \in [Publishers -> RunStates]
  BY DEF Typed, TypeOK, Complete
<1>a. ASSUME NEW p \in Publishers, NEW run, Runs(p, run)
      PROVE  runs'[p] = run /\ \A o \in Publishers \ {p} : runs'[o] = runs[o]
  BY <1>0, <1>a DEF Runs
<1>1. ASSUME NEW p \in Publishers, NEW r \in Artifacts, NEW t \in Tags, NEW c \in Contents,
             PushArtifact(p, r, t, c)
      PROVE  Complete'
  <2> DEFINE run == [Idle EXCEPT !.pc = "blobs", !.repo = r, !.tag = t, !.cur = c,
                                 !.need = Blobs[c]]
  <2>1. run.pc = "blobs" /\ run.cur = c /\ run.need = Blobs[c]
    BY DEF Idle
  <2>2. Runs(p, run) /\ UNCHANGED <<blobs, manifests, tags, bundles, missed>>
    BY <1>1 DEF PushArtifact
  <2> HIDE DEF run
  <2>3. Had(p)'
    BY <1>a, <2>1, <2>2 DEF Had
  <2> QED
    BY <1>a, <2>2, <2>3, Grows
<1>2. ASSUME NEW p \in Publishers, NEW r \in Packs, NEW t \in Tags, NEW members \in SUBSET Members,
             PushPack(p, r, t, members)
      PROVE  Complete'
  <2> DEFINE run == [Idle EXCEPT !.pc = "members", !.repo = r, !.tag = t, !.todo = members]
  <2>1. run.pc = "members" /\ run.got = {}
    BY DEF Idle
  <2>2. Runs(p, run) /\ UNCHANGED <<blobs, manifests, tags, bundles, missed>>
    BY <1>2 DEF PushPack
  <2> HIDE DEF run
  <2>3. Had(p)'
    BY <1>a, <2>1, <2>2 DEF Had
  <2> QED
    BY <1>a, <2>2, <2>3, Grows
<1>3. ASSUME NEW p \in Publishers, NEW b \in Data, PutBlob(p, b)
      PROVE  Complete'
  <2> DEFINE run == [runs[p] EXCEPT !.need = @ \ {b}]
  <2>1. run.pc = "blobs" /\ run.repo = runs[p].repo /\ run.cur = runs[p].cur
        /\ run.need = runs[p].need \ {b}
    BY <1>0, <1>3 DEF PutBlob, Come, RunStates
  <2>2. Runs(p, run) /\ UNCHANGED <<manifests, tags, bundles, missed>> /\ runs[p].pc = "blobs"
        /\ blobs' = Put(blobs, runs[p].repo, b)
    BY <1>3 DEF PutBlob
  <2> HIDE DEF run
  <2>3. runs[p].repo \in Repos /\ Blobs[runs[p].cur] \ runs[p].need \subseteq blobs[runs[p].repo]
    BY <1>0, <2>2 DEF At, Had, Repos
  <2>4. /\ \A q \in Repos : blobs[q] \subseteq blobs'[q]
        /\ blobs'[runs[p].repo] = blobs[runs[p].repo] \cup {b}
    BY <1>0, <2>2, <2>3 DEF Put
  <2>5. Had(p)'
    BY <1>a, <2>1, <2>2, <2>3, <2>4 DEF Had
  <2> QED
    BY <1>a, <2>2, <2>4, <2>5, Grows
<1>4. ASSUME NEW p \in Publishers, PutTag(p)
      PROVE  Complete'
  <2>1. /\ runs[p].pc = "blobs" /\ runs[p].need = {}
        /\ manifests' = Put(manifests, runs[p].repo, runs[p].cur)
        /\ tags' = [tags EXCEPT ![runs[p].repo][runs[p].tag] = runs[p].cur]
        /\ Runs(p, Idle) /\ UNCHANGED <<blobs, bundles, missed>>
    BY <1>4 DEF PutTag, Tagged
  <2>2. runs[p].repo \in Repos /\ Blobs[runs[p].cur] \subseteq blobs[runs[p].repo]
    BY <1>0, <2>1 DEF At, Had, Repos
  <2>3. /\ \A q \in Repos : manifests[q] \subseteq manifests'[q]
        /\ runs[p].cur \in manifests'[runs[p].repo]
    BY <1>0, <2>1, <2>2 DEF Put
  <2>4. ASSUME NEW r \in Artifacts, NEW t \in Tags
        PROVE  tags'[r][t] = tags[r][t] \/ (r = runs[p].repo /\ tags'[r][t] = runs[p].cur)
    BY <1>0, <2>1
  <2>5. Had(p)'
    BY <1>a, <2>1 DEF Had, Idle
  <2> QED
    BY <1>a, <2>1, <2>2, <2>3, <2>4, <2>5, Grows
<1>5. ASSUME NEW p \in Publishers, NEW m \in Members, ReadMember(p, m)
      PROVE  Complete'
  <2> DEFINE c == tags[m[1]][m[2]]
             run == [runs[p] EXCEPT !.pc = "copy", !.todo = @ \ {m}, !.from = m[1], !.cur = c,
                                    !.need = ToCopy(c)]
  <2>1. m[1] \in Artifacts /\ m[2] \in Tags /\ c # None /\ runs[p].pc = "members"
    BY <1>5 DEF Members, ReadMember
  <2>3. Runs(p, run) /\ UNCHANGED <<blobs, manifests, tags, bundles, missed>>
    BY <1>5 DEF ReadMember
  <2> HIDE DEF c
  <2>4. run.pc = "copy" /\ run.repo = runs[p].repo /\ run.from = m[1] /\ run.cur = c
        /\ run.need = Blobs[c] /\ run.got = runs[p].got
    BY <1>0 DEF RunStates, ToCopy
  <2> HIDE DEF run
  <2>5. \A d \in runs[p].got : Copied(runs[p].repo, d)
    BY <1>0, <2>1 DEF Had
  <2>6. Had(p)'
    BY <1>a, <2>3, <2>4, <2>5 DEF Had, Copied
  <2> QED
    BY <1>a, <2>3, <2>6, Grows
<1>6. ASSUME NEW p \in Publishers, NEW b \in Data, CopyBlob(p, b)
      PROVE  Complete'
  <2> DEFINE run == [runs[p] EXCEPT !.need = @ \ {b}]
  <2>1. run.pc = "copy" /\ run.repo = runs[p].repo /\ run.cur = runs[p].cur
        /\ run.need = runs[p].need \ {b} /\ run.from = runs[p].from /\ run.got = runs[p].got
    BY <1>0, <1>6 DEF CopyBlob, Come, RunStates
  <2> DEFINE r == runs[p].repo
  <2>2. Runs(p, run) /\ UNCHANGED <<manifests, tags, bundles>> /\ runs[p].pc = "copy"
    BY <1>6 DEF CopyBlob, Come
  <2>3. /\ r \in Packs /\ r \in Repos
        /\ Blobs[runs[p].cur] \ runs[p].need \subseteq blobs[r] \cup missed[r]
        /\ \A d \in runs[p].got : Copied(r, d)
    BY <1>0, <2>2 DEF At, Had, Repos
  <2>4. /\ \A q \in Repos : blobs[q] \subseteq blobs'[q]
        /\ \A q \in Packs : missed[q] \subseteq blobs'[q] \cup missed'[q]
        /\ b \in blobs'[r] \cup missed'[r]
    <3>1. CASE blobs' = Put(blobs, r, b) /\ missed' = [missed EXCEPT ![r] = @ \ {b}]
      BY <1>0, <2>3, <3>1 DEF Put
    <3>2. CASE blobs' = blobs /\ missed' = [missed EXCEPT ![r] = @ \cup ({b} \ blobs[r])]
      BY <1>0, <2>3, <3>2
    <3> QED
      BY <1>6, <3>1, <3>2 DEF CopyBlob
  <2> HIDE DEF run
  <2>5. Had(p)'
    <3>1. /\ blobs[r] \subseteq blobs'[r] /\ missed[r] \subseteq blobs'[r] \cup missed'[r]
          /\ manifests' = manifests
      BY <2>2, <2>3, <2>4
    <3>2. \A d \in runs[p].got :
            d \in manifests'[r] /\ Blobs[d] \subseteq blobs'[r] \cup missed'[r]
      BY <2>3, <3>1 DEF Copied
    <3>3. Blobs[runs[p].cur] \ (runs[p].need \ {b}) \subseteq blobs'[r] \cup missed'[r]
      BY <2>3, <2>4, <3>1
    <3> QED
      BY <1>a, <2>1, <2>2, <3>2, <3>3 DEF Had, Copied
  <2> QED
    BY <1>a, <2>2, <2>4, <2>5, Grows
<1>7. ASSUME NEW p \in Publishers, PutMember(p)
      PROVE  Complete'
  <2> DEFINE run == [runs[p] EXCEPT !.pc = "members", !.from = None, !.cur = None,
                                    !.got = @ \cup {Listed(p)}]
  <2>1. /\ runs[p].pc = "copy" /\ runs[p].need = {} /\ Runs(p, run)
        /\ manifests' = Put(manifests, runs[p].repo, runs[p].cur)
        /\ UNCHANGED <<blobs, tags, bundles, missed>>
    BY <1>7 DEF PutMember
  <2>2. run.pc = "members" /\ run.repo = runs[p].repo
        /\ run.got = runs[p].got \cup {runs[p].cur}
    BY <1>0 DEF RunStates, Listed
  <2> HIDE DEF run
  <2>3. /\ runs[p].repo \in Repos
        /\ Blobs[runs[p].cur] \subseteq blobs[runs[p].repo] \cup missed[runs[p].repo]
        /\ \A d \in runs[p].got : Copied(runs[p].repo, d)
    BY <1>0, <2>1 DEF At, Had, Repos
  <2>4. /\ \A q \in Repos : manifests[q] \subseteq manifests'[q]
        /\ runs[p].cur \in manifests'[runs[p].repo]
    BY <1>0, <2>1, <2>3 DEF Put
  <2>5. Had(p)'
    <3>1. \A d \in runs[p].got \cup {runs[p].cur} :
            /\ d \in manifests'[runs[p].repo]
            /\ Blobs[d] \subseteq blobs'[runs[p].repo] \cup missed'[runs[p].repo]
      BY <2>1, <2>3, <2>4 DEF Copied
    <3> QED
      BY <1>a, <2>1, <2>2, <3>1 DEF Had, Copied
  <2> QED
    BY <1>a, <2>1, <2>4, <2>5, Grows
<1>8. ASSUME NEW p \in Publishers, PutIndex(p)
      PROVE  Complete'
  <2>1. /\ runs[p].pc = "members" /\ Runs(p, Idle) /\ UNCHANGED <<blobs, manifests, tags, missed>>
        /\ bundles' = [bundles EXCEPT ![runs[p].repo][runs[p].tag] = runs[p].got]
    BY <1>8 DEF PutIndex
  <2>2. \A d \in runs[p].got : Copied(runs[p].repo, d)
    BY <1>0, <2>1 DEF Had
  <2>3. ASSUME NEW r \in Packs, NEW t \in Tags
        PROVE  bundles'[r][t] = bundles[r][t] \/ (r = runs[p].repo /\ bundles'[r][t] = runs[p].got)
    BY <1>0, <2>1
  <2>4. Had(p)'
    BY <1>a, <2>1 DEF Had, Idle
  <2> QED
    BY <1>a, <2>1, <2>2, <2>3, <2>4, Grows DEF Copied
<1>9. ASSUME NEW p \in Publishers, Stops(p)
      PROVE  Complete'
  <2>1. Runs(p, Idle) /\ UNCHANGED <<blobs, manifests, tags, bundles, missed>>
    BY <1>9 DEF Stops
  <2>2. Had(p)'
    BY <1>a, <2>1 DEF Had, Idle
  <2> QED
    BY <1>a, <2>1, <2>2, Grows
<1>10. ASSUME NEW r \in Repos, Collect(r)
       PROVE  Complete'
  <2>1. /\ \A p \in Publishers : ~ Uses(p, r)
        /\ manifests' = [manifests EXCEPT ![r] = @ \cap Led(r)]
        /\ blobs' = [blobs EXCEPT ![r] = @ \cap UNION {Blobs[c] : c \in manifests[r] \cap Led(r)}]
        /\ UNCHANGED <<tags, bundles, runs, missed>>
    BY <1>10 DEF Collect
  <2>2. \A q \in Repos \ {r} : manifests'[q] = manifests[q] /\ blobs'[q] = blobs[q]
    BY <1>0, <2>1
  <2>3. ASSUME NEW c \in Led(r), Has(r, c)
        PROVE  c \in manifests'[r] /\ Blobs[c] \subseteq blobs'[r]
    BY <1>0, <2>1, <2>3 DEF Has
  <2>4. ArtifactsComplete'
    <3>1. ASSUME NEW a \in Artifacts, NEW t \in Tags, tags[a][t] # None
          PROVE  tags[a][t] \in manifests'[a] /\ Blobs[tags[a][t]] \subseteq blobs'[a]
      <4>1. Has(a, tags[a][t]) /\ a \in Repos
        BY <1>0, <3>1 DEF ArtifactsComplete, Repos
      <4>2. CASE a = r
        BY <2>3, <3>1, <4>1, <4>2 DEF Led
      <4>3. CASE a # r
        BY <2>2, <4>1, <4>3 DEF Has
      <4> QED
        BY <4>2, <4>3
    <3> QED
      BY <2>1, <3>1 DEF ArtifactsComplete, Has
  <2>5. BundlesComplete'
    <3>1. ASSUME NEW k \in Packs, NEW t \in Tags, NEW c \in bundles[k][t]
          PROVE  c \in manifests'[k] /\ Blobs[c] \subseteq blobs'[k] \cup missed[k]
      <4>1. /\ c \in manifests[k] /\ Blobs[c] \subseteq blobs[k] \cup missed[k]
            /\ k \in Repos /\ k \notin Artifacts
        BY <1>0, <3>1, OciAssumption DEF BundlesComplete, Repos
      <4>2. CASE k = r
        <5>1. c \in Led(r)
          BY <3>1, <4>1, <4>2 DEF Led
        <5>2. /\ manifests'[r] = manifests[r] \cap Led(r)
              /\ blobs'[r] = blobs[r] \cap UNION {Blobs[d] : d \in manifests[r] \cap Led(r)}
          BY <1>0, <2>1
        <5>3. Blobs[c] \subseteq UNION {Blobs[d] : d \in manifests[r] \cap Led(r)}
          BY <4>1, <4>2, <5>1
        <5> QED
          BY <4>1, <4>2, <5>1, <5>2, <5>3
      <4>3. CASE k # r
        BY <2>2, <4>1, <4>3
      <4> QED
        BY <4>2, <4>3
    <3> QED
      BY <2>1, <3>1 DEF BundlesComplete
  <2>6. ASSUME NEW p \in Publishers
        PROVE  Had(p)'
    <3>1. runs' = runs /\ missed' = missed /\ Had(p) /\ At(p)
      BY <1>0, <2>1
    <3>2. runs[p].pc \in {"blobs", "copy", "members"} => runs[p].repo \in Repos \ {r}
      BY <2>1, <3>1 DEF At, Uses, Idle, Repos
    <3> QED
      BY <2>2, <3>1, <3>2 DEF Had, Copied
  <2> QED
    BY <2>4, <2>5, <2>6 DEF Complete
<1>11. CASE UNCHANGED vars
  BY <1>11 DEF vars, Complete, ArtifactsComplete, BundlesComplete, Had, Has, Copied
<1> QED
  BY <1>1, <1>2, <1>3, <1>4, <1>5, <1>6, <1>7, <1>8, <1>9, <1>10, <1>11 DEF Next

\* Where the registry collects nothing in a repository that is being pushed to, what a run has put
\* or copied stays for the manifest it is about to put (put_blob and put_manifest in
\* publish-oci.py).
THEOREM StaysComplete ==
  ASSUME Grace
  PROVE  Spec => [](Typed /\ Complete)
<1>1. Init => Typed /\ Complete
  BY InitTyped, InitComplete
<1>2. Typed /\ Complete /\ [Next]_vars => (Typed /\ Complete)'
  BY NextTyped, NextComplete
<1> QED
  BY <1>1, <1>2, PTL DEF Spec

\* Then a tag of a skill or a tool leads to a manifest with all its blobs.
THEOREM TagsLeadToAll ==
  ASSUME Grace
  PROVE  Spec => []ArtifactsComplete
<1>1. Complete => ArtifactsComplete
  BY DEF Complete
<1> QED
  BY <1>1, StaysComplete, PTL

\* And a tag of a pack leads to its members' blobs, copied from their own repositories, whatever is
\* collected there meanwhile: all but those whose GET had failed.
THEOREM PacksLeadToAll ==
  ASSUME Grace
  PROVE  Spec => []BundlesComplete
<1>1. Complete => BundlesComplete
  BY DEF Complete
<1> QED
  BY <1>1, StaysComplete, PTL
=============================================================================
