----------------------------- MODULE OciPublish -----------------------------
(***************************************************************************)
(* publish-oci.py.  It pushes skills and tools, a manifest with two blobs  *)
(* each, to repositories of a registry, and packs: an index of members     *)
(* that lie elsewhere, whose manifests and blobs it copies into the pack's *)
(* own repository.  Runs overlap, are cut short and repeated, tags move    *)
(* on, and the registry collects what no tag leads to.                     *)
(***************************************************************************)
EXTENDS FiniteSets

CONSTANTS
  None,
  Artifacts, Packs,  \* repositories
  Tags,
  Contents,          \* what is pushed; a manifest is known by its content, as by its digest
  Data,
  Blobs,             \* Blobs[c]: the config and the layers of c
  Config,            \* Config[c]: the config, the first of them
  Publishers,        \* runs of the script
  Faulty,            \* blobs whose GET may fail although they are there
  Grace              \* TRUE: the registry collects nothing in a repository that a run pushes to

ASSUME OciAssumption ==
  /\ Artifacts \cap Packs = {} /\ None \notin Contents \cup Artifacts
  /\ Blobs \in [Contents -> SUBSET Data]
  /\ Config \in [Contents -> Data] /\ \A c \in Contents : Config[c] \in Blobs[c]
  /\ Grace \in BOOLEAN

Repos == Artifacts \cup Packs
Members == Artifacts \X Tags

VARIABLES
  blobs,      \* repository -> the blobs in it
  manifests,  \* repository -> the manifests in it
  tags,       \* artifact -> tag -> the manifest it leads to
  bundles,    \* pack -> tag -> the manifests listed by the index it leads to, {} without one
  runs,       \* publisher -> what the script is doing
  missed      \* history: pack -> the blobs that a run went to copy into it, and read in vain,
              \* until one is copied after all

vars == <<blobs, manifests, tags, bundles, runs, missed>>

Idle == [pc |-> "idle", repo |-> None, tag |-> None, todo |-> {}, from |-> None, cur |-> None,
         need |-> {}, got |-> {}]

Init ==
  /\ blobs = [r \in Repos |-> {}] /\ manifests = [r \in Repos |-> {}]
  /\ tags = [r \in Artifacts |-> [t \in Tags |-> None]]
  /\ bundles = [r \in Packs |-> [t \in Tags |-> {}]]
  /\ runs = [p \in Publishers |-> Idle]
  /\ missed = [r \in Packs |-> {}]

\* The blob a run has come to: the config first.
Come(p, b) == b \in runs[p].need /\ (Config[runs[p].cur] \in runs[p].need => b = Config[runs[p].cur])
Runs(p, run) == runs' = [runs EXCEPT ![p] = run]
Put(things, r, x) == [things EXCEPT ![r] = @ \cup {x}]

------------------------------------------------------------------------------
(* skill, tool: push_artifact *)

PushArtifact(p, r, t, c) ==
  /\ runs[p] = Idle
  /\ Runs(p, [Idle EXCEPT !.pc = "blobs", !.repo = r, !.tag = t, !.cur = c, !.need = Blobs[c]])
  /\ UNCHANGED <<blobs, manifests, tags, bundles, missed>>

\* put_blob: it is there, or it is uploaded.
PutBlob(p, b) ==
  /\ runs[p].pc = "blobs" /\ Come(p, b)
  /\ blobs' = Put(blobs, runs[p].repo, b)
  /\ Runs(p, [runs[p] EXCEPT !.need = @ \ {b}])
  /\ UNCHANGED <<manifests, tags, bundles, missed>>

\* (Mutant of Tagged: the manifest is pushed first.)
TaggedFirst(p) == runs[p].pc = "blobs"
Tagged(p) == runs[p].pc = "blobs" /\ runs[p].need = {}

\* put_manifest under the tag.
PutTag(p) ==
  /\ Tagged(p)
  /\ manifests' = Put(manifests, runs[p].repo, runs[p].cur)
  /\ tags' = [tags EXCEPT ![runs[p].repo][runs[p].tag] = runs[p].cur]
  /\ Runs(p, Idle)
  /\ UNCHANGED <<blobs, bundles, missed>>

------------------------------------------------------------------------------
(* pack *)

PushPack(p, r, t, members) ==
  /\ runs[p] = Idle
  /\ Runs(p, [Idle EXCEPT !.pc = "members", !.repo = r, !.tag = t, !.todo = members])
  /\ UNCHANGED <<blobs, manifests, tags, bundles, missed>>

\* (Mutant of ToCopy: the config is taken to be part of the manifest.)
ToCopyLayers(c) == Blobs[c] \ {Config[c]}
\* [man["config"]] + man["layers"]
ToCopy(c) == Blobs[c]

\* get_manifest_raw of the next member, at its tag.
ReadMember(p, m) ==
  /\ runs[p].pc = "members" /\ m \in runs[p].todo
  /\ tags[m[1]][m[2]] # None
  /\ LET c == tags[m[1]][m[2]] IN
     Runs(p, [runs[p] EXCEPT !.pc = "copy", !.todo = @ \ {m}, !.from = m[1], !.cur = c,
                             !.need = ToCopy(c)])
  /\ UNCHANGED <<blobs, manifests, tags, bundles, missed>>

\* GET of a blob of the member, and put_blob of what it gave into the pack's repository, mounted
\* or uploaded.  The status of the GET is not looked at: what an error gave is put there as well,
\* as a blob that nobody refers to.
CopyBlob(p, b) ==
  LET r == runs[p].repo IN
  /\ runs[p].pc = "copy" /\ Come(p, b)
  /\ \/ /\ b \in blobs[runs[p].from]
        /\ blobs' = Put(blobs, r, b) /\ missed' = [missed EXCEPT ![r] = @ \ {b}]
     \/ /\ b \in Faulty \/ b \notin blobs[runs[p].from]
        /\ blobs' = blobs /\ missed' = [missed EXCEPT ![r] = @ \cup ({b} \ blobs[r])]
  /\ Runs(p, [runs[p] EXCEPT !.need = @ \ {b}])
  /\ UNCHANGED <<manifests, tags, bundles>>

\* (Mutant of Listed: descriptors name the repository of the member.)
ListedRepo(p) == runs[p].from
\* descs: the digest of the member's manifest.
Listed(p) == runs[p].cur

\* put_manifest of the member by its digest.
PutMember(p) ==
  /\ runs[p].pc = "copy" /\ runs[p].need = {}
  /\ manifests' = Put(manifests, runs[p].repo, runs[p].cur)
  /\ Runs(p, [runs[p] EXCEPT !.pc = "members", !.from = None, !.cur = None,
                          !.got = @ \cup {Listed(p)}])
  /\ UNCHANGED <<blobs, tags, bundles, missed>>

\* put_manifest of the index under the tag.
PutIndex(p) ==
  /\ runs[p].pc = "members" /\ runs[p].todo = {}
  /\ bundles' = [bundles EXCEPT ![runs[p].repo][runs[p].tag] = runs[p].got]
  /\ Runs(p, Idle)
  /\ UNCHANGED <<blobs, manifests, tags, missed>>

------------------------------------------------------------------------------
\* An assertion fails, a request raises, or the script is stopped.
Stops(p) ==
  /\ runs[p] # Idle /\ Runs(p, Idle)
  /\ UNCHANGED <<blobs, manifests, tags, bundles, missed>>

Uses(p, r) == runs[p] # Idle /\ r = runs[p].repo

\* What a tag of r leads to.
Led(r) == IF r \in Artifacts THEN {tags[r][t] : t \in Tags} \ {None}
          ELSE UNION {bundles[r][t] : t \in Tags}

\* The registry collects garbage in r, a repository that members are only read from included.
Collect(r) ==
  /\ Grace => \A p \in Publishers : ~ Uses(p, r)
  /\ manifests' = [manifests EXCEPT ![r] = @ \cap Led(r)]
  /\ blobs' = [blobs EXCEPT ![r] = @ \cap UNION {Blobs[c] : c \in manifests[r] \cap Led(r)}]
  /\ UNCHANGED <<tags, bundles, runs, missed>>

Next ==
  \/ \E p \in Publishers :
       \/ \E r \in Artifacts, t \in Tags, c \in Contents : PushArtifact(p, r, t, c)
       \/ \E r \in Packs, t \in Tags, members \in SUBSET Members : PushPack(p, r, t, members)
       \/ \E b \in Data : PutBlob(p, b) \/ CopyBlob(p, b)
       \/ \E m \in Members : ReadMember(p, m)
       \/ PutTag(p) \/ PutMember(p) \/ PutIndex(p) \/ Stops(p)
  \/ \E r \in Repos : Collect(r)

Spec == Init /\ [][Next]_vars

------------------------------------------------------------------------------
(* Properties *)

Opt(S) == S \cup {None}
RunStates ==
  [pc : {"idle", "blobs", "members", "copy"}, repo : Opt(Repos), tag : Opt(Tags),
   todo : SUBSET Members, from : Opt(Artifacts), cur : Opt(Contents), need : SUBSET Data,
   got : SUBSET Contents]

TypeOK ==
  /\ blobs \in [Repos -> SUBSET Data] /\ manifests \in [Repos -> SUBSET Contents]
  /\ tags \in [Artifacts -> [Tags -> Opt(Contents)]]
  /\ bundles \in [Packs -> [Tags -> SUBSET Contents]]
  /\ runs \in [Publishers -> RunStates] /\ missed \in [Packs -> SUBSET Data]

Has(r, c) == c \in manifests[r] /\ Blobs[c] \subseteq blobs[r]

\* What a tag of a skill or tool leads to can be pulled, whoever pushes, stops or collects.
ArtifactsComplete == \A r \in Artifacts, t \in Tags : tags[r][t] # None => Has(r, tags[r][t])

\* "The bundle physically contains what it claims": all that the index of a pack lists is in the
\* pack's own repository, also when the member's tag has moved on since and its repository
\* collected what the pack was made of; all but what the script was told could not be read, when it
\* did not listen.
BundlesComplete ==
  \A r \in Packs, t \in Tags : \A c \in bundles[r][t] :
    c \in manifests[r] /\ Blobs[c] \subseteq blobs[r] \cup missed[r]
=============================================================================
