# The software factory's hub in TLA+

The repository deploys an agent platform for workshops. Most of it is declarations (Ansible,
Kubernetes manifests, HTML). Its own concurrent program is the *factory hub* in
`src/deploy/salamander-factory-hub/`: a broker (`broker.py` and `seatlib.py`, inside
`manifests.yaml`, `manifests-rbac.yaml` and files of their own) that gives attendees *seats*, the
Jobs it starts to build, reset and remove them, and a help desk. This project models that
program, checks the model with TLC on small instances and proves what matters most with TLAPS.

## Inventory

| Component | State | Operations | Hard behaviour | What makes it correct |
|---|---|---|---|---|
| Broker, seat requests (`broker.py`) | none of its own: one thread per request, what it has read so far | provision, reset, deprovision for one's own seat; the same by an admin for any seat; bulk removal | acts on one snapshot while other threads and pods go on; separate calls for check, record and Job; calls that fail are ignored | nobody's seat is worked on for someone else; the cap; one Job per seat at a time |
| Seat record (ConfigMap `factory-seats`, `seatlib.py`) | handle -> JSON: username, phase, token, ... | merge patch of one key, whole record; allocation of a handle | writers overwrite each other's records; a failed read looks like an empty ConfigMap | a record never changes hands; it goes through its phases in order |
| Jobs of a seat (`run_job`) | Job `<kind>-<handle>` and its pod | delete in the background, create; started by the Job controller | the pod of a deleted Job lives on beside that of its successor; a new Job is not yet active | a busy seat comes to rest |
| `provision-seat.py` | the record in hand, the handle it allocated anew | record, steps, token, showroom, ready or error | writes at its end what it captured at its start | what is served is the owner's |
| a seat's accounts (Keycloak, Gitea, Mattermost, the workspace's Secrets), made by `provision-seat.py` and taken away by `deprovision-seat.py` | groups, user, org, token, webhook, namespace, chat account, the Secret with the token's id | make or mend each, remove each | either script stops anywhere and starts over on what is left; the namespace lingers | token, webhook secret, logins and menu of a ready seat agree; a removed seat leaves no account, org, token or workspace in use |
| `reset-entry.sh` | the captured record | capture, reset, write back | the same | the same |
| `deprovision-seat.py` | owner | tear down, then remove the record | raises half-way with the record in place; the namespaces are deleted later than the record | what a freed handle serves is about to go |
| Help desk (`helpdesk.py`) | `_conv` in memory, objects in a bucket, a mark "emailed" | chat, end, sweep | the lock is not held while the agent answers; the sweeper reads before it locks; restarts | nobody's words in another's conversation; every transcript mailed |
| `reset-seat.sh` | agents, applications and repositories of a seat | delete applications and repositories one by one | an ApplicationSet regenerates what was deleted; any deletion may fail | what a removal left behind comes down |
| Shared lists (ApplicationSets, Argo CD policy) | three lists for all seats | read, change, write whole | builds and removals of different seats overlap | a seat is listed if and only if it is there, where no two writers meet |
| Progress ledger, digest (`progress.py`, `digest.py`) | one JSON per seat; a day's marker | beacon; mail the digest once a day | read-modify-write without a lock; mail, then mark | no time nobody watched; no view lost but where beacons overlap; no digest twice |
| OCI publisher (`publish-oci.py`) | blobs, manifests, tags, indexes in a registry | push a skill, a tool, a pack | overlapping and interrupted runs; tags that move; garbage collection | what a tag leads to is there, whole |
| Installer role, manifests, pages, operator scripts | - | - | sequential or presentation | - |

Interactions: a handler calls the Kubernetes API (ConfigMap, Jobs); a Job's pod writes the same
ConfigMap and changes what the cluster serves; pages poll the broker with GETs that change
nothing. A chat names the attendee's seat to the agent, so the help desk shares with the hub
only the handle, which is an opaque tag in its model. `PROJECT.json` lists every component with
its files, the hazards at their lines, and for each definition the lines it stands for.

## Modules

* **`SeatHub`** - the seat life cycle. `threads` are the handlers, `seats` the ConfigMap, `jobs`
  and `pods` what the broker started, `site` what the cluster serves at a handle. Each call that
  another process can see is an action: `Arrive` (the snapshot and the conditions on it),
  `CheckJob` (one `job_active`), `WriteSeat`, `DeleteJob`, `CreateJob`; `StartPod` is the Job
  controller; then the steps of the three scripts by name. A removal orders the deletion
  of the showroom's namespace and does not wait (`Teardown` sets `going`), `SiteGone` is the namespace
  controller, and a build waits for it (`AwaitNamespace`) or fails. `Faults` lets any call to the API fail
  where the code ignores or reports it, `Deaths` lets handlers and pods die anywhere.
* **`SeatLedger`** - what the hub promises of a seat, with no handler, Job or pod: phases, owner, what is
  served and whether that is about to go. It makes its promise of one handle at a time: a handle may be
  `Lost`, and is known again when it is free (`Turn`).
* **`CalmHub`** - `SeatHub`, action for action, with a history `calm` of the handles at which, since they
  were last free, requests came one at a time (`Crowded`, `Doubled`), no call failed (`Failed`) and no
  build of another handle's Job came by (`Strayed`). Nothing is forbidden: a handle at which one of these
  happens leaves `calm` and comes back when its record and all that worked on it are gone. Deaths of
  handlers and pods do not end the calm. At its calm handles the hub implements `SeatLedger`
  (`KeepsLedger`, an `INSTANCE` with a refinement mapping). `InFamily` and `Settles` are about all handles.
* **`HelpDesk`** - chats, ends, the sweeper, restarts. Conversation objects are separate from the
  map `_conv` and from the bucket, since a waiting chat holds its object whatever becomes of the map. A request notes the id of the
  conversation it began (`began`, a history): the people for whom one id was begun are its `Beginners`.
* **`SeatArgo`** - what Argo CD holds of the seats: `lists` are the generators of the two
  ApplicationSets and the policy, `repos` and `apps` an org's repositories and the applications
  made of them. `pods` run `reset-seat.sh` deletion by deletion (`Look` ... `ServiceApp`,
  `ScriptFails`) and the list rewriting of builds and removals (`ReadList`, `WriteList`); a
  history, `beside`, has the lists that a seat's own Job changed while another Job held a copy, until the
  seat's next Job reads the list undisturbed;
  `Generate` and `Prune` are the ApplicationSet controller, `Publish` the attendee.
* **`SeatAccounts`** - what one seat has on other systems, in the order the two scripts make and
  remove it: `Record`, `Person`, ... `MarkReady` and `Revoke`, ... `DropRecord`, one action for each
  call or group of calls that changes one system. `BuildStops` and `RemovalStops` end a script
  anywhere; a failure that a script prints and passes over is a disjunct with `Slips`. `NsGone` is the
  namespace controller, `SignUp` the person.
* **`Progress`** - `Load`, `Stamp`, `Store` are the three moments of a beacon (GET, clock, PATCH); `Look`,
  `Mail`, `Mark` those of the digest's loop, which keeps its marker in the same ConfigMap. `Restart`
  ends the threads of both.
* **`OciPublish`** - runs of the publisher push artifacts (`PutBlob`, `PutTag`) and packs (`ReadMember`,
  `CopyBlob`, `PutMember`, `PutIndex`), while `Collect` is the registry's garbage collection. A history, `missed`,
  has the blobs that a run was to copy into a pack and whose GET failed or found nothing.
* **`MCSeatHub`, `MCCalmHub`, `MCHelpDesk`, `MCSeatArgo`, `MCSeatAccounts`, `MCProgress`,
  `MCOciPublish`** - instances for TLC.
* **`SeatHub_proof`, `CalmHub_proof`, `SeatLedger_proof`, `SeatArgo_proof`, `HelpDesk_proof`,
  `SeatAccounts_proof`, `Progress_proof`, `OciPublish_proof`** - the theorems.

Abstractions. Usernames and handles are opaque; `Cands[u]` is the sequence of handles
`allocate_handle` tries for `u`, so name clashes are a choice of the constant. Username "" and
the key "null" are kept, because the code reaches them. In `SeatHub`, the lines of
`provision-seat.py` between the record and the showroom are one step: they act on Keycloak, Gitea,
Argo CD and the like, the subject of `SeatAccounts` and `SeatArgo`, and touch the record only through
`step(name)`, which is modelled. A removal's teardown is one step there for the same reason.
The loop of bulk removal takes a set of handles in any order (the code: the request's list, in its order; a
handle named twice is asked for twice, which two bulk requests do as well). The wait for a
deleted Job to be gone is part of the deletion; where the wait runs out the creation is refused,
as when another's Job took the name. Jobs' TTL is left out (`job_active` says no of a finished and
of a vanished Job). Brand, links, passwords and step names are left out of records. In
`HelpDesk`, time is the second in which a conversation begins and the bit `recent`; message text,
the limits on lengths and rates, and the S3 protocol are left out. `SeatArgo` takes one Job at a
time for a seat (what happens to the record when there are more is `SeatHub`'s subject) and starts
them as the broker does; the workspace an application cascades to is not told apart from the
application, and since it may lag behind, `Look` may find any part of it. Catalog entries, skills
and the run for one agent by hand are left out, and so are the steps of a build between the org and
the lists and after them, which `Raise` lets fail. A build also rewrites its own entry where that names
another namespace (`provision-seat.py:427-429`); a copied entry is made right by the patch that adds it, so
this happens after a change by hand only, and is left out.

`SeatAccounts` has one seat and one Job at a time, and of the record only whether the seat is ready
and the door it came through. Two subjects, ids, tokens or secrets are told apart by name only, and a
fresh one is any that nothing the scripts compare it with still holds. The seat's password, its OpenShift user, that user's
groups (`redhat-workshop-users` and one of the person's own) and the policies and keys copied into its
workspace are left out: no step depends on them. Two history variables say what the
properties except: `whole` is lost when a removal was cut short or a failed call made a build touch what
works, until the next complete removal; `clean` says that the last build to say "ready" printed no failure.

In `Progress`, an entry is its time, its seconds and the set of beacons whose view it counts; the guide's
modules, among which the code divides the seconds and views, are left out. Beacons come with the token of
their seat (`BeaconsAccepted` of `hub_calm` is about when they do). In `OciPublish`, a manifest is
known by its content, as the script's output is deterministic, and the config of a manifest goes before its
layers. `Grace` says what one has to know of the registry: whether it spares repositories that are being
pushed to. `Faulty` has the blobs whose GET may fail although they are there. That a registry may refuse a
manifest whose blobs are missing is left out; it would make `PutMember` a `Stops`.

## Runs

| Run | Checks | Result |
|---|---|---|
| `hub_calm` | `TypeOK`, `InFamily` at all handles; `KeepsLedger`, `ServesOwner`, `OneEach`, `AdminsSpared`, `BeaconsAccepted` at calm ones; overlaps, faults, deaths and two names with the same handles | hold |
| `hub_settles` | `Settles`: a busy seat comes to rest, under fairness, without faults and deaths | holds |
| `help_faults` | `TypeOK`, `OwnWords`, `MarkIsTrue` with failing mails and store, restarts, two people without a seat | hold |
| `help_mails` | `TurnsMailed` under fairness, with failing mails and restarts | holds |
| `argo_faults` | `TypeOK`, `GoneIsUnlisted`, `BuiltIsListed`, `ComesDown` with faults, deaths and another seat's builds beside | hold |
| `accounts_faults` | `TypeOK`, `TokenLives`, `HookAgrees`, `LoginAgrees`, `MenuFollowsDoor`, `Gone`, `RepairsKeep` with scripts cut short anywhere and failures passed over | hold |
| `ledger_faults` | `TypeOK`, `OnlyWatched`, `ViewsKept`, `OncePerDay`, `MarkedIsSent` with failing calls and restarts | hold |
| `publish_faults` | `TypeOK`, `ArtifactsComplete`, `BundlesComplete` with overlaps, interruptions, failing reads and garbage collection | hold |
| `lists_race` | `GoneFromLists`: a removed seat is on no list, whoever else rewrites it | violated |
| `shared_handle` | `SeatKeepsOwner` where two names have one base handle | violated |
| `memberships_stay` | `MembershipsGo`: a removed person is in no group of the seat's | violated |
| `answer_lost` | `AnswersKept`: an answer given stays in the bucket | violated |

Each property of a passing run is broken by a mutant of the code (`PROJECT.json`, "mutants"): a
dropped lookup, an early removal, a mark set although the mail failed, and so on.

**Bounds.** Two people, one of them an admin, and one handle of the empty name beside "null". In
`hub_calm` and `shared_handle` both people have the same two handles, so that every handle is contested; in
`hub_settles` they have their own. Two threads and two pods (three pods in `hub_calm`) allow every pair of
overlapping requests and pods, of one seat or of two, among them the pod of a deleted Job beside that of its
successor. Ann has a seat at the start, so two requests are enough for a seat to be removed and claimed
again, by herself or by Bob, while its namespace is still going. The number of threads bounds the number of
requests, since a thread serves one. `MaxSeats` is 2, as many as people: the cap stands in nobody's way, so
that no other behaviour is cut off by it (the proofs hold for any cap).
For the help desk two chats and one end are enough for a conversation to be answered, ended and begun anew
while the sweeper holds a copy of it; with `MaxClock` 2 each chat may begin one. In
`help_faults` two of three people have no seat, hence one tag, and may begin in the same second. Threads, pods and
requests are symmetric and the runs of safety properties use it; those with fairness do not.
`argo_faults` has two seats, as a list is at risk from one other writer. One is there at the start, publishes
an agent and a service, one of each list, and is built, reset and removed without end while its calls fail
and its pods die; the other is not there at the start and gets one Job (`Rare`, `MaxJobs`), a build: one write of each list
is what it takes to spoil the first seat's.
`accounts_faults` bounds only `MaxSlips`, the failures passed over, by two: one that spoils a part and one
that hides it from the script that would mend it. Builds, removals and deaths go on without end; two
subjects, ids and secrets and three tokens are as many as can be remembered in different places at once.
`ledger_faults`: three beacons, so that one overlaps two others or comes after two that overlap; a clock
of three ticks over the turn of a day, with silences that count and one that does not; `MaxFaults` 2,
a failure and another in its repetition (`MaxClock` is at least 1 in any instance). `publish_faults`: two runs, two artifacts and two versions with a
layer in common, one pack; the GET of the common layer may fail, and any GET finds nothing once the blob is
collected; nothing bounds the number of pushes. Beacons and seats, runs and artifacts,
and the names in `SeatAccounts` are symmetric.
`CHECK_DEADLOCK FALSE` everywhere: once the requests of an instance are served, it is over.

**Fairness.** `SeatHub`: weak fairness of each handler's steps (threads of one process, none waits
for another: the HTTP calls have time limits), of each pod's steps and of the Job controller
starting a pod for each new Job. Nothing is assumed about which requests arrive. Faults,
deaths and removals that raise are left out of `hub_settles` (constants, and `Unharmed` as the
next-state relation of `FairSpec`) because nothing in the code repairs them: a broker that
dies between record and Job leaves the seat busy until someone asks again. `HelpDesk`: weak
fairness of the reply (the gateway answers or `HELP_GATEWAY_TIMEOUT` ends the wait), of the
sweeper's steps (a daemon thread that catches every exception) and of `Pause`, the idle
minutes; strong fairness of a mail that works, i.e. the mail server is not down for good. The
object store works in `help_mails`: while it is down nothing can be listed. `SeatArgo`: weak
fairness of `Prune` alone, as the ApplicationSets are looked at every minute
(`requeueAfterSeconds: 60`); scripts and people may stop anywhere.

## What the code does not keep

1. `shared_handle`: a build that fails before it has its handle reports to `sanitize(USER)`; where
   that is another person's seat, their record is overwritten with the wrong username.
2. `answer_lost`: the sweeper puts back what it read before it had the lock.
3. `lists_race`: Jobs that run side by side, as a bulk removal starts them, put back each other's
   entries in the ApplicationSets and the policy. A build beside another Job may lose its own.
4. `memberships_stay`: a removal takes the person out of `attendees` only; the group of the door
   (`redhat-attendees` or `handsonmode-attendees`), which the platform's models are offered to, stays with
   the sign-in, although the script's docstring has "group memberships" among what it deletes.

Noticed on the way and without a run:

* Where requests overlap or calls fail, a handle's records, Jobs and pods may be of more than one
  request: a late "mark ready" or reset writes back what it captured, a failed read gives a person a
  second seat. `CalmHub` says when this cannot happen.
* Bulk removal knows the admins' seats from one snapshot (`broker.py:232`): where a seat is freed and an
  admin claims the handle between snapshot and Job, it is removed, though line 222 says "Admin seats are
  never removed this way".
* The cap on seats is checked on a snapshot.
* A reprovision writes a record without the progress token (`broker.py:281`), so the script mints another,
  although `provision-seat.py:497` says "the record keeps the same token across reprovisions". Until the new
  guide is up, and for good if the build fails and the seat is then reset to "ready", beacons are refused.
* The checks for running Jobs come before the record and the Job are written (`broker.py:268-299`): two
  requests may start Jobs of different kinds for one seat.
* Attendees without a seat share the tag "noseat"; two who begin within a second share an id
  (`helpdesk.py:158`), the sweeper then puts one's conversation in the place of the other's, and each may
  find the other's words there. `OwnWords` counts both as its authors.
* An answer appended after the mail of an end is on record and mailed to nobody.
* A conversation cut off by a restart before its first answer is not mailed.
* A reset of a seat without running agents leaves its services alone.
* A removal cut short after the Gitea user is gone leaves the workspace's Secret with a dead token; a
  rebuild finds the Secret, mints none and says ready. The hub's README (60-61) has a re-run repair a seat.
* A build that dies between lines 330 and 331 of `provision-seat.py` leaves a token whose id is noted
  nowhere; the removal gets rid of it with the user only.
* A removal keeps the seat's entry in the ledger of progress: the next owner of the handle goes on with it.
* The pack command puts what a failed GET answered in the place of a member's blob (`publish-oci.py:196`).

## Proofs

All for any people, handles, candidates, numbers of threads and pods, and either value of the
switches.

*SeatHub.* `TypesHold`: types are inductive together with `ChecksLeft` (a thread at "check" has a
Job left to ask for; without it `Head` and `Tail` have no type). `EveryoneInFamily`: `InFamily` is
inductive relative to types: every username in a record, a pod, a Job, a thread's hand or its bulk
list belongs to someone who may have the handle it stands at. Its clause on pods at "lookup" is
needed since such a pod still changes its handle. This uses no assumption on names.

*SeatLedger.* `HandlesServeOwners`, `OneSeatEach`, for any people and handles: the two properties are
inductive together with types and "a free or lost handle is nobody's" (`Good`). They are theorems
of the abstract specification; that the hub implements it is `HubKeepsLedger`.

*CalmHub.* `WorksAlone`, `ServesTheOwner`, `OneSeatEachPerson` and `HubKeepsLedger`, for any people,
candidates (contested ones too), cap, threads and pods, with or without deaths and failing calls; no
hypothesis beyond the constants' assumptions. What requests that overlap and calls that fail take away is
told by the history, not ruled out: the theorems hold of the handles still calm, whatever goes on at the
others, and a handle is back in the calm as soon as it is free. The invariant `Calm` has a `Row` for each
calm handle. Its first half says that one at a time works on the seat: `HandlerAlone` (no other handler,
no Job), `JobAlone` and `PodAlone` (a pod is the one of its Job, which is active). Its second half
says that whoever it is has the record as it is: `HandCurrent` for what a handler holds, bulk
lists included, `Waited` for the person and the phase a Job stands for, `Works` for a pod, by
the line its script is at - a build past `render` serves the token it holds, a removal past its
teardown serves nothing or what is going. The second half needs the first: a pod's patch changes what nobody
else holds. Beside the rows, `OnePerson` and `ClaimAlone` say that two calm seats are not one person's and
that two claims are not under way for one person, which is where `Doubled` is needed.
For the refinement each step is mapped to one of the ledger, or to a stutter, at each handle that stays calm:
`WriteSeat` to `Claim`, `Rebuild`, `BeginReset` or `BeginRemove` by what is asked and what is on record,
`Render` to `Serve`, `MarkReady` to `Built`, `FailWrite` to `Broken`, `Restore` to `EndReset`, `Teardown` to
`Vacate`, `SiteGone` to `GoneAway`, `RemoveRecord` to `Removed`; all others, `RecordSeat`, `StepWrite` and
`MintToken` among them, leave phase, owner and site as they are. A handle that leaves or enters the calm is
a `Turn`. `SeatHub` assumes for this that a minted token is not the empty one
(`TokenAssumption`: `secrets.token_urlsafe`, line 499 of `provision-seat.py`, returns none).

*SeatArgo.* `GoneStaysUnlisted`, `BuildsList` and `ArgoTypes`, without hypothesis. `IInv` adds to types
two things: `Copies`, that what a Job has read of a list is still what the list holds, but for the seats
whose own Jobs changed it beside that copy; and `Listing`, that a Job which has got to some list has the
earlier ones as it wants them, with the same exception. A write then changes no seat's entry but the
writer's own and those excepted, however old the copy it is made of.

*HelpDesk.* `WordsStayOwn`, `DeskTypes` and `MarksHold`, without hypothesis. The invariant `Inv` says of
every place a conversation can be - objects, bucket, the sweeper's copy - that it is under its id, that its
attendee and the authors of all its words are among those for whom that id was begun (`Own`), and that a
request waiting for the agent holds an object of such a conversation (`AskGood`). That those are one person,
or several of one tag, is `TagGood`. The invariant `Marks` of `MarksHold`, on top of `Inv`, relates
the three places: an object or a stored conversation that is marked as emailed has an id under
which something was mailed, and the copy that the sweeper holds is an unmarked one with turns, so
that what it puts over a newer mark is marked only after it was mailed as well.

*SeatAccounts.* All its properties are theorems: `AccountsTypes`, `TokensLive`, `HooksAgree`,
`LoginsAgree`, `MenusFollow`, `OnlyDoorsLeft` and the action property `RepairsKept`, for any number of
failures and scripts that stop anywhere or not. `IInv` has a part for each of the four stories. `Orderly`:
a seat on whose record a script works is not ready, and a build has a door. `Sound`, while `whole`: a
token in the workspace is the one Gitea has and a webhook is signed with the workspace's secret, also
between the steps that make them, as each new thing is made before the place where a rerun looks for it.
`InLine`: what a build that met no failure has put right so far; `StaysInLine`: that it stays so while
the seat is ready. `Taken`: what a removal that met no failure has taken away so far, which is what makes
`whole` true again at its end. One lemma for each step with several outcomes (`PersonDoes`, ...) says what
it does field by field; one lemma for each part of `IInv` goes through the steps.

*Progress.* `LedgerTypes` with `NotYet` (nothing is dated later than now; the calendar lemmas `Division`,
`Multiples` and `DaysGoOn` bound the day of a second). `DigestOnce`, `MarkedWasSent`: the loop at "mark" has
mailed the day it is about, and the marker is not ahead of it (`DigestInv`). `ViewsStay`: what a beacon
read holds every view of the seat except those of beacons it overlaps, unless a read was answered
wrongly (`ViewsInv`). `TimeIsWatched`: the seconds of an entry - in the ledger or in a beacon's hand -
are no more than the seconds that lie in a short silence between two beacons and before the entry's last
(`Earned`); a beacon adds a silence whose seconds are later, hence disjoint, so cardinalities add up.

*OciPublish.* `PublisherTypes` without hypothesis. `TagsLeadToAll` (skills and tools) and `PacksLeadToAll`
under `Grace`, about the registry: it collects nothing in a repository that a run is pushing to. A member's
repository may be collected while it is read from, and any GET may fail. The invariant (`StaysComplete`)
says where a run is (`At`) and that the blobs it need not push any more and the manifests it has collected
are there, in a pack but for the blobs missed (`Had`).

*Only model-checked.* `AdminsSpared` and `BeaconsAccepted` of `hub_calm`; every other safety or action
property of a passing run, and the refinement, is stated by a theorem. Liveness (`Settles`, `TurnsMailed`, `ComesDown`) is beyond the prover: it rests on
fairness, hence on ENABLED. The expected violations are TLC's as well.

## Not modelled

GET requests, the pages, authentication, rendering, the installer and the manifests: they keep no
state of their own that interleaves with anything. No modelled step depends on the parts left out of
the models, which "Abstractions" names: the OpenShift user and its groups, the
policies and keys copied into a workspace, passwords, the catalog, and an admin's own request for a
digest, which mails but marks nothing.

What is left to do: prove `AdminsSpared` and `BeaconsAccepted`; model the OpenShift groups beside the
Keycloak ones; state what remains of the ledger at a handle where requests overlap and no call fails.
