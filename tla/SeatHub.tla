------------------------------- MODULE SeatHub -------------------------------
(***************************************************************************)
(* The seat life cycle of the factory hub: the factory-seats ConfigMap,    *)
(* the broker's request handlers (one thread each, broker.py), the Jobs    *)
(* they start and the pods of those Jobs (provision-seat.py,               *)
(* reset-entry.sh, deprovision-seat.py).                                   *)
(*                                                                         *)
(* A handler reads the ConfigMap once and then acts on what it read while  *)
(* other handlers and pods go on.  Every call to the cluster that another  *)
(* process can see is a step of its own.  Each record is rewritten whole.  *)
(***************************************************************************)
EXTENDS Naturals, Sequences, FiniteSets

CONSTANTS
  Users,      \* people who may sign in
  Admins,     \* ADMIN_USERS
  Blank,      \* the empty username "" that .get("username", "") yields
  NoUser,     \* a record without a username
  Handles,    \* keys of the ConfigMap
  NullKey,    \* the key "null" that a handle of None becomes in JSON
  Cands,      \* Cands[u]: the handles allocate_handle(u) tries, in order
  MaxSeats,   \* MAX_SEATS
  Seated,     \* the seats that are ready when the broker starts: handle -> person
  Threads,    \* request handlers; each serves one request (bounds the requests)
  Pods,       \* pods that may ever start (bounds the Jobs that run)
  NoToken, OldToken,  \* no progress token; the token of a seat in Seated
  Acts,       \* the requests that arrive, a subset of Requests
  Faults,     \* TRUE: a single call to the API server may fail
  Deaths      \* TRUE: a handler or a pod may die between two steps

People   == Users \cup {Blank}
Kinds    == {"provision", "reset", "deprovision"}
Requests == Kinds \cup {"bulk"}
Tokens   == Pods \cup {NoToken, OldToken}
Family(u) == {Cands[u][i] : i \in DOMAIN Cands[u]}

ASSUME PeopleAssumption == Admins \subseteq Users /\ Blank \notin Users /\ NoUser \notin People
ASSUME HandleAssumption ==
  /\ NullKey \in Handles
  /\ Cands \in [People -> Seq(Handles \ {NullKey})]
  /\ \A u \in People : Cands[u] # << >>
ASSUME SeatedAssumption ==
  /\ DOMAIN Seated \subseteq Handles
  /\ \A h \in DOMAIN Seated : Seated[h] \in Users /\ h \in Family(Seated[h])
  /\ \A g, h \in DOMAIN Seated : Seated[g] = Seated[h] => g = h
ASSUME SwitchAssumption ==
  /\ Faults \in BOOLEAN /\ Deaths \in BOOLEAN
  /\ Acts \subseteq Requests /\ MaxSeats \in Nat
ASSUME TokenAssumption == NoToken \notin Pods

VARIABLES
  seats,    \* the ConfigMap: handle -> record
  threads,  \* the request handlers
  jobs,     \* Job <kind>-<handle>: its state and its SEAT_USER
  pods,     \* the pods of those Jobs, also of Jobs already deleted
  site      \* what the cluster serves for a handle: whose seat, which token, and whether
            \* its namespace is being deleted

vars == <<seats, threads, jobs, pods, site>>

------------------------------------------------------------------------------
(* Records of the ConfigMap. *)

Phases == {"none", "provisioning", "resetting", "removing", "ready", "error", "corrupt"}
Record == [user : People \cup {NoUser}, phase : Phases, token : Tokens]
Absent  == [user |-> NoUser, phase |-> "none", token |-> NoToken]
Corrupt == [user |-> NoUser, phase |-> "corrupt", token |-> NoToken]
Present(r) == r.phase # "none"

\* What the cluster serves for a handle, out of the namespace showroom-<handle>; one that is
\* going (Terminating) may serve until it is gone.
Site == [user : People \cup {NoUser}, token : Tokens, going : BOOLEAN]
NoSite == [user |-> NoUser, token |-> NoToken, going |-> FALSE]

\* Text that is no JSON reads as {"phase": "error"} without a username.
Parsed(r) == IF r.phase = "corrupt" THEN [r EXCEPT !.phase = "error"] ELSE r

\* What one read of the ConfigMap returns; a read that fails returns {}.
Seen == {[h \in Handles |-> Parsed(seats[h])]}
          \cup (IF Faults THEN {[h \in Handles |-> Absent]} ELSE {})

\* A merge patch of one key: it replaces the record whole.
Store(h, r) == seats' = [seats EXCEPT ![h] = r]
\* The same where the caller ignores a failure of the patch.
TryStore(h, r) == Store(h, r) \/ (Faults /\ seats' = seats)

SeatsOf(u, s) == {h \in Handles : s[h].user = u}
FirstFree(u, s) ==
  {Cands[u][i] : i \in {j \in DOMAIN Cands[u] :
     /\ ~ Present(s[Cands[u][j]])
     /\ \A k \in 1 .. j - 1 : Present(s[Cands[u][k]])}}

\* (Mutant of Allocated: the seat a person has is not looked up.)
AllocatedAnew(u, s) == FirstFree(u, s)

\* Of several seats of one person any may be taken (the code: the first key).
Allocated(u, s) == IF SeatsOf(u, s) # {} THEN SeatsOf(u, s) ELSE FirstFree(u, s)

Taken(s) == Cardinality({h \in Handles : s[h].phase \in {"ready", "provisioning"}})

------------------------------------------------------------------------------
(* Jobs.  A Job is "pending" until the Job controller has counted its pod   *)
(* in status.active: until then job_active answers False.                   *)

Job == [st : {"absent", "pending", "active", "done"}, user : People]
NoJob == [st |-> "absent", user |-> Blank]

JobActive(k, h) == jobs[k][h].st = "active"
JobKind(act) == IF act = "bulk" THEN "deprovision" ELSE act

------------------------------------------------------------------------------
(* The handlers: do_POST and act.                                           *)

\* A handler with no request in hand.
Idle(pc) == [pc |-> pc, act |-> "reset", user |-> Blank, handle |-> NullKey, rec |-> Absent,
             checks |-> << >>, todo |-> {}]

\* A refusal or the answer; bulk removal goes on with its next handle.
Leave(t) == IF threads[t].act = "bulk" THEN [threads[t] EXCEPT !.pc = "pick"] ELSE Idle("end")

\* (Mutant of Checks: bulk removal asks for a Job by the request's own name.)
ChecksByRequest(act, rec) ==
  CASE act = "provision" -> <<"provision", "deprovision">>
    [] act = "reset" -> << >>
    [] act = "deprovision" -> <<"provision", "reset">>
    [] act = "bulk" -> <<"provision", "reset", act>>

\* The Jobs that act asks for, in order, before it writes.
Checks(act, rec) ==
  CASE act = "provision" ->
         (IF rec.phase \in {"provisioning", "resetting"} THEN <<"provision">> ELSE << >>)
           \o (IF Present(rec) THEN <<"deprovision">> ELSE << >>)
    [] act = "reset" -> << >>
    [] act = "deprovision" -> <<"provision", "reset">>
    [] act = "bulk" -> <<"provision", "reset", "deprovision">>

Toward(checks) == IF checks = << >> THEN "write" ELSE "check"

\* (Mutant of Admitted: a seat is reset whatever its phase.)
AdmittedAlways(act, rec, s) == act = "provision" => Present(rec) \/ Taken(s) < MaxSeats

\* The conditions act puts on the snapshot alone; otherwise it answers 409 or 429.
Admitted(act, rec, s) ==
  CASE act = "provision" -> Present(rec) \/ Taken(s) < MaxSeats
    [] act = "reset" -> rec.phase \in {"ready", "error"}
    [] act = "deprovision" -> TRUE

\* Handler t enters act for person u and the seat (h, rec) of its snapshot.
Enter(t, act, u, h, rec) ==
  threads' = [threads EXCEPT ![t] =
    [pc |-> Toward(Checks(act, rec)), act |-> act, user |-> u, handle |-> h, rec |-> rec,
     checks |-> Checks(act, rec), todo |-> {}]]

\* POST /api/seat/<act>: seat_for(u, all_seats), then act.
OwnSeat(t, act, u) ==
  /\ act \in Acts \cap Kinds
  /\ act = "deprovision" => u \in Admins
  /\ \E s \in Seen :
       \E h \in IF act = "provision" THEN Allocated(u, s)
                ELSE IF SeatsOf(u, s) # {} THEN SeatsOf(u, s) ELSE {NullKey} :
         LET rec == IF SeatsOf(u, s) = {} THEN Absent ELSE s[h] IN
         /\ Admitted(act, rec, s)
         /\ Enter(t, act, u, h, rec)

UserOf(rec) == IF rec.user = NoUser THEN Blank ELSE rec.user
\* (Mutant of Served: the admin who asks.)
ServedAdmin(who, rec) == who
\* Who an admin's action on a seat is for: the person on its record.
Served(who, rec) == UserOf(rec)

\* POST /api/admin/seats/<h>/<act>, by the admin who.
AdminSeat(t, act, who, h) ==
  /\ act \in Acts \cap Kinds
  /\ \E s \in Seen :
       /\ Present(s[h])
       /\ Admitted(act, s[h], s)
       /\ Enter(t, act, Served(who, s[h]), h, s[h])

\* (Mutant of BulkRemove: the admins' seats are not left out.)
BulkRemoveAll(t, H) ==
  /\ "bulk" \in Acts
  /\ \E s \in Seen :
       threads' = [threads EXCEPT ![t] =
         [Idle("pick") EXCEPT !.act = "bulk",
                              !.todo = {[handle |-> h, rec |-> s[h]] :
                                          h \in {g \in H : Present(s[g])}}]]

\* POST /api/admin/remove for the handles H: those on record that are no admin's.
BulkRemove(t, H) ==
  /\ "bulk" \in Acts
  /\ \E s \in Seen :
       threads' = [threads EXCEPT ![t] =
         [Idle("pick") EXCEPT !.act = "bulk",
                              !.todo = {[handle |-> h, rec |-> s[h]] :
                                h \in {g \in H : Present(s[g]) /\ s[g].user \notin Admins}}]]

Arrive(t) ==
  /\ threads[t].pc = "new"
  /\ \/ \E act \in Kinds, u \in Users : OwnSeat(t, act, u)
     \/ \E act \in Kinds, who \in Admins, h \in Handles : AdminSeat(t, act, who, h)
     \/ Admins # {} /\ \E H \in SUBSET Handles : BulkRemove(t, H)
  /\ UNCHANGED <<seats, jobs, pods, site>>

\* The loop of bulk removal: the next handle, with the record of the one snapshot.
PickNext(t) ==
  /\ threads[t].pc = "pick"
  /\ IF threads[t].todo = {}
     THEN threads' = [threads EXCEPT ![t] = Idle("end")]
     ELSE \E e \in threads[t].todo :
            threads' = [threads EXCEPT ![t] =
              [pc |-> "check", act |-> "bulk", user |-> UserOf(e.rec), handle |-> e.handle,
               rec |-> e.rec, checks |-> Checks("bulk", e.rec), todo |-> @.todo \ {e}]]
  /\ UNCHANGED <<seats, jobs, pods, site>>

\* A Job named after a handle of None has no valid name: no such Job can exist.
\* (An action on the record at the key "null" comes with the user "".)
Nameable(th) == ~ (th.handle = NullKey /\ th.user \in Users)

\* One job_active call; a GET that fails counts as "not active".
CheckJob(t) ==
  LET th == threads[t] IN
  /\ th.pc = "check"
  /\ \/ /\ Nameable(th) /\ JobActive(Head(th.checks), th.handle)
        /\ threads' = [threads EXCEPT ![t] = Leave(t)]
     \/ /\ ~ (Nameable(th) /\ JobActive(Head(th.checks), th.handle)) \/ Faults
        /\ threads' = [threads EXCEPT ![t] =
             [th EXCEPT !.checks = Tail(@), !.pc = Toward(Tail(th.checks))]]
  /\ UNCHANGED <<seats, jobs, pods, site>>

\* The record a handler writes: a provision's is new, the others keep the one read.
Written(th) ==
  CASE th.act = "provision" -> [user |-> th.user, phase |-> "provisioning", token |-> NoToken]
    [] th.act = "reset" -> [th.rec EXCEPT !.phase = "resetting"]
    [] th.act \in {"deprovision", "bulk"} -> [th.rec EXCEPT !.phase = "removing"]

WriteSeat(t) ==
  /\ threads[t].pc = "write"
  /\ TryStore(threads[t].handle, Written(threads[t]))
  /\ threads' = [threads EXCEPT ![t].pc = "delete"]
  /\ UNCHANGED <<jobs, pods, site>>

\* (Mutant of DeleteJob: the Job of the request before is left in place.)
DeleteNothing(t) ==
  /\ threads[t].pc = "delete"
  /\ threads' = [threads EXCEPT ![t].pc = "post"]
  /\ UNCHANGED <<seats, jobs, pods, site>>

\* run_job: DELETE with Background propagation.  The pod lives on without a Job.
DeleteJob(t) ==
  LET th == threads[t]  k == JobKind(threads[t].act) IN
  /\ th.pc = "delete"
  /\ threads' = [threads EXCEPT ![t].pc = "post"]
  /\ \/ /\ Nameable(th)
        /\ jobs' = [jobs EXCEPT ![k][th.handle] = NoJob]
        /\ pods' = [p \in Pods |-> IF pods[p].kind = k /\ pods[p].job = th.handle
                                   THEN [pods[p] EXCEPT !.owned = FALSE] ELSE pods[p]]
     \/ /\ ~ Nameable(th) \/ Faults
        /\ UNCHANGED <<jobs, pods>>
  /\ UNCHANGED <<seats, site>>

\* run_job: POST, refused when another handler's Job took the name meanwhile.
CreateJob(t) ==
  LET th == threads[t]  k == JobKind(threads[t].act)
      free == jobs[k][th.handle].st = "absent" IN
  /\ th.pc = "post"
  /\ threads' = [threads EXCEPT ![t] = Leave(t)]
  /\ \/ /\ Nameable(th) /\ free
        /\ jobs' = [jobs EXCEPT ![k][th.handle] = [st |-> "pending", user |-> th.user]]
     \/ /\ ~ Nameable(th) \/ ~ free \/ Faults
        /\ jobs' = jobs
  /\ UNCHANGED <<seats, pods, site>>

\* The handler's thread ends with an exception or with the broker's process.
HandlerDies(t) ==
  /\ Deaths
  /\ threads[t].pc \notin {"new", "end"}
  /\ threads' = [threads EXCEPT ![t] = Idle("end")]
  /\ UNCHANGED <<seats, jobs, pods, site>>

------------------------------------------------------------------------------
(* Pods.                                                                    *)

NoPod(pc) == [pc |-> pc, kind |-> "reset", job |-> NullKey, handle |-> NullKey,
              user |-> Blank, rec |-> Absent, tmp |-> Absent, owned |-> FALSE]

\* (Mutant of FirstPc: deprovision removes the record before it has torn the seat down.)
FirstPcEarly(k) == CASE k = "provision" -> "lookup" [] k = "reset" -> "capture"
                     [] k = "deprovision" -> "remove"

FirstPc(k) == CASE k = "provision" -> "lookup" [] k = "reset" -> "capture"
                [] k = "deprovision" -> "owner"

\* The Job controller starts the one pod of a new Job and counts it as active.
StartPod(k, h, p) ==
  /\ jobs[k][h].st = "pending"
  /\ pods[p].pc = "unborn"
  /\ jobs' = [jobs EXCEPT ![k][h] = [@ EXCEPT !.st = "active"]]
  /\ pods' = [pods EXCEPT ![p] =
       [pc |-> FirstPc(k), kind |-> k, job |-> h, handle |-> h, user |-> jobs[k][h].user,
        rec |-> Absent, tmp |-> Absent, owned |-> TRUE]]
  /\ UNCHANGED <<seats, threads, site>>

\* Pod p ends; its Job, if it still has one, is finished (backoffLimit 0).
Finish(p) ==
  /\ pods' = [pods EXCEPT ![p] = NoPod("gone")]
  /\ jobs' = IF pods[p].owned
             THEN [jobs EXCEPT ![pods[p].kind][pods[p].job] = [st |-> "done", user |-> Blank]]
             ELSE jobs

At(p, k, pc) == pods[p].kind = k /\ pods[p].pc = pc
Advance(p, q) == pods' = [pods EXCEPT ![p] = q]

\* provision-seat.py, "seat record": allocate again, and keep the record found.
Lookup(p) ==
  /\ At(p, "provision", "lookup")
  /\ \E s \in Seen : \E h \in Allocated(pods[p].user, s) :
       Advance(p, [pods[p] EXCEPT !.pc = "record", !.handle = h,
                     !.rec = [s[h] EXCEPT !.user = pods[p].user, !.phase = "provisioning"]])
  /\ UNCHANGED <<seats, threads, jobs, site>>

RecordSeat(p) ==
  /\ At(p, "provision", "record")
  /\ Store(pods[p].handle, pods[p].rec)
  /\ Advance(p, [pods[p] EXCEPT !.pc = "setup"])
  /\ UNCHANGED <<threads, jobs, site>>

\* step(name): the record is read, then written back with the phase and the step.
\* One step stands for those from "keycloak" to "seat showroom", one is "mark ready".
StepRead(p) ==
  /\ At(p, "provision", "setup") \/ At(p, "provision", "marking")
  /\ \E s \in Seen :
       Advance(p, [pods[p] EXCEPT
         !.pc = IF @ = "setup" THEN "setup-write" ELSE "marking-write",
         !.tmp = [s[pods[p].handle] EXCEPT !.user = pods[p].user, !.phase = "provisioning"]])
  /\ UNCHANGED <<seats, threads, jobs, site>>

StepWrite(p) ==
  /\ At(p, "provision", "setup-write") \/ At(p, "provision", "marking-write")
  /\ TryStore(pods[p].handle, pods[p].tmp)
  /\ Advance(p, [pods[p] EXCEPT !.pc = IF @ = "setup-write" THEN "wait" ELSE "finish",
                   !.tmp = Absent])
  /\ UNCHANGED <<threads, jobs, site>>

\* "workspace namespace": a build waits until the namespace of an earlier seat is gone; after
\* five minutes it raises (Fail).
AwaitNamespace(p) ==
  /\ At(p, "provision", "wait") /\ ~ site[pods[p].handle].going
  /\ Advance(p, [pods[p] EXCEPT !.pc = "token"])
  /\ UNCHANGED <<seats, threads, jobs, site>>

\* (Mutant of TokenInHand: the new token goes to the record, and not into the one in hand.)
TokenOnRecord(rec, p) == rec
\* A new token is kept in the record in hand.
TokenInHand(rec, p) == [rec EXCEPT !.token = p]

\* A seat without a progress token gets a new one (the token minted by p is called p).
MintToken(p) ==
  /\ At(p, "provision", "token")
  /\ IF pods[p].rec.token # NoToken
     THEN /\ Advance(p, [pods[p] EXCEPT !.pc = "render"])
          /\ seats' = seats
     ELSE /\ Advance(p, [pods[p] EXCEPT !.pc = "render", !.rec = TokenInHand(pods[p].rec, p)])
          /\ Store(pods[p].handle, [pods[p].rec EXCEPT !.token = p])
  /\ UNCHANGED <<threads, jobs, site>>

\* The seat's showroom is applied with the token of the record in hand.  In a namespace that
\* is going again only what is there already can be applied.
Render(p) ==
  /\ At(p, "provision", "render")
  /\ LET h == pods[p].handle
         new == [user |-> pods[p].user, token |-> pods[p].rec.token, going |-> site[h].going] IN
     /\ site[h].going => site[h] = new
     /\ site' = [site EXCEPT ![h] = new]
  /\ Advance(p, [pods[p] EXCEPT !.pc = "marking"])
  /\ UNCHANGED <<seats, threads, jobs>>

\* "mark ready" writes the record captured by Lookup, not the current one.
MarkReady(p) ==
  /\ At(p, "provision", "finish")
  /\ Store(pods[p].handle, [pods[p].rec EXCEPT !.phase = "ready"])
  /\ Finish(p)
  /\ UNCHANGED <<threads, site>>

\* fail(): any step may raise.  Before Lookup the handle is sanitize(USER).
FailPoints == {"lookup", "record", "setup", "wait", "token", "render", "marking", "finish"}

Fail(p) ==
  /\ pods[p].kind = "provision" /\ pods[p].pc \in FailPoints
  /\ LET h == IF pods[p].pc = "lookup" THEN Cands[pods[p].user][1] ELSE pods[p].handle IN
     \E s \in Seen :
       Advance(p, [pods[p] EXCEPT !.pc = "fail-write", !.handle = h,
                     !.tmp = [s[h] EXCEPT !.user = pods[p].user, !.phase = "error"]])
  /\ UNCHANGED <<seats, threads, jobs, site>>

FailWrite(p) ==
  /\ At(p, "provision", "fail-write")
  /\ TryStore(pods[p].handle, pods[p].tmp)
  /\ Finish(p)
  /\ UNCHANGED <<threads, site>>

\* reset-entry.sh: REC is taken before the reset and written back after it.
Capture(p) ==
  /\ At(p, "reset", "capture")
  /\ \E r \in {seats[pods[p].handle]} \cup (IF Faults THEN {Absent} ELSE {}) :
       Advance(p, [pods[p] EXCEPT !.pc = "restore", !.rec = r])
  /\ UNCHANGED <<seats, threads, jobs, site>>

\* An empty REC is no JSON: the two python filters print nothing, and "" is written.
Restored(rec, outcome) ==
  IF rec \in {Absent, Corrupt} THEN Corrupt ELSE [rec EXCEPT !.phase = outcome]

Restore(p) ==
  /\ At(p, "reset", "restore")
  /\ \E outcome \in {"ready", "error"} :
       TryStore(pods[p].handle, Restored(pods[p].rec, outcome))
  /\ Finish(p)
  /\ UNCHANGED <<threads, site>>

\* deprovision-seat.py: USER is the record's, or else SEAT_USER.
FindOwner(p) ==
  /\ At(p, "deprovision", "owner")
  /\ \E s \in Seen :
       LET u == s[pods[p].handle].user IN
       Advance(p, [pods[p] EXCEPT !.pc = "teardown",
                     !.user = IF u \in Users THEN u ELSE pods[p].user])
  /\ UNCHANGED <<seats, threads, jobs, site>>

\* The deletion of the namespace is ordered and not waited for; one that serves nothing may
\* not be there at all.
Teardown(p) ==
  /\ At(p, "deprovision", "teardown")
  /\ \E going \in BOOLEAN :
       /\ site[pods[p].handle] # NoSite => going
       /\ site' = [site EXCEPT ![pods[p].handle].going = going]
  /\ Advance(p, [pods[p] EXCEPT !.pc = "remove"])
  /\ UNCHANGED <<seats, threads, jobs>>

RemoveRecord(p) ==
  /\ At(p, "deprovision", "remove")
  /\ TryStore(pods[p].handle, Absent)
  /\ Finish(p)
  /\ UNCHANGED <<threads, site>>

\* Nothing catches what deprovision-seat.py raises: the record stays as it is.
DeprovisionRaises(p) ==
  /\ Faults
  /\ pods[p].kind = "deprovision" /\ pods[p].pc \in {"owner", "teardown", "remove"}
  /\ Finish(p)
  /\ UNCHANGED <<seats, threads, site>>

\* Eviction, node loss, or the end of the grace period of a deleted Job's pod.
PodDies(p) ==
  /\ Deaths
  /\ pods[p].pc \notin {"unborn", "gone"}
  /\ Finish(p)
  /\ UNCHANGED <<seats, threads, site>>

\* The namespace controller is done with a deletion.
SiteGone(h) ==
  /\ site[h].going
  /\ site' = [site EXCEPT ![h] = NoSite]
  /\ UNCHANGED <<seats, threads, jobs, pods>>

------------------------------------------------------------------------------
Init ==
  /\ seats = [h \in Handles |-> IF h \in DOMAIN Seated
                THEN [user |-> Seated[h], phase |-> "ready", token |-> OldToken] ELSE Absent]
  /\ site = [h \in Handles |-> IF h \in DOMAIN Seated
               THEN [user |-> Seated[h], token |-> OldToken, going |-> FALSE] ELSE NoSite]
  /\ threads = [t \in Threads |-> Idle("new")]
  /\ jobs = [k \in Kinds |-> [h \in Handles |-> NoJob]]
  /\ pods = [p \in Pods |-> NoPod("unborn")]

HandlerStep(t) == PickNext(t) \/ CheckJob(t) \/ WriteSeat(t) \/ DeleteJob(t) \/ CreateJob(t)

ProvisionStep(p) == \/ Lookup(p) \/ RecordSeat(p) \/ StepRead(p) \/ StepWrite(p)
                    \/ AwaitNamespace(p) \/ MintToken(p)
                    \/ Render(p) \/ MarkReady(p) \/ Fail(p) \/ FailWrite(p)
ResetStep(p) == Capture(p) \/ Restore(p)
DeprovisionStep(p) == FindOwner(p) \/ Teardown(p) \/ RemoveRecord(p) \/ DeprovisionRaises(p)
PodStep(p) == ProvisionStep(p) \/ ResetStep(p) \/ DeprovisionStep(p)

Next ==
  \/ \E t \in Threads : Arrive(t) \/ HandlerStep(t) \/ HandlerDies(t)
  \/ \E k \in Kinds, h \in Handles, p \in Pods : StartPod(k, h, p)
  \/ \E p \in Pods : PodStep(p) \/ PodDies(p)
  \/ \E h \in Handles : SiteGone(h)

Spec == Init /\ [][Next]_vars

\* The hub where nothing dies and no removal raises: what that leaves behind, nothing in the code
\* comes back for.
Unharmed ==
  \/ \E t \in Threads : Arrive(t) \/ HandlerStep(t)
  \/ \E k \in Kinds, h \in Handles, p \in Pods : StartPod(k, h, p)
  \/ \E p \in Pods : ProvisionStep(p) \/ ResetStep(p) \/ FindOwner(p) \/ Teardown(p) \/ RemoveRecord(p)
  \/ \E h \in Handles : SiteGone(h)

\* Threads and pods are scheduled, and the Job controller starts a new Job's pod.
Fairness ==
  /\ \A t \in Threads : WF_vars(HandlerStep(t))
  /\ \A k \in Kinds, h \in Handles : WF_vars(\E p \in Pods : StartPod(k, h, p))
  /\ \A p \in Pods : WF_vars(PodStep(p))

FairSpec == Init /\ [][Unharmed]_vars /\ Fairness

------------------------------------------------------------------------------
Thread == [pc : {"new", "pick", "check", "write", "delete", "post", "end"}, act : Requests,
           user : People, handle : Handles, rec : Record, checks : Seq(Kinds),
           todo : SUBSET [handle : Handles, rec : Record]]
Pod == [pc : {"unborn", "lookup", "record", "setup", "setup-write", "wait", "token", "render",
              "marking", "marking-write", "finish", "fail-write", "capture", "restore",
              "owner", "teardown", "remove", "gone"},
        kind : Kinds, job : Handles, handle : Handles, user : People,
        rec : Record, tmp : Record, owned : BOOLEAN]

TypeOK ==
  /\ seats \in [Handles -> Record]
  /\ threads \in [Threads -> Thread]
  /\ jobs \in [Kinds -> [Handles -> Job]]
  /\ pods \in [Pods -> Pod]
  /\ site \in [Handles -> Site]

\* A handler that asks for Jobs has one left to ask for (TypeOK is not inductive alone).
ChecksLeft == \A t \in Threads : threads[t].pc = "check" => threads[t].checks # << >>

\* Whatever names a person at a handle names one who may have that handle.
Fits(u, h) == u \in Users => h \in Family(u)
PodFits(q) ==
  /\ Fits(q.user, q.handle) /\ Fits(q.rec.user, q.handle) /\ Fits(q.tmp.user, q.handle)
  /\ q.pc = "lookup" => q.rec = Absent /\ q.tmp = Absent   \* the handle may still change
HandlerFits(th) ==
  /\ Fits(th.user, th.handle) \/ (th.act = "deprovision" /\ th.handle = NullKey)
  /\ Fits(th.rec.user, th.handle)
  /\ \A e \in th.todo : Fits(e.rec.user, e.handle)
InFamily ==
  /\ \A h \in Handles : Fits(seats[h].user, h) /\ Fits(site[h].user, h)
  /\ \A k \in Kinds, h \in Handles : Fits(jobs[k][h].user, h)
  /\ \A p \in Pods : PodFits(pods[p])
  /\ \A t \in Threads : HandlerFits(threads[t])

\* A seat on record for one person never becomes another's without being removed first.
SeatKeepsOwner ==
  [][\A h \in Handles : seats[h].user \in Users /\ seats'[h].user \in Users
                           => seats'[h].user = seats[h].user]_vars

\* Every seat that is being built, reset or removed comes to rest: whoever wrote the busy
\* phase has a Job started, or refused because another's Job that ends the phase is there.
Busy(h) == seats[h].phase \in {"provisioning", "resetting", "removing"}
Settles == \A h \in Handles \ {NullKey} : Busy(h) ~> ~ Busy(h)
==============================================================================
