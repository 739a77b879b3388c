---------------------------- MODULE CalmHub_proof ----------------------------
(***************************************************************************)
(* Proofs about CalmHub, for any people, handles, cap and numbers of       *)
(* threads and pods, with or without failing calls and deaths: at calm     *)
(* handles one at a time works on a seat, and the hub implements           *)
(* SeatLedger.                                                             *)
(***************************************************************************)
EXTENDS CalmHub, SeatHub_proof

------------------------------------------------------------------------------
(* A step in which no call fails: what is read is what is there, what is written is kept. *)

Now == [h \in Handles |-> Parsed(seats[h])]

LEMMA SureHelpers ==
  /\ Sure!Absent = Absent /\ Sure!Corrupt = Corrupt /\ Sure!NoSite = NoSite /\ Sure!NoJob = NoJob
  /\ Sure!Kinds = Kinds /\ Sure!Requests = Requests
  /\ \A r : Sure!Present(r) <=> Present(r)
  /\ \A r : Sure!Parsed(r) = Parsed(r)
  /\ \A k, h : Sure!JobActive(k, h) <=> JobActive(k, h)
  /\ \A act : Sure!JobKind(act) = JobKind(act)
  /\ \A th : Sure!Nameable(th) <=> Nameable(th)
  /\ \A th : Sure!Written(th) = Written(th)
  /\ \A pc : Sure!Idle(pc) = Idle(pc) /\ Sure!NoPod(pc) = NoPod(pc)
  /\ \A checks : Sure!Toward(checks) = Toward(checks)
  /\ \A k : Sure!FirstPc(k) = FirstPc(k)
  /\ \A r : Sure!UserOf(r) = UserOf(r)
  /\ \A r, o : Sure!Restored(r, o) = Restored(r, o)
  BY DEF Sure!Absent, Absent, Sure!Corrupt, Corrupt, Sure!NoSite, NoSite, Sure!NoJob, NoJob,
         Sure!Kinds, Kinds, Sure!Requests, Requests, Sure!Present, Present, Sure!Parsed, Parsed,
         Sure!JobActive, JobActive, Sure!JobKind, JobKind,
         Sure!Nameable, Nameable, Sure!Written, Written, Sure!Idle, Idle, Sure!NoPod, NoPod,
         Sure!Toward, Toward, Sure!FirstPc, FirstPc, Sure!UserOf, UserOf, Sure!Restored, Restored

LEMMA SureSeats ==
  /\ Sure!Seen = {Now}
  /\ \A u, s : Sure!SeatsOf(u, s) = SeatsOf(u, s) /\ Sure!FirstFree(u, s) = FirstFree(u, s)
  /\ \A u, s : Sure!Allocated(u, s) = Allocated(u, s)
  /\ \A act, rec : Sure!Checks(act, rec) = Checks(act, rec)
  /\ \A t : Sure!Leave(t) = Leave(t)
  /\ \A who, rec : Sure!Served(who, rec) = Served(who, rec)
<1>1. Sure!Seen = {Now}
  <2>1. \A r : Sure!Parsed(r) = Parsed(r)
    BY SureHelpers
  <2>2. [h \in Handles |-> Sure!Parsed(seats[h])] = Now
    BY <2>1 DEF Now
  <2> QED
    BY <2>2 DEF Sure!Seen
<1>2. \A u, s : Sure!SeatsOf(u, s) = SeatsOf(u, s) /\ Sure!FirstFree(u, s) = FirstFree(u, s)
  BY DEF Sure!SeatsOf, SeatsOf, Sure!FirstFree, FirstFree, Sure!Present, Present
<1>3. \A u, s : Sure!Allocated(u, s) = Allocated(u, s)
  BY <1>2 DEF Sure!Allocated, Allocated
<1>4. \A act, rec : Sure!Checks(act, rec) = Checks(act, rec)
  BY DEF Sure!Checks, Checks, Sure!Present, Present
<1>5. \A t : Sure!Leave(t) = Leave(t)
  BY DEF Sure!Leave, Leave, Sure!Idle, Idle, Sure!Absent, Absent
<1>6. \A who, rec : Sure!Served(who, rec) = Served(who, rec)
  BY DEF Sure!Served, Served, Sure!UserOf, UserOf
<1> QED
  BY <1>1, <1>2, <1>3, <1>4, <1>5, <1>6

LEMMA SureAdmitted == \A rec, s : Sure!Admitted("reset", rec, s) => rec.phase \in {"ready", "error"}
  BY DEF Sure!Admitted

LEMMA SureEnter == \A t, act, u, h, rec : Sure!Enter(t, act, u, h, rec) <=> Enter(t, act, u, h, rec)
  BY SureHelpers, SureSeats DEF Sure!Enter, Enter

LEMMA SureStore == \A h, r : Sure!TryStore(h, r) <=> Store(h, r)
  BY DEF Sure!TryStore, Sure!Store, Store

LEMMA SureStore2 == \A h, r : Sure!Store(h, r) <=> Store(h, r)
  BY DEF Sure!Store, Store

\* What a handler does when no call fails.
LEMMA SureArrive == ASSUME NEW t \in Threads, Sure!Arrive(t)
  PROVE  /\ threads[t].pc = "new" /\ UNCHANGED <<seats, jobs, pods, site>>
         /\ \/ \E act \in Kinds, u \in Users :
                 \E h \in IF act = "provision" THEN Allocated(u, Now)
                          ELSE IF SeatsOf(u, Now) # {} THEN SeatsOf(u, Now) ELSE {NullKey} :
                   LET rec == IF SeatsOf(u, Now) = {} THEN Absent ELSE Now[h] IN
                   (act = "reset" => rec.phase \in {"ready", "error"}) /\ Enter(t, act, u, h, rec)
            \/ \E act \in Kinds, who \in Admins, h \in Handles :
                 /\ Present(Now[h]) /\ (act = "reset" => Now[h].phase \in {"ready", "error"})
                 /\ Enter(t, act, Served(who, Now[h]), h, Now[h])
            \/ \E H \in SUBSET Handles : threads' = [threads EXCEPT ![t] =
                 [Idle("pick") EXCEPT !.act = "bulk",
                    !.todo = {[handle |-> h, rec |-> Now[h]] :
                                h \in {g \in H : Present(Now[g]) /\ Now[g].user \notin Admins}}]]
<1>1. threads[t].pc = "new" /\ UNCHANGED <<seats, jobs, pods, site>>
  BY DEF Sure!Arrive
<1>2. ASSUME NEW act \in Kinds, NEW u \in Users, Sure!OwnSeat(t, act, u)
      PROVE  \E h \in IF act = "provision" THEN Allocated(u, Now)
                      ELSE IF SeatsOf(u, Now) # {} THEN SeatsOf(u, Now) ELSE {NullKey} :
               LET rec == IF SeatsOf(u, Now) = {} THEN Absent ELSE Now[h] IN
               (act = "reset" => rec.phase \in {"ready", "error"}) /\ Enter(t, act, u, h, rec)
  BY <1>2, SureHelpers, SureSeats, SureAdmitted, SureEnter DEF Sure!OwnSeat
<1>3. ASSUME NEW act \in Kinds, NEW who \in Admins, NEW h \in Handles,
             Sure!AdminSeat(t, act, who, h)
      PROVE  /\ Present(Now[h]) /\ (act = "reset" => Now[h].phase \in {"ready", "error"})
             /\ Enter(t, act, Served(who, Now[h]), h, Now[h])
  BY <1>3, SureHelpers, SureSeats, SureAdmitted, SureEnter DEF Sure!AdminSeat
<1>4. ASSUME NEW H \in SUBSET Handles, Sure!BulkRemove(t, H)
      PROVE  threads' = [threads EXCEPT ![t] =
                 [Idle("pick") EXCEPT !.act = "bulk",
                    !.todo = {[handle |-> h, rec |-> Now[h]] :
                                h \in {g \in H : Present(Now[g]) /\ Now[g].user \notin Admins}}]]
  <2> DEFINE new(I, S) == [threads EXCEPT ![t] =
               [I EXCEPT !.act = "bulk", !.todo = {[handle |-> h, rec |-> Now[h]] : h \in S}]]
             A == {g \in H : Sure!Present(Now[g]) /\ Now[g].user \notin Admins}
             B == {g \in H : Present(Now[g]) /\ Now[g].user \notin Admins}
  <2>1. Sure!Idle("pick") = Idle("pick") /\ \A r : Sure!Present(r) <=> Present(r)
    BY SureHelpers
  <2>2. Sure!Seen = {Now}
    BY SureSeats
  <2>3. A = B
    BY <2>1
  <2>4. threads' = new(Sure!Idle("pick"), A)
    BY <1>4, <2>2 DEF Sure!BulkRemove
  <2>5. threads' = new(Idle("pick"), B)
    <3> HIDE DEF new, A, B
    <3> QED
      BY <2>1, <2>3, <2>4
  <2> QED
    BY <2>5
<1>5. CASE \E act \in Kinds, u \in Users : Sure!OwnSeat(t, act, u)
  BY <1>1, <1>2, <1>5
<1>6. CASE \E act \in Kinds, who \in Admins, h \in Handles : Sure!AdminSeat(t, act, who, h)
  BY <1>1, <1>3, <1>6
<1>7. CASE \E H \in SUBSET Handles : Sure!BulkRemove(t, H)
  BY <1>1, <1>4, <1>7
<1> QED
  BY <1>5, <1>6, <1>7, SureHelpers DEF Sure!Arrive

LEMMA SurePickNext == \A t \in Threads : Sure!PickNext(t) => PickNext(t)
  BY SureHelpers, SureSeats DEF Sure!PickNext, PickNext

LEMMA SureCheckJob == \A t \in Threads : Sure!CheckJob(t) => CheckJob(t)
  BY SureHelpers, SureSeats DEF Sure!CheckJob, CheckJob

LEMMA SureWriteSeat == \A t \in Threads : Sure!WriteSeat(t) =>
  WriteSeat(t) /\ Store(threads[t].handle, Written(threads[t]))
  BY SureHelpers, SureStore DEF Sure!WriteSeat, WriteSeat, TryStore

LEMMA SureDeleteJob == \A t \in Threads : Sure!DeleteJob(t) => DeleteJob(t)
  BY SureHelpers DEF Sure!DeleteJob, DeleteJob

LEMMA SureCreateJob == \A t \in Threads : Sure!CreateJob(t) => CreateJob(t)
  BY SureHelpers, SureSeats DEF Sure!CreateJob, CreateJob

LEMMA SureHandlerDies == \A t \in Threads : Sure!HandlerDies(t) => HandlerDies(t)
  BY SureHelpers DEF Sure!HandlerDies, HandlerDies

\* And a Job and its pod.
LEMMA SureStartPod == \A k \in Kinds, h \in Handles, p \in Pods :
                        Sure!StartPod(k, h, p) => StartPod(k, h, p)
  BY SureHelpers DEF Sure!StartPod, StartPod

LEMMA SureFinish == \A p \in Pods : Sure!Finish(p) <=> Finish(p)
  BY SureHelpers DEF Sure!Finish, Finish

LEMMA SureAt == /\ \A p, k, pc : Sure!At(p, k, pc) <=> At(p, k, pc)
                /\ \A p, q : Sure!Advance(p, q) <=> Advance(p, q)
  BY DEF Sure!At, At, Sure!Advance, Advance

LEMMA SureLookup == ASSUME NEW p \in Pods, Sure!Lookup(p)
  PROVE  /\ At(p, "provision", "lookup") /\ UNCHANGED <<seats, threads, jobs, site>>
         /\ \E h \in Allocated(pods[p].user, Now) :
              Advance(p, [pods[p] EXCEPT !.pc = "record", !.handle = h,
                     !.rec = [Now[h] EXCEPT !.user = pods[p].user, !.phase = "provisioning"]])
  BY SureSeats, SureAt DEF Sure!Lookup

LEMMA SureRecordSeat == \A p \in Pods : Sure!RecordSeat(p) => RecordSeat(p)
  BY SureStore2, SureAt DEF Sure!RecordSeat, RecordSeat

LEMMA SureStepRead == ASSUME NEW p \in Pods, Sure!StepRead(p)
  PROVE  /\ At(p, "provision", "setup") \/ At(p, "provision", "marking")
         /\ UNCHANGED <<seats, threads, jobs, site>>
         /\ Advance(p, [pods[p] EXCEPT
              !.pc = IF @ = "setup" THEN "setup-write" ELSE "marking-write",
              !.tmp = [Now[pods[p].handle] EXCEPT !.user = pods[p].user, !.phase = "provisioning"]])
  BY SureSeats, SureAt DEF Sure!StepRead

LEMMA SureStepWrite == \A p \in Pods : Sure!StepWrite(p) =>
  StepWrite(p) /\ Store(pods[p].handle, pods[p].tmp)
  BY SureHelpers, SureStore, SureAt DEF Sure!StepWrite, StepWrite, TryStore

LEMMA SureAwaitNamespace == \A p \in Pods : Sure!AwaitNamespace(p) => AwaitNamespace(p)
  BY SureAt DEF Sure!AwaitNamespace, AwaitNamespace

LEMMA SureMintToken == \A p \in Pods : Sure!MintToken(p) => MintToken(p)
  BY SureStore2, SureAt DEF Sure!MintToken, MintToken, Sure!TokenInHand, TokenInHand

LEMMA SureRender == \A p \in Pods : Sure!Render(p) => Render(p)
  BY SureAt DEF Sure!Render, Render

LEMMA SureMarkReady == \A p \in Pods : Sure!MarkReady(p) => MarkReady(p)
  BY SureStore2, SureAt, SureFinish DEF Sure!MarkReady, MarkReady

LEMMA SureFail == ASSUME NEW p \in Pods, Sure!Fail(p)
  PROVE  /\ pods[p].kind = "provision" /\ pods[p].pc \in FailPoints
         /\ UNCHANGED <<seats, threads, jobs, site>>
         /\ LET h == IF pods[p].pc = "lookup" THEN Cands[pods[p].user][1] ELSE pods[p].handle IN
            Advance(p, [pods[p] EXCEPT !.pc = "fail-write", !.handle = h,
                     !.tmp = [Now[h] EXCEPT !.user = pods[p].user, !.phase = "error"]])
  BY SureSeats, SureAt DEF Sure!Fail, Sure!FailPoints, FailPoints

LEMMA SureFailWrite == \A p \in Pods : Sure!FailWrite(p) =>
  FailWrite(p) /\ Store(pods[p].handle, pods[p].tmp)
  BY SureStore, SureAt, SureFinish DEF Sure!FailWrite, FailWrite, TryStore

LEMMA SureCapture == ASSUME NEW p \in Pods, Sure!Capture(p)
  PROVE  /\ At(p, "reset", "capture") /\ UNCHANGED <<seats, threads, jobs, site>>
         /\ Advance(p, [pods[p] EXCEPT !.pc = "restore", !.rec = seats[pods[p].handle]])
  BY SureAt DEF Sure!Capture

LEMMA SureRestore == ASSUME NEW p \in Pods, Sure!Restore(p)
  PROVE  /\ Restore(p)
         /\ \E outcome \in {"ready", "error"} :
              Store(pods[p].handle, Restored(pods[p].rec, outcome))
  BY SureHelpers, SureStore, SureAt, SureFinish DEF Sure!Restore, Restore, TryStore

LEMMA SureFindOwner == ASSUME NEW p \in Pods, Sure!FindOwner(p)
  PROVE  /\ At(p, "deprovision", "owner") /\ UNCHANGED <<seats, threads, jobs, site>>
         /\ LET u == Now[pods[p].handle].user IN
            Advance(p, [pods[p] EXCEPT !.pc = "teardown",
                          !.user = IF u \in Users THEN u ELSE pods[p].user])
  BY SureSeats, SureAt DEF Sure!FindOwner

LEMMA SureTeardown == \A p \in Pods : Sure!Teardown(p) => Teardown(p)
  BY SureHelpers, SureAt DEF Sure!Teardown, Teardown

LEMMA SureRemoveRecord == \A p \in Pods : Sure!RemoveRecord(p) =>
  RemoveRecord(p) /\ Store(pods[p].handle, Absent)
  BY SureHelpers, SureStore, SureAt, SureFinish DEF Sure!RemoveRecord, RemoveRecord, TryStore

LEMMA SurePodDies == \A p \in Pods : Sure!PodDies(p) => PodDies(p)
  BY SureFinish DEF Sure!PodDies, PodDies

LEMMA SureSiteGone == \A h \in Handles : Sure!SiteGone(h) => SiteGone(h)
  BY SureHelpers DEF Sure!SiteGone, SiteGone

------------------------------------------------------------------------------
(* The invariant: what holds of all that has to do with one calm handle. *)

Live(p) == pods[p].pc \notin {"unborn", "gone"}
Under(k, h) == jobs[k][h].st \in {"pending", "active"}

\* AtSeat, of a handler's state.
Has(th, h) == /\ th.pc \notin {"new", "end"}
              /\ \/ th.pc # "pick" /\ th.handle = h
                 \/ \E e \in th.todo : e.handle = h

\* A record is a person's, and no leftover of a call that failed.
Proper(r) == r.user \in Users
             /\ r.phase \in {"provisioning", "resetting", "removing", "ready", "error"}

\* One at a time works on a seat: a handler, or a Job and then its one pod.
HandlerAlone(h) == \A t \in Threads : AtSeat(t, h) =>
  /\ \A x \in Threads : AtSeat(x, h) => x = t
  /\ \A k \in Kinds : ~ Under(k, h)
JobAlone(h) == \A k, l \in Kinds : Under(k, h) /\ Under(l, h) => k = l
PodAlone(h) == \A p \in Pods : AtPod(p, h) =>
  /\ pods[p].owned /\ pods[p].job = h /\ pods[p].handle = h
  /\ jobs[pods[p].kind][h].st = "active"
  /\ \A q \in Pods : AtPod(q, h) => q = p
Alone(h) == HandlerAlone(h) /\ JobAlone(h) /\ PodAlone(h)

\* The phase that a request writes, and its Job ends.
PhaseOf(k) == CASE k = "provision" -> "provisioning" [] k = "reset" -> "resetting"
                [] k = "deprovision" -> "removing"

\* What a handler has in hand is what the record still is, or what the handler made of it.
InHand(th, r) ==
  /\ th.user \in Users /\ (th.act = "bulk" => th.user \notin Admins)
  /\ th.pc \in {"check", "write"} =>
       /\ th.rec = r
       /\ th.rec # Absent => th.rec.user = th.user
       /\ th.act # "provision" => th.rec # Absent
       /\ th.act = "reset" => th.rec.phase \in {"ready", "error"}
  /\ th.pc \in {"delete", "post"} => r.user = th.user /\ r.phase = PhaseOf(JobKind(th.act))
OnList(th, h, r) == \A e \in th.todo : e.handle = h =>
  /\ e.rec = r /\ r # Absent /\ r.user \notin Admins
  /\ th.pc # "pick" => th.handle # h
HandCurrent(th, h, r) == Has(th, h) =>
  /\ th.pc # "pick" /\ th.handle = h => InHand(th, r)
  /\ OnList(th, h, r)

\* A Job is for the person on record, and the record says what it does.
Waited(h) == \A k \in Kinds : Under(k, h) =>
  /\ jobs[k][h].user \in Users /\ seats[h].user = jobs[k][h].user
  /\ seats[h].phase = PhaseOf(k)

\* A pod has the record as it is, and a build that has rendered serves what it has.
Builds(q, r, s) ==
  /\ q.pc \in FailPoints \cup {"setup-write", "marking-write", "fail-write"}
  /\ q.pc \notin {"lookup", "fail-write"} => q.rec = r
  /\ q.pc \in {"setup-write", "marking-write"} => q.tmp = r
  /\ q.pc = "fail-write" => q.tmp = [r EXCEPT !.phase = "error"]
  /\ q.pc \in {"token", "render"} => ~ s.going
  /\ q.pc \in {"render", "marking", "marking-write", "finish"} => q.rec.token # NoToken
  /\ q.pc \in {"marking", "marking-write", "finish"} =>
       s = [user |-> q.user, token |-> q.rec.token, going |-> FALSE]
Resets(q, r) == q.pc \in {"capture", "restore"} /\ (q.pc = "restore" => q.rec = r)
Removes(q, s) == q.pc \in {"owner", "teardown", "remove"}
                 /\ (q.pc = "remove" => s.user = NoUser \/ s.going)
Works(q, r, s) ==
  /\ q.user = r.user
  /\ q.kind = "provision" => Builds(q, r, s)
  /\ q.kind = "reset" => Resets(q, r)
  /\ q.kind = "deprovision" => Removes(q, s)

Row(h) ==
  /\ seats[h] # Absent => Proper(seats[h])
  /\ ~ site[h].going => site[h].user \in {NoUser, seats[h].user}
  /\ Alone(h) /\ Waited(h)
  /\ \A t \in Threads : HandCurrent(threads[t], h, seats[h])
  /\ \A p \in Pods : AtPod(p, h) => Works(pods[p], seats[h], site[h])

\* A handler is about to make a record for a person who has none.
Claiming(th, h) == /\ th.pc \in {"check", "write"} /\ th.act = "provision"
                   /\ th.handle = h /\ th.rec = Absent

\* No two calm seats are one person's, or become it.
OnePerson == \A g, h \in calm : seats[g].user = seats[h].user /\ seats[g].user # NoUser => g = h
ClaimAlone == \A t \in Threads, h \in calm : Claiming(threads[t], h) =>
  /\ \A g \in calm : seats[g].user # threads[t].user
  /\ \A x \in Threads, g \in calm :
       Claiming(threads[x], g) /\ threads[x].user = threads[t].user => x = t

Calm == /\ calm \subseteq Seats
        /\ \A h \in calm : Row(h)
        /\ OnePerson /\ ClaimAlone

------------------------------------------------------------------------------
(* What a step may do to one handle. *)

JobsStay(h) == \A k \in Kinds : jobs'[k][h] = jobs[k][h]
HandsStay(h) == \A t \in Threads : threads'[t] = threads[t] \/ ~ (AtSeat(t, h) \/ AtSeat(t, h)')
PodsStay(h) == \A p \in Pods : pods'[p] = pods[p] \/ ~ (AtPod(p, h) \/ AtPod(p, h)')
RowStays(h) == /\ seats'[h] = seats[h] /\ site'[h] = site[h]
               /\ JobsStay(h) /\ HandsStay(h) /\ PodsStay(h)

\* The record goes, stays its person's or becomes that of a claim, and a new claim is of
\* somebody who has no seat.
Moves(h) == \/ seats'[h].user \in {NoUser, seats[h].user}
            \/ \E t \in Threads : Claiming(threads[t], h) /\ threads[t].user = seats'[h].user
Arrives(t, h) == /\ Comes(t, h) /\ threads'[t].act = "provision"
                 /\ SeatsOf(threads'[t].user, seats) = {} /\ seats' = seats
                 /\ \A x \in Threads \ {t} : threads'[x] = threads[x]
Claims(h) == \A t \in Threads : Claiming(threads'[t], h) =>
  \/ Claiming(threads[t], h) /\ threads'[t].user = threads[t].user
  \/ Arrives(t, h)
StepRow(h) == Row(h)' /\ Moves(h) /\ Claims(h)

LEMMA NobodyIsNone == NoUser \notin Users /\ Blank \notin Users /\ NoUser \notin Admins
  BY PeopleAssumption DEF People

LEMMA AtSeatHas == \A t, h : AtSeat(t, h) <=> Has(threads[t], h)
  BY DEF AtSeat, Has

LEMMA ClaimingHas == \A th, h : Claiming(th, h) => Has(th, h)
  BY DEF Claiming, Has

LEMMA PodFields == ASSUME TypeOK, NEW p \in Pods
                   PROVE  /\ pods[p] \in Pod /\ pods[p].kind \in Kinds /\ pods[p].job \in Handles
                          /\ pods[p].handle \in Handles /\ pods[p].user \in People
                          /\ pods[p].rec \in Record /\ pods[p].tmp \in Record
  BY DEF TypeOK, Pod

\* A handle that a step does not touch.
LEMMA Untouched == ASSUME TypeOK, NEW h \in Seats, Row(h), RowStays(h) PROVE StepRow(h)
<1> USE DEF RowStays, HandsStay, PodsStay, JobsStay
<1>1. \A t \in Threads : (AtSeat(t, h)' <=> AtSeat(t, h))
                         /\ (AtSeat(t, h)' => threads'[t] = threads[t])
  BY DEF AtSeat
<1>2. \A p \in Pods : (AtPod(p, h)' <=> AtPod(p, h)) /\ (AtPod(p, h)' => pods'[p] = pods[p])
  BY DEF AtPod
<1>3. \A k \in Kinds : Under(k, h)' <=> Under(k, h)
  BY DEF Under
<1>4. HandlerAlone(h)' /\ JobAlone(h)'
  BY <1>1, <1>3 DEF Row, Alone, HandlerAlone, JobAlone
<1>5. \A p \in Pods : pods[p].kind \in Kinds
  BY PodFields
<1>6. PodAlone(h)'
  BY <1>2, <1>5 DEF Row, Alone, PodAlone
<1>7. Waited(h)'
  BY <1>3 DEF Row, Waited
<1>8. \A t \in Threads : HandCurrent(threads'[t], h, seats'[h])
  <2> TAKE t \in Threads
  <2>1. CASE AtSeat(t, h)'
    BY <1>1, <2>1 DEF Row
  <2>2. CASE ~ AtSeat(t, h)'
    BY <2>2 DEF HandCurrent, Has, AtSeat
  <2> QED
    BY <2>1, <2>2
<1>9. Row(h)'
  BY <1>2, <1>4, <1>6, <1>7, <1>8 DEF Row, Alone
<1>10. Moves(h) /\ Claims(h)
  <2>1. ASSUME NEW t \in Threads, Claiming(threads'[t], h)
        PROVE  Claiming(threads[t], h) /\ threads'[t].user = threads[t].user
    <3>1. AtSeat(t, h)'
      BY <2>1 DEF Claiming, AtSeat
    <3> QED
      BY <1>1, <2>1, <3>1
  <2> QED
    BY <2>1 DEF Moves, Claims
<1> QED
  BY <1>9, <1>10 DEF StepRow

\* A handler's own step, which leaves the record, the Jobs and the pods of h as they are.
LEMMA HandlerGoes ==
  ASSUME TypeOK, NEW h \in Seats, Row(h), NEW t \in Threads, NEW e,
         threads' = [threads EXCEPT ![t] = e],
         seats'[h] = seats[h], site'[h] = site[h], JobsStay(h), PodsStay(h),
         Has(e, h) => AtSeat(t, h) \/ Quiet(h), HandCurrent(e, h, seats[h]),
         Claiming(e, h) =>
           (Claiming(threads[t], h) /\ e.user = threads[t].user) \/ Arrives(t, h)
  PROVE  StepRow(h)
<1>1. threads'[t] = e /\ \A x \in Threads \ {t} : threads'[x] = threads[x]
  BY DEF TypeOK
<1>2. \A x \in Threads \ {t} : AtSeat(x, h)' <=> AtSeat(x, h)
  BY <1>1 DEF AtSeat
<1>3. AtSeat(t, h)' => AtSeat(t, h) \/ Quiet(h)
  BY <1>1 DEF AtSeat, Has
<1>4. \A p \in Pods : (AtPod(p, h)' <=> AtPod(p, h)) /\ (AtPod(p, h)' => pods'[p] = pods[p])
  BY DEF PodsStay, AtPod
<1>5. \A k \in Kinds : (Under(k, h)' <=> Under(k, h)) /\ jobs'[k][h] = jobs[k][h]
  BY DEF JobsStay, Under
<1>6. HandlerAlone(h)'
  <2>1. Quiet(h) => \A x \in Threads : ~ AtSeat(x, h)
    BY DEF Quiet
  <2>2. Quiet(h) => \A k \in Kinds : ~ Under(k, h)
    BY DEF Quiet, Under
  <2> QED
    BY <1>2, <1>3, <1>5, <2>1, <2>2 DEF Row, Alone, HandlerAlone
<1>7. \A p \in Pods : pods[p].kind \in Kinds
  BY PodFields
<1>8. JobAlone(h)' /\ PodAlone(h)' /\ Waited(h)'
  BY <1>4, <1>5, <1>7 DEF Row, Alone, JobAlone, PodAlone, Waited
<1>9. \A x \in Threads : HandCurrent(threads'[x], h, seats'[h])
  BY <1>1 DEF Row
<1>10. Row(h)'
  BY <1>4, <1>6, <1>8, <1>9 DEF Row, Alone
<1>11. Moves(h) /\ Claims(h)
  BY <1>1 DEF Moves, Claims
<1> QED
  BY <1>10, <1>11 DEF StepRow

\* The same of a handler that is not at h and does not come to it.
LEMMA HandlerElsewhere ==
  ASSUME TypeOK, NEW h \in Seats, Row(h), NEW t \in Threads, NEW e,
         threads' = [threads EXCEPT ![t] = e], ~ AtSeat(t, h), ~ Has(e, h),
         seats'[h] = seats[h], site'[h] = site[h], JobsStay(h), PodsStay(h)
  PROVE  StepRow(h)
  BY HandlerGoes, ClaimingHas DEF HandCurrent

\* What a pod at work for h knows.
LEMMA PodsSeat ==
  ASSUME TypeOK, NEW h \in Seats, Row(h), NEW p \in Pods, AtPod(p, h)
  PROVE  /\ pods[p].job = h /\ pods[p].handle = h /\ pods[p].owned /\ Live(p)
         /\ jobs[pods[p].kind][h].st = "active" /\ Under(pods[p].kind, h)
         /\ pods[p].user \in Users /\ seats[h].user = pods[p].user
         /\ seats[h].phase = PhaseOf(pods[p].kind) /\ seats[h] # Absent /\ Proper(seats[h])
         /\ \A t \in Threads : ~ AtSeat(t, h)
         /\ \A k \in Kinds : Under(k, h) => k = pods[p].kind
         /\ \A q \in Pods : AtPod(q, h) => q = p
         /\ Works(pods[p], seats[h], site[h])
<1> DEFINE k == pods[p].kind
<1>1. k \in Kinds
  BY PodFields
<1>2. /\ pods[p].owned /\ jobs[k][h].st = "active" /\ pods[p].job = h /\ pods[p].handle = h
      /\ \A q \in Pods : AtPod(q, h) => q = p
  BY DEF Row, Alone, PodAlone
<1>3. Under(k, h)
  BY <1>2 DEF Under
<1>4. /\ jobs[k][h].user \in Users
      /\ seats[h].user = jobs[k][h].user /\ seats[h].phase = PhaseOf(k)
  BY <1>1, <1>3 DEF Row, Waited
<1>5. Works(pods[p], seats[h], site[h])
  BY DEF Row
<1>6. pods[p].user = seats[h].user
  BY <1>5 DEF Works
<1>7. seats[h] # Absent /\ Proper(seats[h])
  BY <1>4, NobodyIsNone DEF Absent, Row
<1>8. \A t \in Threads : ~ AtSeat(t, h)
  BY <1>1, <1>3 DEF Row, Alone, HandlerAlone
<1>9. \A l \in Kinds : Under(l, h) => l = k
  BY <1>1, <1>3 DEF Row, Alone, JobAlone
<1> QED
  BY <1>2, <1>3, <1>4, <1>5, <1>6, <1>7, <1>8, <1>9 DEF AtPod, Live

\* A pod's step: its record stays its person's and as busy as it was, and the pod's own state
\* goes with it.
LEMMA PodGoes ==
  ASSUME TypeOK, NEW h \in Seats, Row(h), NEW p \in Pods, AtPod(p, h), NEW q, NEW r, NEW s,
         pods' = [pods EXCEPT ![p] = q],
         q.pc \notin {"unborn", "gone"}, q.kind = pods[p].kind, q.job = h, q.handle = h, q.owned,
         seats'[h] = r, r.user = seats[h].user, r.phase = seats[h].phase,
         site'[h] = s, ~ s.going => s.user \in {NoUser, r.user},
         UNCHANGED <<threads, jobs>>, Works(q, r, s)
  PROVE  StepRow(h)
<1>0. pods'[p] = q /\ \A x \in Pods \ {p} : pods'[x] = pods[x]
  BY DEF TypeOK
<1>1. /\ pods[p].user \in Users /\ Proper(seats[h]) /\ \A t \in Threads : ~ AtSeat(t, h)
      /\ \A x \in Pods : AtPod(x, h) => x = p
      /\ jobs[pods[p].kind][h].st = "active"
  BY PodsSeat
<1>2. Proper(r)
  BY <1>1 DEF Proper
<1>3. \A x \in Pods : AtPod(x, h)' => x = p
  BY <1>0, <1>1 DEF AtPod
<1>4. PodAlone(h)'
  BY <1>0, <1>1, <1>3 DEF PodAlone
<1>5. HandlerAlone(h)' /\ JobAlone(h)'
  BY DEF Row, Alone, HandlerAlone, JobAlone, Under, AtSeat
<1>6. Waited(h)'
  BY DEF Row, Waited, Under
<1>7. \A t \in Threads : HandCurrent(threads[t], h, r)
  BY <1>1, AtSeatHas DEF HandCurrent
<1>8. \A x \in Pods : AtPod(x, h)' => Works(pods'[x], r, s)
  BY <1>0, <1>3
<1>9. Row(h)'
  BY <1>2, <1>4, <1>5, <1>6, <1>7, <1>8 DEF Row, Alone
<1>10. Moves(h) /\ Claims(h)
  BY DEF Moves, Claims
<1> QED
  BY <1>9, <1>10 DEF StepRow

\* A pod ends, and leaves a record of its person's or none.
LEMMA PodEnds ==
  ASSUME TypeOK, NEW h \in Seats, Row(h), NEW p \in Pods, AtPod(p, h), Finish(p), NEW r,
         seats'[h] = r,
         \/ r = Absent /\ (site[h].user = NoUser \/ site[h].going)
         \/ r.user = seats[h].user /\ Proper(r),
         site'[h] = site[h], UNCHANGED threads
  PROVE  StepRow(h)
<1> DEFINE k == pods[p].kind
<1>0. /\ pods'[p] = NoPod("gone") /\ \A x \in Pods \ {p} : pods'[x] = pods[x]
      /\ k \in Kinds /\ h \in Handles
  BY PodFields DEF TypeOK, Finish, Seats
<1>1. /\ pods[p].job = h /\ pods[p].owned /\ pods[p].user \in Users
      /\ \A t \in Threads : ~ AtSeat(t, h)
      /\ \A l \in Kinds : Under(l, h) => l = k
      /\ \A x \in Pods : AtPod(x, h) => x = p
  BY PodsSeat
<1>2. jobs'[k][h].st = "done" /\ \A l \in Kinds \ {k} : jobs'[l][h] = jobs[l][h]
  BY <1>0, <1>1 DEF Finish, TypeOK
<1>3. \A l \in Kinds : ~ Under(l, h)'
  BY <1>0, <1>1, <1>2 DEF Under
<1>4. \A x \in Pods : ~ AtPod(x, h)'
  BY <1>0, <1>1 DEF AtPod, NoPod
<1>5. \A t \in Threads : ~ AtSeat(t, h)'
  BY <1>1 DEF AtSeat
<1>6. Alone(h)' /\ Waited(h)'
  BY <1>3, <1>4, <1>5 DEF Alone, HandlerAlone, JobAlone, PodAlone, Waited
<1>7. \A t \in Threads : HandCurrent(threads[t], h, r)
  BY <1>1, AtSeatHas DEF HandCurrent
<1>8. r # Absent => Proper(r)
  OBVIOUS
<1>9. ~ site[h].going => site[h].user \in {NoUser, r.user}
  BY DEF Row, Absent
<1>10. Row(h)'
  BY <1>4, <1>6, <1>7, <1>8, <1>9 DEF Row
<1>11. Moves(h) /\ Claims(h)
  BY DEF Moves, Claims, Absent
<1> QED
  BY <1>10, <1>11 DEF StepRow

\* A pod that is not at h, and does not stray to it.
LEMMA PodElsewhere ==
  ASSUME TypeOK, NEW h \in Seats, Row(h), NEW p \in Pods, ~ AtPod(p, h), ~ AtPod(p, h)',
         \A x \in Pods \ {p} : pods'[x] = pods[x],
         seats'[h] = seats[h], site'[h] = site[h], JobsStay(h), UNCHANGED threads
  PROVE  StepRow(h)
<1>1. HandsStay(h) /\ PodsStay(h)
  BY DEF HandsStay, PodsStay
<1> QED
  BY <1>1, Untouched DEF RowStays

LEMMA PodEndsElsewhere ==
  ASSUME TypeOK, NEW h \in Seats, Row(h), NEW p \in Pods, Live(p), ~ AtPod(p, h), Finish(p),
         seats'[h] = seats[h], site'[h] = site[h], UNCHANGED threads
  PROVE  StepRow(h)
<1>1. pods[p].job # h /\ pods[p].kind \in Kinds
  BY PodFields DEF AtPod, Live
<1>2. JobsStay(h)
  BY <1>1 DEF Finish, JobsStay, TypeOK
<1>3. ~ AtPod(p, h)' /\ \A x \in Pods \ {p} : pods'[x] = pods[x]
  BY DEF Finish, AtPod, NoPod, TypeOK
<1> QED
  BY <1>2, <1>3, PodElsewhere

------------------------------------------------------------------------------
(* The handlers' steps. *)

\* At a calm handle a read that does not fail finds the record as it is.
LEMMA NowIs == ASSUME TypeOK
  PROVE  /\ \A h \in Seats : Row(h) => Now[h] = seats[h]
         /\ \A u : SeatsOf(u, Now) = SeatsOf(u, seats)
<1>1. ASSUME NEW h \in Seats, Row(h) PROVE Now[h] = seats[h]
  <2>1. seats[h].phase # "corrupt"
    BY <1>1 DEF Row, Proper, Absent
  <2> QED
    BY <2>1 DEF Now, Parsed, Seats
<1>2. ASSUME NEW h \in Handles PROVE Now[h].user = seats[h].user
  <2>1. seats[h] \in Record
    BY DEF TypeOK
  <2> QED
    BY <2>1 DEF Now, Parsed, Record
<1> QED
  BY <1>1, <1>2 DEF SeatsOf

LEMMA NotPresent == ASSUME NEW h \in Seats, Row(h) PROVE Present(seats[h]) <=> seats[h] # Absent
  BY DEF Row, Present, Proper, Absent

LEMMA QuietComes == ASSUME NEW h \in Seats, ~ Crowded(h), NEW t \in Threads,
                           threads[t].pc = "new", AtSeat(t, h)'
                    PROVE  Comes(t, h) /\ Quiet(h)
  BY DEF Crowded, Comes

LEMMA TowardWhere == \A checks : Toward(checks) \in {"check", "write"}
  BY DEF Toward

\* A handler enters act for a person and a seat.
LEMMA EnterRow ==
  ASSUME TypeOK, NEW h \in Seats, Row(h), ~ Crowded(h), NEW t \in Threads,
         threads[t].pc = "new", UNCHANGED <<seats, jobs, pods, site>>,
         NEW act \in Kinds, NEW u, NEW g, NEW rec, Enter(t, act, u, g, rec),
         act = "reset" => rec.phase \in {"ready", "error"},
         g = h => /\ u \in Users /\ rec = seats[h]
                  /\ rec # Absent => rec.user = u
                  /\ rec = Absent => act = "provision" /\ SeatsOf(u, seats) = {}
  PROVE  StepRow(h)
<1> DEFINE e == [pc |-> Toward(Checks(act, rec)), act |-> act, user |-> u, handle |-> g, rec |-> rec,
                 checks |-> Checks(act, rec), todo |-> {}]
<1>1. /\ e.pc \in {"check", "write"} /\ e.act = act /\ e.user = u /\ e.handle = g /\ e.rec = rec
      /\ e.todo = {} /\ act # "bulk"
  BY TowardWhere DEF Kinds
<1>2. threads' = [threads EXCEPT ![t] = e]
  BY DEF Enter
<1> HIDE DEF e
<1>3. JobsStay(h) /\ PodsStay(h) /\ seats'[h] = seats[h] /\ site'[h] = site[h]
  BY DEF JobsStay, PodsStay
<1>4. threads'[t] = e /\ \A x \in Threads \ {t} : threads'[x] = threads[x]
  BY <1>2 DEF TypeOK
<1>5. Has(e, h) <=> g = h
  BY <1>1 DEF Has
<1>6. ~ AtSeat(t, h)
  BY DEF AtSeat
<1>7. CASE g # h
  BY <1>2, <1>3, <1>5, <1>6, <1>7, HandlerElsewhere
<1>8. CASE g = h
  <2>1. Comes(t, h) /\ Quiet(h)
    BY <1>4, <1>5, <1>8, QuietComes DEF AtSeat, Has
  <2>2. InHand(e, seats[h])
    BY <1>1, <1>8 DEF InHand
  <2>3. HandCurrent(e, h, seats[h])
    BY <1>1, <2>2 DEF HandCurrent, OnList
  <2>4. Claiming(e, h) => Arrives(t, h)
    BY <1>1, <1>4, <1>8, <2>1 DEF Claiming, Arrives
  <2> QED
    BY <1>2, <1>3, <2>1, <2>3, <2>4, HandlerGoes
<1> QED
  BY <1>7, <1>8

LEMMA ArriveRow ==
  ASSUME TypeOK, NEW h \in Seats, Row(h), ~ Crowded(h), NEW t \in Threads, Sure!Arrive(t)
  PROVE  StepRow(h)
<1>0. threads[t].pc = "new" /\ UNCHANGED <<seats, jobs, pods, site>>
  BY SureArrive
<1>1. Now[h] = seats[h] /\ h \in Handles /\ h # NullKey /\ \A u : SeatsOf(u, Now) = SeatsOf(u, seats)
  BY NowIs DEF Seats
<1>2. ASSUME NEW act \in Kinds, NEW u \in Users,
             NEW g \in IF act = "provision" THEN Allocated(u, Now)
                       ELSE IF SeatsOf(u, Now) # {} THEN SeatsOf(u, Now) ELSE {NullKey},
             LET rec == IF SeatsOf(u, Now) = {} THEN Absent ELSE Now[g] IN
             (act = "reset" => rec.phase \in {"ready", "error"}) /\ Enter(t, act, u, g, rec)
      PROVE  StepRow(h)
  <2> DEFINE rec == IF SeatsOf(u, Now) = {} THEN Absent ELSE Now[g]
  <2>1. (act = "reset" => rec.phase \in {"ready", "error"}) /\ Enter(t, act, u, g, rec)
    BY <1>2
  <2>2. ASSUME g = h PROVE /\ rec = seats[h]
                           /\ rec # Absent => rec.user = u
                           /\ rec = Absent => act = "provision" /\ SeatsOf(u, seats) = {}
    <3>1. CASE SeatsOf(u, Now) # {}
      <4>1. h \in SeatsOf(u, Now)
        BY <1>2, <2>2, <3>1 DEF Allocated
      <4>2. seats[h].user = u /\ rec = seats[h]
        BY <1>1, <2>2, <3>1, <4>1 DEF SeatsOf
      <4> QED
        BY <4>2, NobodyIsNone DEF Absent
    <3>2. CASE SeatsOf(u, Now) = {}
      <4>1. act = "provision" /\ h \in FirstFree(u, Now)
        BY <1>1, <1>2, <2>2, <3>2 DEF Allocated
      <4>2. ~ Present(Now[h])
        BY <4>1 DEF FirstFree
      <4>3. seats[h] = Absent
        BY <1>1, <4>2, NotPresent
      <4> QED
        BY <1>1, <3>2, <4>1, <4>3
    <3> QED
      BY <3>1, <3>2
  <2> HIDE DEF rec
  <2> QED
    BY <1>0, <2>1, <2>2, EnterRow
<1>3. ASSUME NEW act \in Kinds, NEW who \in Admins, NEW g \in Handles,
             Present(Now[g]), act = "reset" => Now[g].phase \in {"ready", "error"},
             Enter(t, act, Served(who, Now[g]), g, Now[g])
      PROVE  StepRow(h)
  <2>1. ASSUME g = h PROVE /\ Served(who, Now[g]) \in Users /\ Now[g] = seats[h]
                           /\ Now[g] # Absent /\ Now[g].user = Served(who, Now[g])
    <3>1. Now[g] = seats[h] /\ seats[h] # Absent
      BY <1>1, <1>3, <2>1, NotPresent
    <3>2. seats[h].user \in Users
      BY <3>1 DEF Row, Proper
    <3> QED
      BY <3>1, <3>2, NobodyIsNone DEF Served, UserOf
  <2> QED
    BY <1>0, <1>3, <2>1, EnterRow
<1>4. ASSUME NEW H \in SUBSET Handles, threads' = [threads EXCEPT ![t] =
                 [Idle("pick") EXCEPT !.act = "bulk",
                    !.todo = {[handle |-> g, rec |-> Now[g]] :
                                g \in {x \in H : Present(Now[x]) /\ Now[x].user \notin Admins}}]]
      PROVE  StepRow(h)
  <2> DEFINE todo == {[handle |-> g, rec |-> Now[g]] :
                        g \in {x \in H : Present(Now[x]) /\ Now[x].user \notin Admins}}
             e == [Idle("pick") EXCEPT !.act = "bulk", !.todo = todo]
  <2>1. e.pc = "pick" /\ e.act = "bulk" /\ e.todo = todo
    BY DEF Idle
  <2>2. threads' = [threads EXCEPT ![t] = e]
    BY <1>4
  <2>3. \A x \in todo : x.handle = h => x.rec = seats[h] /\ seats[h] # Absent /\ seats[h].user \notin Admins
    BY <1>1, NotPresent
  <2> HIDE DEF e, todo
  <2>4. JobsStay(h) /\ PodsStay(h) /\ seats'[h] = seats[h] /\ site'[h] = site[h]
    BY <1>0 DEF JobsStay, PodsStay
  <2>5. HandCurrent(e, h, seats[h])
    BY <2>1, <2>3 DEF HandCurrent, OnList
  <2>6. Has(e, h) => Quiet(h)
    <3>1. threads'[t] = e
      BY <2>2 DEF TypeOK
    <3> QED
      BY <1>0, <3>1, QuietComes DEF Has, AtSeat
  <2>7. ~ Claiming(e, h)
    BY <2>1 DEF Claiming
  <2> QED
    BY <2>2, <2>4, <2>5, <2>6, <2>7, HandlerGoes
<1>5. CASE \E act \in Kinds, u \in Users :
             \E g \in IF act = "provision" THEN Allocated(u, Now)
                      ELSE IF SeatsOf(u, Now) # {} THEN SeatsOf(u, Now) ELSE {NullKey} :
               LET rec == IF SeatsOf(u, Now) = {} THEN Absent ELSE Now[g] IN
               (act = "reset" => rec.phase \in {"ready", "error"}) /\ Enter(t, act, u, g, rec)
  BY <1>2, <1>5
<1>6. CASE \E act \in Kinds, who \in Admins, g \in Handles :
             /\ Present(Now[g]) /\ (act = "reset" => Now[g].phase \in {"ready", "error"})
             /\ Enter(t, act, Served(who, Now[g]), g, Now[g])
  BY <1>3, <1>6
<1>7. CASE \E H \in SUBSET Handles : threads' = [threads EXCEPT ![t] =
                 [Idle("pick") EXCEPT !.act = "bulk",
                    !.todo = {[handle |-> g, rec |-> Now[g]] :
                                g \in {x \in H : Present(Now[x]) /\ Now[x].user \notin Admins}}]]
  BY <1>4, <1>7
<1> QED
  BY <1>5, <1>6, <1>7, SureArrive

LEMMA PickNextRow ==
  ASSUME TypeOK, NEW h \in Seats, Row(h), NEW t \in Threads, PickNext(t) PROVE StepRow(h)
<1> DEFINE th == threads[t]
<1>0. /\ th \in Thread /\ th.pc = "pick" /\ UNCHANGED <<seats, jobs, pods, site>>
      /\ HandCurrent(th, h, seats[h])
  BY DEF PickNext, TypeOK, Row
<1>1. JobsStay(h) /\ PodsStay(h) /\ seats'[h] = seats[h] /\ site'[h] = site[h]
  BY <1>0 DEF JobsStay, PodsStay
<1>2. CASE th.todo = {}
  <2>1. threads' = [threads EXCEPT ![t] = Idle("end")]
    BY <1>2 DEF PickNext
  <2>2. ~ Has(Idle("end"), h) /\ ~ AtSeat(t, h)
    BY <1>0, <1>2 DEF Has, Idle, AtSeat
  <2> QED
    BY <1>1, <2>1, <2>2, HandlerElsewhere
<1>3. CASE th.todo # {}
  <2>1. PICK e \in th.todo : threads' = [threads EXCEPT ![t] =
              [pc |-> "check", act |-> "bulk", user |-> UserOf(e.rec), handle |-> e.handle,
               rec |-> e.rec, checks |-> Checks("bulk", e.rec), todo |-> th.todo \ {e}]]
    BY <1>3 DEF PickNext
  <2> DEFINE n == [pc |-> "check", act |-> "bulk", user |-> UserOf(e.rec), handle |-> e.handle,
                   rec |-> e.rec, checks |-> Checks("bulk", e.rec), todo |-> th.todo \ {e}]
  <2>2. /\ n.pc = "check" /\ n.act = "bulk" /\ n.user = UserOf(e.rec) /\ n.handle = e.handle
        /\ n.rec = e.rec /\ n.todo = th.todo \ {e}
    OBVIOUS
  <2>3. threads' = [threads EXCEPT ![t] = n]
    BY <2>1
  <2> HIDE DEF n
  <2>4. Has(n, h) => AtSeat(t, h)
    BY <1>0, <2>2, AtSeatHas DEF Has
  <2>5. \A x \in th.todo : x.handle = h => x.rec = seats[h] /\ seats[h] # Absent /\ seats[h].user \notin Admins
    BY <1>0 DEF HandCurrent, Has, OnList
  <2>6. e.handle = h => InHand(n, seats[h])
    <3> SUFFICES ASSUME e.handle = h PROVE InHand(n, seats[h])
      OBVIOUS
    <3>1. e.rec = seats[h] /\ seats[h] # Absent /\ seats[h].user \notin Admins
      BY <2>5
    <3>2. seats[h].user \in Users /\ UserOf(e.rec) = seats[h].user
      BY <3>1, NobodyIsNone DEF Row, Proper, UserOf
    <3> QED
      BY <2>2, <3>1, <3>2 DEF InHand
  <2>7. OnList(n, h, seats[h])
    <3> SUFFICES ASSUME NEW x \in th.todo, x # e, x.handle = h PROVE e.handle # h
      BY <2>2, <2>5 DEF OnList
    <3>1. x \in [handle : Handles, rec : Record] /\ e \in [handle : Handles, rec : Record]
      BY <1>0 DEF Thread
    <3>2. e.handle = h => x.rec = e.rec
      BY <2>5
    <3> QED
      BY <3>1, <3>2
  <2>8. HandCurrent(n, h, seats[h]) /\ ~ Claiming(n, h)
    BY <2>2, <2>6, <2>7 DEF HandCurrent, Claiming
  <2> QED
    BY <1>1, <2>3, <2>4, <2>8, HandlerGoes
<1> QED
  BY <1>2, <1>3

\* A handler that leaves keeps its list.
LEMMA Leaves ==
  ASSUME TypeOK, NEW h \in Seats, Row(h), NEW t \in Threads, threads[t].pc \in {"check", "post"}
  PROVE  /\ Has(Leave(t), h) => AtSeat(t, h) /\ threads[t].handle # h
         /\ HandCurrent(Leave(t), h, seats[h]) /\ ~ Claiming(Leave(t), h)
<1>0. threads[t] \in Thread /\ HandCurrent(threads[t], h, seats[h])
  BY DEF TypeOK, Row
<1>1. CASE threads[t].act = "bulk"
  <2> DEFINE n == [threads[t] EXCEPT !.pc = "pick"]
  <2>1. Leave(t) = n /\ n.pc = "pick" /\ n.todo = threads[t].todo
    BY <1>0, <1>1 DEF Leave, Thread
  <2> HIDE DEF n
  <2>2. Has(Leave(t), h) => /\ Has(threads[t], h) /\ threads[t].handle # h
                            /\ OnList(threads[t], h, seats[h])
    BY <1>0, <2>1 DEF Has, HandCurrent, OnList
  <2> QED
    BY <2>1, <2>2, AtSeatHas DEF HandCurrent, OnList, Claiming
<1>2. CASE threads[t].act # "bulk"
  BY <1>2 DEF Leave, Idle, Has, HandCurrent, Claiming
<1> QED
  BY <1>1, <1>2

LEMMA CheckJobRow ==
  ASSUME TypeOK, NEW h \in Seats, Row(h), NEW t \in Threads, CheckJob(t) PROVE StepRow(h)
<1> DEFINE th == threads[t]
<1>0. /\ th \in Thread /\ th.pc = "check" /\ UNCHANGED <<seats, jobs, pods, site>>
      /\ HandCurrent(th, h, seats[h])
  BY DEF CheckJob, TypeOK, Row
<1>1. JobsStay(h) /\ PodsStay(h) /\ seats'[h] = seats[h] /\ site'[h] = site[h]
  BY <1>0 DEF JobsStay, PodsStay
<1>2. CASE threads' = [threads EXCEPT ![t] = Leave(t)]
  BY <1>0, <1>1, <1>2, Leaves, HandlerGoes
<1>3. CASE threads' = [threads EXCEPT ![t] =
             [th EXCEPT !.checks = Tail(@), !.pc = Toward(Tail(th.checks))]]
  <2> DEFINE n == [th EXCEPT !.checks = Tail(@), !.pc = Toward(Tail(th.checks))]
  <2>1. /\ n.pc \in {"check", "write"} /\ n.act = th.act /\ n.user = th.user
        /\ n.handle = th.handle /\ n.rec = th.rec /\ n.todo = th.todo
    BY <1>0, TowardWhere DEF Thread
  <2>2. threads' = [threads EXCEPT ![t] = n]
    BY <1>3
  <2> HIDE DEF n
  <2>3. Has(n, h) => AtSeat(t, h)
    BY <1>0, <2>1, AtSeatHas DEF Has
  <2>4. HandCurrent(n, h, seats[h])
    BY <1>0, <2>1 DEF HandCurrent, Has, InHand, OnList
  <2>5. Claiming(n, h) => Claiming(th, h) /\ n.user = th.user
    BY <1>0, <2>1 DEF Claiming
  <2> QED
    BY <1>1, <2>2, <2>3, <2>4, <2>5, HandlerGoes
<1> QED
  BY <1>2, <1>3 DEF CheckJob

LEMMA HandlerDiesRow ==
  ASSUME TypeOK, NEW h \in Seats, Row(h), NEW t \in Threads, HandlerDies(t) PROVE StepRow(h)
<1>1. JobsStay(h) /\ PodsStay(h) /\ seats'[h] = seats[h] /\ site'[h] = site[h]
      /\ threads' = [threads EXCEPT ![t] = Idle("end")]
  BY DEF HandlerDies, JobsStay, PodsStay
<1>2. ~ Has(Idle("end"), h) /\ ~ Claiming(Idle("end"), h)
  BY DEF Has, Claiming, Idle
<1> QED
  BY <1>1, <1>2, HandlerGoes DEF HandCurrent

\* What a handler at work for h knows.
LEMMA HandlersSeat ==
  ASSUME TypeOK, NEW h \in Seats, Row(h), NEW t \in Threads,
         threads[t].pc \in {"check", "write", "delete", "post"}, threads[t].handle = h
  PROVE  /\ threads[t] \in Thread /\ h \in Handles /\ AtSeat(t, h) /\ Nameable(threads[t])
         /\ InHand(threads[t], seats[h]) /\ \A e \in threads[t].todo : e.handle # h
         /\ \A x \in Threads : AtSeat(x, h) => x = t
         /\ \A k \in Kinds : ~ Under(k, h)
         /\ \A p \in Pods : ~ AtPod(p, h)
<1>1. threads[t] \in Thread /\ h \in Handles /\ h # NullKey
  BY DEF TypeOK, Seats
<1>2. AtSeat(t, h)
  BY DEF AtSeat
<1>3. /\ \A x \in Threads : AtSeat(x, h) => x = t
      /\ \A k \in Kinds : ~ Under(k, h)
  BY <1>2 DEF Row, Alone, HandlerAlone
<1>4. InHand(threads[t], seats[h]) /\ \A e \in threads[t].todo : e.handle # h
  BY <1>2, AtSeatHas DEF Row, HandCurrent, OnList
<1>5. \A p \in Pods : ~ AtPod(p, h)
  BY <1>2, PodsSeat
<1> QED
  BY <1>1, <1>2, <1>3, <1>4, <1>5 DEF Nameable

\* A handler's step on the record or the Jobs of h.
LEMMA HandlerActs ==
  ASSUME TypeOK, NEW h \in Seats, Row(h), NEW t \in Threads,
         threads[t].pc \in {"check", "write", "delete", "post"}, threads[t].handle = h,
         NEW e, NEW r, threads' = [threads EXCEPT ![t] = e],
         seats'[h] = r, r # Absent => Proper(r), site'[h] = site[h],
         ~ site[h].going => site[h].user \in {NoUser, r.user},
         \A p \in Pods : ~ AtPod(p, h)',
         Has(e, h) => \A k \in Kinds : ~ Under(k, h)',
         JobAlone(h)', Waited(h)',
         HandCurrent(e, h, r), ~ Claiming(e, h), Moves(h)
  PROVE  StepRow(h)
<1>0. threads'[t] = e /\ \A x \in Threads \ {t} : threads'[x] = threads[x]
  BY DEF TypeOK
<1>1. \A x \in Threads : AtSeat(x, h)' => x = t /\ Has(e, h)
  BY <1>0, HandlersSeat DEF AtSeat, Has
<1>2. HandlerAlone(h)' /\ PodAlone(h)'
  BY <1>1 DEF HandlerAlone, PodAlone
<1>3. \A x \in Threads : HandCurrent(threads'[x], h, r)
  <2> TAKE x \in Threads
  <2>1. CASE x = t
    BY <1>0, <2>1
  <2>2. CASE x # t
    <3>1. ~ Has(threads'[x], h)
      BY <1>1, <2>2 DEF AtSeat, Has
    <3> QED
      BY <3>1 DEF HandCurrent
  <2> QED
    BY <2>1, <2>2
<1>4. Row(h)'
  BY <1>2, <1>3 DEF Row, Alone
<1>5. Claims(h)
  <2> SUFFICES ASSUME NEW x \in Threads, Claiming(threads'[x], h) PROVE FALSE
    BY DEF Claims
  <2>1. x # t
    BY <1>0
  <2>2. AtSeat(x, h)'
    BY DEF AtSeat, Claiming
  <2> QED
    BY <1>1, <2>1, <2>2
<1> QED
  BY <1>4, <1>5 DEF StepRow

\* What a handler writes is its person's, and in the phase of its Job.
LEMMA WrittenProper ==
  ASSUME NEW th, NEW r \in Record, th \in Thread, InHand(th, r), th.pc = "write",
         r # Absent => Proper(r)
  PROVE  /\ Proper(Written(th)) /\ Written(th).user = th.user
         /\ Written(th).phase = PhaseOf(JobKind(th.act))
         /\ th.rec = r /\ (r # Absent => r.user = th.user)
         /\ r = Absent => th.act = "provision"
<1>0. /\ th.user \in Users /\ th.rec = r /\ (r # Absent => r.user = th.user)
      /\ (th.act # "provision" => r # Absent)
  BY DEF InHand
<1>1. th.act \in {"provision", "reset", "deprovision", "bulk"}
  BY DEF Thread, Requests, Kinds
<1>2. CASE th.act = "provision"
  <2>1. Written(th) = [user |-> th.user, phase |-> "provisioning", token |-> NoToken]
    BY <1>2 DEF Written
  <2>2. PhaseOf(JobKind(th.act)) = "provisioning"
    BY <1>2 DEF PhaseOf, JobKind
  <2> QED
    BY <1>0, <1>2, <2>1, <2>2 DEF Proper
<1>3. CASE th.act = "reset"
  <2>1. Written(th) = [th.rec EXCEPT !.phase = "resetting"]
    BY <1>3 DEF Written
  <2>2. PhaseOf(JobKind(th.act)) = "resetting"
    BY <1>3 DEF PhaseOf, JobKind
  <2>3. Written(th).user = th.rec.user /\ Written(th).phase = "resetting"
    BY <1>0, <2>1 DEF Record
  <2> QED
    BY <1>0, <1>3, <2>2, <2>3 DEF Proper
<1>4. CASE th.act \in {"deprovision", "bulk"}
  <2>1. Written(th) = [th.rec EXCEPT !.phase = "removing"]
    BY <1>4 DEF Written
  <2>2. PhaseOf(JobKind(th.act)) = "removing"
    BY <1>4 DEF PhaseOf, JobKind
  <2>3. Written(th).user = th.rec.user /\ Written(th).phase = "removing"
    BY <1>0, <2>1 DEF Record
  <2> QED
    BY <1>0, <1>4, <2>2, <2>3 DEF Proper
<1> QED
  BY <1>1, <1>2, <1>3, <1>4

\* A handler's step elsewhere leaves it at h, if it has h on its list, as it was.
LEMMA StillOnList ==
  ASSUME TypeOK, NEW h \in Seats, Row(h), NEW t \in Threads, NEW pc \in {"delete", "post"},
         threads[t].pc \in {"write", "delete"}, threads[t].handle # h,
         threads' = [threads EXCEPT ![t].pc = pc]
  PROVE  LET n == [threads[t] EXCEPT !.pc = pc] IN
         /\ threads' = [threads EXCEPT ![t] = n]
         /\ Has(n, h) => AtSeat(t, h)
         /\ HandCurrent(n, h, seats[h]) /\ ~ Claiming(n, h)
<1> DEFINE n == [threads[t] EXCEPT !.pc = pc]
<1>0. threads[t] \in Thread /\ HandCurrent(threads[t], h, seats[h])
  BY DEF TypeOK, Row
<1>1. n.pc = pc /\ n.handle = threads[t].handle /\ n.todo = threads[t].todo
  BY <1>0 DEF Thread
<1>2. threads' = [threads EXCEPT ![t] = n]
  BY DEF TypeOK
<1> HIDE DEF n
<1>3. Has(n, h) => AtSeat(t, h)
  BY <1>1, AtSeatHas DEF Has
<1>4. HandCurrent(n, h, seats[h]) /\ ~ Claiming(n, h)
  BY <1>0, <1>1 DEF HandCurrent, Has, OnList, Claiming
<1> QED
  BY <1>2, <1>3, <1>4 DEF n

LEMMA WriteSeatRow ==
  ASSUME TypeOK, NEW h \in Seats, Row(h), NEW t \in Threads, Sure!WriteSeat(t) PROVE StepRow(h)
<1> DEFINE th == threads[t]
           n == [th EXCEPT !.pc = "delete"]
<1>0. /\ th.pc = "write" /\ threads' = [threads EXCEPT ![t].pc = "delete"]
      /\ UNCHANGED <<jobs, pods, site>>
      /\ seats' = [seats EXCEPT ![th.handle] = Written(th)]
      /\ th \in Thread /\ h \in Handles
  BY SureWriteSeat DEF WriteSeat, Store, TypeOK, Seats
<1>1. JobsStay(h) /\ PodsStay(h) /\ site'[h] = site[h]
  BY <1>0 DEF JobsStay, PodsStay
<1>2. CASE th.handle # h
  <2>1. seats'[h] = seats[h]
    BY <1>0, <1>2 DEF TypeOK
  <2> HIDE DEF n
  <2>2. /\ threads' = [threads EXCEPT ![t] = n] /\ (Has(n, h) => AtSeat(t, h))
        /\ HandCurrent(n, h, seats[h]) /\ ~ Claiming(n, h)
    BY <1>0, <1>2, StillOnList DEF n
  <2> QED
    BY <1>1, <2>1, <2>2, HandlerGoes
<1>3. CASE th.handle = h
  <2> DEFINE r == Written(th)
  <2>0. seats'[h] = r
    BY <1>0, <1>3 DEF TypeOK
  <2>1. /\ InHand(th, seats[h]) /\ \A e \in th.todo : e.handle # h
        /\ \A k \in Kinds : ~ Under(k, h)
        /\ \A p \in Pods : ~ AtPod(p, h)
    BY <1>0, <1>3, HandlersSeat
  <2>2. seats[h] \in Record /\ (seats[h] # Absent => Proper(seats[h]))
        /\ (~ site[h].going => site[h].user \in {NoUser, seats[h].user})
    BY <1>0 DEF TypeOK, Row
  <2>3. /\ Proper(r) /\ r.user = th.user /\ r.phase = PhaseOf(JobKind(th.act))
        /\ th.rec = seats[h] /\ (seats[h] # Absent => seats[h].user = th.user)
        /\ (seats[h] = Absent => th.act = "provision")
    BY <1>0, <2>1, <2>2, WrittenProper
  <2> HIDE DEF r
  <2>4. /\ n.pc = "delete" /\ n.handle = h /\ n.todo = th.todo /\ n.act = th.act
        /\ n.user = th.user /\ n.rec = th.rec
        /\ threads' = [threads EXCEPT ![t] = n]
    BY <1>0, <1>3 DEF Thread, TypeOK
  <2> HIDE DEF n
  <2>5. InHand(n, r)
    BY <2>1, <2>3, <2>4 DEF InHand
  <2>6. HandCurrent(n, h, r) /\ ~ Claiming(n, h)
    BY <2>1, <2>4, <2>5 DEF HandCurrent, OnList, Claiming
  <2>7. \A p \in Pods : ~ AtPod(p, h)'
    BY <1>0, <2>1 DEF AtPod
  <2>8. /\ \A k \in Kinds : ~ Under(k, h)'
        /\ JobAlone(h)' /\ Waited(h)'
    BY <1>0, <2>1 DEF Under, JobAlone, Waited
  <2>9. ~ site[h].going => site[h].user \in {NoUser, r.user}
    BY <2>2, <2>3 DEF Absent
  <2>10. Moves(h)
    BY <1>0, <1>3, <2>0, <2>3 DEF Moves, Claiming
  <2> QED
    BY <1>0, <1>1, <1>3, <2>0, <2>3, <2>4, <2>6, <2>7, <2>8, <2>9, <2>10, HandlerActs
<1> QED
  BY <1>2, <1>3

LEMMA JobKindIs == ASSUME NEW th \in Thread PROVE JobKind(th.act) \in Kinds
  BY JobKindType DEF Thread

LEMMA DeleteJobRow ==
  ASSUME TypeOK, NEW h \in Seats, Row(h), NEW t \in Threads, DeleteJob(t) PROVE StepRow(h)
<1> DEFINE th == threads[t]
           k == JobKind(th.act)
           n == [th EXCEPT !.pc = "post"]
<1>0. /\ th.pc = "delete" /\ threads' = [threads EXCEPT ![t].pc = "post"]
      /\ UNCHANGED <<seats, site>> /\ th \in Thread /\ h \in Handles /\ k \in Kinds
  BY JobKindIs DEF DeleteJob, TypeOK, Seats
<1>1. \/ /\ jobs' = [jobs EXCEPT ![k][th.handle] = NoJob]
         /\ pods' = [p \in Pods |-> IF pods[p].kind = k /\ pods[p].job = th.handle
                                   THEN [pods[p] EXCEPT !.owned = FALSE] ELSE pods[p]]
      \/ UNCHANGED <<jobs, pods>>
  BY DEF DeleteJob
<1>2. \A p \in Pods : /\ pods'[p].pc = pods[p].pc /\ pods'[p].job = pods[p].job
                      /\ pods'[p].handle = pods[p].handle
                      /\ pods[p].job # th.handle => pods'[p] = pods[p]
  BY <1>1 DEF TypeOK, Pod
<1>3. \A p \in Pods : AtPod(p, h)' <=> AtPod(p, h)
  BY <1>2 DEF AtPod
<1>4. CASE th.handle # h
  <2>1. JobsStay(h)
    BY <1>0, <1>1, <1>4 DEF JobsStay, TypeOK
  <2>2. PodsStay(h)
    <3> SUFFICES ASSUME NEW p \in Pods, AtPod(p, h) PROVE pods'[p] = pods[p]
      BY <1>3 DEF PodsStay
    <3>1. pods[p].job = h
      BY PodsSeat
    <3> QED
      BY <1>2, <1>4, <3>1
  <2> HIDE DEF n
  <2>3. /\ threads' = [threads EXCEPT ![t] = n] /\ (Has(n, h) => AtSeat(t, h))
        /\ HandCurrent(n, h, seats[h]) /\ ~ Claiming(n, h)
    BY <1>0, <1>4, StillOnList DEF n
  <2> QED
    BY <1>0, <2>1, <2>2, <2>3, HandlerGoes
<1>5. CASE th.handle = h
  <2>1. /\ InHand(th, seats[h]) /\ \A e \in th.todo : e.handle # h
        /\ \A l \in Kinds : ~ Under(l, h)
        /\ \A p \in Pods : ~ AtPod(p, h)
    BY <1>0, <1>5, HandlersSeat
  <2>2. \A l \in Kinds : ~ Under(l, h)'
    BY <1>0, <1>1, <1>5, <2>1 DEF Under, TypeOK, NoJob
  <2>3. JobAlone(h)' /\ Waited(h)'
    BY <2>2 DEF JobAlone, Waited
  <2>4. /\ n.pc = "post" /\ n.handle = h /\ n.todo = th.todo /\ n.act = th.act
        /\ n.user = th.user /\ threads' = [threads EXCEPT ![t] = n]
    BY <1>0, <1>5 DEF Thread, TypeOK
  <2> HIDE DEF n
  <2>5. InHand(n, seats[h])
    BY <1>0, <2>1, <2>4 DEF InHand
  <2>6. HandCurrent(n, h, seats[h]) /\ ~ Claiming(n, h)
    BY <2>1, <2>4, <2>5 DEF HandCurrent, OnList, Claiming
  <2>7. Moves(h)
    BY <1>0 DEF Moves
  <2>8. \A p \in Pods : ~ AtPod(p, h)'
    BY <1>3, <2>1
  <2>9. /\ seats'[h] = seats[h] /\ site'[h] = site[h]
        /\ (seats[h] # Absent => Proper(seats[h]))
        /\ (~ site[h].going => site[h].user \in {NoUser, seats[h].user})
    BY <1>0 DEF Row
  <2> QED
    BY <1>0, <1>5, <2>2, <2>3, <2>4, <2>6, <2>7, <2>8, <2>9, HandlerActs
<1> QED
  BY <1>4, <1>5

LEMMA CreateJobRow ==
  ASSUME TypeOK, NEW h \in Seats, Row(h), NEW t \in Threads, CreateJob(t) PROVE StepRow(h)
<1> DEFINE th == threads[t]
           k == JobKind(th.act)
           n == Leave(t)
<1>0. /\ th.pc = "post" /\ threads' = [threads EXCEPT ![t] = n]
      /\ UNCHANGED <<seats, pods, site>> /\ th \in Thread /\ h \in Handles /\ k \in Kinds
  BY JobKindIs DEF CreateJob, TypeOK, Seats
<1> HIDE DEF n
<1>1. \/ jobs' = [jobs EXCEPT ![k][th.handle] = [st |-> "pending", user |-> th.user]]
      \/ jobs' = jobs
  BY DEF CreateJob
<1>2. /\ Has(n, h) => AtSeat(t, h) /\ th.handle # h
      /\ HandCurrent(n, h, seats[h]) /\ ~ Claiming(n, h)
  BY <1>0, Leaves DEF n
<1>3. CASE th.handle # h
  <2>1. JobsStay(h) /\ PodsStay(h)
    BY <1>0, <1>1, <1>3 DEF JobsStay, PodsStay, TypeOK
  <2> QED
    BY <1>0, <1>2, <2>1, HandlerGoes
<1>4. CASE th.handle = h
  <2>1. /\ InHand(th, seats[h])
        /\ \A l \in Kinds : ~ Under(l, h)
        /\ \A p \in Pods : ~ AtPod(p, h)
    BY <1>0, <1>4, HandlersSeat
  <2>3. th.user \in Users /\ seats[h].user = th.user /\ seats[h].phase = PhaseOf(k)
    BY <1>0, <2>1 DEF InHand
  <2> HIDE DEF k
  <2>2. \A l \in Kinds : Under(l, h)' => l = k /\ jobs'[l][h].user = th.user
    <3>1. CASE jobs' = jobs
      BY <1>0, <2>1, <3>1 DEF Under
    <3>2. CASE jobs' = [jobs EXCEPT ![k][h] = [st |-> "pending", user |-> th.user]]
      <4>1. /\ jobs'[k][h] = [st |-> "pending", user |-> th.user]
            /\ \A l \in Kinds \ {k} : jobs'[l][h] = jobs[l][h]
        BY <1>0, <3>2 DEF TypeOK
      <4> QED
        BY <2>1, <4>1 DEF Under
    <3> QED
      BY <1>1, <1>4, <3>1, <3>2
  <2>4. JobAlone(h)' /\ Waited(h)'
    <3>1. JobAlone(h)'
      BY <2>2 DEF JobAlone
    <3>2. ASSUME NEW l \in Kinds, Under(l, h)'
          PROVE  /\ jobs'[l][h].user \in Users /\ seats'[h].user = jobs'[l][h].user
                 /\ seats'[h].phase = PhaseOf(l)
      BY <1>0, <2>2, <2>3, <3>2
    <3>3. Waited(h)'
      BY <3>2 DEF Waited
    <3> QED
      BY <3>1, <3>3
  <2>5. \A p \in Pods : ~ AtPod(p, h)'
    BY <1>0, <2>1 DEF AtPod
  <2>6. Moves(h)
    BY <1>0 DEF Moves
  <2>7. /\ seats'[h] = seats[h] /\ site'[h] = site[h]
        /\ (seats[h] # Absent => Proper(seats[h]))
        /\ (~ site[h].going => site[h].user \in {NoUser, seats[h].user})
    BY <1>0 DEF Row
  <2> QED
    BY <1>0, <1>2, <1>4, <2>4, <2>5, <2>6, <2>7, HandlerActs
<1> QED
  BY <1>3, <1>4

------------------------------------------------------------------------------
(* The steps of Jobs and pods. *)

LEMMA StartPodRow ==
  ASSUME TypeOK, NEW h \in Seats, Row(h), NEW k \in Kinds, NEW g \in Handles, NEW p \in Pods,
         StartPod(k, g, p)
  PROVE  StepRow(h)
<1> DEFINE q == [pc |-> FirstPc(k), kind |-> k, job |-> g, handle |-> g, user |-> jobs[k][g].user,
                 rec |-> Absent, tmp |-> Absent, owned |-> TRUE]
<1>0. /\ jobs[k][g].st = "pending" /\ pods[p].pc = "unborn"
      /\ jobs' = [jobs EXCEPT ![k][g] = [@ EXCEPT !.st = "active"]]
      /\ pods' = [pods EXCEPT ![p] = q] /\ UNCHANGED <<seats, threads, site>>
  BY DEF StartPod
<1>1. q.pc = FirstPc(k) /\ q.kind = k /\ q.job = g /\ q.handle = g /\ q.user = jobs[k][g].user
      /\ q.owned /\ q.pc \in {"lookup", "capture", "owner"}
  BY DEF FirstPc, Kinds
<1> HIDE DEF q
<1>2. pods'[p] = q /\ \A x \in Pods \ {p} : pods'[x] = pods[x]
  BY <1>0 DEF TypeOK
<1>3. ~ AtPod(p, h) /\ h \in Handles
  BY <1>0 DEF AtPod, Seats
<1>4. CASE g # h
  <2>1. ~ AtPod(p, h)'
    BY <1>1, <1>2, <1>4 DEF AtPod
  <2>2. JobsStay(h)
    BY <1>0, <1>4 DEF JobsStay, TypeOK
  <2> QED
    BY <1>0, <1>2, <1>3, <2>1, <2>2, PodElsewhere
<1>5. CASE g = h
  <2>1. Under(k, h)
    BY <1>0, <1>5 DEF Under
  <2>2. /\ jobs[k][h].user \in Users /\ seats[h].user = jobs[k][h].user
        /\ seats[h].phase = PhaseOf(k)
        /\ \A l \in Kinds : Under(l, h) => l = k
        /\ \A t \in Threads : ~ AtSeat(t, h)
    BY <2>1 DEF Row, Alone, Waited, JobAlone, HandlerAlone
  <2>3. \A x \in Pods : ~ AtPod(x, h)
    <3> SUFFICES ASSUME NEW x \in Pods, AtPod(x, h) PROVE FALSE
      OBVIOUS
    <3>1. jobs[pods[x].kind][h].st = "active" /\ k = pods[x].kind
      BY <2>1, PodsSeat
    <3> QED
      BY <1>0, <1>5, <3>1
  <2>4. /\ jobs'[k][h].st = "active" /\ jobs'[k][h].user = jobs[k][h].user
        /\ \A l \in Kinds \ {k} : jobs'[l][h] = jobs[l][h]
    BY <1>0, <1>5 DEF TypeOK, Job
  <2>5. \A l \in Kinds : Under(l, h)' => l = k
    BY <2>2, <2>4 DEF Under
  <2>6. \A x \in Pods : AtPod(x, h)' => x = p
    BY <1>2, <2>3 DEF AtPod
  <2>7. \A t \in Threads : ~ AtSeat(t, h)'
    BY <1>0, <2>2 DEF AtSeat
  <2>8. Alone(h)' /\ Waited(h)'
    BY <1>0, <1>1, <1>2, <1>5, <2>2, <2>4, <2>5, <2>6, <2>7
       DEF Alone, HandlerAlone, JobAlone, PodAlone, Waited
  <2>9. Works(q, seats[h], site[h])
    BY <1>1, <1>5, <2>2 DEF Works, Builds, Resets, Removes, FirstPc, FailPoints, Kinds
  <2>10. Row(h)'
    BY <1>0, <1>2, <2>6, <2>8, <2>9 DEF Row
  <2>11. Moves(h) /\ Claims(h)
    BY <1>0 DEF Moves, Claims
  <2> QED
    BY <2>10, <2>11 DEF StepRow
<1> QED
  BY <1>4, <1>5

LEMMA Fields == ASSUME NEW r \in Record
  PROVE  /\ [r EXCEPT !.user = r.user, !.phase = r.phase] = r
         /\ [r EXCEPT !.user = r.user, !.phase = "error"] = [r EXCEPT !.phase = "error"]
         /\ \A ph : [r EXCEPT !.phase = ph].user = r.user /\ [r EXCEPT !.phase = ph].phase = ph
                    /\ [r EXCEPT !.phase = ph].token = r.token
  BY DEF Record

\* A step of a pod that is not at h.
LEMMA AdvancesElsewhere ==
  ASSUME TypeOK, NEW h \in Seats, Row(h), NEW p \in Pods, Live(p), ~ AtPod(p, h),
         NEW q, Advance(p, q), q.job = pods[p].job, q.handle # h,
         UNCHANGED <<threads, jobs>>, seats'[h] = seats[h], site'[h] = site[h]
  PROVE  StepRow(h)
<1>1. pods'[p] = q /\ \A x \in Pods \ {p} : pods'[x] = pods[x]
  BY DEF Advance, TypeOK
<1>2. ~ AtPod(p, h)'
  BY <1>1 DEF AtPod, Live
<1>3. JobsStay(h)
  BY DEF JobsStay
<1> QED
  BY <1>1, <1>2, <1>3, PodElsewhere

\* A pod that works for another handle writes there.
LEMMA WritesElsewhere ==
  ASSUME TypeOK, NEW h \in Seats, NEW p \in Pods, Live(p), ~ AtPod(p, h), NEW r
  PROVE  /\ pods[p].handle # h
         /\ Store(pods[p].handle, r) => seats'[h] = seats[h]
  BY DEF AtPod, Live, Store, TypeOK, Seats

\* What a build at work for h knows.
LEMMA BuildsSeat ==
  ASSUME TypeOK, NEW h \in Seats, Row(h), NEW p \in Pods, AtPod(p, h), pods[p].kind = "provision"
  PROVE  /\ pods[p].user = seats[h].user /\ seats[h].phase = "provisioning"
         /\ seats[h] \in Record /\ Builds(pods[p], seats[h], site[h])
         /\ Now[h] = seats[h]
         /\ \A s : Works(pods[p], seats[h], s) <=> Builds(pods[p], seats[h], s)
<1>1. h \in Handles /\ Now[h] = seats[h]
  BY NowIs DEF Seats
<1> QED
  BY <1>1, PodsSeat DEF TypeOK, Works, PhaseOf

LEMMA LookupRow ==
  ASSUME TypeOK, NEW h \in Seats, Row(h), ~ Strayed(h), NEW p \in Pods, Sure!Lookup(p)
  PROVE  StepRow(h)
<1>0. /\ At(p, "provision", "lookup") /\ UNCHANGED <<seats, threads, jobs, site>> /\ Live(p)
      /\ pods[p] \in Pod
  BY SureLookup DEF At, Live, TypeOK
<1>1. PICK g \in Allocated(pods[p].user, Now) :
         Advance(p, [pods[p] EXCEPT !.pc = "record", !.handle = g,
                     !.rec = [Now[g] EXCEPT !.user = pods[p].user, !.phase = "provisioning"]])
  BY SureLookup
<1> DEFINE r == [Now[g] EXCEPT !.user = pods[p].user, !.phase = "provisioning"]
           q == [pods[p] EXCEPT !.pc = "record", !.handle = g, !.rec = r]
<1>2. Advance(p, q)
  BY <1>1
<1> HIDE DEF r
<1>3. /\ q.pc = "record" /\ q.handle = g /\ q.rec = r /\ q.job = pods[p].job
      /\ q.kind = pods[p].kind /\ q.owned = pods[p].owned /\ q.user = pods[p].user
  BY <1>0 DEF Pod
<1> HIDE DEF q
<1>4. pods'[p] = q
  BY <1>2 DEF Advance, TypeOK
<1>5. CASE ~ AtPod(p, h)
  <2>1. pods[p].job # h
    BY <1>0, <1>5 DEF AtPod, Live
  <2>2. g # h
    BY <1>3, <1>4, <2>1 DEF Strayed, AtPod
  <2> QED
    BY <1>0, <1>2, <1>3, <1>5, <2>2, AdvancesElsewhere
<1>6. CASE AtPod(p, h)
  <2>1. pods[p].job = h /\ pods[p].owned
    BY <1>6, PodsSeat
  <2>2. g = h
    BY <1>3, <1>4, <2>1 DEF Strayed, AtPod
  <2>3. /\ pods[p].user = seats[h].user /\ seats[h].phase = "provisioning"
        /\ seats[h] \in Record /\ Now[h] = seats[h] /\ pods[p].kind = "provision"
    BY <1>0, <1>6, BuildsSeat DEF At
  <2>4. r = seats[h]
    BY <2>2, <2>3, Fields DEF r
  <2>5. Works(q, seats[h], site[h])
    BY <1>3, <2>3, <2>4 DEF Works, Builds, FailPoints
  <2>6. ~ site[h].going => site[h].user \in {NoUser, seats[h].user}
    BY DEF Row
  <2> QED
    BY <1>0, <1>2, <1>3, <1>6, <2>1, <2>2, <2>5, <2>6, PodGoes DEF Advance
<1> QED
  BY <1>5, <1>6

LEMMA RecordSeatRow ==
  ASSUME TypeOK, NEW h \in Seats, Row(h), NEW p \in Pods, RecordSeat(p) PROVE StepRow(h)
<1> DEFINE q == [pods[p] EXCEPT !.pc = "setup"]
<1>0. /\ At(p, "provision", "record") /\ Live(p) /\ pods[p] \in Pod /\ h \in Handles
      /\ Store(pods[p].handle, pods[p].rec) /\ Advance(p, q) /\ UNCHANGED <<threads, jobs, site>>
  BY DEF RecordSeat, At, Live, TypeOK, Seats
<1>1. /\ q.pc = "setup" /\ q.handle = pods[p].handle /\ q.rec = pods[p].rec /\ q.job = pods[p].job
      /\ q.kind = pods[p].kind /\ q.owned = pods[p].owned /\ q.user = pods[p].user
  BY <1>0 DEF Pod
<1> HIDE DEF q
<1>2. CASE ~ AtPod(p, h)
  BY <1>0, <1>1, <1>2, WritesElsewhere, AdvancesElsewhere
<1>3. CASE AtPod(p, h)
  <2>1. pods[p].job = h /\ pods[p].handle = h /\ pods[p].owned
    BY <1>3, PodsSeat
  <2>2. pods[p].user = seats[h].user /\ Builds(pods[p], seats[h], site[h]) /\ pods[p].kind = "provision"
    BY <1>0, <1>3, BuildsSeat DEF At
  <2>3. pods[p].rec = seats[h]
    BY <1>0, <2>2 DEF Builds, At
  <2>4. seats'[h] = seats[h]
    BY <1>0, <2>1, <2>3 DEF Store, TypeOK
  <2>5. Works(q, seats[h], site[h])
    BY <1>1, <2>2, <2>3 DEF Works, Builds, FailPoints
  <2>6. ~ site[h].going => site[h].user \in {NoUser, seats[h].user}
    BY DEF Row
  <2> QED
    BY <1>0, <1>1, <1>3, <2>1, <2>4, <2>5, <2>6, PodGoes DEF Advance
<1> QED
  BY <1>2, <1>3

LEMMA StepReadRow ==
  ASSUME TypeOK, NEW h \in Seats, Row(h), NEW p \in Pods, Sure!StepRead(p) PROVE StepRow(h)
<1> DEFINE tmp == [Now[pods[p].handle] EXCEPT !.user = pods[p].user, !.phase = "provisioning"]
           q == [pods[p] EXCEPT !.pc = IF @ = "setup" THEN "setup-write" ELSE "marking-write",
                                !.tmp = tmp]
<1>0. /\ pods[p].kind = "provision" /\ pods[p].pc \in {"setup", "marking"} /\ Live(p)
      /\ pods[p] \in Pod /\ Advance(p, q) /\ UNCHANGED <<seats, threads, jobs, site>>
  BY SureStepRead DEF At, Live, TypeOK
<1> HIDE DEF tmp
<1>1. /\ q.pc = (IF pods[p].pc = "setup" THEN "setup-write" ELSE "marking-write") /\ q.tmp = tmp
      /\ q.handle = pods[p].handle /\ q.rec = pods[p].rec /\ q.job = pods[p].job
      /\ q.kind = pods[p].kind /\ q.owned = pods[p].owned /\ q.user = pods[p].user
  BY <1>0 DEF Pod
<1> HIDE DEF q
<1>2. CASE ~ AtPod(p, h)
  BY <1>0, <1>1, <1>2, WritesElsewhere, AdvancesElsewhere
<1>3. CASE AtPod(p, h)
  <2>1. pods[p].job = h /\ pods[p].handle = h /\ pods[p].owned
    BY <1>3, PodsSeat
  <2>2. /\ pods[p].user = seats[h].user /\ seats[h].phase = "provisioning"
        /\ seats[h] \in Record /\ Now[h] = seats[h] /\ Builds(pods[p], seats[h], site[h])
    BY <1>0, <1>3, BuildsSeat
  <2>3. tmp = seats[h]
    BY <2>1, <2>2, Fields DEF tmp
  <2>4. Works(q, seats[h], site[h])
    BY <1>0, <1>1, <2>2, <2>3 DEF Works, Builds, FailPoints
  <2>5. ~ site[h].going => site[h].user \in {NoUser, seats[h].user}
    BY DEF Row
  <2>6. q.pc \notin {"unborn", "gone"}
    BY <1>1
  <2> QED
    BY <1>0, <1>1, <1>3, <2>1, <2>4, <2>5, <2>6, PodGoes DEF Advance
<1> QED
  BY <1>2, <1>3

LEMMA StepWriteRow ==
  ASSUME TypeOK, NEW h \in Seats, Row(h), NEW p \in Pods, Sure!StepWrite(p) PROVE StepRow(h)
<1> DEFINE q == [pods[p] EXCEPT !.pc = IF @ = "setup-write" THEN "wait" ELSE "finish", !.tmp = Absent]
<1>0. /\ pods[p].kind = "provision" /\ pods[p].pc \in {"setup-write", "marking-write"} /\ Live(p)
      /\ pods[p] \in Pod /\ h \in Handles
      /\ Store(pods[p].handle, pods[p].tmp) /\ Advance(p, q) /\ UNCHANGED <<threads, jobs, site>>
  BY SureStepWrite DEF StepWrite, At, Live, TypeOK, Seats
<1>1. /\ q.pc = (IF pods[p].pc = "setup-write" THEN "wait" ELSE "finish")
      /\ q.handle = pods[p].handle /\ q.rec = pods[p].rec /\ q.job = pods[p].job
      /\ q.kind = pods[p].kind /\ q.owned = pods[p].owned /\ q.user = pods[p].user
  BY <1>0 DEF Pod
<1> HIDE DEF q
<1>2. CASE ~ AtPod(p, h)
  BY <1>0, <1>1, <1>2, WritesElsewhere, AdvancesElsewhere
<1>3. CASE AtPod(p, h)
  <2>1. pods[p].job = h /\ pods[p].handle = h /\ pods[p].owned
    BY <1>3, PodsSeat
  <2>2. pods[p].user = seats[h].user /\ Builds(pods[p], seats[h], site[h])
    BY <1>0, <1>3, BuildsSeat
  <2>3. pods[p].tmp = seats[h]
    BY <1>0, <2>2 DEF Builds
  <2>4. seats'[h] = seats[h]
    BY <1>0, <2>1, <2>3 DEF Store, TypeOK
  <2>5. Works(q, seats[h], site[h])
    BY <1>0, <1>1, <2>2 DEF Works, Builds, FailPoints
  <2>6. ~ site[h].going => site[h].user \in {NoUser, seats[h].user}
    BY DEF Row
  <2>7. q.pc \notin {"unborn", "gone"}
    BY <1>1
  <2> QED
    BY <1>0, <1>1, <1>3, <2>1, <2>4, <2>5, <2>6, <2>7, PodGoes DEF Advance
<1> QED
  BY <1>2, <1>3

LEMMA AwaitNamespaceRow ==
  ASSUME TypeOK, NEW h \in Seats, Row(h), NEW p \in Pods, AwaitNamespace(p) PROVE StepRow(h)
<1> DEFINE q == [pods[p] EXCEPT !.pc = "token"]
<1>0. /\ At(p, "provision", "wait") /\ Live(p) /\ pods[p] \in Pod /\ ~ site[pods[p].handle].going
      /\ Advance(p, q) /\ UNCHANGED <<seats, threads, jobs, site>>
  BY DEF AwaitNamespace, At, Live, TypeOK
<1>1. /\ q.pc = "token" /\ q.handle = pods[p].handle /\ q.rec = pods[p].rec /\ q.job = pods[p].job
      /\ q.kind = pods[p].kind /\ q.owned = pods[p].owned /\ q.user = pods[p].user
  BY <1>0 DEF Pod
<1> HIDE DEF q
<1>2. CASE ~ AtPod(p, h)
  BY <1>0, <1>1, <1>2, WritesElsewhere, AdvancesElsewhere
<1>3. CASE AtPod(p, h)
  <2>1. pods[p].job = h /\ pods[p].handle = h /\ pods[p].owned
    BY <1>3, PodsSeat
  <2>2. pods[p].user = seats[h].user /\ Builds(pods[p], seats[h], site[h]) /\ pods[p].kind = "provision"
    BY <1>0, <1>3, BuildsSeat DEF At
  <2>3. pods[p].rec = seats[h]
    BY <1>0, <2>2 DEF Builds, At
  <2>4. Works(q, seats[h], site[h])
    BY <1>0, <1>1, <2>1, <2>2, <2>3 DEF Works, Builds, FailPoints
  <2>5. ~ site[h].going => site[h].user \in {NoUser, seats[h].user}
    BY DEF Row
  <2> QED
    BY <1>0, <1>1, <1>3, <2>1, <2>4, <2>5, PodGoes DEF Advance
<1> QED
  BY <1>2, <1>3

LEMMA MintTokenRow ==
  ASSUME TypeOK, NEW h \in Seats, Row(h), NEW p \in Pods, MintToken(p) PROVE StepRow(h)
<1>0. /\ At(p, "provision", "token") /\ Live(p) /\ pods[p] \in Pod /\ UNCHANGED <<threads, jobs, site>>
      /\ h \in Handles /\ p # NoToken
  BY TokenAssumption DEF MintToken, At, Live, TypeOK, Seats
<1>1. PICK rec \in Record :
        /\ Advance(p, [pods[p] EXCEPT !.pc = "render", !.rec = rec])
        /\ rec.token # NoToken /\ rec.user = pods[p].rec.user /\ rec.phase = pods[p].rec.phase
        /\ \/ Store(pods[p].handle, rec)
           \/ seats' = seats /\ rec = pods[p].rec
  <2>1. CASE pods[p].rec.token # NoToken
    <3>1. [pods[p] EXCEPT !.pc = "render", !.rec = pods[p].rec] = [pods[p] EXCEPT !.pc = "render"]
      BY <1>0 DEF Pod
    <3> QED
      BY <1>0, <2>1, <3>1 DEF MintToken, Pod
  <2>2. CASE pods[p].rec.token = NoToken
    <3> DEFINE rec == [pods[p].rec EXCEPT !.token = p]
    <3>1. /\ rec \in Record /\ rec.token = p /\ rec.user = pods[p].rec.user
          /\ rec.phase = pods[p].rec.phase
      BY <1>0 DEF Pod, Record, Tokens
    <3>2. Advance(p, [pods[p] EXCEPT !.pc = "render", !.rec = rec]) /\ Store(pods[p].handle, rec)
      BY <2>2 DEF MintToken, TokenInHand
    <3> HIDE DEF rec
    <3> QED
      BY <1>0, <3>1, <3>2
  <2> QED
    BY <2>1, <2>2
<1> DEFINE q == [pods[p] EXCEPT !.pc = "render", !.rec = rec]
<1>2. /\ q.pc = "render" /\ q.handle = pods[p].handle /\ q.rec = rec /\ q.job = pods[p].job
      /\ q.kind = pods[p].kind /\ q.owned = pods[p].owned /\ q.user = pods[p].user
      /\ Advance(p, q)
  BY <1>0, <1>1 DEF Pod
<1> HIDE DEF q
<1>3. CASE ~ AtPod(p, h)
  <2>1. pods[p].handle # h /\ seats'[h] = seats[h]
    BY <1>0, <1>1, <1>3, WritesElsewhere
  <2> QED
    BY <1>0, <1>2, <1>3, <2>1, AdvancesElsewhere
<1>4. CASE AtPod(p, h)
  <2>1. pods[p].job = h /\ pods[p].handle = h /\ pods[p].owned
    BY <1>4, PodsSeat
  <2>2. pods[p].user = seats[h].user /\ Builds(pods[p], seats[h], site[h]) /\ pods[p].kind = "provision"
    BY <1>0, <1>4, BuildsSeat DEF At
  <2>3. pods[p].rec = seats[h] /\ ~ site[h].going
    BY <1>0, <2>2 DEF Builds, At
  <2>4. seats'[h] = rec
    BY <1>0, <1>1, <2>1, <2>3 DEF Store, TypeOK
  <2>5. Works(q, rec, site[h])
    BY <1>1, <1>2, <2>2, <2>3 DEF Works, Builds, FailPoints
  <2>6. ~ site[h].going => site[h].user \in {NoUser, rec.user}
    BY <1>1, <2>3 DEF Row
  <2> QED
    BY <1>0, <1>1, <1>2, <1>4, <2>1, <2>3, <2>4, <2>5, <2>6, PodGoes DEF Advance
<1> QED
  BY <1>3, <1>4

LEMMA RenderRow ==
  ASSUME TypeOK, NEW h \in Seats, Row(h), NEW p \in Pods, Render(p) PROVE StepRow(h)
<1> DEFINE q == [pods[p] EXCEPT !.pc = "marking"]
           g == pods[p].handle
           s == [user |-> pods[p].user, token |-> pods[p].rec.token, going |-> site[g].going]
<1>0. /\ At(p, "provision", "render") /\ Live(p) /\ pods[p] \in Pod
      /\ site' = [site EXCEPT ![g] = s]
      /\ Advance(p, q) /\ UNCHANGED <<seats, threads, jobs>> /\ h \in Handles
  BY DEF Render, At, Live, TypeOK, Seats
<1>1. /\ q.pc = "marking" /\ q.handle = g /\ q.rec = pods[p].rec /\ q.job = pods[p].job
      /\ q.kind = pods[p].kind /\ q.owned = pods[p].owned /\ q.user = pods[p].user
  BY <1>0 DEF Pod
<1> HIDE DEF q
<1>2. CASE ~ AtPod(p, h)
  <2>1. g # h
    BY <1>0, <1>2, WritesElsewhere
  <2>2. site'[h] = site[h]
    BY <1>0, <2>1 DEF TypeOK
  <2> QED
    BY <1>0, <1>1, <1>2, <2>1, <2>2, AdvancesElsewhere
<1>3. CASE AtPod(p, h)
  <2>1. pods[p].job = h /\ pods[p].handle = h /\ pods[p].owned
    BY <1>3, PodsSeat
  <2>2. pods[p].user = seats[h].user /\ Builds(pods[p], seats[h], site[h]) /\ pods[p].kind = "provision"
    BY <1>0, <1>3, BuildsSeat DEF At
  <2>3. pods[p].rec = seats[h] /\ ~ site[h].going /\ pods[p].rec.token # NoToken /\ site[h] \in Site
    BY <1>0, <2>2 DEF Builds, At, TypeOK
  <2> DEFINE sh == [user |-> pods[p].user, token |-> pods[p].rec.token, going |-> FALSE]
  <2>4. site'[h] = sh
    BY <1>0, <2>1, <2>3 DEF TypeOK, Site
  <2>5. Works(q, seats[h], sh)
    BY <1>1, <2>2, <2>3 DEF Works, Builds, FailPoints
  <2>6. ~ sh.going => sh.user \in {NoUser, seats[h].user}
    BY <2>2
  <2> HIDE DEF sh
  <2> QED
    BY <1>0, <1>1, <1>3, <2>1, <2>4, <2>5, <2>6, PodGoes DEF Advance
<1> QED
  BY <1>2, <1>3

LEMMA MarkReadyRow ==
  ASSUME TypeOK, NEW h \in Seats, Row(h), NEW p \in Pods, MarkReady(p) PROVE StepRow(h)
<1> DEFINE r == [pods[p].rec EXCEPT !.phase = "ready"]
<1>0. /\ At(p, "provision", "finish") /\ Live(p) /\ Store(pods[p].handle, r) /\ Finish(p)
      /\ UNCHANGED <<threads, site>> /\ h \in Handles
  BY DEF MarkReady, At, Live, Seats
<1>1. CASE ~ AtPod(p, h)
  BY <1>0, <1>1, WritesElsewhere, PodEndsElsewhere
<1>2. CASE AtPod(p, h)
  <2>1. pods[p].handle = h /\ Proper(seats[h])
    BY <1>2, PodsSeat
  <2>2. seats[h] \in Record /\ Builds(pods[p], seats[h], site[h])
    BY <1>0, <1>2, BuildsSeat DEF At
  <2>3. pods[p].rec = seats[h]
    BY <1>0, <2>2 DEF Builds, At
  <2>4. r = [seats[h] EXCEPT !.phase = "ready"]
    BY <2>3
  <2>5. seats'[h] = r
    BY <1>0, <2>1 DEF Store, TypeOK
  <2> HIDE DEF r
  <2>6. r.user = seats[h].user /\ r.phase = "ready"
    BY <2>2, <2>4, Fields
  <2>7. Proper(r)
    BY <2>1, <2>6 DEF Proper
  <2> QED
    BY <1>0, <1>2, <2>5, <2>6, <2>7, PodEnds
<1> QED
  BY <1>1, <1>2

LEMMA FailRow ==
  ASSUME TypeOK, NEW h \in Seats, Row(h), ~ Strayed(h), NEW p \in Pods, Sure!Fail(p)
  PROVE  StepRow(h)
<1> DEFINE g == IF pods[p].pc = "lookup" THEN Cands[pods[p].user][1] ELSE pods[p].handle
           tmp == [Now[g] EXCEPT !.user = pods[p].user, !.phase = "error"]
           q == [pods[p] EXCEPT !.pc = "fail-write", !.handle = g, !.tmp = tmp]
<1>0. /\ pods[p].kind = "provision" /\ pods[p].pc \in FailPoints /\ pods[p] \in Pod
      /\ UNCHANGED <<seats, threads, jobs, site>> /\ Advance(p, q)
  BY SureFail DEF TypeOK
<1>1. Live(p)
  BY <1>0 DEF FailPoints, Live
<1> HIDE DEF g, tmp
<1>2. /\ q.pc = "fail-write" /\ q.handle = g /\ q.tmp = tmp /\ q.job = pods[p].job
      /\ q.kind = pods[p].kind /\ q.owned = pods[p].owned /\ q.user = pods[p].user
  BY <1>0 DEF Pod
<1> HIDE DEF q
<1>3. pods'[p] = q
  BY <1>0 DEF Advance, TypeOK
<1>4. CASE ~ AtPod(p, h)
  <2>1. pods[p].job # h
    BY <1>1, <1>4 DEF AtPod, Live
  <2>2. g # h
    BY <1>2, <1>3, <2>1 DEF Strayed, AtPod
  <2> QED
    BY <1>0, <1>1, <1>2, <1>4, <2>2, AdvancesElsewhere
<1>5. CASE AtPod(p, h)
  <2>1. pods[p].job = h /\ pods[p].owned
    BY <1>5, PodsSeat
  <2>2. g = h
    BY <1>2, <1>3, <2>1 DEF Strayed, AtPod
  <2>3. pods[p].user = seats[h].user /\ seats[h] \in Record /\ Now[h] = seats[h]
    BY <1>0, <1>5, BuildsSeat
  <2>4. tmp = [seats[h] EXCEPT !.phase = "error"]
    BY <2>2, <2>3, Fields DEF tmp
  <2>5. Works(q, seats[h], site[h])
    BY <1>0, <1>2, <2>3, <2>4 DEF Works, Builds, FailPoints
  <2>6. ~ site[h].going => site[h].user \in {NoUser, seats[h].user}
    BY DEF Row
  <2> QED
    BY <1>0, <1>2, <1>5, <2>1, <2>2, <2>5, <2>6, PodGoes DEF Advance
<1> QED
  BY <1>4, <1>5

LEMMA FailWriteRow ==
  ASSUME TypeOK, NEW h \in Seats, Row(h), NEW p \in Pods, Sure!FailWrite(p) PROVE StepRow(h)
<1>0. /\ At(p, "provision", "fail-write") /\ Live(p) /\ Store(pods[p].handle, pods[p].tmp)
      /\ Finish(p) /\ UNCHANGED <<threads, site>> /\ h \in Handles
  BY SureFailWrite DEF FailWrite, At, Live, Seats
<1>1. CASE ~ AtPod(p, h)
  BY <1>0, <1>1, WritesElsewhere, PodEndsElsewhere
<1>2. CASE AtPod(p, h)
  <2>1. pods[p].handle = h /\ Proper(seats[h])
    BY <1>2, PodsSeat
  <2>2. seats[h] \in Record /\ Builds(pods[p], seats[h], site[h])
    BY <1>0, <1>2, BuildsSeat DEF At
  <2>3. pods[p].tmp = [seats[h] EXCEPT !.phase = "error"]
    BY <1>0, <2>2 DEF Builds, At
  <2>4. pods[p].tmp.user = seats[h].user /\ pods[p].tmp.phase = "error"
    <3>1. [seats[h] EXCEPT !.phase = "error"].user = seats[h].user
          /\ [seats[h] EXCEPT !.phase = "error"].phase = "error"
      BY <2>2, Fields
    <3> QED
      BY <2>3, <3>1
  <2>6. Proper(pods[p].tmp)
    BY <2>1, <2>4 DEF Proper
  <2>5. seats'[h] = pods[p].tmp
    BY <1>0, <2>1 DEF Store, TypeOK
  <2> QED
    BY <1>0, <1>2, <2>4, <2>5, <2>6, PodEnds
<1> QED
  BY <1>1, <1>2

LEMMA CaptureRow ==
  ASSUME TypeOK, NEW h \in Seats, Row(h), NEW p \in Pods, Sure!Capture(p) PROVE StepRow(h)
<1> DEFINE q == [pods[p] EXCEPT !.pc = "restore", !.rec = seats[pods[p].handle]]
<1>0. /\ At(p, "reset", "capture") /\ Live(p) /\ pods[p] \in Pod
      /\ Advance(p, q) /\ UNCHANGED <<seats, threads, jobs, site>>
  BY SureCapture DEF At, Live, TypeOK
<1>1. /\ q.pc = "restore" /\ q.handle = pods[p].handle /\ q.rec = seats[pods[p].handle]
      /\ q.job = pods[p].job /\ q.kind = pods[p].kind /\ q.owned = pods[p].owned
      /\ q.user = pods[p].user
  BY <1>0 DEF Pod
<1> HIDE DEF q
<1>2. CASE ~ AtPod(p, h)
  BY <1>0, <1>1, <1>2, WritesElsewhere, AdvancesElsewhere
<1>3. CASE AtPod(p, h)
  <2>1. pods[p].job = h /\ pods[p].handle = h /\ pods[p].owned /\ pods[p].user = seats[h].user
    BY <1>3, PodsSeat DEF Works
  <2>2. Works(q, seats[h], site[h])
    BY <1>0, <1>1, <2>1 DEF Works, Resets, At
  <2>3. ~ site[h].going => site[h].user \in {NoUser, seats[h].user}
    BY DEF Row
  <2> QED
    BY <1>0, <1>1, <1>3, <2>1, <2>2, <2>3, PodGoes DEF Advance
<1> QED
  BY <1>2, <1>3

LEMMA RestoreRow ==
  ASSUME TypeOK, NEW h \in Seats, Row(h), NEW p \in Pods, Sure!Restore(p) PROVE StepRow(h)
<1>0. /\ At(p, "reset", "restore") /\ Live(p) /\ Finish(p) /\ UNCHANGED <<threads, site>>
      /\ h \in Handles
  BY SureRestore DEF Restore, At, Live, Seats
<1>1. PICK outcome \in {"ready", "error"} : Store(pods[p].handle, Restored(pods[p].rec, outcome))
  BY SureRestore
<1>2. CASE ~ AtPod(p, h)
  BY <1>0, <1>1, <1>2, WritesElsewhere, PodEndsElsewhere
<1>3. CASE AtPod(p, h)
  <2>1. /\ pods[p].handle = h /\ Proper(seats[h]) /\ Works(pods[p], seats[h], site[h])
        /\ seats[h] \in Record
    BY <1>0, <1>3, PodsSeat DEF TypeOK
  <2>2. pods[p].rec = seats[h]
    BY <1>0, <2>1 DEF Works, Resets, At
  <2>3. Restored(pods[p].rec, outcome) = [seats[h] EXCEPT !.phase = outcome]
    BY <2>1, <2>2, NobodyIsNone DEF Restored, Proper, Absent, Corrupt
  <2> DEFINE r == [seats[h] EXCEPT !.phase = outcome]
  <2>4. r.user = seats[h].user /\ Proper(r)
    BY <2>1, Fields DEF Proper
  <2>5. seats'[h] = r
    BY <1>0, <1>1, <2>1, <2>3 DEF Store, TypeOK
  <2> HIDE DEF r
  <2> QED
    BY <1>0, <1>3, <2>4, <2>5, PodEnds
<1> QED
  BY <1>2, <1>3

LEMMA FindOwnerRow ==
  ASSUME TypeOK, NEW h \in Seats, Row(h), NEW p \in Pods, Sure!FindOwner(p) PROVE StepRow(h)
<1> DEFINE u == Now[pods[p].handle].user
           v == IF u \in Users THEN u ELSE pods[p].user
           q == [pods[p] EXCEPT !.pc = "teardown", !.user = v]
<1>0. /\ At(p, "deprovision", "owner") /\ Live(p) /\ pods[p] \in Pod
      /\ Advance(p, q) /\ UNCHANGED <<seats, threads, jobs, site>>
  BY SureFindOwner DEF At, Live, TypeOK
<1> HIDE DEF v
<1>1. /\ q.pc = "teardown" /\ q.handle = pods[p].handle /\ q.user = v
      /\ q.job = pods[p].job /\ q.kind = pods[p].kind /\ q.owned = pods[p].owned
  BY <1>0 DEF Pod
<1> HIDE DEF q
<1>2. CASE ~ AtPod(p, h)
  BY <1>0, <1>1, <1>2, WritesElsewhere, AdvancesElsewhere
<1>3. CASE AtPod(p, h)
  <2>1. pods[p].job = h /\ pods[p].handle = h /\ pods[p].owned /\ pods[p].user = seats[h].user
    BY <1>3, PodsSeat DEF Works
  <2>2. v = seats[h].user
    BY <2>1, NowIs DEF v
  <2>3. Works(q, seats[h], site[h])
    BY <1>0, <1>1, <2>2 DEF Works, Removes, At
  <2>4. ~ site[h].going => site[h].user \in {NoUser, seats[h].user}
    BY DEF Row
  <2> QED
    BY <1>0, <1>1, <1>3, <2>1, <2>3, <2>4, PodGoes DEF Advance
<1> QED
  BY <1>2, <1>3

LEMMA TeardownRow ==
  ASSUME TypeOK, NEW h \in Seats, Row(h), NEW p \in Pods, Teardown(p) PROVE StepRow(h)
<1> DEFINE q == [pods[p] EXCEPT !.pc = "remove"]
<1>0. /\ At(p, "deprovision", "teardown") /\ Live(p) /\ pods[p] \in Pod
      /\ Advance(p, q) /\ UNCHANGED <<seats, threads, jobs>> /\ h \in Handles
  BY DEF Teardown, At, Live, TypeOK, Seats
<1>1. PICK going \in BOOLEAN :
        /\ site[pods[p].handle] # NoSite => going
        /\ site' = [site EXCEPT ![pods[p].handle].going = going]
  BY DEF Teardown
<1>2. /\ q.pc = "remove" /\ q.handle = pods[p].handle /\ q.job = pods[p].job
      /\ q.kind = pods[p].kind /\ q.owned = pods[p].owned /\ q.user = pods[p].user
  BY <1>0 DEF Pod
<1> HIDE DEF q
<1>3. CASE ~ AtPod(p, h)
  <2>1. pods[p].handle # h
    BY <1>0, <1>3, WritesElsewhere
  <2>2. site'[h] = site[h]
    BY <1>1, <2>1 DEF TypeOK
  <2> QED
    BY <1>0, <1>2, <1>3, <2>1, <2>2, AdvancesElsewhere
<1>4. CASE AtPod(p, h)
  <2>1. pods[p].job = h /\ pods[p].handle = h /\ pods[p].owned /\ pods[p].user = seats[h].user
    BY <1>4, PodsSeat DEF Works
  <2>2. site[h] \in Site /\ (site[h] # NoSite => going)
    BY <1>0, <1>1, <2>1 DEF TypeOK
  <2> DEFINE s == [site[h] EXCEPT !.going = going]
  <2>3. site'[h] = s /\ s.user = site[h].user /\ s.going = going
    BY <1>0, <1>1, <2>1, <2>2 DEF TypeOK, Site
  <2>4. s.user = NoUser \/ s.going
    BY <2>2, <2>3 DEF NoSite
  <2> HIDE DEF s
  <2>5. Works(q, seats[h], s)
    BY <1>0, <1>2, <2>1, <2>4 DEF Works, Removes, At
  <2> QED
    BY <1>0, <1>2, <1>4, <2>1, <2>3, <2>4, <2>5, PodGoes DEF Advance
<1> QED
  BY <1>3, <1>4

LEMMA RemoveRecordRow ==
  ASSUME TypeOK, NEW h \in Seats, Row(h), NEW p \in Pods, Sure!RemoveRecord(p) PROVE StepRow(h)
<1>0. /\ At(p, "deprovision", "remove") /\ Live(p) /\ Store(pods[p].handle, Absent)
      /\ Finish(p) /\ UNCHANGED <<threads, site>> /\ h \in Handles
  BY SureRemoveRecord DEF RemoveRecord, At, Live, Seats
<1>1. CASE ~ AtPod(p, h)
  BY <1>0, <1>1, WritesElsewhere, PodEndsElsewhere
<1>2. CASE AtPod(p, h)
  <2>1. pods[p].handle = h /\ Works(pods[p], seats[h], site[h])
    BY <1>2, PodsSeat
  <2>2. site[h].user = NoUser \/ site[h].going
    BY <1>0, <2>1 DEF Works, Removes, At
  <2>3. seats'[h] = Absent
    BY <1>0, <2>1 DEF Store, TypeOK
  <2> QED
    BY <1>0, <1>2, <2>2, <2>3, PodEnds
<1> QED
  BY <1>1, <1>2

LEMMA PodDiesRow ==
  ASSUME TypeOK, NEW h \in Seats, Row(h), NEW p \in Pods, PodDies(p) PROVE StepRow(h)
<1>0. Live(p) /\ Finish(p) /\ UNCHANGED <<seats, threads, site>>
  BY DEF PodDies, Live
<1>1. CASE ~ AtPod(p, h)
  BY <1>0, <1>1, PodEndsElsewhere
<1>2. CASE AtPod(p, h)
  <2>1. Proper(seats[h])
    BY <1>2, PodsSeat
  <2> QED
    BY <1>0, <1>2, <2>1, PodEnds
<1> QED
  BY <1>1, <1>2

LEMMA SiteGoneRow ==
  ASSUME TypeOK, NEW h \in Seats, Row(h), NEW g \in Handles, SiteGone(g) PROVE StepRow(h)
<1>0. /\ site[g].going /\ site' = [site EXCEPT ![g] = NoSite]
      /\ UNCHANGED <<seats, threads, jobs, pods>> /\ h \in Handles
  BY DEF SiteGone, Seats
<1>1. CASE g # h
  <2>1. RowStays(h)
    BY <1>0, <1>1 DEF RowStays, JobsStay, HandsStay, PodsStay, TypeOK
  <2> QED
    BY <2>1, Untouched
<1>2. CASE g = h
  <2>1. site[h].going /\ site'[h] = NoSite
    BY <1>0, <1>2 DEF TypeOK
  <2>2. ASSUME NEW p \in Pods, AtPod(p, h) PROVE Works(pods[p], seats[h], NoSite)
    <3>1. Works(pods[p], seats[h], site[h])
      BY <2>2 DEF Row
    <3> QED
      BY <2>1, <3>1 DEF Works, Builds, Removes, NoSite
  <2>3. Alone(h)' /\ Waited(h)'
    <3>1. HandlerAlone(h)' /\ JobAlone(h)'
      BY <1>0 DEF Row, Alone, HandlerAlone, JobAlone, Under, AtSeat
    <3>2. PodAlone(h)'
      BY <1>0 DEF Row, Alone, PodAlone, AtPod
    <3>3. Waited(h)'
      BY <1>0 DEF Row, Waited, Under
    <3> QED
      BY <3>1, <3>2, <3>3 DEF Alone
  <2>4. Row(h)'
    <3>1. \A t \in Threads : HandCurrent(threads'[t], h, seats'[h])
      BY <1>0 DEF Row
    <3>2. \A p \in Pods : AtPod(p, h)' => Works(pods'[p], seats'[h], site'[h])
      BY <1>0, <2>1, <2>2 DEF AtPod
    <3>3. ~ site'[h].going => site'[h].user \in {NoUser, seats'[h].user}
      BY <2>1 DEF NoSite
    <3> QED
      BY <1>0, <2>3, <3>1, <3>2, <3>3 DEF Row
  <2>5. Moves(h) /\ Claims(h)
    BY <1>0 DEF Moves, Claims
  <2> QED
    BY <2>4, <2>5 DEF StepRow
<1> QED
  BY <1>1, <1>2

------------------------------------------------------------------------------
(* The steps together. *)

LEMMA SureNextRow ==
  ASSUME TypeOK, NEW h \in Seats, Row(h), ~ Crowded(h), ~ Strayed(h), Sure!Next
  PROVE  StepRow(h)
<1>1. ASSUME NEW t \in Threads, Sure!Arrive(t) \/ Sure!HandlerStep(t) \/ Sure!HandlerDies(t)
      PROVE  StepRow(h)
  <2>1. CASE Sure!Arrive(t)
    BY <2>1, ArriveRow
  <2>2. CASE Sure!HandlerStep(t)
    <3>1. CASE Sure!PickNext(t)
      BY <3>1, SurePickNext, PickNextRow
    <3>2. CASE Sure!CheckJob(t)
      BY <3>2, SureCheckJob, CheckJobRow
    <3>3. CASE Sure!WriteSeat(t)
      BY <3>3, WriteSeatRow
    <3>4. CASE Sure!DeleteJob(t)
      BY <3>4, SureDeleteJob, DeleteJobRow
    <3>5. CASE Sure!CreateJob(t)
      BY <3>5, SureCreateJob, CreateJobRow
    <3> QED
      BY <2>2, <3>1, <3>2, <3>3, <3>4, <3>5 DEF Sure!HandlerStep
  <2>3. CASE Sure!HandlerDies(t)
    BY <2>3, SureHandlerDies, HandlerDiesRow
  <2> QED
    BY <1>1, <2>1, <2>2, <2>3
<1>2. ASSUME NEW k \in Kinds, NEW g \in Handles, NEW p \in Pods, Sure!StartPod(k, g, p)
      PROVE  StepRow(h)
  BY <1>2, SureStartPod, StartPodRow
<1>3. ASSUME NEW p \in Pods, Sure!ProvisionStep(p) PROVE StepRow(h)
  <2>1. CASE Sure!Lookup(p)
    BY <2>1, LookupRow
  <2>2. CASE Sure!RecordSeat(p)
    BY <2>2, SureRecordSeat, RecordSeatRow
  <2>3. CASE Sure!StepRead(p)
    BY <2>3, StepReadRow
  <2>4. CASE Sure!StepWrite(p)
    BY <2>4, StepWriteRow
  <2>5. CASE Sure!AwaitNamespace(p)
    BY <2>5, SureAwaitNamespace, AwaitNamespaceRow
  <2>6. CASE Sure!MintToken(p)
    BY <2>6, SureMintToken, MintTokenRow
  <2>7. CASE Sure!Render(p)
    BY <2>7, SureRender, RenderRow
  <2>8. CASE Sure!MarkReady(p)
    BY <2>8, SureMarkReady, MarkReadyRow
  <2>9. CASE Sure!Fail(p)
    BY <2>9, FailRow
  <2>10. CASE Sure!FailWrite(p)
    BY <2>10, FailWriteRow
  <2> QED
    BY <1>3, <2>1, <2>2, <2>3, <2>4, <2>5, <2>6, <2>7, <2>8, <2>9, <2>10 DEF Sure!ProvisionStep
<1>4. ASSUME NEW p \in Pods, Sure!ResetStep(p) \/ Sure!DeprovisionStep(p) \/ Sure!PodDies(p)
      PROVE  StepRow(h)
  <2>1. CASE Sure!Capture(p)
    BY <2>1, CaptureRow
  <2>2. CASE Sure!Restore(p)
    BY <2>2, RestoreRow
  <2>3. CASE Sure!FindOwner(p)
    BY <2>3, FindOwnerRow
  <2>4. CASE Sure!Teardown(p)
    BY <2>4, SureTeardown, TeardownRow
  <2>5. CASE Sure!RemoveRecord(p)
    BY <2>5, RemoveRecordRow
  <2>6. CASE Sure!PodDies(p)
    BY <2>6, SurePodDies, PodDiesRow
  <2>7. ~ Sure!DeprovisionRaises(p)
    BY DEF Sure!DeprovisionRaises
  <2> QED
    BY <1>4, <2>1, <2>2, <2>3, <2>4, <2>5, <2>6, <2>7 DEF Sure!ResetStep, Sure!DeprovisionStep
<1>5. ASSUME NEW g \in Handles, Sure!SiteGone(g) PROVE StepRow(h)
  BY <1>5, SureSiteGone, SiteGoneRow
<1>6. Sure!Kinds = Kinds
  BY SureHelpers
<1> QED
  BY <1>1, <1>2, <1>3, <1>4, <1>5, <1>6 DEF Sure!Next, Sure!PodStep

Kept(h) == h \in calm /\ ~ (Failed(h) \/ Crowded(h) \/ Doubled(h) \/ Strayed(h))

\* What holds of a handle that stays calm.
LEMMA KeptRow == ASSUME TypeOK, NEW h \in Seats, Row(h), Kept(h) PROVE StepRow(h)
<1>1. CASE Touched(h)
  <2>1. Sure!Next /\ ~ Crowded(h) /\ ~ Strayed(h)
    BY <1>1 DEF Kept, Failed
  <2> QED
    BY <2>1, SureNextRow
<1>2. CASE ~ Touched(h)
  <2>1. RowStays(h)
    BY <1>2 DEF Touched, RowStays, JobsStay, HandsStay, PodsStay
  <2> QED
    BY <2>1, Untouched
<1> QED
  BY <1>1, <1>2

\* What holds of a handle that is free after the step.
LEMMA FreeRow == ASSUME NEW h \in Seats, Free(h)'
                 PROVE  /\ Row(h)' /\ seats'[h] = Absent
                        /\ \A t \in Threads : ~ Claiming(threads'[t], h)
<1>1. /\ seats'[h] = Absent /\ (site'[h].user = NoUser \/ site'[h].going)
      /\ \A t \in Threads : ~ AtSeat(t, h)'
      /\ \A k \in Kinds : ~ Under(k, h)'
      /\ \A p \in Pods : ~ AtPod(p, h)'
  BY DEF Free, Quiet, Under
<1>2. \A t \in Threads : ~ Has(threads'[t], h)
  BY <1>1 DEF AtSeat, Has
<1>3. Alone(h)' /\ Waited(h)'
  BY <1>1 DEF Alone, HandlerAlone, JobAlone, PodAlone, Waited
<1>4. Row(h)'
  BY <1>1, <1>2, <1>3 DEF Row, HandCurrent
<1> QED
  BY <1>1, <1>2, <1>4, ClaimingHas

LEMMA InitCalm == CalmInit => Calm
<1> SUFFICES ASSUME CalmInit PROVE Calm
  OBVIOUS
<1>0. calm = Seats /\ Init
  BY DEF CalmInit
<1>1. ASSUME NEW h \in Seats PROVE Row(h)
  <2>1. /\ h \in Handles
        /\ h \in DOMAIN Seated => /\ seats[h] = [user |-> Seated[h], phase |-> "ready", token |-> OldToken]
                                  /\ site[h] = [user |-> Seated[h], token |-> OldToken, going |-> FALSE]
                                  /\ Seated[h] \in Users
        /\ h \notin DOMAIN Seated => seats[h] = Absent /\ site[h] = NoSite
    BY <1>0, SeatedAssumption DEF Init, Seats
  <2>2. /\ seats[h] # Absent => Proper(seats[h])
        /\ ~ site[h].going => site[h].user \in {NoUser, seats[h].user}
    BY <2>1 DEF Proper, NoSite
  <2>3. /\ \A t \in Threads : ~ AtSeat(t, h)
        /\ \A k \in Kinds : ~ Under(k, h)
        /\ \A p \in Pods : ~ AtPod(p, h)
    BY <1>0, <2>1 DEF Init, AtSeat, Under, AtPod, Idle, NoJob, NoPod
  <2>4. Alone(h) /\ Waited(h)
    BY <2>3 DEF Alone, HandlerAlone, JobAlone, PodAlone, Waited
  <2> QED
    BY <2>2, <2>3, <2>4, AtSeatHas DEF Row, HandCurrent
<1>2. OnePerson
  <2> SUFFICES ASSUME NEW g \in Seats, NEW h \in Seats, seats[g].user = seats[h].user,
                      seats[g].user # NoUser
               PROVE  g = h
    BY <1>0 DEF OnePerson
  <2>1. ASSUME NEW x \in Seats, seats[x].user # NoUser
        PROVE  x \in DOMAIN Seated /\ seats[x].user = Seated[x]
    BY <1>0, <2>1 DEF Init, Seats, Absent
  <2> QED
    BY <2>1, SeatedAssumption
<1>3. ClaimAlone
  BY <1>0 DEF Init, ClaimAlone, Claiming, Idle
<1> QED
  BY <1>0, <1>1, <1>2, <1>3 DEF Calm

\* Somebody who is about to get a seat at a calm handle has none at another, and nobody else
\* is about to get one for the same person.
LEMMA CalmStep == ASSUME TypeOK, Calm, CalmNext PROVE Calm'
<1>0. calm' \subseteq Seats /\ calm \subseteq Seats /\ \A h \in calm : Row(h)
  BY DEF CalmNext, Calm
<1>1. ASSUME NEW h \in calm', ~ Free(h)'
      PROVE  Kept(h) /\ h \in Seats /\ h \in calm /\ Row(h) /\ StepRow(h)
  <2>1. Kept(h) /\ h \in Seats
    BY <1>1 DEF CalmNext, Kept
  <2>2. h \in calm /\ Row(h)
    BY <1>0, <2>1 DEF Kept
  <2> QED
    BY <2>1, <2>2, KeptRow
<1>2. ASSUME NEW h \in calm' PROVE h \in Seats /\ Row(h)'
  BY <1>0, <1>1, FreeRow DEF StepRow
<1>3. ASSUME NEW h \in calm', seats'[h].user # NoUser
      PROVE  /\ Kept(h) /\ h \in calm
             /\ \/ seats'[h].user = seats[h].user
                \/ \E t \in Threads : Claiming(threads[t], h) /\ threads[t].user = seats'[h].user
  <2>1. ~ Free(h)'
    BY <1>0, <1>3, FreeRow DEF Absent
  <2> QED
    BY <1>1, <1>3, <2>1 DEF StepRow, Moves
<1>4. ASSUME NEW t \in Threads, NEW h \in calm', Claiming(threads'[t], h)
      PROVE  /\ Kept(h) /\ h \in calm /\ threads'[t].user \in Users /\ seats'[h] = Absent
             /\ \/ Claiming(threads[t], h) /\ threads'[t].user = threads[t].user
                \/ Arrives(t, h)
  <2>1. ~ Free(h)'
    BY <1>0, <1>4, FreeRow
  <2>2. Row(h)' /\ Claims(h) /\ Kept(h) /\ h \in calm
    BY <1>1, <2>1 DEF StepRow
  <2>3. HandCurrent(threads'[t], h, seats'[h])
    BY <2>2 DEF Row
  <2>4. InHand(threads'[t], seats'[h]) /\ threads'[t].pc \in {"check", "write"}
        /\ threads'[t].rec = Absent
    BY <1>4, <2>3, ClaimingHas DEF HandCurrent, Claiming
  <2>5. threads'[t].user \in Users /\ seats'[h] = Absent
    BY <2>4 DEF InHand
  <2> QED
    BY <1>4, <2>2, <2>5 DEF Claims
<1>5. OnePerson'
  <2> SUFFICES ASSUME NEW g \in calm', NEW h \in calm', seats'[g].user = seats'[h].user,
                      seats'[g].user # NoUser
               PROVE  g = h
    BY DEF OnePerson
  <2>1. g \in calm /\ h \in calm
    BY <1>3
  <2>2. CASE seats'[g].user = seats[g].user /\ seats'[h].user = seats[h].user
    BY <2>1, <2>2 DEF Calm, OnePerson
  <2>3. ASSUME NEW t \in Threads, Claiming(threads[t], g), threads[t].user = seats'[g].user
        PROVE  g = h
    <3>1. seats[h].user # seats'[h].user
      BY <2>1, <2>3 DEF Calm, ClaimAlone
    <3>2. PICK x \in Threads : Claiming(threads[x], h) /\ threads[x].user = seats'[h].user
      BY <1>3, <3>1
    <3>3. x = t
      BY <2>1, <2>3, <3>2 DEF Calm, ClaimAlone
    <3> QED
      BY <2>3, <3>2, <3>3 DEF Claiming
  <2>4. ASSUME NEW t \in Threads, Claiming(threads[t], h), threads[t].user = seats'[h].user
        PROVE  g = h
    <3>1. seats[g].user # seats'[g].user
      BY <2>1, <2>4 DEF Calm, ClaimAlone
    <3>2. PICK x \in Threads : Claiming(threads[x], g) /\ threads[x].user = seats'[g].user
      BY <1>3, <3>1
    <3>3. x = t
      BY <2>1, <2>4, <3>2 DEF Calm, ClaimAlone
    <3> QED
      BY <2>4, <3>2, <3>3 DEF Claiming
  <2> QED
    BY <1>3, <2>2, <2>3, <2>4
<1>6. ASSUME NEW t \in Threads, NEW h \in calm', Claiming(threads'[t], h), NEW g \in calm'
      PROVE  seats'[g].user # threads'[t].user
  <2> SUFFICES ASSUME seats'[g].user = threads'[t].user PROVE FALSE
    OBVIOUS
  <2>1. seats'[g].user # NoUser /\ g \in calm /\ g \in Handles
    BY <1>0, <1>3, <1>4, <1>6, NobodyIsNone DEF Seats
  <2>2. CASE Arrives(t, h)
    BY <2>1, <2>2 DEF Arrives, SeatsOf
  <2>3. CASE Claiming(threads[t], h) /\ threads'[t].user = threads[t].user
    <3>1. seats[g].user # threads[t].user
      BY <1>4, <1>6, <2>1, <2>3 DEF Calm, ClaimAlone
    <3>2. PICK x \in Threads : Claiming(threads[x], g) /\ threads[x].user = seats'[g].user
      BY <1>3, <2>1, <2>3, <3>1
    <3>3. x = t
      BY <1>4, <1>6, <2>1, <2>3, <3>2 DEF Calm, ClaimAlone
    <3>4. g = h
      BY <2>3, <3>2, <3>3 DEF Claiming
    <3>5. seats'[g] = Absent
      BY <1>4, <1>6, <3>4
    <3> QED
      BY <2>1, <3>5 DEF Absent
  <2> QED
    BY <1>4, <1>6, <2>2, <2>3
<1>7. ASSUME NEW t \in Threads, NEW h \in calm', Claiming(threads'[t], h),
             NEW x \in Threads, NEW g \in calm', Claiming(threads'[x], g),
             threads'[x].user = threads'[t].user
      PROVE  x = t
  <2> SUFFICES ASSUME x # t PROVE FALSE
    OBVIOUS
  <2>1. Kept(h) /\ Kept(g) /\ h \in calm /\ g \in calm
    BY <1>4, <1>7
  <2>2. CASE Arrives(t, h)
    <3>1. threads'[x] = threads[x] /\ Comes(t, h) /\ threads'[t].act = "provision"
      BY <2>2 DEF Arrives
    <3>2. threads[x].pc \notin {"new", "end"} /\ threads[x].user = threads'[t].user
      BY <1>7, <3>1 DEF Claiming
    <3>3. Doubled(h)
      BY <3>1, <3>2 DEF Doubled
    <3> QED
      BY <2>1, <3>3 DEF Kept
  <2>3. CASE Arrives(x, g)
    <3>1. threads'[t] = threads[t] /\ Comes(x, g) /\ threads'[x].act = "provision"
      BY <2>3 DEF Arrives
    <3>2. threads[t].pc \notin {"new", "end"} /\ threads[t].user = threads'[x].user
      BY <1>7, <3>1 DEF Claiming
    <3>3. Doubled(g)
      BY <3>1, <3>2 DEF Doubled
    <3> QED
      BY <2>1, <3>3 DEF Kept
  <2>4. CASE /\ Claiming(threads[t], h) /\ threads'[t].user = threads[t].user
             /\ Claiming(threads[x], g) /\ threads'[x].user = threads[x].user
    BY <1>7, <2>1, <2>4 DEF Calm, ClaimAlone
  <2>5. Arrives(t, h) \/ (Claiming(threads[t], h) /\ threads'[t].user = threads[t].user)
    BY <1>4, <1>7
  <2>6. Arrives(x, g) \/ (Claiming(threads[x], g) /\ threads'[x].user = threads[x].user)
    BY <1>4, <1>7
  <2> QED
    BY <2>2, <2>3, <2>4, <2>5, <2>6
<1>8. ClaimAlone'
  BY <1>6, <1>7 DEF ClaimAlone
<1> QED
  BY <1>0, <1>2, <1>5, <1>8 DEF Calm

LEMMA CalmHolds == CalmSpec => [](TypeOK /\ ChecksLeft /\ Calm)
<1>1. CalmInit => TypeOK /\ ChecksLeft /\ Calm
  BY InitTypes, InitCalm DEF CalmInit
<1>2. TypeOK /\ ChecksLeft /\ Calm /\ [CalmNext]_calmVars => (TypeOK /\ ChecksLeft /\ Calm)'
  <2> SUFFICES ASSUME TypeOK, ChecksLeft, Calm, [CalmNext]_calmVars
               PROVE  (TypeOK /\ ChecksLeft /\ Calm)'
    OBVIOUS
  <2>1. [Next]_vars
    BY DEF CalmNext, calmVars
  <2>2. TypeOK' /\ ChecksLeft'
    BY <2>1, TypesStep, ChecksLeftStep
  <2>3. CASE CalmNext
    BY <2>2, <2>3, CalmStep
  <2>4. CASE UNCHANGED calmVars
    <3>1. calm' = calm /\ UNCHANGED <<seats, threads, jobs, pods, site>>
      BY <2>4 DEF calmVars, vars
    <3>2. \A h \in calm : Row(h) => Row(h)'
      BY <3>1 DEF Row, Alone, HandlerAlone, JobAlone, PodAlone, Waited, Under, AtSeat, AtPod
    <3>3. OnePerson' /\ ClaimAlone'
      BY <3>1 DEF Calm, OnePerson, ClaimAlone
    <3> QED
      BY <2>2, <3>1, <3>2, <3>3 DEF Calm
  <2> QED
    BY <2>3, <2>4
<1> QED
  BY <1>1, <1>2, PTL DEF CalmSpec

WorkAlone == \A h \in calm : Alone(h)

\* At a calm handle at most one works: a handler, or a Job, and the one pod that is at the
\* seat is that Job's, which is the broker's rule that a seat's requests go one by one
\* (act's 409s and run_job's one Job of a name).
THEOREM WorksAlone == CalmSpec => []WorkAlone
<1>1. Calm => WorkAlone
  BY DEF Calm, Row, WorkAlone
<1> QED
  BY <1>1, CalmHolds, PTL

\* What the cluster serves at a calm handle is nobody's, the owner's on record, or about to
\* go: whoever builds, resets or removes there, in whatever order.
THEOREM ServesTheOwner == CalmSpec => []ServesOwner
<1>1. Calm => ServesOwner
  BY DEF Calm, Row, ServesOwner, Ledger!ServesOwner
<1> QED
  BY <1>1, CalmHolds, PTL

\* Nobody has two seats at calm handles: the seat that a person has is found again.
THEOREM OneSeatEachPerson == CalmSpec => []OneEach
<1>1. Calm => OneEach
  BY DEF Calm, OnePerson, OneEach, Ledger!OneEach
<1> QED
  BY <1>1, CalmHolds, PTL

------------------------------------------------------------------------------
(* At calm handles the hub implements the ledger. *)

\* A step changes the record or the service of one handle at most.
OnlyAt(a) == \A g \in Handles \ {a} : seats'[g] = seats[g] /\ site'[g] = site[g]

LEMMA WriteIsOne ==
  ASSUME TypeOK, NEW a
  PROVE  /\ \A r : TryStore(a, r) \/ Store(a, r) => \A g \in Handles \ {a} : seats'[g] = seats[g]
         /\ \A s : site' = [site EXCEPT ![a] = s] => \A g \in Handles \ {a} : site'[g] = site[g]
  BY DEF TypeOK, TryStore, Store

LEMMA OneHandle == ASSUME TypeOK, Next PROVE \E a \in Handles : OnlyAt(a)
<1>0. NullKey \in Handles
  BY HandleAssumption
<1>1. ASSUME UNCHANGED <<seats, site>> PROVE \E a \in Handles : OnlyAt(a)
  BY <1>0, <1>1 DEF OnlyAt
<1>2. ASSUME NEW a \in Handles, NEW r, TryStore(a, r) \/ Store(a, r), UNCHANGED site
      PROVE  \E x \in Handles : OnlyAt(x)
  BY <1>2, WriteIsOne DEF OnlyAt
<1>3. ASSUME NEW a \in Handles, NEW s, site' = [site EXCEPT ![a] = s], UNCHANGED seats
      PROVE  \E x \in Handles : OnlyAt(x)
  BY <1>3, WriteIsOne DEF OnlyAt
<1>4. ASSUME NEW t \in Threads, Arrive(t) \/ HandlerStep(t) \/ HandlerDies(t)
      PROVE  \E a \in Handles : OnlyAt(a)
  <2>1. CASE Arrive(t) \/ PickNext(t) \/ CheckJob(t) \/ DeleteJob(t) \/ CreateJob(t) \/ HandlerDies(t)
    <3>1. UNCHANGED <<seats, site>>
      BY <2>1 DEF Arrive, PickNext, CheckJob, DeleteJob, CreateJob, HandlerDies
    <3> QED
      BY <1>1, <3>1
  <2>2. CASE WriteSeat(t)
    <3>1. threads[t].handle \in Handles
      BY DEF TypeOK, Thread
    <3> QED
      BY <1>2, <2>2, <3>1 DEF WriteSeat
  <2> QED
    BY <1>4, <2>1, <2>2 DEF HandlerStep
<1>5. ASSUME NEW p \in Pods, PodStep(p) \/ PodDies(p) PROVE \E a \in Handles : OnlyAt(a)
  <2>0. pods[p].handle \in Handles
    BY PodFields
  <2>1. CASE \/ Lookup(p) \/ StepRead(p) \/ AwaitNamespace(p) \/ Fail(p) \/ Capture(p)
             \/ FindOwner(p) \/ DeprovisionRaises(p) \/ PodDies(p)
    <3>1. UNCHANGED <<seats, site>>
      BY <2>1 DEF Lookup, StepRead, AwaitNamespace, Fail, Capture, FindOwner, DeprovisionRaises, PodDies
    <3> QED
      BY <1>1, <3>1
  <2>2. CASE RecordSeat(p) \/ StepWrite(p) \/ MarkReady(p) \/ FailWrite(p) \/ Restore(p) \/ RemoveRecord(p)
    BY <1>2, <2>0, <2>2 DEF RecordSeat, StepWrite, MarkReady, FailWrite, Restore, RemoveRecord
  <2>3. CASE MintToken(p)
    BY <1>1, <1>2, <2>0, <2>3 DEF MintToken
  <2>4. CASE Render(p)
    BY <1>3, <2>0, <2>4 DEF Render
  <2>5. CASE Teardown(p)
    <3>1. PICK going \in BOOLEAN : site' = [site EXCEPT ![pods[p].handle].going = going]
      BY <2>5 DEF Teardown
    <3>2. site' = [site EXCEPT ![pods[p].handle] = [site[pods[p].handle] EXCEPT !.going = going]]
      BY <3>1
    <3>3. UNCHANGED seats
      BY <2>5 DEF Teardown
    <3> QED
      BY <1>3, <2>0, <3>2, <3>3
  <2> QED
    BY <1>5, <2>1, <2>2, <2>3, <2>4, <2>5
       DEF PodStep, ProvisionStep, ResetStep, DeprovisionStep
<1>6. ASSUME NEW k \in Kinds, NEW h \in Handles, NEW p \in Pods, StartPod(k, h, p)
      PROVE  \E a \in Handles : OnlyAt(a)
  BY <1>1, <1>6 DEF StartPod
<1>7. ASSUME NEW h \in Handles, SiteGone(h) PROVE \E a \in Handles : OnlyAt(a)
  BY <1>3, <1>7 DEF SiteGone
<1> QED
  BY <1>4, <1>5, <1>6, <1>7 DEF Next

\* The ledger's row of a handle, and its steps told by what they do to the record and the
\* service.
Shown(h) == [phase |-> seats[h].phase, owner |-> seats[h].user,
             served |-> site[h].user, leaving |-> site[h].going]
Unseen == [phase |-> "lost", owner |-> NoUser, served |-> NoUser, leaving |-> FALSE]
Mapped == [h \in Seats |-> IF h \in calm THEN Shown(h) ELSE Unseen]

LEMMA MappedIs ==
  ASSUME NEW h \in Seats
  PROVE  /\ h \in calm => Mapped[h] = Shown(h)
         /\ h \in calm' => Mapped'[h] = Shown(h)'
         /\ h \notin calm => Mapped[h] = Unseen
         /\ h \notin calm' => Mapped'[h] = Unseen
  BY DEF Mapped, Unseen

LEMMA MappedFields ==
  ASSUME NEW h \in Seats, h \in calm
  PROVE  /\ Mapped[h].phase = seats[h].phase /\ Mapped[h].owner = seats[h].user
         /\ Mapped[h].served = site[h].user /\ Mapped[h].leaving = site[h].going
<1>1. Mapped[h] = Shown(h)
  BY MappedIs
<1>2. /\ Shown(h).phase = seats[h].phase /\ Shown(h).owner = seats[h].user
      /\ Shown(h).served = site[h].user /\ Shown(h).leaving = site[h].going
  BY DEF Shown
<1> QED
  BY <1>1, <1>2

LEMMA RecordsIs ==
  ASSUME NEW h \in Seats, h \in calm, h \in calm',
         site'[h].user = site[h].user, site'[h].going = site[h].going
  PROVE  /\ Mapped'[h] = [phase |-> seats'[h].phase, owner |-> seats'[h].user,
                          served |-> Mapped[h].served, leaving |-> Mapped[h].leaving]
         /\ seats'[h].user = seats[h].user =>
            Mapped'[h] = [phase |-> seats'[h].phase, owner |-> Mapped[h].owner,
                          served |-> Mapped[h].served, leaving |-> Mapped[h].leaving]
<1>1. Mapped'[h] = [phase |-> seats'[h].phase, owner |-> seats'[h].user,
                    served |-> site'[h].user, leaving |-> site'[h].going]
  BY MappedIs DEF Shown
<1>2. Mapped[h].owner = seats[h].user /\ Mapped[h].served = site[h].user
  BY MappedFields
<1>3. Mapped[h].leaving = site[h].going
  BY MappedFields
<1> QED
  BY <1>1, <1>2, <1>3

LEMMA ServesIs ==
  ASSUME NEW h \in Seats, h \in calm, h \in calm', NEW served, NEW leaving,
         seats'[h].phase = seats[h].phase, seats'[h].user = seats[h].user,
         site'[h].user = served, site'[h].going = leaving
  PROVE  Ledger!Serves(h, served, leaving)
<1>1. Ledger!Serves(h, served, leaving) <=>
        Mapped'[h] = [phase |-> Mapped[h].phase, owner |-> Mapped[h].owner,
                      served |-> served, leaving |-> leaving]
  BY DEF Ledger!Serves, Mapped, Shown, Unseen
<1> QED
  BY <1>1, MappedIs, MappedFields DEF Shown

\* What the ledger sees of a calm handle stays as it is.
Same(h) == /\ seats'[h].phase = seats[h].phase /\ seats'[h].user = seats[h].user
           /\ site'[h].user = site[h].user /\ site'[h].going = site[h].going

\* A step of the ledger at h, or none.
Goes(h) == Same(h) \/ Ledger!Move(h)


\* Each step of the ledger at a calm handle, told by what it does to the record and the service.

LEMMA ClaimGoes ==
  ASSUME NEW h \in Seats, h \in calm, h \in calm', NEW u \in People, seats[h].phase = "none", Ledger!Seatless(u),
         seats'[h].phase = "provisioning", seats'[h].user = u,
         site'[h].user = site[h].user, site'[h].going = site[h].going
  PROVE  Goes(h)
<1>1. Mapped[h].phase = "none" /\ Ledger!Seatless(u)
  BY MappedFields
<1>2. Mapped'[h] = [phase |-> "provisioning", owner |-> u,
                     served |-> Mapped[h].served, leaving |-> Mapped[h].leaving]
  BY RecordsIs
<1>3. Ledger!Claim(h, u) <=>
        /\ Mapped[h].phase = "none" /\ Ledger!Seatless(u)
        /\ Mapped'[h] = [phase |-> "provisioning", owner |-> u,
                     served |-> Mapped[h].served, leaving |-> Mapped[h].leaving]
  BY DEF Ledger!Claim, Ledger!Known, Ledger!Records, Mapped, Shown, Unseen
<1>4. Ledger!Claim(h, u)
  BY <1>1, <1>2, <1>3
<1> QED
  BY <1>4 DEF Goes, Ledger!Move

LEMMA RebuildGoes ==
  ASSUME NEW h \in Seats, h \in calm, h \in calm', seats[h].phase \notin {"none", "lost"},
         seats'[h].phase = "provisioning", seats'[h].user = seats[h].user,
         site'[h].user = site[h].user, site'[h].going = site[h].going
  PROVE  Goes(h)
<1>1. Mapped[h].phase # "lost" /\ Mapped[h].phase # "none"
  BY MappedFields
<1>2. Mapped'[h] = [phase |-> "provisioning", owner |-> Mapped[h].owner,
                     served |-> Mapped[h].served, leaving |-> Mapped[h].leaving]
  BY RecordsIs
<1>3. Ledger!Rebuild(h) <=>
        /\ Mapped[h].phase # "lost" /\ Mapped[h].phase # "none"
        /\ Mapped'[h] = [phase |-> "provisioning", owner |-> Mapped[h].owner,
                     served |-> Mapped[h].served, leaving |-> Mapped[h].leaving]
  BY DEF Ledger!Rebuild, Ledger!Known, Ledger!Records, Mapped, Shown, Unseen
<1>4. Ledger!Rebuild(h)
  BY <1>1, <1>2, <1>3
<1> QED
  BY <1>4 DEF Goes, Ledger!Move

LEMMA BuiltGoes ==
  ASSUME NEW h \in Seats, h \in calm, h \in calm', seats[h].phase = "provisioning", site[h].user = seats[h].user, ~ site[h].going,
         seats'[h].phase = "ready", seats'[h].user = seats[h].user,
         site'[h].user = site[h].user, site'[h].going = site[h].going
  PROVE  Goes(h)
<1>1. Mapped[h].phase = "provisioning" /\ Mapped[h].served = Mapped[h].owner /\ ~ Mapped[h].leaving
  BY MappedFields
<1>2. Mapped'[h] = [phase |-> "ready", owner |-> Mapped[h].owner,
                     served |-> Mapped[h].served, leaving |-> Mapped[h].leaving]
  BY RecordsIs
<1>3. Ledger!Built(h) <=>
        /\ Mapped[h].phase = "provisioning" /\ Mapped[h].served = Mapped[h].owner /\ ~ Mapped[h].leaving
        /\ Mapped'[h] = [phase |-> "ready", owner |-> Mapped[h].owner,
                     served |-> Mapped[h].served, leaving |-> Mapped[h].leaving]
  BY DEF Ledger!Built, Ledger!Known, Ledger!Records, Mapped, Shown, Unseen
<1>4. Ledger!Built(h)
  BY <1>1, <1>2, <1>3
<1> QED
  BY <1>4 DEF Goes, Ledger!Move

LEMMA BrokenGoes ==
  ASSUME NEW h \in Seats, h \in calm, h \in calm', seats[h].phase = "provisioning",
         seats'[h].phase = "error", seats'[h].user = seats[h].user,
         site'[h].user = site[h].user, site'[h].going = site[h].going
  PROVE  Goes(h)
<1>1. Mapped[h].phase = "provisioning"
  BY MappedFields
<1>2. Mapped'[h] = [phase |-> "error", owner |-> Mapped[h].owner,
                     served |-> Mapped[h].served, leaving |-> Mapped[h].leaving]
  BY RecordsIs
<1>3. Ledger!Broken(h) <=>
        /\ Mapped[h].phase = "provisioning"
        /\ Mapped'[h] = [phase |-> "error", owner |-> Mapped[h].owner,
                     served |-> Mapped[h].served, leaving |-> Mapped[h].leaving]
  BY DEF Ledger!Broken, Ledger!Known, Ledger!Records, Mapped, Shown, Unseen
<1>4. Ledger!Broken(h)
  BY <1>1, <1>2, <1>3
<1> QED
  BY <1>4 DEF Goes, Ledger!Move

LEMMA BeginResetGoes ==
  ASSUME NEW h \in Seats, h \in calm, h \in calm', seats[h].phase \in {"ready", "error"},
         seats'[h].phase = "resetting", seats'[h].user = seats[h].user,
         site'[h].user = site[h].user, site'[h].going = site[h].going
  PROVE  Goes(h)
<1>1. Mapped[h].phase \in {"ready", "error"}
  BY MappedFields
<1>2. Mapped'[h] = [phase |-> "resetting", owner |-> Mapped[h].owner,
                     served |-> Mapped[h].served, leaving |-> Mapped[h].leaving]
  BY RecordsIs
<1>3. Ledger!BeginReset(h) <=>
        /\ Mapped[h].phase \in {"ready", "error"}
        /\ Mapped'[h] = [phase |-> "resetting", owner |-> Mapped[h].owner,
                     served |-> Mapped[h].served, leaving |-> Mapped[h].leaving]
  BY DEF Ledger!BeginReset, Ledger!Known, Ledger!Records, Mapped, Shown, Unseen
<1>4. Ledger!BeginReset(h)
  BY <1>1, <1>2, <1>3
<1> QED
  BY <1>4 DEF Goes, Ledger!Move

LEMMA EndResetGoes ==
  ASSUME NEW h \in Seats, h \in calm, h \in calm', NEW o \in {"ready", "error"}, seats[h].phase = "resetting",
         seats'[h].phase = o, seats'[h].user = seats[h].user,
         site'[h].user = site[h].user, site'[h].going = site[h].going
  PROVE  Goes(h)
<1>1. Mapped[h].phase = "resetting"
  BY MappedFields
<1>2. Mapped'[h] = [phase |-> o, owner |-> Mapped[h].owner,
                     served |-> Mapped[h].served, leaving |-> Mapped[h].leaving]
  BY RecordsIs
<1>3. Ledger!EndReset(h) <=>
        /\ Mapped[h].phase = "resetting" /\ \E out \in {"ready", "error"} : Mapped'[h] = [phase |-> out, owner |-> Mapped[h].owner,
                     served |-> Mapped[h].served, leaving |-> Mapped[h].leaving]
  BY DEF Ledger!EndReset, Ledger!Known, Ledger!Records, Mapped, Shown, Unseen
<1>4. Ledger!EndReset(h)
  BY <1>1, <1>2, <1>3
<1> QED
  BY <1>4 DEF Goes, Ledger!Move

LEMMA BeginRemoveGoes ==
  ASSUME NEW h \in Seats, h \in calm, h \in calm', seats[h].phase \notin {"none", "lost"},
         seats'[h].phase = "removing", seats'[h].user = seats[h].user,
         site'[h].user = site[h].user, site'[h].going = site[h].going
  PROVE  Goes(h)
<1>1. Mapped[h].phase # "lost" /\ Mapped[h].phase # "none"
  BY MappedFields
<1>2. Mapped'[h] = [phase |-> "removing", owner |-> Mapped[h].owner,
                     served |-> Mapped[h].served, leaving |-> Mapped[h].leaving]
  BY RecordsIs
<1>3. Ledger!BeginRemove(h) <=>
        /\ Mapped[h].phase # "lost" /\ Mapped[h].phase # "none"
        /\ Mapped'[h] = [phase |-> "removing", owner |-> Mapped[h].owner,
                     served |-> Mapped[h].served, leaving |-> Mapped[h].leaving]
  BY DEF Ledger!BeginRemove, Ledger!Known, Ledger!Records, Mapped, Shown, Unseen
<1>4. Ledger!BeginRemove(h)
  BY <1>1, <1>2, <1>3
<1> QED
  BY <1>4 DEF Goes, Ledger!Move

LEMMA RemovedGoes ==
  ASSUME NEW h \in Seats, h \in calm, h \in calm', seats[h].phase = "removing", site[h].user = NoUser \/ site[h].going,
         seats'[h].phase = "none", seats'[h].user = NoUser,
         site'[h].user = site[h].user, site'[h].going = site[h].going
  PROVE  Goes(h)
<1>1. Mapped[h].phase = "removing" /\ (Mapped[h].served = NoUser \/ Mapped[h].leaving)
  BY MappedFields
<1>2. Mapped'[h] = [phase |-> "none", owner |-> NoUser,
                     served |-> Mapped[h].served, leaving |-> Mapped[h].leaving]
  BY RecordsIs
<1>3. Ledger!Removed(h) <=>
        /\ Mapped[h].phase = "removing" /\ (Mapped[h].served = NoUser \/ Mapped[h].leaving)
        /\ Mapped'[h] = [phase |-> "none", owner |-> NoUser,
                     served |-> Mapped[h].served, leaving |-> Mapped[h].leaving]
  BY DEF Ledger!Removed, Ledger!Known, Ledger!Records, Mapped, Shown, Unseen
<1>4. Ledger!Removed(h)
  BY <1>1, <1>2, <1>3
<1> QED
  BY <1>4 DEF Goes, Ledger!Move

LEMMA ServeGoes ==
  ASSUME NEW h \in Seats, h \in calm, h \in calm', seats[h].phase = "provisioning", ~ site[h].going,
         seats'[h].phase = seats[h].phase, seats'[h].user = seats[h].user,
         site'[h].user = seats[h].user, site'[h].going = FALSE
  PROVE  Goes(h)
<1>1. Mapped[h].phase = "provisioning" /\ ~ Mapped[h].leaving
  BY MappedFields
<1>2. Ledger!Serves(h, Mapped[h].owner, FALSE)
  BY MappedFields, ServesIs
<1>3. Ledger!Serve(h) <=>
        /\ Mapped[h].phase = "provisioning" /\ ~ Mapped[h].leaving
        /\ Ledger!Serves(h, Mapped[h].owner, FALSE)
  BY DEF Ledger!Serve, Ledger!Known, Ledger!Records, Mapped, Shown, Unseen
<1>4. Ledger!Serve(h)
  BY <1>1, <1>2, <1>3
<1> QED
  BY <1>4 DEF Goes, Ledger!Move

LEMMA VacateGoes ==
  ASSUME NEW h \in Seats, h \in calm, h \in calm', NEW going \in BOOLEAN, seats[h].phase = "removing", site[h].user # NoUser => going,
         seats'[h].phase = seats[h].phase, seats'[h].user = seats[h].user,
         site'[h].user = site[h].user, site'[h].going = going
  PROVE  Goes(h)
<1>1. Mapped[h].phase = "removing" /\ (Mapped[h].served # NoUser => going)
  BY MappedFields
<1>2. Ledger!Serves(h, Mapped[h].served, going)
  BY MappedFields, ServesIs
<1>3. Ledger!Vacate(h) <=>
        /\ Mapped[h].phase = "removing"
        /\ \E leaving \in BOOLEAN :
             (Mapped[h].served # NoUser => leaving) /\ Ledger!Serves(h, Mapped[h].served, leaving)
  BY DEF Ledger!Vacate, Ledger!Known, Ledger!Records, Mapped, Shown, Unseen
<1>4. Ledger!Vacate(h)
  BY <1>1, <1>2, <1>3
<1> QED
  BY <1>4 DEF Goes, Ledger!Move

LEMMA GoneAwayGoes ==
  ASSUME NEW h \in Seats, h \in calm, h \in calm', site[h].going,
         seats'[h].phase = seats[h].phase, seats'[h].user = seats[h].user,
         site'[h].user = NoUser, site'[h].going = FALSE
  PROVE  Goes(h)
<1>1. Mapped[h].leaving
  BY MappedFields
<1>2. Ledger!Serves(h, NoUser, FALSE)
  BY MappedFields, ServesIs
<1>3. Ledger!GoneAway(h) <=>
        /\ Mapped[h].leaving
        /\ Ledger!Serves(h, NoUser, FALSE)
  BY DEF Ledger!GoneAway, Ledger!Known, Ledger!Records, Mapped, Shown, Unseen
<1>4. Ledger!GoneAway(h)
  BY <1>1, <1>2, <1>3
<1> QED
  BY <1>4 DEF Goes, Ledger!Move
LEMMA WriteSeatGoes ==
  ASSUME TypeOK, Calm, NEW h \in calm, h \in calm', NEW t \in Threads, Sure!WriteSeat(t)
  PROVE  Goes(h)
<1> DEFINE th == threads[t]
<1>0. /\ th.pc = "write" /\ site' = site /\ Store(th.handle, Written(th)) /\ th \in Thread
      /\ h \in Seats /\ h \in Handles /\ Row(h)
  BY SureWriteSeat DEF WriteSeat, TypeOK, Calm, Seats
<1>1. CASE th.handle # h
  <2>1. seats'[h] = seats[h]
    BY <1>0, <1>1 DEF Store, TypeOK
  <2> QED
    BY <1>0, <2>1 DEF Goes, Same
<1>2. CASE th.handle = h
  <2>1. InHand(th, seats[h]) /\ seats[h] \in Record /\ (seats[h] # Absent => Proper(seats[h]))
    BY <1>0, <1>2, HandlersSeat DEF Row, TypeOK
  <2>2. seats'[h] = Written(th)
    BY <1>0, <1>2 DEF Store, TypeOK
  <2>3. /\ seats'[h].user = th.user /\ seats'[h].phase = PhaseOf(JobKind(th.act))
        /\ (seats[h] # Absent => seats[h].user = th.user)
        /\ (seats[h] = Absent => th.act = "provision")
        /\ th.rec = seats[h] /\ th.user \in Users
        /\ (th.act = "reset" => seats[h].phase \in {"ready", "error"})
    BY <1>0, <2>1, <2>2, WrittenProper DEF InHand
  <2>4. th.act \in Requests
    BY <1>0 DEF Thread
  <2>5. CASE seats[h] = Absent
    <3>1. seats[h].phase = "none" /\ seats[h].user = NoUser /\ seats'[h].phase = "provisioning"
      BY <2>3, <2>5 DEF Absent, PhaseOf, JobKind
    <3>2. Claiming(th, h)
      BY <1>0, <1>2, <2>3, <2>5 DEF Claiming
    <3>3. \A g \in calm : seats[g].user # th.user
      BY <3>2 DEF Calm, ClaimAlone
    <3>4. th.user # NoUser /\ th.user \in People
      BY <2>3, NobodyIsNone DEF People
    <3>5. Ledger!Seatless(th.user)
      BY <3>3, <3>4 DEF Ledger!Seatless
    <3> QED
      BY <1>0, <2>3, <3>1, <3>4, <3>5, ClaimGoes
  <2>6. CASE seats[h] # Absent
    <3>1. seats[h].phase \notin {"none", "lost"} /\ seats'[h].user = seats[h].user
      BY <2>1, <2>3, <2>6 DEF Proper
    <3>2. CASE th.act = "provision"
      <4>1. seats'[h].phase = "provisioning"
        BY <2>3, <3>2 DEF PhaseOf, JobKind
      <4> QED
        BY <1>0, <3>1, <4>1, RebuildGoes
    <3>3. CASE th.act = "reset"
      <4>1. seats'[h].phase = "resetting" /\ seats[h].phase \in {"ready", "error"}
        BY <2>3, <3>3 DEF PhaseOf, JobKind
      <4> QED
        BY <1>0, <3>1, <4>1, BeginResetGoes
    <3>4. CASE th.act \in {"deprovision", "bulk"}
      <4>1. seats'[h].phase = "removing"
        BY <2>3, <3>4 DEF PhaseOf, JobKind
      <4> QED
        BY <1>0, <3>1, <4>1, BeginRemoveGoes
    <3> QED
      BY <2>4, <3>2, <3>3, <3>4 DEF Requests, Kinds
  <2> QED
    BY <2>5, <2>6
<1> QED
  BY <1>1, <1>2

\* A pod's step that writes the record of its seat.
LEMMA PodWrites ==
  ASSUME TypeOK, Calm, NEW h \in calm, NEW p \in Pods, Live(p),
         NEW r, Store(pods[p].handle, r), site' = site
  PROVE  \/ Same(h)
         \/ /\ h \in Seats /\ Row(h) /\ AtPod(p, h) /\ pods[p].handle = h
            /\ seats'[h] = r /\ site'[h] = site[h]
<1>0. h \in Seats /\ h \in Handles /\ Row(h)
  BY DEF Calm, Seats
<1>1. CASE pods[p].handle = h
  BY <1>0, <1>1 DEF AtPod, Live, Store, TypeOK
<1>2. CASE pods[p].handle # h
  <2>1. seats'[h] = seats[h]
    BY <1>0, <1>2 DEF Store, TypeOK
  <2> QED
    BY <2>1 DEF Same
<1> QED
  BY <1>1, <1>2

LEMMA RecordSeatGoes ==
  ASSUME TypeOK, Calm, NEW h \in calm, NEW p \in Pods, RecordSeat(p) PROVE Goes(h)
<1>0. /\ At(p, "provision", "record") /\ Live(p) /\ site' = site
      /\ Store(pods[p].handle, pods[p].rec)
  BY DEF RecordSeat, At, Live
<1>1. CASE AtPod(p, h) /\ h \in Seats /\ Row(h)
  <2>1. pods[p].rec = seats[h]
    BY <1>0, <1>1, BuildsSeat DEF Builds, At
  <2> QED
    BY <1>0, <2>1, PodWrites DEF Goes, Same
<1> QED
  BY <1>0, <1>1, PodWrites DEF Goes

LEMMA StepWriteGoes ==
  ASSUME TypeOK, Calm, NEW h \in calm, NEW p \in Pods, Sure!StepWrite(p) PROVE Goes(h)
<1>0. /\ At(p, "provision", "setup-write") \/ At(p, "provision", "marking-write")
      /\ Live(p) /\ site' = site /\ Store(pods[p].handle, pods[p].tmp)
  BY SureStepWrite DEF StepWrite, At, Live
<1>1. CASE AtPod(p, h) /\ h \in Seats /\ Row(h)
  <2>1. pods[p].tmp = seats[h]
    BY <1>0, <1>1, BuildsSeat DEF Builds, At
  <2> QED
    BY <1>0, <2>1, PodWrites DEF Goes, Same
<1> QED
  BY <1>0, <1>1, PodWrites DEF Goes

LEMMA MintTokenGoes ==
  ASSUME TypeOK, Calm, NEW h \in calm, NEW p \in Pods, MintToken(p) PROVE Goes(h)
<1>0. At(p, "provision", "token") /\ Live(p) /\ site' = site
  BY DEF MintToken, At, Live
<1>1. CASE seats' = seats
  BY <1>0, <1>1 DEF Goes, Same
<1>2. CASE Store(pods[p].handle, [pods[p].rec EXCEPT !.token = p])
  <2>1. CASE AtPod(p, h) /\ h \in Seats /\ Row(h)
    <3>1. pods[p].rec = seats[h] /\ seats[h] \in Record
      BY <1>0, <2>1, BuildsSeat DEF Builds, At
    <3>2. [pods[p].rec EXCEPT !.token = p].user = seats[h].user
          /\ [pods[p].rec EXCEPT !.token = p].phase = seats[h].phase
      BY <3>1 DEF Record
    <3>3. Same(h) \/ (seats'[h] = [pods[p].rec EXCEPT !.token = p] /\ site'[h] = site[h])
      BY <1>0, <1>2, PodWrites
    <3> QED
      BY <3>2, <3>3 DEF Goes, Same
  <2> QED
    BY <1>0, <1>2, <2>1, PodWrites DEF Goes
<1> QED
  BY <1>1, <1>2 DEF MintToken

LEMMA MarkReadyGoes ==
  ASSUME TypeOK, Calm, NEW h \in calm, h \in calm', NEW p \in Pods, MarkReady(p) PROVE Goes(h)
<1>0. /\ At(p, "provision", "finish") /\ Live(p) /\ site' = site
      /\ Store(pods[p].handle, [pods[p].rec EXCEPT !.phase = "ready"])
  BY DEF MarkReady, At, Live
<1>1. CASE /\ AtPod(p, h) /\ h \in Seats /\ Row(h) /\ site'[h] = site[h]
           /\ seats'[h] = [pods[p].rec EXCEPT !.phase = "ready"]
  <2>1. /\ pods[p].rec = seats[h] /\ seats[h] \in Record /\ seats[h].phase = "provisioning"
        /\ site[h] = [user |-> pods[p].user, token |-> pods[p].rec.token, going |-> FALSE]
        /\ pods[p].user = seats[h].user
    BY <1>0, <1>1, BuildsSeat DEF Builds, At
  <2>2. [seats[h] EXCEPT !.phase = "ready"].user = seats[h].user
        /\ [seats[h] EXCEPT !.phase = "ready"].phase = "ready"
    BY <2>1, Fields
  <2>3. seats'[h].user = seats[h].user /\ seats'[h].phase = "ready"
    BY <1>1, <2>1, <2>2
  <2>4. site[h].user = seats[h].user /\ ~ site[h].going
    BY <2>1
  <2> QED
    BY <1>1, <2>1, <2>3, <2>4, BuiltGoes
<1> QED
  BY <1>0, <1>1, PodWrites DEF Goes

LEMMA FailWriteGoes ==
  ASSUME TypeOK, Calm, NEW h \in calm, h \in calm', NEW p \in Pods, Sure!FailWrite(p) PROVE Goes(h)
<1>0. /\ At(p, "provision", "fail-write") /\ Live(p) /\ site' = site
      /\ Store(pods[p].handle, pods[p].tmp)
  BY SureFailWrite DEF FailWrite, At, Live
<1>1. CASE AtPod(p, h) /\ h \in Seats /\ Row(h) /\ site'[h] = site[h] /\ seats'[h] = pods[p].tmp
  <2>1. /\ pods[p].tmp = [seats[h] EXCEPT !.phase = "error"]
        /\ seats[h] \in Record /\ seats[h].phase = "provisioning"
    BY <1>0, <1>1, BuildsSeat DEF Builds, At
  <2>2. [seats[h] EXCEPT !.phase = "error"].user = seats[h].user
        /\ [seats[h] EXCEPT !.phase = "error"].phase = "error"
    BY <2>1, Fields
  <2>3. seats'[h].user = seats[h].user /\ seats'[h].phase = "error"
    BY <1>1, <2>1, <2>2
  <2> QED
    BY <1>1, <2>1, <2>3, BrokenGoes
<1> QED
  BY <1>0, <1>1, PodWrites DEF Goes

LEMMA RestoreGoes ==
  ASSUME TypeOK, Calm, NEW h \in calm, h \in calm', NEW p \in Pods, Sure!Restore(p) PROVE Goes(h)
<1>0. At(p, "reset", "restore") /\ Live(p) /\ site' = site
  BY SureRestore DEF Restore, At, Live
<1>1. PICK outcome \in {"ready", "error"} : Store(pods[p].handle, Restored(pods[p].rec, outcome))
  BY SureRestore
<1>2. CASE /\ AtPod(p, h) /\ h \in Seats /\ Row(h) /\ site'[h] = site[h]
           /\ seats'[h] = Restored(pods[p].rec, outcome)
  <2>1. /\ pods[p].rec = seats[h] /\ seats[h] \in Record /\ seats[h].phase = "resetting"
        /\ Proper(seats[h])
    BY <1>0, <1>2, PodsSeat DEF Works, Resets, At, PhaseOf, TypeOK, Seats
  <2>2. seats[h] # Absent /\ seats[h] # Corrupt
    BY <2>1 DEF Proper, Absent, Corrupt
  <2>3. Restored(pods[p].rec, outcome) = [seats[h] EXCEPT !.phase = outcome]
    BY <2>1, <2>2 DEF Restored
  <2>4. [seats[h] EXCEPT !.phase = outcome].user = seats[h].user
        /\ [seats[h] EXCEPT !.phase = outcome].phase = outcome
    BY <2>1, Fields
  <2>5. seats'[h].user = seats[h].user /\ seats'[h].phase = outcome
    BY <1>2, <2>3, <2>4
  <2> QED
    BY <1>2, <2>1, <2>5, EndResetGoes
<1> QED
  BY <1>0, <1>1, <1>2, PodWrites DEF Goes

LEMMA RemoveRecordGoes ==
  ASSUME TypeOK, Calm, NEW h \in calm, h \in calm', NEW p \in Pods, Sure!RemoveRecord(p)
  PROVE  Goes(h)
<1>0. /\ At(p, "deprovision", "remove") /\ Live(p) /\ site' = site /\ Store(pods[p].handle, Absent)
  BY SureRemoveRecord DEF RemoveRecord, At, Live
<1>1. CASE AtPod(p, h) /\ h \in Seats /\ Row(h) /\ site'[h] = site[h] /\ seats'[h] = Absent
  <2>1. seats[h].phase = "removing" /\ (site[h].user = NoUser \/ site[h].going)
    BY <1>0, <1>1, PodsSeat DEF Works, Removes, At, PhaseOf
  <2>2. seats'[h].phase = "none" /\ seats'[h].user = NoUser
    BY <1>1 DEF Absent
  <2> QED
    BY <1>1, <2>1, <2>2, RemovedGoes
<1> QED
  BY <1>0, <1>1, PodWrites DEF Goes

LEMMA RenderGoes ==
  ASSUME TypeOK, Calm, NEW h \in calm, h \in calm', NEW p \in Pods, Render(p) PROVE Goes(h)
<1> DEFINE g == pods[p].handle
           s == [user |-> pods[p].user, token |-> pods[p].rec.token, going |-> site[g].going]
<1>0. /\ At(p, "provision", "render") /\ Live(p) /\ seats' = seats /\ site' = [site EXCEPT ![g] = s]
      /\ h \in Seats /\ h \in Handles /\ Row(h)
  BY DEF Render, At, Live, Calm, Seats
<1>1. CASE g # h
  <2>1. site'[h] = site[h]
    BY <1>0, <1>1 DEF TypeOK
  <2> QED
    BY <1>0, <2>1 DEF Goes, Same
<1>2. CASE g = h
  <2>1. AtPod(p, h)
    BY <1>0, <1>2 DEF AtPod, Live
  <2>2. seats[h].phase = "provisioning" /\ pods[p].user = seats[h].user /\ ~ site[h].going
    BY <1>0, <2>1, BuildsSeat DEF Builds, At
  <2>3. site'[h] = s
    BY <1>0, <1>2 DEF TypeOK
  <2>4. site'[h].user = seats[h].user /\ site'[h].going = FALSE
    <3>1. site[h].going = FALSE
      BY <1>0, <2>2 DEF TypeOK, Site
    <3> QED
      BY <1>2, <2>2, <2>3, <3>1
  <2> QED
    BY <1>0, <2>2, <2>4, ServeGoes
<1> QED
  BY <1>1, <1>2

LEMMA TeardownGoes ==
  ASSUME TypeOK, Calm, NEW h \in calm, h \in calm', NEW p \in Pods, Teardown(p) PROVE Goes(h)
<1> DEFINE g == pods[p].handle
<1>0. /\ At(p, "deprovision", "teardown") /\ Live(p) /\ seats' = seats
      /\ h \in Seats /\ h \in Handles /\ Row(h) /\ site[h] \in Site
  BY DEF Teardown, At, Live, Calm, Seats, TypeOK
<1>1. PICK going \in BOOLEAN : /\ site[g] # NoSite => going
                               /\ site' = [site EXCEPT ![g].going = going]
  BY DEF Teardown
<1>2. CASE g # h
  <2>1. site'[h] = site[h]
    BY <1>0, <1>1, <1>2 DEF TypeOK
  <2> QED
    BY <1>0, <2>1 DEF Goes, Same
<1>3. CASE g = h
  <2>1. AtPod(p, h)
    BY <1>0, <1>3 DEF AtPod, Live
  <2>2. seats[h].phase = "removing"
    BY <1>0, <2>1, PodsSeat DEF At, PhaseOf
  <2>3. site'[h] = [site[h] EXCEPT !.going = going]
    BY <1>0, <1>1, <1>3 DEF TypeOK
  <2>4. site'[h].user = site[h].user /\ site'[h].going = going
    BY <1>0, <2>3 DEF Site
  <2>5. site[h].user # NoUser => going
    BY <1>1, <1>3 DEF NoSite
  <2> QED
    BY <1>0, <2>2, <2>4, <2>5, VacateGoes
<1> QED
  BY <1>2, <1>3

LEMMA SiteGoneGoes ==
  ASSUME TypeOK, Calm, NEW h \in calm, h \in calm', NEW g \in Handles, SiteGone(g) PROVE Goes(h)
<1>0. /\ site[g].going /\ seats' = seats /\ site' = [site EXCEPT ![g] = NoSite]
      /\ h \in Seats /\ h \in Handles
  BY DEF SiteGone, Calm, Seats
<1>1. CASE g # h
  <2>1. site'[h] = site[h]
    BY <1>0, <1>1 DEF TypeOK
  <2> QED
    BY <1>0, <2>1 DEF Goes, Same
<1>2. CASE g = h
  <2>1. site[h].going /\ site'[h].user = NoUser /\ site'[h].going = FALSE
    BY <1>0, <1>2 DEF TypeOK, NoSite
  <2> QED
    BY <1>0, <2>1, GoneAwayGoes
<1> QED
  BY <1>1, <1>2

\* What a handle that stays calm goes through.
LEMMA KeptGoes ==
  ASSUME TypeOK, Calm, CalmNext, NEW h \in calm, h \in calm' PROVE Goes(h)
<1>0. h \in Seats
  BY DEF Calm
<1>1. CASE seats' = seats /\ site' = site
  BY <1>1 DEF Goes, Same
<1>2. CASE ~ Touched(h)
  BY <1>2 DEF Touched, Goes, Same
<1>3. CASE Touched(h) /\ ~ (seats' = seats /\ site' = site)
  <2>0. Sure!Next
    BY <1>3 DEF CalmNext, Failed
  <2>1. ASSUME NEW t \in Threads, Sure!Arrive(t) \/ Sure!HandlerStep(t) \/ Sure!HandlerDies(t)
        PROVE  Goes(h)
    <3>1. CASE Sure!WriteSeat(t)
      BY <3>1, WriteSeatGoes
    <3>2. CASE ~ Sure!WriteSeat(t)
      BY <1>1, <2>1, <3>2 DEF Sure!Arrive, Sure!HandlerStep, Sure!HandlerDies, Sure!PickNext,
         Sure!CheckJob, Sure!DeleteJob, Sure!CreateJob
    <3> QED
      BY <3>1, <3>2
  <2>2. ASSUME NEW k \in Sure!Kinds, NEW g \in Handles, NEW p \in Pods, Sure!StartPod(k, g, p)
        PROVE  Goes(h)
    BY <1>1, <2>2 DEF Sure!StartPod
  <2>3. ASSUME NEW p \in Pods, Sure!ProvisionStep(p) PROVE Goes(h)
    <3>1. CASE Sure!Lookup(p) \/ Sure!StepRead(p) \/ Sure!AwaitNamespace(p) \/ Sure!Fail(p)
      BY <1>1, <3>1 DEF Sure!Lookup, Sure!StepRead, Sure!AwaitNamespace, Sure!Fail
    <3>2. CASE Sure!RecordSeat(p)
      BY <3>2, SureRecordSeat, RecordSeatGoes
    <3>3. CASE Sure!StepWrite(p)
      BY <3>3, StepWriteGoes
    <3>4. CASE Sure!MintToken(p)
      BY <3>4, SureMintToken, MintTokenGoes
    <3>5. CASE Sure!Render(p)
      BY <3>5, SureRender, RenderGoes
    <3>6. CASE Sure!MarkReady(p)
      BY <3>6, SureMarkReady, MarkReadyGoes
    <3>7. CASE Sure!FailWrite(p)
      BY <3>7, FailWriteGoes
    <3> QED
      BY <2>3, <3>1, <3>2, <3>3, <3>4, <3>5, <3>6, <3>7 DEF Sure!ProvisionStep
  <2>4. ASSUME NEW p \in Pods, Sure!ResetStep(p) \/ Sure!DeprovisionStep(p) \/ Sure!PodDies(p)
        PROVE  Goes(h)
    <3>1. CASE Sure!Capture(p) \/ Sure!FindOwner(p) \/ Sure!DeprovisionRaises(p) \/ Sure!PodDies(p)
      BY <1>1, <3>1 DEF Sure!Capture, Sure!FindOwner, Sure!DeprovisionRaises, Sure!PodDies
    <3>2. CASE Sure!Restore(p)
      BY <3>2, RestoreGoes
    <3>3. CASE Sure!Teardown(p)
      BY <3>3, SureTeardown, TeardownGoes
    <3>4. CASE Sure!RemoveRecord(p)
      BY <3>4, RemoveRecordGoes
    <3> QED
      BY <2>4, <3>1, <3>2, <3>3, <3>4 DEF Sure!ResetStep, Sure!DeprovisionStep
  <2>5. ASSUME NEW g \in Handles, Sure!SiteGone(g) PROVE Goes(h)
    BY <2>5, SureSiteGone, SiteGoneGoes
  <2> QED
    BY <2>0, <2>1, <2>2, <2>3, <2>4, <2>5 DEF Sure!Next, Sure!PodStep
<1> QED
  BY <1>1, <1>2, <1>3

LEMMA Stays == ASSUME NEW h \in Seats, h \in calm, h \in calm', Same(h)
               PROVE  Mapped'[h] = Mapped[h]
<1>1. Shown(h)' = Shown(h)
  BY DEF Shown, Same
<1> QED
  BY <1>1, MappedIs

\* A handle that is lost, or found to be free.
LEMMA Turns ==
  ASSUME NEW h \in Seats, h \notin calm'
  PROVE  Ledger!Turn(h)
<1>1. Mapped'[h] = Unseen
  BY MappedIs
<1>2. (Mapped'[h] = Unseen) => Ledger!Turn(h)
  BY DEF Ledger!Turn, Ledger!Lost, Mapped, Shown, Unseen
<1> QED
  BY <1>1, <1>2

LEMMA Found ==
  ASSUME TypeOK', NEW h \in Seats, h \notin calm, h \in calm', Free(h)'
  PROVE  Ledger!Turn(h)
<1>0. h \in Handles /\ site'[h] \in Site
  BY DEF TypeOK, Seats
<1>1. /\ seats'[h] = Absent /\ site'[h].user \in People \cup {NoUser} /\ site'[h].going \in BOOLEAN
      /\ site'[h].user # NoUser => site'[h].going
  BY <1>0 DEF Free, Site
<1>2. Mapped'[h] = [phase |-> seats'[h].phase, owner |-> seats'[h].user,
                    served |-> site'[h].user, leaving |-> site'[h].going]
  BY MappedIs DEF Shown
<1>3. seats'[h].phase = "none" /\ seats'[h].user = NoUser
  BY <1>1 DEF Absent
<1>4. Mapped'[h] = [phase |-> "none", owner |-> NoUser,
                    served |-> site'[h].user, leaving |-> site'[h].going]
  BY <1>2, <1>3
<1>5. Mapped[h].phase = "lost"
  BY MappedIs DEF Unseen
<1>6. \E s \in People \cup {NoUser}, leaving \in BOOLEAN :
        /\ s # NoUser => leaving
        /\ Mapped'[h] = [phase |-> "none", owner |-> NoUser, served |-> s, leaving |-> leaving]
  BY <1>1, <1>4
<1>7. Ledger!Turn(h) <=>
        \/ Mapped'[h] = Unseen
        \/ /\ ~ (Mapped[h].phase # "lost")
           /\ \E s \in People \cup {NoUser}, leaving \in BOOLEAN :
                /\ s # NoUser => leaving
                /\ Mapped'[h] = [phase |-> "none", owner |-> NoUser, served |-> s, leaving |-> leaving]
  BY DEF Ledger!Turn, Ledger!Known, Ledger!Lost, Mapped, Shown, Unseen
<1> QED
  BY <1>5, <1>6, <1>7

LEMMA LedgerInit == CalmInit => Ledger!Init
<1> SUFFICES ASSUME CalmInit PROVE Ledger!Init
  OBVIOUS
<1>1. ASSUME NEW h \in Seats
      PROVE  Mapped[h] = IF h \in DOMAIN Seated
               THEN [phase |-> "ready", owner |-> Seated[h], served |-> Seated[h], leaving |-> FALSE]
               ELSE [phase |-> "none", owner |-> NoUser, served |-> NoUser, leaving |-> FALSE]
  <2>1. Mapped[h] = Shown(h) /\ h \in Handles
    BY MappedIs DEF CalmInit, Seats
  <2>2. CASE h \in DOMAIN Seated
    <3>1. /\ seats[h] = [user |-> Seated[h], phase |-> "ready", token |-> OldToken]
          /\ site[h] = [user |-> Seated[h], token |-> OldToken, going |-> FALSE]
      BY <2>1, <2>2 DEF CalmInit, Init
    <3> QED
      BY <2>1, <2>2, <3>1 DEF Shown
  <2>3. CASE h \notin DOMAIN Seated
    <3>1. seats[h] = Absent /\ site[h] = NoSite
      BY <2>1, <2>3 DEF CalmInit, Init
    <3> QED
      BY <2>1, <2>3, <3>1 DEF Shown, Absent, NoSite
  <2> QED
    BY <2>2, <2>3
<1>2. Ledger!Init <=> Mapped = [h \in Seats |-> IF h \in DOMAIN Seated
               THEN [phase |-> "ready", owner |-> Seated[h], served |-> Seated[h], leaving |-> FALSE]
               ELSE [phase |-> "none", owner |-> NoUser, served |-> NoUser, leaving |-> FALSE]]
  BY DEF Ledger!Init, Mapped, Shown, Unseen
<1> QED
  BY <1>1, <1>2 DEF Mapped

\* Every handle goes a step of the ledger, is lost or found, or stays.
LEMMA EachGoes ==
  ASSUME TypeOK, TypeOK', Calm, CalmNext, NEW h \in Seats
  PROVE  Mapped'[h] = Mapped[h] \/ Ledger!Turn(h) \/ (Ledger!Move(h) /\ ~ Same(h))
<1>1. CASE h \notin calm'
  BY <1>1, Turns
<1>2. CASE h \in calm' /\ h \notin calm
  <2>1. Free(h)'
    BY <1>2 DEF CalmNext
  <2> QED
    BY <1>2, <2>1, Found
<1>3. CASE h \in calm' /\ h \in calm
  <2>1. CASE Same(h)
    BY <1>3, <2>1, Stays
  <2>2. CASE ~ Same(h)
    BY <1>3, <2>2, KeptGoes DEF Goes
  <2> QED
    BY <2>1, <2>2
<1> QED
  BY <1>1, <1>2, <1>3

LEMMA NextIs ==
  Ledger!Next <=> /\ Mapped' = [h \in Seats |-> Mapped'[h]]
                  /\ \E h \in Seats :
                       /\ Ledger!Move(h) \/ Ledger!Turn(h)
                       /\ \A g \in Seats \ {h} : Ledger!Turn(g) \/ Mapped'[g] = Mapped[g]
  BY DEF Ledger!Next, Mapped, Shown, Unseen

LEMMA LedgerStep ==
  ASSUME TypeOK, TypeOK', Calm, CalmNext PROVE Ledger!Next \/ Mapped' = Mapped
<1>0. Mapped' = [h \in Seats |-> Mapped'[h]] /\ Mapped = [h \in Seats |-> Mapped[h]]
  BY DEF Mapped
<1>1. PICK a \in Handles : OnlyAt(a)
  BY OneHandle DEF CalmNext
<1>2. ASSUME NEW g \in Seats, g # a PROVE Ledger!Turn(g) \/ Mapped'[g] = Mapped[g]
  <2>1. Same(g)
    BY <1>1, <1>2 DEF OnlyAt, Same, Seats
  <2> QED
    BY <2>1, EachGoes
<1>3. CASE a \in Seats /\ Ledger!Move(a)
  BY <1>0, <1>2, <1>3, NextIs
<1>4. CASE ~ (a \in Seats /\ Ledger!Move(a))
  <2>1. \A g \in Seats : Ledger!Turn(g) \/ Mapped'[g] = Mapped[g]
    BY <1>2, <1>4, EachGoes
  <2>2. CASE \E g \in Seats : Ledger!Turn(g)
    BY <1>0, <2>1, <2>2, NextIs
  <2>3. CASE \A g \in Seats : Mapped'[g] = Mapped[g]
    BY <1>0, <2>3
  <2> QED
    BY <2>1, <2>2, <2>3
<1> QED
  BY <1>3, <1>4

\* The hub implements the ledger: at every calm handle, whatever goes on elsewhere, a record
\* goes through its phases in order, a seat becomes ready only when it serves its owner, and a
\* record goes only when its workshop has gone or was told to.
THEOREM HubKeepsLedger == CalmSpec => KeepsLedger
<1>1. TypeOK /\ Calm /\ TypeOK' /\ [CalmNext]_calmVars => [Ledger!Next]_Mapped
  <2>1. CASE CalmNext
    BY <2>1, LedgerStep
  <2>2. CASE UNCHANGED calmVars
    BY <2>2 DEF calmVars, vars, Mapped, Shown
  <2> QED
    BY <2>1, <2>2
<1>2. KeepsLedger <=> Ledger!Init /\ [][Ledger!Next]_Mapped
  BY DEF KeepsLedger, Ledger!Spec, Mapped, Shown, Unseen
<1> QED
  BY <1>1, <1>2, LedgerInit, CalmHolds, PTL DEF CalmSpec
=============================================================================
