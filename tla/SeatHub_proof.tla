---------------------------- MODULE SeatHub_proof ----------------------------
(* Proofs about SeatHub, for any people, handles, handlers and pods, and with *)
(* or without failing calls and deaths.                                       *)
EXTENDS SeatHub, TLAPS

\* The records the code makes out of nothing are records.
LEMMA BaseRecords == /\ Absent \in Record /\ Corrupt \in Record /\ Blank \in People
                     /\ NoSite \in Site /\ NoJob \in Job
  BY DEF Absent, Corrupt, NoSite, Site, NoJob, Job, Record, Phases, Tokens, People

\* A read of the ConfigMap returns a record for every handle.
LEMMA SeenRecords == ASSUME seats \in [Handles -> Record], NEW s \in Seen
                     PROVE  s \in [Handles -> Record]
  BY BaseRecords DEF Seen, Parsed, Record, Phases

\* allocate_handle returns a handle, and never the key "null" as a new one.
LEMMA AllocatedHandles == ASSUME NEW u \in People, NEW s
                          PROVE  /\ FirstFree(u, s) \subseteq Handles \ {NullKey}
                                 /\ FirstFree(u, s) \subseteq Family(u)
                                 /\ Allocated(u, s) \subseteq Handles
  BY HandleAssumption DEF FirstFree, Allocated, SeatsOf, Family

LEMMA Relabelled == ASSUME seats \in [Handles -> Record], NEW s \in Seen, NEW h \in Handles,
                           NEW u \in People, NEW ph \in Phases
                    PROVE  [s[h] EXCEPT !.user = u, !.phase = ph] \in Record
<1>1. s[h] \in Record
  BY SeenRecords
<1> QED
  BY <1>1 DEF Record

LEMMA ChecksType == ASSUME NEW act \in Requests, NEW rec
                    PROVE  Checks(act, rec) \in Seq(Kinds)
<1>1. << >> \in Seq(Kinds) /\ <<"provision">> \in Seq(Kinds) /\ <<"deprovision">> \in Seq(Kinds)
  BY DEF Kinds
<1>2. <<"provision", "reset">> \in Seq(Kinds)
      /\ <<"provision", "reset", "deprovision">> \in Seq(Kinds)
  BY DEF Kinds
<1>3. CASE act = "provision"
  <2> DEFINE A == IF rec.phase \in {"provisioning", "resetting"} THEN <<"provision">> ELSE << >>
             B == IF Present(rec) THEN <<"deprovision">> ELSE << >>
  <2>1. A \in Seq(Kinds) /\ B \in Seq(Kinds)
    BY <1>1
  <2>2. A \o B \in Seq(Kinds)
    BY <2>1
  <2> QED
    BY <1>3, <2>2 DEF Checks
<1> QED
  BY <1>1, <1>2, <1>3 DEF Checks, Requests, Kinds

LEMMA UserOfType == ASSUME NEW rec \in Record PROVE UserOf(rec) \in People
  BY DEF UserOf, Record, People

LEMMA IdleType == /\ Idle("new") \in Thread /\ Idle("end") \in Thread /\ Idle("pick") \in Thread
                  /\ NoPod("unborn") \in Pod /\ NoPod("gone") \in Pod
<1>1. << >> \in Seq(Kinds)
  OBVIOUS
<1> QED
  BY <1>1, BaseRecords, HandleAssumption DEF Idle, NoPod, Thread, Pod, Requests, Kinds

LEMMA LeaveType == ASSUME threads \in [Threads -> Thread], NEW t \in Threads
                   PROVE  Leave(t) \in Thread
  BY IdleType DEF Leave, Thread

\* A handler that enters act is well typed.
LEMMA EnterType == ASSUME threads \in [Threads -> Thread], NEW t \in Threads, NEW act \in Kinds,
                          NEW u \in People, NEW h \in Handles, NEW rec \in Record,
                          Enter(t, act, u, h, rec)
                   PROVE  threads' \in [Threads -> Thread]
<1>1. Checks(act, rec) \in Seq(Kinds) /\ act \in Requests
  BY ChecksType DEF Requests
<1>2. Toward(Checks(act, rec)) \in {"write", "check"}
  BY DEF Toward
<1> DEFINE e == [pc |-> Toward(Checks(act, rec)), act |-> act, user |-> u, handle |-> h,
                 rec |-> rec, checks |-> Checks(act, rec), todo |-> {}]
<1>3. e \in Thread
  BY <1>1, <1>2 DEF Thread
<1>4. threads' = [threads EXCEPT ![t] = e]
  BY DEF Enter
<1> QED
  BY <1>3, <1>4

LEMMA PickNextType == ASSUME threads \in [Threads -> Thread], NEW t \in Threads, PickNext(t)
                      PROVE  threads' \in [Threads -> Thread]
<1>1. CASE threads[t].todo = {}
  BY <1>1, IdleType DEF PickNext
<1>2. CASE threads[t].todo # {}
  <2>1. PICK e \in threads[t].todo : threads' = [threads EXCEPT ![t] =
              [pc |-> "check", act |-> "bulk", user |-> UserOf(e.rec), handle |-> e.handle,
               rec |-> e.rec, checks |-> Checks("bulk", e.rec), todo |-> threads[t].todo \ {e}]]
    BY <1>2 DEF PickNext
  <2>2. e.handle \in Handles /\ e.rec \in Record
    BY DEF Thread
  <2>3. UserOf(e.rec) \in People /\ Checks("bulk", e.rec) \in Seq(Kinds)
    BY <2>2, UserOfType, ChecksType DEF Requests
  <2>4. threads[t].todo \ {e} \in SUBSET [handle : Handles, rec : Record]
    BY DEF Thread
  <2>5. [pc |-> "check", act |-> "bulk", user |-> UserOf(e.rec), handle |-> e.handle,
         rec |-> e.rec, checks |-> Checks("bulk", e.rec), todo |-> threads[t].todo \ {e}] \in Thread
    BY <2>2, <2>3, <2>4 DEF Thread, Requests
  <2> QED
    BY <2>1, <2>5
<1> QED
  BY <1>1, <1>2

LEMMA ArriveType == ASSUME seats \in [Handles -> Record], threads \in [Threads -> Thread],
                           NEW t \in Threads, Arrive(t)
                    PROVE  threads' \in [Threads -> Thread]
<1>1. ASSUME NEW act \in Kinds, NEW u \in Users, OwnSeat(t, act, u)
      PROVE  threads' \in [Threads -> Thread]
  <2>1. PICK s \in Seen : \E h \in IF act = "provision" THEN Allocated(u, s)
                ELSE IF SeatsOf(u, s) # {} THEN SeatsOf(u, s) ELSE {NullKey} :
                Enter(t, act, u, h, IF SeatsOf(u, s) = {} THEN Absent ELSE s[h])
    BY <1>1 DEF OwnSeat
  <2>2. s \in [Handles -> Record]
    BY SeenRecords
  <2>3. Allocated(u, s) \subseteq Handles /\ SeatsOf(u, s) \subseteq Handles
    BY AllocatedHandles DEF People, SeatsOf
  <2>4. PICK h \in Handles : Enter(t, act, u, h, IF SeatsOf(u, s) = {} THEN Absent ELSE s[h])
    BY <2>1, <2>3, HandleAssumption
  <2>5. (IF SeatsOf(u, s) = {} THEN Absent ELSE s[h]) \in Record
    BY <2>2, BaseRecords
  <2> QED
    BY <2>4, <2>5, EnterType DEF People
<1>2. ASSUME NEW act \in Kinds, NEW who \in Admins, NEW h \in Handles, AdminSeat(t, act, who, h)
      PROVE  threads' \in [Threads -> Thread]
  <2>1. PICK s \in Seen : Enter(t, act, Served(who, s[h]), h, s[h])
    BY <1>2 DEF AdminSeat
  <2>2. s[h] \in Record
    BY SeenRecords
  <2>3. Served(who, s[h]) \in People
    BY <2>2, UserOfType DEF Served
  <2> QED
    BY <2>1, <2>2, <2>3, EnterType
<1>3. ASSUME NEW H \in SUBSET Handles, BulkRemove(t, H)
      PROVE  threads' \in [Threads -> Thread]
  <2>1. PICK s \in Seen : threads' = [threads EXCEPT ![t] =
           [Idle("pick") EXCEPT !.act = "bulk",
                   !.todo = {[handle |-> h, rec |-> s[h]] :
                               h \in {g \in H : Present(s[g]) /\ s[g].user \notin Admins}}]]
    BY <1>3 DEF BulkRemove
  <2>2. s \in [Handles -> Record]
    BY SeenRecords
  <2> DEFINE T == {[handle |-> h, rec |-> s[h]] :
                     h \in {g \in H : Present(s[g]) /\ s[g].user \notin Admins}}
  <2>3. T \in SUBSET [handle : Handles, rec : Record]
    BY <2>2
  <2>4. [Idle("pick") EXCEPT !.act = "bulk", !.todo = T] \in Thread
    BY <2>3, IdleType DEF Thread, Requests
  <2> QED
    BY <2>1, <2>4
<1> QED
  BY <1>1, <1>2, <1>3 DEF Arrive

LEMMA CheckJobType == ASSUME threads \in [Threads -> Thread], ChecksLeft,
                             NEW t \in Threads, CheckJob(t)
                      PROVE  threads' \in [Threads -> Thread]
<1>1. CASE threads' = [threads EXCEPT ![t] = Leave(t)]
  BY <1>1, LeaveType
<1>2. CASE threads' = [threads EXCEPT ![t] =
             [threads[t] EXCEPT !.checks = Tail(@), !.pc = Toward(Tail(threads[t].checks))]]
  <2>1. threads[t].checks \in Seq(Kinds) /\ threads[t].checks # << >>
    BY DEF Thread, CheckJob, ChecksLeft
  <2>2. Tail(threads[t].checks) \in Seq(Kinds)
    BY <2>1
  <2>3. Toward(Tail(threads[t].checks)) \in {"write", "check"}
    BY DEF Toward
  <2>4. [threads[t] EXCEPT !.checks = Tail(@), !.pc = Toward(Tail(threads[t].checks))] \in Thread
    BY <2>2, <2>3 DEF Thread
  <2> QED
    BY <1>2, <2>4
<1> QED
  BY <1>1, <1>2 DEF CheckJob

LEMMA JobUpdate == ASSUME jobs \in [Kinds -> [Handles -> Job]], NEW k \in Kinds,
                          NEW h \in Handles, NEW j \in Job
                   PROVE  [jobs EXCEPT ![k][h] = j] \in [Kinds -> [Handles -> Job]]
  OBVIOUS

LEMMA JobKindType == ASSUME NEW act \in Requests PROVE JobKind(act) \in Kinds
  BY DEF JobKind, Requests, Kinds

LEMMA WrittenType == ASSUME NEW th \in Thread PROVE Written(th) \in Record
<1>1. th.rec \in Record /\ th.user \in People /\ th.act \in Requests
  BY DEF Thread
<1>2. CASE th.act = "provision"
  BY <1>1, <1>2 DEF Written, Record, Phases, Tokens
<1>3. CASE th.act = "reset"
  BY <1>1, <1>3 DEF Written, Record, Phases
<1>4. CASE th.act \in {"deprovision", "bulk"}
  BY <1>1, <1>4 DEF Written, Record, Phases
<1> QED
  BY <1>1, <1>2, <1>3, <1>4 DEF Requests, Kinds

\* Every step of a handler keeps the types.
LEMMA HandlerTypes == ASSUME TypeOK, ChecksLeft, NEW t \in Threads,
                             Arrive(t) \/ HandlerStep(t) \/ HandlerDies(t)
                      PROVE  TypeOK'
<1> USE DEF TypeOK
<1>1. CASE Arrive(t)
  BY <1>1, ArriveType DEF Arrive
<1>2. CASE PickNext(t)
  BY <1>2, PickNextType DEF PickNext
<1>3. CASE CheckJob(t)
  BY <1>3, CheckJobType DEF CheckJob
<1>4. CASE WriteSeat(t)
  <2>1. Written(threads[t]) \in Record /\ threads[t].handle \in Handles
    BY WrittenType DEF Thread
  <2>2. seats' \in [Handles -> Record]
    BY <1>4, <2>1 DEF WriteSeat, TryStore, Store
  <2>3. threads' \in [Threads -> Thread]
    BY <1>4 DEF WriteSeat, Thread
  <2> QED
    BY <1>4, <2>2, <2>3 DEF WriteSeat
<1>5. CASE DeleteJob(t)
  <2>1. threads' \in [Threads -> Thread]
    BY <1>5 DEF DeleteJob, Thread
  <2>2. JobKind(threads[t].act) \in Kinds /\ threads[t].handle \in Handles
    BY JobKindType DEF Thread
  <2> DEFINE k == JobKind(threads[t].act)
             h == threads[t].handle
             orphaned == [p \in Pods |-> IF pods[p].kind = k /\ pods[p].job = h
                                         THEN [pods[p] EXCEPT !.owned = FALSE] ELSE pods[p]]
  <2>3. [jobs EXCEPT ![k][h] = NoJob] \in [Kinds -> [Handles -> Job]]
    BY <2>2, BaseRecords, JobUpdate
  <2>4. orphaned \in [Pods -> Pod]
    <3>1. ASSUME NEW p \in Pods PROVE [pods[p] EXCEPT !.owned = FALSE] \in Pod
      BY DEF Pod
    <3> QED
      BY <3>1
  <2>5. (jobs' = [jobs EXCEPT ![k][h] = NoJob] /\ pods' = orphaned) \/ (jobs' = jobs /\ pods' = pods)
    BY <1>5 DEF DeleteJob
  <2> HIDE DEF k, h, orphaned
  <2> QED
    BY <1>5, <2>1, <2>3, <2>4, <2>5 DEF DeleteJob
<1>6. CASE CreateJob(t)
  <2>1. threads' \in [Threads -> Thread]
    BY <1>6, LeaveType DEF CreateJob
  <2>2. JobKind(threads[t].act) \in Kinds /\ threads[t].handle \in Handles
        /\ threads[t].user \in People
    BY JobKindType DEF Thread
  <2>3. [st |-> "pending", user |-> threads[t].user] \in Job
    BY <2>2 DEF Job
  <2>4. [jobs EXCEPT ![JobKind(threads[t].act)][threads[t].handle]
           = [st |-> "pending", user |-> threads[t].user]] \in [Kinds -> [Handles -> Job]]
    BY <2>2, <2>3, JobUpdate
  <2> QED
    BY <1>6, <2>1, <2>4 DEF CreateJob
<1>7. CASE HandlerDies(t)
  BY <1>7, IdleType DEF HandlerDies
<1> QED
  BY <1>1, <1>2, <1>3, <1>4, <1>5, <1>6, <1>7 DEF HandlerStep

\* A pod that ends leaves well typed pods and Jobs.
LEMMA FinishType == ASSUME pods \in [Pods -> Pod], jobs \in [Kinds -> [Handles -> Job]],
                           NEW p \in Pods, Finish(p)
                    PROVE  pods' \in [Pods -> Pod] /\ jobs' \in [Kinds -> [Handles -> Job]]
<1>1. pods' \in [Pods -> Pod]
  BY IdleType DEF Finish
<1>2. pods[p].kind \in Kinds /\ pods[p].job \in Handles
  BY DEF Pod
<1>3. [st |-> "done", user |-> Blank] \in Job
  BY BaseRecords DEF Job
<1>4. [jobs EXCEPT ![pods[p].kind][pods[p].job] = [st |-> "done", user |-> Blank]]
        \in [Kinds -> [Handles -> Job]]
  BY <1>2, <1>3, JobUpdate
<1> QED
  BY <1>1, <1>4 DEF Finish

LEMMA StoreType == ASSUME seats \in [Handles -> Record], NEW h \in Handles, NEW r \in Record,
                          Store(h, r) \/ TryStore(h, r)
                   PROVE  seats' \in [Handles -> Record]
  BY DEF Store, TryStore

LEMMA StartPodTypes == ASSUME TypeOK, NEW k \in Kinds, NEW h \in Handles, NEW p \in Pods,
                              StartPod(k, h, p)
                       PROVE  TypeOK'
<1>1. jobs[k][h] \in Job
  BY DEF TypeOK
<1>2. [jobs[k][h] EXCEPT !.st = "active"] \in Job
  BY <1>1 DEF Job
<1>3. [jobs EXCEPT ![k][h] = [jobs[k][h] EXCEPT !.st = "active"]] \in [Kinds -> [Handles -> Job]]
  BY <1>2, JobUpdate DEF TypeOK
<1> DEFINE new == [pc |-> FirstPc(k), kind |-> k, job |-> h, handle |-> h,
                   user |-> jobs[k][h].user, rec |-> Absent, tmp |-> Absent, owned |-> TRUE]
<1>4. FirstPc(k) \in {"lookup", "capture", "owner"}
  BY DEF FirstPc, Kinds
<1>5. new \in Pod
  BY <1>1, <1>4, BaseRecords DEF Pod, Job
<1>6. [pods EXCEPT ![p] = new] \in [Pods -> Pod]
  BY <1>5 DEF TypeOK
<1>7. jobs' = [jobs EXCEPT ![k][h] = [jobs[k][h] EXCEPT !.st = "active"]]
  BY DEF StartPod
<1> QED
  BY <1>3, <1>6, <1>7 DEF TypeOK, StartPod

\* Every step of a pod keeps the types.
LEMMA ProvisionTypes == ASSUME TypeOK, NEW p \in Pods, ProvisionStep(p) PROVE TypeOK'
<1> USE DEF TypeOK
<1>0. /\ pods[p] \in Pod /\ pods[p].handle \in Handles /\ pods[p].user \in People
      /\ pods[p].rec \in Record /\ pods[p].tmp \in Record
  BY DEF Pod
<1>1. CASE Lookup(p)
  <2> DEFINE new(s, h) ==
         [pods[p] EXCEPT !.pc = "record", !.handle = h,
            !.rec = [s[h] EXCEPT !.user = pods[p].user, !.phase = "provisioning"]]
  <2>0. PICK s \in Seen : \E h \in Allocated(pods[p].user, s) : pods' = [pods EXCEPT ![p] = new(s, h)]
    BY <1>1 DEF Lookup, Advance
  <2>1. PICK h \in Allocated(pods[p].user, s) : pods' = [pods EXCEPT ![p] = new(s, h)]
    BY <2>0
  <2>2. h \in Handles
    BY <1>0, AllocatedHandles
  <2>3. [s[h] EXCEPT !.user = pods[p].user, !.phase = "provisioning"] \in Record
    BY <1>0, <2>2, Relabelled DEF Phases
  <2>4. new(s, h) \in Pod
    BY <1>0, <2>2, <2>3 DEF Pod
  <2>5. pods' \in [Pods -> Pod]
    <3> HIDE DEF new
    <3> QED
      BY <2>1, <2>4
  <2> QED
    BY <1>1, <2>5 DEF Lookup
<1>2. CASE RecordSeat(p)
  <2>1. seats' \in [Handles -> Record]
    BY <1>0, <1>2, StoreType DEF RecordSeat
  <2>2. [pods[p] EXCEPT !.pc = "setup"] \in Pod
    BY <1>0 DEF Pod
  <2> QED
    BY <1>2, <2>1, <2>2 DEF RecordSeat, Advance
<1>3. CASE StepRead(p)
  <2>1. PICK s \in Seen : pods' = [pods EXCEPT ![p] = [pods[p] EXCEPT
         !.pc = IF @ = "setup" THEN "setup-write" ELSE "marking-write",
         !.tmp = [s[pods[p].handle] EXCEPT !.user = pods[p].user, !.phase = "provisioning"]]]
    BY <1>3 DEF StepRead, Advance
  <2>2. [s[pods[p].handle] EXCEPT !.user = pods[p].user, !.phase = "provisioning"] \in Record
    BY <1>0, Relabelled DEF Phases
  <2>3. [pods[p] EXCEPT
         !.pc = IF @ = "setup" THEN "setup-write" ELSE "marking-write",
         !.tmp = [s[pods[p].handle] EXCEPT !.user = pods[p].user, !.phase = "provisioning"]] \in Pod
    BY <1>0, <2>2 DEF Pod
  <2>4. pods' \in [Pods -> Pod]
    BY <2>1, <2>3
  <2> QED
    BY <1>3, <2>4 DEF StepRead
<1>4. CASE StepWrite(p)
  <2>1. seats' \in [Handles -> Record]
    BY <1>0, <1>4, StoreType DEF StepWrite
  <2>2. [pods[p] EXCEPT !.pc = IF @ = "setup-write" THEN "wait" ELSE "finish", !.tmp = Absent] \in Pod
    BY <1>0, BaseRecords DEF Pod
  <2> QED
    BY <1>4, <2>1, <2>2 DEF StepWrite, Advance
<1>5. CASE MintToken(p)
  <2>1. [pods[p].rec EXCEPT !.token = p] \in Record
    BY <1>0 DEF Record, Tokens
  <2>2. [pods[p] EXCEPT !.pc = "render"] \in Pod
        /\ [pods[p] EXCEPT !.pc = "render", !.rec = [pods[p].rec EXCEPT !.token = p]] \in Pod
    BY <1>0, <2>1 DEF Pod
  <2>3. seats' \in [Handles -> Record]
    BY <1>0, <1>5, <2>1, StoreType DEF MintToken, TokenInHand
  <2> QED
    BY <1>5, <2>2, <2>3 DEF MintToken, TokenInHand, Advance
<1>6. CASE Render(p)
  <2>1. [user |-> pods[p].user, token |-> pods[p].rec.token, going |-> site[pods[p].handle].going]
          \in Site
    BY <1>0 DEF Site, Record
  <2>2. [pods[p] EXCEPT !.pc = "marking"] \in Pod
    BY <1>0 DEF Pod
  <2> QED
    BY <1>0, <1>6, <2>1, <2>2 DEF Render, Advance
<1>7. CASE MarkReady(p)
  <2>1. [pods[p].rec EXCEPT !.phase = "ready"] \in Record
    BY <1>0 DEF Record, Phases
  <2>2. seats' \in [Handles -> Record]
    BY <1>0, <1>7, <2>1, StoreType DEF MarkReady
  <2> QED
    BY <1>7, <2>2, FinishType DEF MarkReady
<1>8. CASE Fail(p)
  <2> DEFINE h == IF pods[p].pc = "lookup" THEN Cands[pods[p].user][1] ELSE pods[p].handle
  <2>1. h \in Handles
    BY <1>0, HandleAssumption
  <2>2. PICK s \in Seen : pods' = [pods EXCEPT ![p] = [pods[p] EXCEPT !.pc = "fail-write",
          !.handle = h, !.tmp = [s[h] EXCEPT !.user = pods[p].user, !.phase = "error"]]]
    BY <1>8 DEF Fail, Advance
  <2> HIDE DEF h
  <2>3. [s[h] EXCEPT !.user = pods[p].user, !.phase = "error"] \in Record
    BY <1>0, <2>1, Relabelled DEF Phases
  <2>4. [pods[p] EXCEPT !.pc = "fail-write", !.handle = h,
           !.tmp = [s[h] EXCEPT !.user = pods[p].user, !.phase = "error"]] \in Pod
    BY <1>0, <2>1, <2>3 DEF Pod
  <2>5. pods' \in [Pods -> Pod]
    BY <2>2, <2>4
  <2> QED
    BY <1>8, <2>5 DEF Fail
<1>9. CASE FailWrite(p)
  <2>1. seats' \in [Handles -> Record]
    BY <1>0, <1>9, StoreType DEF FailWrite
  <2> QED
    BY <1>9, <2>1, FinishType DEF FailWrite
<1>10. CASE AwaitNamespace(p)
  <2>1. [pods[p] EXCEPT !.pc = "token"] \in Pod
    BY <1>0 DEF Pod
  <2> QED
    BY <1>0, <1>10, <2>1 DEF AwaitNamespace, Advance
<1> QED
  BY <1>1, <1>2, <1>3, <1>4, <1>5, <1>6, <1>7, <1>8, <1>9, <1>10 DEF ProvisionStep

LEMMA ResetTypes == ASSUME TypeOK, NEW p \in Pods, ResetStep(p) PROVE TypeOK'
<1> USE DEF TypeOK
<1>0. pods[p] \in Pod /\ pods[p].handle \in Handles /\ pods[p].rec \in Record
  BY DEF Pod
<1>1. CASE Capture(p)
  <2>1. PICK r \in {seats[pods[p].handle], Absent} :
          pods' = [pods EXCEPT ![p] = [pods[p] EXCEPT !.pc = "restore", !.rec = r]]
    BY <1>1 DEF Capture, Advance
  <2>2. r \in Record
    BY <1>0, BaseRecords
  <2>3. [pods[p] EXCEPT !.pc = "restore", !.rec = r] \in Pod
    BY <1>0, <2>2 DEF Pod
  <2> QED
    BY <1>1, <2>1, <2>3 DEF Capture
<1>2. CASE Restore(p)
  <2>1. PICK outcome \in {"ready", "error"} :
          TryStore(pods[p].handle, Restored(pods[p].rec, outcome))
    BY <1>2 DEF Restore
  <2>2. [pods[p].rec EXCEPT !.phase = outcome] \in Record
    BY <1>0 DEF Record, Phases
  <2>3. Restored(pods[p].rec, outcome) \in Record
    BY <2>2, BaseRecords DEF Restored
  <2>4. seats' \in [Handles -> Record]
    BY <1>0, <2>1, <2>3, StoreType
  <2> QED
    BY <1>2, <2>4, FinishType DEF Restore
<1> QED
  BY <1>1, <1>2 DEF ResetStep

LEMMA DeprovisionTypes == ASSUME TypeOK, NEW p \in Pods, DeprovisionStep(p) \/ PodDies(p)
                          PROVE  TypeOK'
<1> USE DEF TypeOK
<1>0. pods[p] \in Pod /\ pods[p].handle \in Handles /\ pods[p].user \in People
  BY DEF Pod
<1>1. CASE FindOwner(p)
  <2>1. PICK u \in People : pods' = [pods EXCEPT ![p] = [pods[p] EXCEPT !.pc = "teardown", !.user = u]]
    BY <1>0, <1>1 DEF FindOwner, Advance, People
  <2>2. [pods[p] EXCEPT !.pc = "teardown", !.user = u] \in Pod
    BY <1>0 DEF Pod
  <2> QED
    BY <1>1, <2>1, <2>2 DEF FindOwner
<1>2. CASE Teardown(p)
  <2>1. [pods[p] EXCEPT !.pc = "remove"] \in Pod
    BY <1>0 DEF Pod
  <2>2. \A going \in BOOLEAN : [site[pods[p].handle] EXCEPT !.going = going] \in Site
    BY <1>0 DEF Site
  <2>3. site' \in [Handles -> Site]
    BY <1>0, <1>2, <2>2 DEF Teardown
  <2> QED
    BY <1>2, <2>1, <2>3 DEF Teardown, Advance
<1>3. CASE RemoveRecord(p)
  <2>1. seats' \in [Handles -> Record]
    BY <1>0, <1>3, BaseRecords, StoreType DEF RemoveRecord
  <2> QED
    BY <1>3, <2>1, FinishType DEF RemoveRecord
<1>4. CASE DeprovisionRaises(p)
  BY <1>4, FinishType DEF DeprovisionRaises
<1>5. CASE PodDies(p)
  BY <1>5, FinishType DEF PodDies
<1> QED
  BY <1>1, <1>2, <1>3, <1>4, <1>5 DEF DeprovisionStep

\* The list of Jobs a handler still asks for is never empty when it asks.
LEMMA ChecksLeftStep == ASSUME TypeOK, ChecksLeft, [Next]_vars PROVE ChecksLeft'
<1>1. ASSUME NEW t \in Threads, NEW e, e.pc = "check" => e.checks # << >>,
             threads' = [threads EXCEPT ![t] = e]
      PROVE  ChecksLeft'
  BY <1>1 DEF ChecksLeft, TypeOK
<1>2. ASSUME NEW t \in Threads, Arrive(t) PROVE ChecksLeft'
  <2>1. ASSUME NEW act, NEW u, NEW h, NEW rec, Enter(t, act, u, h, rec) PROVE ChecksLeft'
    <3> DEFINE e == [pc |-> Toward(Checks(act, rec)), act |-> act, user |-> u, handle |-> h,
                     rec |-> rec, checks |-> Checks(act, rec), todo |-> {}]
    <3>1. e.pc = "check" => e.checks # << >>
      BY DEF Toward
    <3>2. threads' = [threads EXCEPT ![t] = e]
      BY <2>1 DEF Enter
    <3> HIDE DEF e
    <3> QED
      BY <1>1, <3>1, <3>2
  <2>2. ASSUME NEW H, BulkRemove(t, H) PROVE ChecksLeft'
    <3>1. PICK T : threads' = [threads EXCEPT ![t] = [Idle("pick") EXCEPT !.act = "bulk", !.todo = T]]
      BY <2>2 DEF BulkRemove
    <3> QED
      BY <1>1, <3>1 DEF Idle
  <2> QED
    BY <1>2, <2>1, <2>2 DEF Arrive, OwnSeat, AdminSeat
<1>3. ASSUME NEW t \in Threads, PickNext(t) PROVE ChecksLeft'
  <2>1. CASE threads' = [threads EXCEPT ![t] = Idle("end")]
    BY <1>1, <2>1 DEF Idle
  <2>2. ASSUME NEW e, threads' = [threads EXCEPT ![t] =
              [pc |-> "check", act |-> "bulk", user |-> UserOf(e.rec), handle |-> e.handle,
               rec |-> e.rec, checks |-> Checks("bulk", e.rec), todo |-> threads[t].todo \ {e}]]
        PROVE  ChecksLeft'
    <3>1. Checks("bulk", e.rec) # << >>
      BY DEF Checks
    <3> QED
      BY <1>1, <2>2, <3>1
  <2> QED
    BY <1>3, <2>1, <2>2 DEF PickNext
<1>4. ASSUME NEW t \in Threads, threads' = [threads EXCEPT ![t] = Leave(t)] PROVE ChecksLeft'
  <2>1. Leave(t).pc # "check"
    <3>1. threads[t] \in Thread
      BY DEF TypeOK
    <3> QED
      BY <3>1 DEF Leave, Idle, Thread
  <2> QED
    BY <1>1, <1>4, <2>1
<1>5. ASSUME NEW t \in Threads, CheckJob(t) PROVE ChecksLeft'
  <2>1. CASE threads' = [threads EXCEPT ![t] =
               [threads[t] EXCEPT !.checks = Tail(@), !.pc = Toward(Tail(threads[t].checks))]]
    <3> DEFINE e == [threads[t] EXCEPT !.checks = Tail(@), !.pc = Toward(Tail(threads[t].checks))]
    <3>1. e.pc = "check" => e.checks # << >>
      <4>1. threads[t] \in Thread
        BY DEF TypeOK
      <4> QED
        BY <4>1 DEF Toward, Thread
    <3> HIDE DEF e
    <3> QED
      BY <1>1, <2>1, <3>1 DEF e
  <2> QED
    BY <1>4, <1>5, <2>1 DEF CheckJob
<1>6. ASSUME NEW t \in Threads, WriteSeat(t) \/ DeleteJob(t) PROVE ChecksLeft'
  <2>1. PICK pc \in {"delete", "post"} : threads' = [threads EXCEPT ![t] = [threads[t] EXCEPT !.pc = pc]]
    BY <1>6 DEF WriteSeat, DeleteJob
  <2>2. [threads[t] EXCEPT !.pc = pc].pc # "check"
    BY DEF TypeOK, Thread
  <2> QED
    BY <1>1, <2>1, <2>2
<1>7. ASSUME NEW t \in Threads, CreateJob(t) PROVE ChecksLeft'
  BY <1>4, <1>7 DEF CreateJob
<1>8. ASSUME NEW t \in Threads, HandlerDies(t) PROVE ChecksLeft'
  BY <1>1, <1>8 DEF HandlerDies, Idle
<1>9. CASE UNCHANGED threads
  BY <1>9 DEF ChecksLeft
<1>10. ASSUME NEW p \in Pods, PodStep(p) \/ PodDies(p) PROVE UNCHANGED threads
  BY <1>10 DEF PodStep, ProvisionStep, ResetStep, DeprovisionStep, Lookup, RecordSeat, StepRead,
       StepWrite, AwaitNamespace, MintToken, Render, MarkReady, Fail, FailWrite, Capture, Restore, FindOwner,
       Teardown, RemoveRecord, DeprovisionRaises, PodDies
<1>11. ASSUME NEW k \in Kinds, NEW h \in Handles, NEW p \in Pods, StartPod(k, h, p)
       PROVE  UNCHANGED threads
  BY <1>11 DEF StartPod
<1> QED
  BY <1>2, <1>3, <1>5, <1>6, <1>7, <1>8, <1>9, <1>10, <1>11 DEF Next, HandlerStep, SiteGone, vars

LEMMA TypesStep == ASSUME TypeOK, ChecksLeft, [Next]_vars PROVE TypeOK'
<1>1. ASSUME NEW t \in Threads, Arrive(t) \/ HandlerStep(t) \/ HandlerDies(t) PROVE TypeOK'
  BY <1>1, HandlerTypes
<1>2. ASSUME NEW k \in Kinds, NEW h \in Handles, NEW p \in Pods, StartPod(k, h, p) PROVE TypeOK'
  BY <1>2, StartPodTypes
<1>3. ASSUME NEW p \in Pods, PodStep(p) \/ PodDies(p) PROVE TypeOK'
  BY <1>3, ProvisionTypes, ResetTypes, DeprovisionTypes DEF PodStep
<1>4. CASE UNCHANGED vars
  BY <1>4 DEF vars, TypeOK
<1>5. ASSUME NEW h \in Handles, SiteGone(h) PROVE TypeOK'
  BY <1>5, BaseRecords DEF SiteGone, TypeOK
<1> QED
  BY <1>1, <1>2, <1>3, <1>4, <1>5 DEF Next

LEMMA InitTypes == Init => TypeOK /\ ChecksLeft
<1> SUFFICES ASSUME Init PROVE TypeOK /\ ChecksLeft
  OBVIOUS
<1>1. seats \in [Handles -> Record]
  BY SeatedAssumption, BaseRecords DEF Init, Record, Phases, Tokens, People
<1>2. site \in [Handles -> Site]
  BY SeatedAssumption, BaseRecords DEF Init, Site, Tokens, People
<1>3. threads \in [Threads -> Thread] /\ pods \in [Pods -> Pod]
  BY IdleType DEF Init
<1>4. jobs \in [Kinds -> [Handles -> Job]]
  BY BaseRecords DEF Init
<1>5. ChecksLeft
  BY DEF Init, ChecksLeft, Idle
<1> QED
  BY <1>1, <1>2, <1>3, <1>4, <1>5 DEF TypeOK

\* Type correctness: no step of a handler, a Job or a pod leaves the types.
THEOREM TypesHold == Spec => [](TypeOK /\ ChecksLeft)
<1>1. TypeOK /\ ChecksLeft /\ [Next]_vars => (TypeOK /\ ChecksLeft)'
  BY TypesStep, ChecksLeftStep
<1> QED
  BY <1>1, InitTypes, PTL DEF Spec

------------------------------------------------------------------------------
(* Nothing at a handle names a person who may not have it. *)

\* What is made out of nothing names nobody in Users.
LEMMA NobodyFits == ASSUME NEW h
                    PROVE  Fits(Blank, h) /\ Fits(NoUser, h) /\ Fits(Absent.user, h)
                           /\ Fits(Corrupt.user, h) /\ Fits(NoSite.user, h) /\ Fits(NoJob.user, h)
  BY PeopleAssumption DEF Fits, Absent, Corrupt, NoSite, NoJob, People

LEMMA IdleFits == /\ \A pc : HandlerFits(Idle(pc))
                  /\ \A pc : PodFits(NoPod(pc))
  BY NobodyFits DEF HandlerFits, PodFits, Idle, NoPod

LEMMA SeenFits == ASSUME TypeOK, InFamily, NEW s \in Seen, NEW h \in Handles
                  PROVE  Fits(s[h].user, h)
<1>1. seats[h] \in Record /\ Fits(seats[h].user, h)
  BY DEF TypeOK, InFamily
<1>2. Parsed(seats[h]).user = seats[h].user
  BY <1>1 DEF Parsed, Record
<1>3. s[h] = Parsed(seats[h]) \/ s[h] = Absent
  BY DEF Seen
<1> QED
  BY <1>1, <1>2, <1>3, NobodyFits

\* allocate_handle gives a person a handle of the person's own.
LEMMA AllocatedFits == ASSUME TypeOK, InFamily, NEW s \in Seen, NEW u \in People,
                              NEW h \in Allocated(u, s)
                       PROVE  Fits(u, h)
<1>1. CASE SeatsOf(u, s) = {}
  <2>1. h \in FirstFree(u, s)
    BY <1>1 DEF Allocated
  <2> QED
    BY <2>1, AllocatedHandles DEF Fits
<1>2. CASE SeatsOf(u, s) # {}
  <2>1. h \in Handles /\ s[h].user = u
    BY <1>2 DEF Allocated, SeatsOf
  <2> QED
    BY <2>1, SeenFits
<1> QED
  BY <1>1, <1>2

LEMMA UserOfFits == ASSUME NEW rec, NEW h, Fits(rec.user, h) PROVE Fits(UserOf(rec), h)
  BY NobodyFits DEF UserOf

\* A step that changes one handler's record keeps InFamily if the new one fits.
LEMMA HandlerChange == ASSUME TypeOK, InFamily, NEW t \in Threads, NEW e, HandlerFits(e),
                              threads' = [threads EXCEPT ![t] = e],
                              UNCHANGED <<seats, jobs, pods, site>>
                       PROVE  InFamily'
  BY DEF InFamily, TypeOK

LEMMA PodChange == ASSUME TypeOK, InFamily, NEW p \in Pods, NEW q, PodFits(q), Advance(p, q)
                   PROVE  \A x \in Pods : PodFits(pods'[x])
  BY DEF InFamily, TypeOK, Advance

LEMMA FinishFits == ASSUME TypeOK, InFamily, NEW p \in Pods, Finish(p)
                    PROVE  /\ \A x \in Pods : PodFits(pods'[x])
                           /\ \A k \in Kinds, h \in Handles : Fits(jobs'[k][h].user, h)
<1>1. \A x \in Pods : PodFits(pods'[x])
  BY IdleFits DEF InFamily, TypeOK, Finish
<1>2. pods[p].kind \in Kinds /\ pods[p].job \in Handles
  BY DEF TypeOK, Pod
<1>3. ASSUME NEW k \in Kinds, NEW h \in Handles PROVE Fits(jobs'[k][h].user, h)
  <2>1. jobs'[k][h] = jobs[k][h] \/ jobs'[k][h].user = Blank
    BY <1>2 DEF Finish, TypeOK
  <2> QED
    BY <2>1, NobodyFits DEF InFamily
<1> QED
  BY <1>1, <1>3

LEMMA StoreFits == ASSUME TypeOK, InFamily, NEW h \in Handles, NEW r, Fits(r.user, h),
                          Store(h, r) \/ TryStore(h, r)
                   PROVE  \A g \in Handles : Fits(seats'[g].user, g)
  BY DEF InFamily, TypeOK, Store, TryStore

LEMMA EnterFits == ASSUME TypeOK, InFamily, NEW t \in Threads, NEW act, NEW u, NEW h, NEW rec,
                          Fits(u, h) \/ (act = "deprovision" /\ h = NullKey),
                          Fits(rec.user, h), Enter(t, act, u, h, rec),
                          UNCHANGED <<seats, jobs, pods, site>>
                   PROVE  InFamily'
<1> DEFINE e == [pc |-> Toward(Checks(act, rec)), act |-> act, user |-> u, handle |-> h,
                 rec |-> rec, checks |-> Checks(act, rec), todo |-> {}]
<1>1. HandlerFits(e)
  BY DEF HandlerFits
<1>2. threads' = [threads EXCEPT ![t] = e]
  BY DEF Enter
<1> HIDE DEF e
<1> QED
  BY <1>1, <1>2, HandlerChange

LEMMA ArriveFits == ASSUME TypeOK, InFamily, NEW t \in Threads, Arrive(t) PROVE InFamily'
<1>0. UNCHANGED <<seats, jobs, pods, site>>
  BY DEF Arrive
<1>1. ASSUME NEW act \in Kinds, NEW u \in Users, OwnSeat(t, act, u) PROVE InFamily'
  <2>1. PICK s \in Seen : \E h \in IF act = "provision" THEN Allocated(u, s)
                ELSE IF SeatsOf(u, s) # {} THEN SeatsOf(u, s) ELSE {NullKey} :
                LET rec == IF SeatsOf(u, s) = {} THEN Absent ELSE s[h] IN
                Admitted(act, rec, s) /\ Enter(t, act, u, h, rec)
    BY <1>1 DEF OwnSeat
  <2> DEFINE rec(h) == IF SeatsOf(u, s) = {} THEN Absent ELSE s[h]
  <2>2. u \in People
    BY DEF People
  <2>3. CASE act = "provision" \/ SeatsOf(u, s) # {}
    <3>1. PICK h \in Allocated(u, s) : Enter(t, act, u, h, rec(h))
      BY <2>1, <2>3 DEF Allocated
    <3>2. h \in Handles /\ Fits(u, h)
      BY <2>2, AllocatedHandles, AllocatedFits
    <3>3. Fits(rec(h).user, h)
      BY <3>2, SeenFits, NobodyFits
    <3> HIDE DEF rec
    <3> QED
      BY <1>0, <3>1, <3>2, <3>3, EnterFits
  <2>4. CASE act # "provision" /\ SeatsOf(u, s) = {}
    <3>1. Admitted(act, Absent, s) /\ Enter(t, act, u, NullKey, Absent)
      BY <2>1, <2>4
    <3>2. act = "deprovision"
      BY <2>4, <3>1 DEF Admitted, Absent, Kinds
    <3> QED
      BY <1>0, <3>1, <3>2, EnterFits, NobodyFits
  <2> QED
    BY <2>3, <2>4
<1>2. ASSUME NEW act \in Kinds, NEW who \in Admins, NEW h \in Handles, AdminSeat(t, act, who, h)
      PROVE  InFamily'
  <2>1. PICK s \in Seen : Enter(t, act, Served(who, s[h]), h, s[h])
    BY <1>2 DEF AdminSeat
  <2>2. Fits(s[h].user, h) /\ Fits(Served(who, s[h]), h)
    BY SeenFits, UserOfFits DEF Served
  <2> QED
    BY <1>0, <2>1, <2>2, EnterFits
<1>3. ASSUME NEW H \in SUBSET Handles, BulkRemove(t, H) PROVE InFamily'
  <2>1. PICK s \in Seen : threads' = [threads EXCEPT ![t] =
           [Idle("pick") EXCEPT !.act = "bulk",
                   !.todo = {[handle |-> h, rec |-> s[h]] :
                               h \in {g \in H : Present(s[g]) /\ s[g].user \notin Admins}}]]
    BY <1>3 DEF BulkRemove
  <2> DEFINE T == {[handle |-> h, rec |-> s[h]] :
                     h \in {g \in H : Present(s[g]) /\ s[g].user \notin Admins}}
             e == [Idle("pick") EXCEPT !.act = "bulk", !.todo = T]
  <2>2. \A x \in T : Fits(x.rec.user, x.handle)
    BY SeenFits
  <2>3. HandlerFits(e)
    BY <2>2, NobodyFits DEF HandlerFits, Idle
  <2> HIDE DEF e
  <2> QED
    BY <1>0, <2>1, <2>3, HandlerChange DEF e
<1> QED
  BY <1>1, <1>2, <1>3 DEF Arrive

LEMMA HandlerStepFits == ASSUME TypeOK, InFamily, NEW t \in Threads,
                                HandlerStep(t) \/ HandlerDies(t)
                         PROVE  InFamily'
<1>0. HandlerFits(threads[t]) /\ threads[t] \in Thread
  BY DEF InFamily, TypeOK
<1>1. CASE PickNext(t)
  <2>1. CASE threads[t].todo = {}
    BY <1>1, <2>1, IdleFits, HandlerChange DEF PickNext
  <2>2. CASE threads[t].todo # {}
    <3> DEFINE new(e) ==
           [pc |-> "check", act |-> "bulk", user |-> UserOf(e.rec), handle |-> e.handle,
            rec |-> e.rec, checks |-> Checks("bulk", e.rec), todo |-> threads[t].todo \ {e}]
    <3>1. PICK e \in threads[t].todo : threads' = [threads EXCEPT ![t] = new(e)]
      BY <1>1, <2>2 DEF PickNext
    <3>2. Fits(e.rec.user, e.handle) /\ Fits(UserOf(e.rec), e.handle)
      BY <1>0, UserOfFits DEF HandlerFits
    <3>3. HandlerFits(new(e))
      BY <1>0, <3>2 DEF HandlerFits
    <3>4. UNCHANGED <<seats, jobs, pods, site>>
      BY <1>1 DEF PickNext
    <3> HIDE DEF new
    <3> QED
      BY <3>1, <3>3, <3>4, HandlerChange
  <2> QED
    BY <2>1, <2>2
<1>2. HandlerFits(Leave(t))
  BY <1>0, IdleFits DEF HandlerFits, Leave, Thread
<1>3. ASSUME NEW pc PROVE HandlerFits([threads[t] EXCEPT !.pc = pc])
  BY <1>0 DEF HandlerFits, Thread
<1>4. CASE CheckJob(t)
  <2>1. HandlerFits([threads[t] EXCEPT !.checks = Tail(@), !.pc = Toward(Tail(threads[t].checks))])
    BY <1>0 DEF HandlerFits, Thread
  <2> QED
    BY <1>2, <1>4, <2>1, HandlerChange DEF CheckJob
<1>5. CASE WriteSeat(t)
  <2>1. threads[t].handle \in Handles
    BY <1>0 DEF Thread
  <2>2. Fits(Written(threads[t]).user, threads[t].handle)
    <3>1. CASE threads[t].act = "provision"
      BY <1>0, <3>1 DEF Written, HandlerFits
    <3>2. CASE threads[t].act # "provision"
      <4>1. Written(threads[t]).user = threads[t].rec.user
        BY <1>0, <3>2 DEF Written, Thread, Requests, Kinds, Record
      <4> QED
        BY <1>0, <4>1 DEF HandlerFits
    <3> QED
      BY <3>1, <3>2
  <2>3. \A g \in Handles : Fits(seats'[g].user, g)
    BY <1>5, <2>1, <2>2, StoreFits DEF WriteSeat
  <2>4. \A x \in Threads : HandlerFits(threads'[x])
    BY <1>3, <1>5 DEF WriteSeat, InFamily, TypeOK
  <2> QED
    BY <1>5, <2>3, <2>4 DEF WriteSeat, InFamily
<1>6. CASE DeleteJob(t)
  <2>1. \A x \in Threads : HandlerFits(threads'[x])
    BY <1>3, <1>6 DEF DeleteJob, InFamily, TypeOK
  <2>2. ASSUME NEW p \in Pods PROVE PodFits(pods'[p])
    <3>1. pods'[p] = pods[p] \/ pods'[p] = [pods[p] EXCEPT !.owned = FALSE]
      BY <1>6 DEF DeleteJob, TypeOK
    <3>2. pods[p] \in Pod /\ PodFits(pods[p])
      BY DEF TypeOK, InFamily
    <3> QED
      BY <3>1, <3>2 DEF PodFits, Pod
  <2>3. JobKind(threads[t].act) \in Kinds /\ threads[t].handle \in Handles
    BY <1>0, JobKindType DEF Thread
  <2>4. ASSUME NEW k \in Kinds, NEW h \in Handles PROVE Fits(jobs'[k][h].user, h)
    <3>1. jobs'[k][h] = jobs[k][h] \/ jobs'[k][h] = NoJob
      BY <1>6, <2>3 DEF DeleteJob, TypeOK
    <3> QED
      BY <3>1, NobodyFits DEF InFamily
  <2> QED
    BY <1>6, <2>1, <2>2, <2>4 DEF DeleteJob, InFamily
<1>7. CASE CreateJob(t)
  <2>1. \A x \in Threads : HandlerFits(threads'[x])
    BY <1>2, <1>7 DEF CreateJob, InFamily, TypeOK
  <2>2. JobKind(threads[t].act) \in Kinds /\ threads[t].handle \in Handles
    BY <1>0, JobKindType DEF Thread
  <2>3. Nameable(threads[t]) => Fits(threads[t].user, threads[t].handle)
    BY <1>0 DEF Nameable, HandlerFits, Fits
  <2>4. ASSUME NEW k \in Kinds, NEW h \in Handles PROVE Fits(jobs'[k][h].user, h)
    <3>1. \/ jobs'[k][h] = jobs[k][h]
          \/ /\ Nameable(threads[t]) /\ h = threads[t].handle
             /\ jobs'[k][h].user = threads[t].user
      BY <1>7, <2>2 DEF CreateJob, TypeOK
    <3> QED
      BY <2>3, <3>1 DEF InFamily
  <2> QED
    BY <1>7, <2>1, <2>4 DEF CreateJob, InFamily
<1>8. CASE HandlerDies(t)
  BY <1>8, IdleFits, HandlerChange DEF HandlerDies
<1> QED
  BY <1>1, <1>4, <1>5, <1>6, <1>7, <1>8 DEF HandlerStep

LEMMA StartPodFits == ASSUME TypeOK, InFamily, NEW k \in Kinds, NEW h \in Handles, NEW p \in Pods,
                             StartPod(k, h, p)
                      PROVE  InFamily'
<1> DEFINE q == [pc |-> FirstPc(k), kind |-> k, job |-> h, handle |-> h, user |-> jobs[k][h].user,
                 rec |-> Absent, tmp |-> Absent, owned |-> TRUE]
<1>1. PodFits(q)
  BY NobodyFits DEF PodFits, InFamily
<1>2. Advance(p, q)
  BY DEF StartPod, Advance
<1>3. \A x \in Pods : PodFits(pods'[x])
  <2> HIDE DEF q
  <2> QED
    BY <1>1, <1>2, PodChange
<1>4. ASSUME NEW l \in Kinds, NEW g \in Handles PROVE Fits(jobs'[l][g].user, g)
  <2>1. jobs'[l][g].user = jobs[l][g].user
    BY DEF StartPod, TypeOK, Job
  <2> QED
    BY <2>1 DEF InFamily
<1> QED
  BY <1>3, <1>4 DEF StartPod, InFamily

LEMMA ProvisionFits == ASSUME TypeOK, InFamily, NEW p \in Pods, ProvisionStep(p) PROVE InFamily'
<1>0. /\ pods[p] \in Pod /\ PodFits(pods[p]) /\ pods[p].handle \in Handles
      /\ pods[p].user \in People /\ pods[p].rec \in Record /\ pods[p].tmp \in Record
  BY DEF TypeOK, InFamily, Pod
<1>1. CASE Lookup(p)
  <2>0. PICK s \in Seen : \E h \in Allocated(pods[p].user, s) :
          Advance(p, [pods[p] EXCEPT !.pc = "record", !.handle = h,
                        !.rec = [s[h] EXCEPT !.user = pods[p].user, !.phase = "provisioning"]])
    BY <1>1 DEF Lookup
  <2>1. PICK h \in Allocated(pods[p].user, s) :
          Advance(p, [pods[p] EXCEPT !.pc = "record", !.handle = h,
                        !.rec = [s[h] EXCEPT !.user = pods[p].user, !.phase = "provisioning"]])
    BY <2>0
  <2> DEFINE q == [pods[p] EXCEPT !.pc = "record", !.handle = h,
                     !.rec = [s[h] EXCEPT !.user = pods[p].user, !.phase = "provisioning"]]
  <2>2. Fits(pods[p].user, h) /\ h \in Handles
    BY <1>0, AllocatedFits, AllocatedHandles
  <2>3. s[h] \in Record
    BY <2>2, SeenRecords DEF TypeOK
  <2>4. pods[p].tmp = Absent
    BY <1>0, <1>1 DEF Lookup, At, PodFits
  <2>5. /\ q.user = pods[p].user /\ q.handle = h /\ q.tmp = Absent /\ q.pc = "record"
        /\ q.rec.user = pods[p].user
    BY <1>0, <2>3, <2>4 DEF Pod, Record
  <2>6. Advance(p, q)
    BY <2>1
  <2> HIDE DEF q
  <2>7. PodFits(q)
    BY <2>2, <2>5, NobodyFits DEF PodFits
  <2>8. \A x \in Pods : PodFits(pods'[x])
    BY <2>6, <2>7, PodChange
  <2> QED
    BY <1>1, <2>8 DEF Lookup, InFamily
<1>2. CASE RecordSeat(p)
  <2>1. PodFits([pods[p] EXCEPT !.pc = "setup"])
    BY <1>0 DEF PodFits, Pod
  <2>2. \A x \in Pods : PodFits(pods'[x])
    BY <1>2, <2>1, PodChange DEF RecordSeat
  <2>3. \A g \in Handles : Fits(seats'[g].user, g)
    BY <1>0, <1>2, StoreFits DEF RecordSeat, PodFits
  <2> QED
    BY <1>2, <2>2, <2>3 DEF RecordSeat, InFamily
<1>3. CASE StepRead(p)
  <2>1. PICK s \in Seen : Advance(p, [pods[p] EXCEPT
         !.pc = IF @ = "setup" THEN "setup-write" ELSE "marking-write",
         !.tmp = [s[pods[p].handle] EXCEPT !.user = pods[p].user, !.phase = "provisioning"]])
    BY <1>3 DEF StepRead
  <2> DEFINE q == [pods[p] EXCEPT
         !.pc = IF @ = "setup" THEN "setup-write" ELSE "marking-write",
         !.tmp = [s[pods[p].handle] EXCEPT !.user = pods[p].user, !.phase = "provisioning"]]
  <2>2. s[pods[p].handle] \in Record
    BY <1>0, SeenRecords DEF TypeOK
  <2>3. /\ q.user = pods[p].user /\ q.handle = pods[p].handle /\ q.rec = pods[p].rec
        /\ q.tmp.user = pods[p].user /\ q.pc # "lookup"
    BY <1>0, <2>2 DEF Pod, Record
  <2>4. Advance(p, q)
    BY <2>1
  <2> HIDE DEF q
  <2>5. PodFits(q)
    BY <1>0, <2>3 DEF PodFits
  <2>6. \A x \in Pods : PodFits(pods'[x])
    BY <2>4, <2>5, PodChange
  <2> QED
    BY <1>3, <2>6 DEF StepRead, InFamily
<1>4. CASE StepWrite(p)
  <2> DEFINE q == [pods[p] EXCEPT !.pc = IF @ = "setup-write" THEN "wait" ELSE "finish",
                                  !.tmp = Absent]
  <2>1. PodFits(q)
    BY <1>0, NobodyFits DEF PodFits, Pod
  <2>2. Advance(p, q)
    BY <1>4 DEF StepWrite
  <2> HIDE DEF q
  <2>3. \A x \in Pods : PodFits(pods'[x])
    BY <2>1, <2>2, PodChange
  <2>4. \A g \in Handles : Fits(seats'[g].user, g)
    BY <1>0, <1>4, StoreFits DEF StepWrite, PodFits
  <2> QED
    BY <1>4, <2>3, <2>4 DEF StepWrite, InFamily
<1>5. CASE MintToken(p)
  <2>1. /\ PodFits([pods[p] EXCEPT !.pc = "render"])
        /\ PodFits([pods[p] EXCEPT !.pc = "render", !.rec.token = p])
    BY <1>0 DEF PodFits, Pod, Record
  <2>2. \A x \in Pods : PodFits(pods'[x])
    BY <1>5, <2>1, PodChange DEF MintToken, TokenInHand
  <2>3. [pods[p].rec EXCEPT !.token = p].user = pods[p].rec.user
    BY <1>0 DEF Record
  <2>4. \A g \in Handles : Fits(seats'[g].user, g)
    <3>1. CASE seats' = seats
      BY <3>1 DEF InFamily
    <3>2. CASE Store(pods[p].handle, [pods[p].rec EXCEPT !.token = p])
      BY <1>0, <2>3, <3>2, StoreFits DEF PodFits
    <3> QED
      BY <1>5, <3>1, <3>2 DEF MintToken, TokenInHand
  <2> QED
    BY <1>5, <2>2, <2>4 DEF MintToken, TokenInHand, InFamily
<1>6. CASE Render(p)
  <2>1. PodFits([pods[p] EXCEPT !.pc = "marking"])
    BY <1>0 DEF PodFits, Pod
  <2>2. \A x \in Pods : PodFits(pods'[x])
    BY <1>6, <2>1, PodChange DEF Render
  <2>3. \A h \in Handles : Fits(site'[h].user, h)
    BY <1>0, <1>6 DEF Render, PodFits, InFamily, TypeOK
  <2> QED
    BY <1>6, <2>2, <2>3 DEF Render, InFamily
<1>7. CASE MarkReady(p)
  <2>1. [pods[p].rec EXCEPT !.phase = "ready"].user = pods[p].rec.user
    BY <1>0 DEF Record
  <2>2. \A g \in Handles : Fits(seats'[g].user, g)
    BY <1>0, <1>7, <2>1, StoreFits DEF MarkReady, PodFits
  <2> QED
    BY <1>7, <2>2, FinishFits DEF MarkReady, InFamily
<1>8. CASE Fail(p)
  <2> DEFINE h == IF pods[p].pc = "lookup" THEN Cands[pods[p].user][1] ELSE pods[p].handle
  <2>1. h \in Handles /\ Fits(pods[p].user, h) /\ Fits(pods[p].rec.user, h)
    <3>1. CASE pods[p].pc = "lookup"
      <4>1. Cands[pods[p].user][1] \in Handles /\ Fits(pods[p].user, Cands[pods[p].user][1])
        BY <1>0, HandleAssumption DEF Fits, Family
      <4>2. pods[p].rec = Absent
        BY <1>0, <3>1 DEF PodFits
      <4> QED
        BY <3>1, <4>1, <4>2, NobodyFits
    <3>2. CASE pods[p].pc # "lookup"
      BY <1>0, <3>2 DEF PodFits
    <3> QED
      BY <3>1, <3>2
  <2>2. PICK s \in Seen : Advance(p, [pods[p] EXCEPT !.pc = "fail-write", !.handle = h,
                     !.tmp = [s[h] EXCEPT !.user = pods[p].user, !.phase = "error"]])
    BY <1>8 DEF Fail
  <2> HIDE DEF h
  <2> DEFINE q == [pods[p] EXCEPT !.pc = "fail-write", !.handle = h,
                     !.tmp = [s[h] EXCEPT !.user = pods[p].user, !.phase = "error"]]
  <2>3. s[h] \in Record
    BY <2>1, SeenRecords DEF TypeOK
  <2>4. /\ q.user = pods[p].user /\ q.handle = h /\ q.rec = pods[p].rec
        /\ q.tmp.user = pods[p].user /\ q.pc = "fail-write"
    BY <1>0, <2>3 DEF Pod, Record
  <2>5. Advance(p, q)
    BY <2>2
  <2> HIDE DEF q
  <2>6. PodFits(q)
    BY <2>1, <2>4 DEF PodFits
  <2>7. \A x \in Pods : PodFits(pods'[x])
    BY <2>5, <2>6, PodChange
  <2> QED
    BY <1>8, <2>7 DEF Fail, InFamily
<1>9. CASE FailWrite(p)
  <2>1. \A g \in Handles : Fits(seats'[g].user, g)
    BY <1>0, <1>9, StoreFits DEF FailWrite, PodFits
  <2> QED
    BY <1>9, <2>1, FinishFits DEF FailWrite, InFamily
<1>10. CASE AwaitNamespace(p)
  <2>1. PodFits([pods[p] EXCEPT !.pc = "token"])
    BY <1>0 DEF PodFits, Pod
  <2>2. \A x \in Pods : PodFits(pods'[x])
    BY <1>10, <2>1, PodChange DEF AwaitNamespace
  <2> QED
    BY <1>10, <2>2 DEF AwaitNamespace, InFamily
<1> QED
  BY <1>1, <1>2, <1>3, <1>4, <1>5, <1>6, <1>7, <1>8, <1>9, <1>10 DEF ProvisionStep

LEMMA ResetFits == ASSUME TypeOK, InFamily, NEW p \in Pods, ResetStep(p) PROVE InFamily'
<1>0. pods[p] \in Pod /\ PodFits(pods[p]) /\ pods[p].handle \in Handles /\ pods[p].rec \in Record
  BY DEF TypeOK, InFamily, Pod
<1>1. CASE Capture(p)
  <2>1. PICK r \in {seats[pods[p].handle], Absent} :
          Advance(p, [pods[p] EXCEPT !.pc = "restore", !.rec = r])
    BY <1>1 DEF Capture
  <2>2. Fits(r.user, pods[p].handle)
    BY <1>0, NobodyFits DEF InFamily
  <2>3. PodFits([pods[p] EXCEPT !.pc = "restore", !.rec = r])
    BY <1>0, <2>2 DEF PodFits, Pod
  <2>4. \A x \in Pods : PodFits(pods'[x])
    BY <2>1, <2>3, PodChange
  <2> QED
    BY <1>1, <2>4 DEF Capture, InFamily
<1>2. CASE Restore(p)
  <2>1. PICK outcome \in {"ready", "error"} :
          TryStore(pods[p].handle, Restored(pods[p].rec, outcome))
    BY <1>2 DEF Restore
  <2>2. Fits(Restored(pods[p].rec, outcome).user, pods[p].handle)
    <3>1. [pods[p].rec EXCEPT !.phase = outcome].user = pods[p].rec.user
      BY <1>0 DEF Record
    <3> QED
      BY <1>0, <3>1, NobodyFits DEF Restored, PodFits
  <2>3. \A g \in Handles : Fits(seats'[g].user, g)
    BY <1>0, <2>1, <2>2, StoreFits
  <2> QED
    BY <1>2, <2>3, FinishFits DEF Restore, InFamily
<1> QED
  BY <1>1, <1>2 DEF ResetStep

LEMMA DeprovisionFits == ASSUME TypeOK, InFamily, NEW p \in Pods, DeprovisionStep(p) \/ PodDies(p)
                         PROVE  InFamily'
<1>0. pods[p] \in Pod /\ PodFits(pods[p]) /\ pods[p].handle \in Handles
  BY DEF TypeOK, InFamily, Pod
<1>1. CASE FindOwner(p)
  <2>1. PICK s \in Seen : Advance(p, [pods[p] EXCEPT !.pc = "teardown",
          !.user = IF s[pods[p].handle].user \in Users THEN s[pods[p].handle].user
                   ELSE pods[p].user])
    BY <1>1 DEF FindOwner
  <2>2. Fits(s[pods[p].handle].user, pods[p].handle)
    BY <1>0, SeenFits
  <2>3. PodFits([pods[p] EXCEPT !.pc = "teardown",
          !.user = IF s[pods[p].handle].user \in Users THEN s[pods[p].handle].user
                   ELSE pods[p].user])
    BY <1>0, <2>2 DEF PodFits, Pod
  <2>4. \A x \in Pods : PodFits(pods'[x])
    BY <2>1, <2>3, PodChange
  <2> QED
    BY <1>1, <2>4 DEF FindOwner, InFamily
<1>2. CASE Teardown(p)
  <2>1. PodFits([pods[p] EXCEPT !.pc = "remove"])
    BY <1>0 DEF PodFits, Pod
  <2>2. \A x \in Pods : PodFits(pods'[x])
    BY <1>2, <2>1, PodChange DEF Teardown
  <2>3. \A h \in Handles : Fits(site'[h].user, h)
    <3>1. PICK going \in BOOLEAN : site' = [site EXCEPT ![pods[p].handle].going = going]
      BY <1>2 DEF Teardown
    <3>2. ASSUME NEW h \in Handles PROVE site'[h].user = site[h].user
      BY <3>1 DEF TypeOK, Site
    <3> QED
      BY <3>2 DEF InFamily
  <2> QED
    BY <1>2, <2>2, <2>3 DEF Teardown, InFamily
<1>3. CASE RemoveRecord(p)
  <2>1. \A g \in Handles : Fits(seats'[g].user, g)
    BY <1>0, <1>3, StoreFits, NobodyFits DEF RemoveRecord
  <2> QED
    BY <1>3, <2>1, FinishFits DEF RemoveRecord, InFamily
<1>4. CASE DeprovisionRaises(p) \/ PodDies(p)
  BY <1>4, FinishFits DEF DeprovisionRaises, PodDies, InFamily
<1> QED
  BY <1>1, <1>2, <1>3, <1>4 DEF DeprovisionStep

LEMMA SiteGoneFits == ASSUME TypeOK, InFamily, NEW h \in Handles, SiteGone(h) PROVE InFamily'
<1>1. \A g \in Handles : Fits(site'[g].user, g)
  BY NobodyFits DEF SiteGone, InFamily, TypeOK
<1> QED
  BY <1>1 DEF SiteGone, InFamily

LEMMA InitFits == Init => InFamily
<1> SUFFICES ASSUME Init PROVE InFamily
  OBVIOUS
<1>1. \A h \in Handles : Fits(seats[h].user, h) /\ Fits(site[h].user, h)
  BY SeatedAssumption, NobodyFits DEF Init, Fits
<1>2. \A k \in Kinds, h \in Handles : Fits(jobs[k][h].user, h)
  BY NobodyFits DEF Init
<1> QED
  BY <1>1, <1>2, IdleFits DEF Init, InFamily

\* Whatever two handlers, a Job and its pod, or two pods do to one seat in whatever order, and
\* whichever of them dies or loses a call, nobody is named at a handle that is not theirs.
THEOREM EveryoneInFamily == Spec => []InFamily
<1> DEFINE IInv == TypeOK /\ ChecksLeft /\ InFamily
<1>1. Init => IInv
  BY InitTypes, InitFits
<1>2. IInv /\ [Next]_vars => IInv'
  <2> SUFFICES ASSUME TypeOK, ChecksLeft, InFamily, [Next]_vars PROVE InFamily'
    BY TypesStep, ChecksLeftStep
  <2>1. CASE UNCHANGED vars
    BY <2>1 DEF vars, InFamily
  <2>2. CASE Next
    BY <2>2, ArriveFits, HandlerStepFits, StartPodFits, ProvisionFits, ResetFits, DeprovisionFits,
       SiteGoneFits DEF Next, PodStep
  <2> QED
    BY <2>1, <2>2
<1>3. IInv => InFamily
  OBVIOUS
<1> QED
  BY <1>1, <1>2, <1>3, PTL DEF Spec

==============================================================================
