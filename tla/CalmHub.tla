------------------------------- MODULE CalmHub -------------------------------
(***************************************************************************)
(* The hub of SeatHub with a history of each handle: whether, since it was *)
(* last free, requests for it came one at a time, no call for it failed    *)
(* and no build of another handle's Job came to it.  Nothing is ruled out: *)
(* requests overlap, calls fail and builds stray as they do in SeatHub,    *)
(* and a handle that meets with it is out of the calm until it is free     *)
(* again.  At calm handles the hub implements SeatLedger.                  *)
(***************************************************************************)
EXTENDS SeatHub

VARIABLE calm   \* the calm handles (the key "null" is no seat's)

Seats == Handles \ {NullKey}

\* The steps in which no call to the API server fails.
Sure == INSTANCE SeatHub WITH Faults <- FALSE

\* Handler t has the seat h in its hand or on its list.
AtSeat(t, h) == /\ threads[t].pc \notin {"new", "end"}
                /\ \/ threads[t].pc # "pick" /\ threads[t].handle = h
                   \/ \E e \in threads[t].todo : e.handle = h
AtPod(p, h) == pods[p].pc \notin {"unborn", "gone"} /\ h \in {pods[p].job, pods[p].handle}

Quiet(h) ==
  /\ \A t \in Threads : ~ AtSeat(t, h)
  /\ \A k \in Kinds : jobs[k][h].st \notin {"pending", "active"}
  /\ \A p \in Pods : ~ AtPod(p, h)

\* No record, nothing under way, and nothing served that is not about to go.
Free(h) == seats[h] = Absent /\ Quiet(h) /\ (site[h].user = NoUser \/ site[h].going)

\* A step at h: something there changes, or the state of a handler or a pod that is there.
Touched(h) ==
  \/ seats'[h] # seats[h] \/ site'[h] # site[h]
  \/ \E k \in Kinds : jobs'[k][h] # jobs[k][h]
  \/ \E t \in Threads : threads'[t] # threads[t] /\ (AtSeat(t, h) \/ AtSeat(t, h)')
  \/ \E p \in Pods : pods'[p] # pods[p] /\ (AtPod(p, h) \/ AtPod(p, h)')

Failed(h) == Touched(h) /\ ~ Sure!Next

\* A request comes for h while another's work there goes on.
Comes(t, h) == threads[t].pc = "new" /\ AtSeat(t, h)'
Crowded(h) == ~ Quiet(h) /\ \E t \in Threads : Comes(t, h)

\* A build is asked for a person while another handler is at work for that person.
Doubled(h) == \E t, x \in Threads :
  /\ Comes(t, h) /\ threads'[t].act = "provision"
  /\ threads[x].pc \notin {"new", "end"} /\ threads[x].user = threads'[t].user

\* A pod works on the seat of another handle than its Job's.
Strayed(h) == \E p \in Pods : AtPod(p, h)' /\ pods'[p].handle # pods'[p].job

CalmInit == Init /\ calm = Seats
CalmNext ==
  /\ Next
  /\ calm' = {h \in Seats :
       IF h \in calm THEN ~ (Failed(h) \/ Crowded(h) \/ Doubled(h) \/ Strayed(h)) ELSE Free(h)'}

calmVars == <<vars, calm>>
CalmSpec == CalmInit /\ [][CalmNext]_calmVars

\* The hub also knows the person "" without a name, when calls fail.
Ledger == INSTANCE SeatLedger WITH
  Handles <- Seats, Users <- People,
  row <- [h \in Seats |->
    IF h \in calm
    THEN [phase |-> seats[h].phase, owner |-> seats[h].user,
          served |-> site[h].user, leaving |-> site[h].going]
    ELSE [phase |-> "lost", owner |-> NoUser, served |-> NoUser, leaving |-> FALSE]]

\* At calm handles the hub keeps the ledger's promise: every record goes through the phases
\* in order, and a seat is ready, vacated and freed only so.
KeepsLedger == Ledger!Spec

\* What the cluster serves at a calm handle is nobody's, the owner's or about to go, and
\* nobody has two seats at calm handles.
ServesOwner == Ledger!ServesOwner
OneEach == Ledger!OneEach

\* Bulk removal never takes a calm seat at which an admin's workshop is served.
AdminsSpared ==
  \A t \in Threads :
    /\ threads[t].act = "bulk" /\ threads[t].pc \in {"write", "delete", "post"}
    /\ threads[t].handle \in calm /\ ~ site[threads[t].handle].going
    => site[threads[t].handle].user \notin Admins

\* The token that a finished build puts on the record of a calm seat is the one its guide was
\* rendered with: with any other the broker refuses the guide's beacons, and nobody is told.
BeaconsAccepted ==
  [][\A h \in calm \cap calm' : seats[h].phase = "provisioning" /\ seats'[h].phase = "ready"
       => seats'[h].token # NoToken /\ seats'[h].token = site[h].token]_calmVars
==============================================================================
