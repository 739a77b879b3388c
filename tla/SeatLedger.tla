----------------------------- MODULE SeatLedger -----------------------------
(***************************************************************************)
(* What the hub promises of each seat, told without handlers, Jobs or      *)
(* pods: the phases a record goes through, whose the seat is meanwhile,    *)
(* and what the cluster serves at its handle.  CalmHub implements it.      *)
(*                                                                         *)
(* The promise is made of one handle at a time.  A handle may be lost (the *)
(* hub answers for nothing there any more), and it is found again when it  *)
(* is free.                                                                *)
(***************************************************************************)
CONSTANTS Users, NoUser, Handles,
          Seated   \* the seats that are ready at the start: handle -> person

\* The seats at the start are one person's each.
LedgerAssumption ==
  /\ NoUser \notin Users /\ DOMAIN Seated \subseteq Handles
  /\ \A h \in DOMAIN Seated : Seated[h] \in Users
  /\ \A g, h \in DOMAIN Seated : Seated[g] = Seated[h] => g = h

VARIABLE row   \* handle -> its phase, whose the seat is, whose workshop the cluster serves
               \* there, and whether that is about to go

Row == [phase : {"none", "provisioning", "resetting", "removing", "ready", "error", "lost"},
        owner : Users \cup {NoUser}, served : Users \cup {NoUser}, leaving : BOOLEAN]
LedgerTypeOK == row \in [Handles -> Row]

Lost == [phase |-> "lost", owner |-> NoUser, served |-> NoUser, leaving |-> FALSE]
Known(h) == row[h].phase # "lost"
\* A person has one seat at most.
Seatless(u) == \A h \in Handles : row[h].owner # u

Init == row = [h \in Handles |->
  IF h \in DOMAIN Seated
  THEN [phase |-> "ready", owner |-> Seated[h], served |-> Seated[h], leaving |-> FALSE]
  ELSE [phase |-> "none", owner |-> NoUser, served |-> NoUser, leaving |-> FALSE]]

\* The record at h changes, or what is served there.
Records(h, phase, owner) ==
  row'[h] = [phase |-> phase, owner |-> owner, served |-> row[h].served, leaving |-> row[h].leaving]
Serves(h, served, leaving) ==
  row'[h] = [phase |-> row[h].phase, owner |-> row[h].owner, served |-> served, leaving |-> leaving]

\* A person without a seat asks for one; a workshop that is about to go may still be there.
Claim(h, u) ==
  /\ row[h].phase = "none" /\ Seatless(u)
  /\ Records(h, "provisioning", u)

\* A seat is built anew for its owner, also one whose work was cut short.
Rebuild(h) ==
  /\ Known(h) /\ row[h].phase # "none"
  /\ Records(h, "provisioning", row[h].owner)

\* Nothing is put where the seat before is not gone yet.
Serve(h) ==
  /\ row[h].phase = "provisioning" /\ ~ row[h].leaving
  /\ Serves(h, row[h].owner, FALSE)

\* Only a seat that serves its owner becomes ready by being built.
Built(h) ==
  /\ row[h].phase = "provisioning" /\ row[h].served = row[h].owner /\ ~ row[h].leaving
  /\ Records(h, "ready", row[h].owner)

Broken(h) ==
  /\ row[h].phase = "provisioning"
  /\ Records(h, "error", row[h].owner)

BeginReset(h) ==
  /\ row[h].phase \in {"ready", "error"}
  /\ Records(h, "resetting", row[h].owner)

EndReset(h) ==
  /\ row[h].phase = "resetting"
  /\ \E outcome \in {"ready", "error"} : Records(h, outcome, row[h].owner)

BeginRemove(h) ==
  /\ Known(h) /\ row[h].phase # "none"
  /\ Records(h, "removing", row[h].owner)

\* What is served is told to go; that takes its time.
Vacate(h) ==
  /\ row[h].phase = "removing"
  /\ \E leaving \in BOOLEAN :
       /\ row[h].served # NoUser => leaving
       /\ Serves(h, row[h].served, leaving)

GoneAway(h) ==
  /\ row[h].leaving
  /\ Serves(h, NoUser, FALSE)

\* A record goes when what was served at its handle has gone or has been told to.
Removed(h) ==
  /\ row[h].phase = "removing" /\ (row[h].served = NoUser \/ row[h].leaving)
  /\ Records(h, "none", NoUser)

\* A handle is lost, or one that was is found to be free.
Turn(h) ==
  \/ row'[h] = Lost
  \/ /\ ~ Known(h)
     /\ \E s \in Users \cup {NoUser}, leaving \in BOOLEAN :
          /\ s # NoUser => leaving
          /\ row'[h] = [phase |-> "none", owner |-> NoUser, served |-> s, leaving |-> leaving]

Move(h) ==
  \/ \E u \in Users : Claim(h, u)
  \/ Rebuild(h) \/ Serve(h) \/ Built(h) \/ Broken(h) \/ BeginReset(h) \/ EndReset(h)
  \/ BeginRemove(h) \/ Vacate(h) \/ GoneAway(h) \/ Removed(h)

\* One seat goes on at a time; any number of handles may be lost or found with it.
Next ==
  /\ row' = [h \in Handles |-> row'[h]]
  /\ \E h \in Handles :
       /\ Move(h) \/ Turn(h)
       /\ \A g \in Handles \ {h} : Turn(g) \/ row'[g] = row[g]

Spec == Init /\ [][Next]_row

\* At each handle the cluster serves nobody or the seat's owner, except what is about to go,
\* and one person owns at most one seat: nobody is left with another's workshop.
ServesOwner == \A h \in Handles : ~ row[h].leaving => row[h].served \in {NoUser, row[h].owner}
OneEach == \A g, h \in Handles : row[g].owner = row[h].owner /\ row[g].owner # NoUser => g = h

=============================================================================
