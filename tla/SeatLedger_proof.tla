-------------------------- MODULE SeatLedger_proof --------------------------
(* What the ledger of seats keeps, for any people and handles. *)
EXTENDS SeatLedger, TLAPS

\* One row as it should be: a free handle is nobody's.  With it ServesOwner is inductive.
Good(r) == /\ r \in Row
           /\ r.phase \in {"none", "lost"} => r.owner = NoUser
           /\ ~ r.leaving => r.served \in {NoUser, r.owner}
IInv == row = [h \in Handles |-> row[h]] /\ (\A h \in Handles : Good(row[h])) /\ OneEach

LEMMA InitInv == ASSUME LedgerAssumption PROVE Init => IInv
  BY DEF LedgerAssumption, Init, IInv, Good, Row, OneEach

\* The step of one handle keeps its row good, and makes no owner but a person without a seat.
LEMMA MoveGood == ASSUME IInv, NEW h \in Handles, Move(h)
                  PROVE  /\ Good(row'[h])
                         /\ row'[h].owner \in {NoUser, row[h].owner} \/ Seatless(row'[h].owner)
<1> DEFINE Goal == /\ Good(row'[h])
                   /\ row'[h].owner \in {NoUser, row[h].owner} \/ Seatless(row'[h].owner)
<1>0. Good(row[h]) /\ row[h] \in Row
  BY DEF IInv, Good
<1> USE DEF Good, Row, Records, Serves
<1>1. ASSUME NEW u \in Users, Claim(h, u) PROVE Goal
  BY <1>0, <1>1 DEF Claim
<1>2. CASE Rebuild(h)
  BY <1>0, <1>2 DEF Rebuild, Known
<1>3. CASE Serve(h)
  BY <1>0, <1>3 DEF Serve
<1>4. CASE Built(h) \/ Broken(h)
  BY <1>0, <1>4 DEF Built, Broken
<1>5. CASE BeginReset(h) \/ EndReset(h)
  BY <1>0, <1>5 DEF BeginReset, EndReset
<1>6. CASE BeginRemove(h)
  BY <1>0, <1>6 DEF BeginRemove, Known
<1>7. CASE Vacate(h)
  BY <1>0, <1>7 DEF Vacate
<1>8. CASE GoneAway(h)
  BY <1>0, <1>8 DEF GoneAway
<1>9. CASE Removed(h)
  BY <1>0, <1>9 DEF Removed
<1> QED
  BY <1>1, <1>2, <1>3, <1>4, <1>5, <1>6, <1>7, <1>8, <1>9 DEF Move

\* So does a handle that is lost or found: it is nobody's then.
LEMMA TurnGood == ASSUME NEW h \in Handles, Turn(h)
                  PROVE  Good(row'[h]) /\ row'[h].owner = NoUser
<1>1. Good(Lost) /\ Lost.owner = NoUser
  BY DEF Lost, Good, Row
<1>2. CASE row'[h] = Lost
  BY <1>1, <1>2
<1>3. CASE row'[h] # Lost
  <2>1. PICK s \in Users \cup {NoUser} : \E leaving \in BOOLEAN :
          /\ s # NoUser => leaving
          /\ row'[h] = [phase |-> "none", owner |-> NoUser, served |-> s, leaving |-> leaving]
    BY <1>3 DEF Turn
  <2>2. PICK leaving \in BOOLEAN :
          /\ s # NoUser => leaving
          /\ row'[h] = [phase |-> "none", owner |-> NoUser, served |-> s, leaving |-> leaving]
    BY <2>1
  <2> QED
    BY <2>2 DEF Good, Row
<1> QED
  BY <1>2, <1>3

LEMMA StepInv == ASSUME IInv, [Next]_row PROVE IInv'
<1>1. CASE UNCHANGED row
  BY <1>1 DEF IInv, OneEach
<1>2. CASE Next
  <2>1. PICK h \in Handles : /\ Move(h) \/ Turn(h)
                             /\ \A g \in Handles \ {h} : Turn(g) \/ row'[g] = row[g]
    BY <1>2 DEF Next
  <2>2. \A g \in Handles : Good(row'[g])
    BY <2>1, MoveGood, TurnGood DEF IInv
  <2>3. \A g \in Handles \ {h} : row'[g].owner \in {NoUser, row[g].owner}
    BY <2>1, TurnGood
  <2>4. row'[h].owner \in {NoUser, row[h].owner} \/ Seatless(row'[h].owner)
    BY <2>1, MoveGood, TurnGood
  <2>5. OneEach'
    BY <2>3, <2>4 DEF IInv, OneEach, Seatless
  <2>6. row' = [g \in Handles |-> row'[g]]
    BY <1>2 DEF Next
  <2> QED
    BY <2>2, <2>5, <2>6 DEF IInv
<1> QED
  BY <1>1, <1>2

\* Whatever handlers, Jobs and pods do, as long as they keep the ledger's promise nobody finds
\* another's workshop behind a handle, but one that is about to go.
THEOREM HandlesServeOwners == ASSUME LedgerAssumption PROVE Spec => []ServesOwner
<1>1. IInv => ServesOwner
  BY DEF IInv, Good, ServesOwner
<1>2. IInv /\ [Next]_row => IInv'
  BY StepInv
<1> QED
  BY <1>1, <1>2, InitInv, PTL DEF Spec

\* And nobody ends up with two seats.
THEOREM OneSeatEach == ASSUME LedgerAssumption PROVE Spec => []OneEach
<1>1. IInv => OneEach
  BY DEF IInv
<1>2. IInv /\ [Next]_row => IInv'
  BY StepInv
<1> QED
  BY <1>1, <1>2, InitInv, PTL DEF Spec
=============================================================================
