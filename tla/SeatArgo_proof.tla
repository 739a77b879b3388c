--------------------------- MODULE SeatArgo_proof ---------------------------
(* Proofs about SeatArgo, for any seats and repositories, with or without     *)
(* faults and deaths, and whatever Jobs overlap.                              *)
EXTENDS SeatArgo, TLAPS

\* The lists a Job has done with when it is at list l.
Before(l) == CASE l = "agents" -> {} [] l = "services" -> {"agents"}
               [] l = "policy" -> {"agents", "services"}

\* Where no Job changed list l beside another, h has an entry in it, or none.
On(h, l) == <<h, l>> \notin beside => h \in lists[l]
Off(h, l) == <<h, l>> \notin beside => h \notin lists[l]

\* What a Job has read of a list is still what the list holds, but for the seats whose Jobs have
\* changed it beside another's copy.
Copies ==
  \A g, h \in Seats : pods[g].pc = "write" /\ <<h, pods[g].list>> \notin beside
                        => (h \in pods[g].got <=> h \in lists[pods[g].list])

\* The lists a Job has done with are as it wants them.
Listing(h) ==
  /\ pods[h].pc \in {"read", "write", "after"} => pods[h].kind \in {"build", "remove"}
  /\ pods[h].pc \in {"read", "write"} /\ pods[h].kind = "build"
       => \A l \in Before(pods[h].list) : On(h, l)
  /\ pods[h].pc \in {"read", "write"} /\ pods[h].kind = "remove"
       => \A l \in Before(pods[h].list) : Off(h, l)
  /\ pods[h].pc = "after" /\ pods[h].kind = "build" => \A l \in Lists : On(h, l)
  /\ pods[h].pc = "after" /\ pods[h].kind = "remove" => \A l \in Lists : Off(h, l)
  /\ pods[h].pc = "drop" => \A l \in Lists : Off(h, l)
  /\ phase[h] = "none" => pods[h].pc = "idle" /\ \A l \in Lists : Off(h, l)
  /\ pods[h].pc = "org" => pods[h].kind = "build" /\ pods[h].list = "agents"

IInv == TypeOK /\ Copies /\ \A h \in Seats : Listing(h)

------------------------------------------------------------------------------
LEMMA InitInv == Init => IInv
<1> SUFFICES ASSUME Init PROVE IInv
  OBVIOUS
<1>1. Idle \in Pod
  BY DEF Idle, Pod, Kinds, Lists
<1>2. \A h \in Seats : pods[h].pc = "idle"
  BY DEF Init, Idle
<1>3. TypeOK
  BY <1>1, ArgoAssumption DEF Init, TypeOK
<1>4. Copies
  BY <1>2 DEF Copies
<1>5. \A h \in Seats : Listing(h)
  BY <1>2 DEF Init, Listing, Off
<1> QED
  BY <1>3, <1>4, <1>5 DEF IInv

------------------------------------------------------------------------------
(* Types. *)

LEMMA EndsTypes == ASSUME TypeOK, NEW h \in Seats, NEW p \in {"none", "busy", "ready", "error"},
                          Ends(h, p)
                   PROVE  /\ pods' \in [Seats -> Pod]
                          /\ phase' \in [Seats -> {"none", "busy", "ready", "error"}]
<1>1. Idle \in Pod
  BY DEF Idle, Pod, Kinds, Lists
<1> QED
  BY <1>1 DEF TypeOK, Ends

LEMMA ScriptEndsTypes == ASSUME TypeOK, NEW h \in Seats, NEW ok \in BOOLEAN, ScriptEnds(h, ok)
                         PROVE  /\ pods' \in [Seats -> Pod]
                                /\ phase' \in [Seats -> {"none", "busy", "ready", "error"}]
<1>1. [Idle EXCEPT !.kind = "remove", !.pc = "read"] \in Pod
  BY DEF Idle, Pod, Kinds, Lists
<1>2. CASE pods[h].kind = "reset"
  BY <1>2, EndsTypes DEF ScriptEnds
<1>3. CASE pods[h].kind # "reset"
  BY <1>1, <1>3 DEF ScriptEnds, TypeOK
<1> QED
  BY <1>2, <1>3

LEMMA StepTypes == ASSUME TypeOK, [Next]_vars PROVE TypeOK'
<1> USE DEF TypeOK
<1>0. CASE UNCHANGED vars
  BY <1>0 DEF vars
<1>1. ASSUME NEW h \in Seats, NEW k \in Kinds, Start(h, k) PROVE TypeOK'
  <2>1. [Idle EXCEPT !.kind = k, !.pc = IF k = "build" THEN "org" ELSE "look"] \in Pod
    BY DEF Idle, Pod, Kinds, Lists
  <2>2. pods' \in [Seats -> Pod] /\ phase' \in [Seats -> {"none", "busy", "ready", "error"}]
    BY <1>1, <2>1 DEF Start
  <2>3. jobs' \in [Rare -> 0 .. MaxJobs]
    <3>1. MaxJobs \in Nat
      BY ArgoAssumption
    <3>2. ASSUME h \in Rare PROVE jobs[h] + 1 \in 0 .. MaxJobs
      BY <1>1, <3>1, <3>2 DEF Start
    <3> QED
      BY <1>1, <3>2 DEF Start
  <2> QED
    BY <1>1, <2>2, <2>3 DEF Start
<1>2. ASSUME NEW h \in Seats, ScriptStep(h) PROVE TypeOK'
  <2>0. pods[h] \in Pod
    OBVIOUS
  <2>1. CASE Look(h)
    <3>1. CASE ScriptEnds(h, TRUE) \/ ScriptEnds(h, FALSE)
      BY <2>1, <3>1, ScriptEndsTypes DEF Look
    <3>2. ASSUME NEW found \in SUBSET (apps[h] \cap Agents) \ {{}},
                 pods' = [pods EXCEPT ![h].pc = "agent", ![h].todo = found], phase' = phase
          PROVE  TypeOK'
      <4>1. pods' \in [Seats -> Pod]
        BY <2>0, <3>2 DEF Pod
      <4> QED
        BY <2>1, <3>2, <4>1 DEF Look
    <3> QED
      BY <2>1, <3>1, <3>2 DEF Look
  <2>2. CASE AgentApp(h)
    <3>1. PICK a \in pods[h].todo :
            /\ StopApp(h, a)
            /\ pods' = [pods EXCEPT ![h].pc = "agent-repo", ![h].doing = {a}, ![h].todo = @ \ {a}]
      BY <2>2 DEF AgentApp
    <3>2. pods' \in [Seats -> Pod]
      BY <2>0, <3>1 DEF Pod
    <3> QED
      BY <2>2, <3>1, <3>2 DEF AgentApp, StopApp, Stop
  <2>3. CASE AgentRepo(h)
    <3>1. pods' \in [Seats -> Pod]
      BY <2>0, <2>3 DEF AgentRepo, Goto, Pod
    <3> QED
      BY <2>3, <3>1 DEF AgentRepo, DropRepo
  <2>4. CASE FindServices(h)
    <3>1. CASE ScriptEnds(h, TRUE)
      BY <2>4, <3>1, ScriptEndsTypes DEF FindServices
    <3>2. CASE /\ pods' = [pods EXCEPT ![h].pc = "service", ![h].todo = repos[h] \cap Services]
               /\ phase' = phase
      <4>1. pods' \in [Seats -> Pod]
        BY <2>0, <3>2 DEF Pod
      <4> QED
        BY <2>4, <3>2, <4>1 DEF FindServices
    <3> QED
      BY <2>4, <3>1, <3>2 DEF FindServices
  <2>5. CASE ServiceRepo(h)
    <3>1. PICK s \in pods[h].todo :
            /\ DropRepo(h, s)
            /\ pods' = [pods EXCEPT ![h].pc = "service-app", ![h].doing = {s}, ![h].todo = @ \ {s}]
      BY <2>5 DEF ServiceRepo
    <3>2. pods' \in [Seats -> Pod]
      BY <2>0, <3>1 DEF Pod
    <3> QED
      BY <2>5, <3>1, <3>2 DEF ServiceRepo, DropRepo
  <2>6. CASE ServiceApp(h)
    <3>1. apps' \in [Seats -> SUBSET (Agents \cup Services)]
      BY <2>6 DEF ServiceApp, StopApp, Stop
    <3>2. CASE ScriptEnds(h, TRUE)
      BY <2>6, <3>1, <3>2, ScriptEndsTypes DEF ServiceApp
    <3>3. CASE Goto(h, "service") /\ phase' = phase
      <4>1. pods' \in [Seats -> Pod]
        BY <2>0, <3>3 DEF Goto, Pod
      <4> QED
        BY <2>6, <3>1, <3>3, <4>1 DEF ServiceApp
    <3> QED
      BY <2>6, <3>2, <3>3 DEF ServiceApp
  <2>7. CASE ScriptFails(h)
    <3>1. /\ apps' \in [Seats -> SUBSET (Agents \cup Services)]
          /\ repos' \in [Seats -> SUBSET (Agents \cup Services)]
          /\ \A g \in Seats : repos'[g] \subseteq repos[g]
      BY <2>7 DEF ScriptFails, StopApp, Stop, DropRepo
    <3> QED
      BY <2>7, <3>1, ScriptEndsTypes DEF ScriptFails
  <2> QED
    BY <1>2, <2>1, <2>2, <2>3, <2>4, <2>5, <2>6, <2>7 DEF ScriptStep
<1>3. ASSUME NEW h \in Seats, MakeOrg(h) \/ ReadList(h) \/ DeleteRepos(h) PROVE TypeOK'
  <2>0. pods[h] \in Pod
    OBVIOUS
  <2>1. pods' \in [Seats -> Pod]
    BY <2>0, <1>3 DEF MakeOrg, ReadList, DeleteRepos, Goto, Pod
  <2> QED
    BY <1>3, <2>1 DEF MakeOrg, ReadList, DeleteRepos
<1>4. ASSUME NEW h \in Seats, WriteList(h) PROVE TypeOK'
  <2> DEFINE new == Rewritten(pods[h].kind, h, pods[h].list, pods[h].got)
  <2>0. pods[h] \in Pod
    OBVIOUS
  <2>1. lists' \in [Lists -> SUBSET Seats]
    <3>1. new \in SUBSET Seats
      BY <2>0 DEF Rewritten, Pod
    <3>2. lists' = lists \/ lists' = [lists EXCEPT ![pods[h].list] = new]
      BY <1>4 DEF WriteList
    <3> QED
      BY <2>0, <3>1, <3>2 DEF Pod
  <2>2. (IF pods[h].list = "policy" THEN [Idle EXCEPT !.kind = pods[h].kind, !.pc = "after"]
         ELSE [pods[h] EXCEPT !.pc = "read", !.list = Onward(@), !.got = {}]) \in Pod
    <3>1. [pods[h] EXCEPT !.pc = "read", !.list = Onward(@), !.got = {}] \in Pod
      BY <2>0 DEF Pod, Onward, Lists
    <3>2. [Idle EXCEPT !.kind = pods[h].kind, !.pc = "after"] \in Pod
      BY <2>0 DEF Idle, Pod, Kinds, Lists
    <3> QED
      BY <3>1, <3>2
  <2>3. pods' \in [Seats -> Pod]
    BY <1>4, <2>2 DEF WriteList
  <2>4. beside' \subseteq Seats \X Lists
    BY <1>4, <2>0 DEF WriteList, Pod
  <2> QED
    BY <1>4, <2>1, <2>3, <2>4 DEF WriteList
<1>5. ASSUME NEW h \in Seats, Raise(h) \/ MarkReady(h) PROVE TypeOK'
  <2>1. PICK p \in {"none", "busy", "ready", "error"} : Ends(h, p)
    BY <1>5 DEF Raise, MarkReady
  <2> QED
    BY <1>5, <2>1, EndsTypes DEF Raise, MarkReady
<1>6. ASSUME NEW h \in Seats, DropOrg(h) PROVE TypeOK'
  <2>1. PICK p \in {"none", "busy", "ready", "error"} : Ends(h, p)
    BY <1>6 DEF DropOrg
  <2> QED
    BY <1>6, <2>1, EndsTypes DEF DropOrg, OrgGoes
<1>7. ASSUME NEW h \in Seats, PodDies(h) PROVE TypeOK'
  <2>1. PICK p \in {"none", "busy", "ready", "error"} : Ends(h, p)
    BY <1>7 DEF PodDies
  <2> QED
    BY <1>7, <2>1, EndsTypes DEF PodDies
<1>8. ASSUME NEW h \in Seats, NEW i \in Agents \cup Services,
             Publish(h, i) \/ Generate(h, i) \/ Prune(h, i)
      PROVE  TypeOK'
  BY <1>8 DEF Publish, Generate, Prune, Stop
<1> QED
  BY <1>0, <1>1, <1>2, <1>3, <1>4, <1>5, <1>6, <1>7, <1>8 DEF Next, PodStep

------------------------------------------------------------------------------
(* Listing. *)

\* A step after which the Job of h is at no list, or at the first one, and that rewrites no list.
LEMMA OffList == ASSUME IInv, NEW h \in Seats, NEW q, lists' = lists, beside' = beside,
                        pods' = [pods EXCEPT ![h] = q], phase' = [phase EXCEPT ![h] = phase'[h]],
                        q.pc \notin {"write", "after"},
                        q.pc = "read" => q.kind \in {"build", "remove"} /\ q.list = "agents",
                        q.pc # "drop" \/ \A l \in Lists : Off(h, l),
                        phase'[h] = "none" => q.pc = "idle" /\ \A l \in Lists : Off(h, l),
                        q.pc = "org" => q.kind = "build" /\ q.list = "agents"
                 PROVE  Copies' /\ \A g \in Seats : Listing(g)'
<1> USE DEF IInv, TypeOK
<1>1. pods'[h] = q /\ \A g \in Seats \ {h} : pods'[g] = pods[g] /\ phase'[g] = phase[g]
  OBVIOUS
<1>2. Copies'
  BY <1>1 DEF Copies
<1>3. ASSUME NEW g \in Seats, g # h PROVE Listing(g)'
  BY <1>1, <1>3 DEF Listing, On, Off
<1>4. Listing(h)'
  BY <1>1 DEF Listing, Before, On, Off
<1> QED
  BY <1>2, <1>3, <1>4

LEMMA EndsInv == ASSUME IInv, NEW h \in Seats, NEW p, lists' = lists, beside' = beside,
                        Ends(h, p), p = "none" => \A l \in Lists : Off(h, l)
                 PROVE  Copies' /\ \A g \in Seats : Listing(g)'
<1>1. Idle.pc = "idle"
  BY DEF Idle
<1>2. phase' = [phase EXCEPT ![h] = phase'[h]] /\ phase'[h] = p
  BY DEF Ends, IInv, TypeOK
<1> QED
  BY <1>1, <1>2, OffList DEF Ends

LEMMA ScriptEndsInv == ASSUME IInv, NEW h \in Seats, NEW ok, lists' = lists, beside' = beside,
                              ScriptEnds(h, ok), pods[h].pc # "idle"
                       PROVE  Copies' /\ \A g \in Seats : Listing(g)'
<1>1. CASE pods[h].kind = "reset"
  BY <1>1, EndsInv DEF ScriptEnds
<1>2. CASE pods[h].kind # "reset"
  <2> DEFINE q == [Idle EXCEPT !.kind = "remove", !.pc = "read"]
  <2>1. q.kind = "remove" /\ q.pc = "read" /\ q.list = "agents"
    BY DEF Idle
  <2>2. pods' = [pods EXCEPT ![h] = q] /\ phase' = phase
    BY <1>2 DEF ScriptEnds
  <2>3. phase[h] # "none"
    BY DEF IInv, Listing
  <2> HIDE DEF q
  <2>4. phase' = [phase EXCEPT ![h] = phase'[h]] /\ phase'[h] # "none"
    BY <2>2, <2>3 DEF IInv, TypeOK
  <2> QED
    BY <2>1, <2>2, <2>4, OffList
<1> QED
  BY <1>1, <1>2

\* A step that leaves the Job of h at no list and the record as it is.
LEMMA Moves == ASSUME IInv, NEW h \in Seats, NEW q, lists' = lists, beside' = beside,
                      phase' = phase, pods' = [pods EXCEPT ![h] = q], pods[h].pc # "idle",
                      q.pc \notin {"org", "read", "write", "after"},
                      q.pc = "drop" => \A l \in Lists : Off(h, l)
               PROVE  Copies' /\ \A g \in Seats : Listing(g)'
<1>1. phase[h] # "none" /\ phase' = [phase EXCEPT ![h] = phase'[h]]
  BY DEF IInv, Listing, TypeOK
<1> QED
  BY <1>1, OffList

\* A read takes a fresh copy.  It clears the seat only where nobody else holds one.
LEMMA ReadInv == ASSUME IInv, NEW h \in Seats, ReadList(h)
                 PROVE  Copies' /\ \A g \in Seats : Listing(g)'
<1> USE DEF IInv, TypeOK
<1> DEFINE q == [pods[h] EXCEPT !.pc = "write", !.got = lists[pods[h].list]]
<1>0. pods[h] \in Pod /\ pods[h].pc = "read" /\ pods[h].kind \in {"build", "remove"}
  BY DEF ReadList, At
<1>1. /\ q.pc = "write" /\ q.got = lists[pods[h].list]
      /\ q.list = pods[h].list /\ q.kind = pods[h].kind
  BY <1>0 DEF Pod
<1>2. pods' = [pods EXCEPT ![h] = q] /\ lists' = lists /\ phase' = phase
  BY DEF ReadList
<1> HIDE DEF q
<1>3. pods'[h] = q /\ \A g \in Seats \ {h} : pods'[g] = pods[g]
  BY <1>2
<1>4. \/ beside' = beside
      \/ beside' = beside \ {<<h, pods[h].list>>} /\ Holders(h, pods[h].list) = {}
  BY DEF ReadList
<1>5. Copies'
  <2> SUFFICES ASSUME NEW g \in Seats, NEW k \in Seats, pods'[g].pc = "write",
                      <<k, pods'[g].list>> \notin beside'
               PROVE  k \in pods'[g].got <=> k \in lists'[pods'[g].list]
    BY DEF Copies
  <2>1. CASE g = h
    BY <2>1, <1>1, <1>2, <1>3
  <2>2. CASE g # h
    <3>1. pods'[g] = pods[g] /\ pods[g].pc = "write"
      BY <2>2, <1>3
    <3>2. <<k, pods[g].list>> \notin beside
      <4>1. CASE beside' = beside
        BY <4>1, <3>1
      <4>2. CASE beside' = beside \ {<<h, pods[h].list>>} /\ Holders(h, pods[h].list) = {}
        <5>1. pods[g].list # pods[h].list
          BY <2>2, <3>1, <4>2 DEF Holders
        <5> QED
          BY <4>2, <5>1, <3>1
      <4> QED
        BY <1>4, <4>1, <4>2
    <3> QED
      BY <1>2, <3>1, <3>2 DEF Copies
  <2> QED
    BY <2>1, <2>2
<1>6. ASSUME NEW g \in Seats, g # h PROVE Listing(g)'
  <2>1. \A l : <<g, l>> \notin beside' <=> <<g, l>> \notin beside
    BY <1>4, <1>6
  <2> QED
    BY <1>2, <1>3, <1>6, <2>1 DEF Listing, On, Off
<1>7. Listing(h)'
  <2>1. \A l \in Before(pods[h].list) : <<h, l>> \notin beside' => <<h, l>> \notin beside
    BY <1>0, <1>4 DEF Before, Pod, Lists
  <2>2. phase[h] # "none"
    BY <1>0 DEF Listing
  <2> QED
    BY <1>0, <1>1, <1>2, <1>3, <2>1, <2>2 DEF Listing, On, Off
<1> QED
  BY <1>5, <1>6, <1>7

\* A write puts the writer's own entry, and changes nothing of a seat that is not beside.
LEMMA Written ==
  ASSUME IInv, NEW h \in Seats, WriteList(h)
  PROVE  /\ beside \subseteq beside'
         /\ \A k \in Seats, l \in Lists : <<k, l>> \notin beside' =>
              (k \in lists'[l] <=> IF k = h /\ l = pods[h].list THEN pods[h].kind = "build"
                                   ELSE k \in lists[l])
<1> USE DEF IInv, TypeOK
<1> DEFINE new == Rewritten(pods[h].kind, h, pods[h].list, pods[h].got)
<1>1. pods[h].pc = "write" /\ pods[h] \in Pod /\ pods[h].list \in Lists
  BY DEF WriteList, At, Pod
<1>2. lists' = IF new = pods[h].got THEN lists ELSE [lists EXCEPT ![pods[h].list] = new]
  BY DEF WriteList
<1>3. beside \subseteq beside'
  BY DEF WriteList
<1>4. \A k : k \in new <=> IF k = h THEN pods[h].kind = "build" ELSE k \in pods[h].got
  BY DEF Rewritten
<1> HIDE DEF new
<1>5. ASSUME NEW k \in Seats, NEW l \in Lists, <<k, l>> \notin beside'
      PROVE  k \in lists'[l] <=> IF k = h /\ l = pods[h].list THEN pods[h].kind = "build"
                                 ELSE k \in lists[l]
  <2>1. CASE l # pods[h].list
    BY <1>2, <2>1
  <2>2. CASE l = pods[h].list
    <3>1. k \in pods[h].got <=> k \in lists[l]
      BY <1>1, <1>3, <1>5, <2>2 DEF Copies
    <3>2. CASE new = pods[h].got
      BY <1>2, <1>4, <2>2, <3>1, <3>2
    <3>3. CASE new # pods[h].got
      BY <1>1, <1>2, <1>4, <2>2, <3>1, <3>3
    <3> QED
      BY <3>2, <3>3
  <2> QED
    BY <2>1, <2>2
<1> QED
  BY <1>3, <1>5

LEMMA WriteInv == ASSUME IInv, NEW h \in Seats, WriteList(h)
                  PROVE  Copies' /\ \A g \in Seats : Listing(g)'
<1>w. /\ beside \subseteq beside'
      /\ \A k \in Seats, l \in Lists : <<k, l>> \notin beside' =>
           (k \in lists'[l] <=> IF k = h /\ l = pods[h].list THEN pods[h].kind = "build"
                                ELSE k \in lists[l])
  BY Written
<1> USE DEF IInv, TypeOK
<1> DEFINE q == pods'[h]
           new == Rewritten(pods[h].kind, h, pods[h].list, pods[h].got)
<1>0. /\ pods[h] \in Pod /\ pods[h].pc = "write" /\ pods[h].kind \in {"build", "remove"}
      /\ pods[h].list \in Lists
  BY DEF WriteList, At, Pod, Listing
<1>1. phase[h] # "none" /\ phase' = phase
  BY <1>0 DEF Listing, WriteList
<1>2. \/ /\ pods[h].list # "policy" /\ q.pc = "read" /\ q.kind = pods[h].kind
         /\ q.list = Onward(pods[h].list)
      \/ pods[h].list = "policy" /\ q.pc = "after" /\ q.kind = pods[h].kind
  <2>1. CASE pods[h].list # "policy"
    <3> DEFINE r == [pods[h] EXCEPT !.pc = "read", !.list = Onward(@), !.got = {}]
    <3>1. r.pc = "read" /\ r.kind = pods[h].kind /\ r.list = Onward(pods[h].list)
      BY <1>0 DEF Pod
    <3>2. pods' = [pods EXCEPT ![h] = r]
      BY <2>1 DEF WriteList
    <3> HIDE DEF r
    <3> QED
      BY <2>1, <3>1, <3>2
  <2>2. CASE pods[h].list = "policy"
    BY <2>2 DEF WriteList, Idle
  <2> QED
    BY <2>1, <2>2
<1>3. \A g \in Seats \ {h} : pods'[g] = pods[g]
  BY DEF WriteList
<1>b. /\ new # pods[h].got /\ Holders(h, pods[h].list) # {} => <<h, pods[h].list>> \in beside'
      /\ new = pods[h].got => lists' = lists /\ beside' = beside
  BY DEF WriteList
<1> HIDE DEF q, new
<1>4. Copies'
  <2> SUFFICES ASSUME NEW g \in Seats, NEW k \in Seats, pods'[g].pc = "write",
                      <<k, pods'[g].list>> \notin beside'
               PROVE  k \in pods'[g].got <=> k \in lists'[pods'[g].list]
    BY DEF Copies
  <2>1. g # h
    BY <1>2 DEF q
  <2>2. pods'[g] = pods[g] /\ pods[g].list \in Lists /\ <<k, pods[g].list>> \notin beside
    BY <1>3, <1>w, <2>1 DEF Pod
  <2>3. k \in pods[g].got <=> k \in lists[pods[g].list]
    BY <2>2 DEF Copies
  <2>4. CASE k = h /\ pods[g].list = pods[h].list
    <3>1. g \in Holders(h, pods[h].list)
      BY <2>1, <2>2, <2>4 DEF Holders
    <3>2. lists' = lists
      BY <1>b, <2>2, <2>4, <3>1
    <3> QED
      BY <2>2, <2>3, <3>2
  <2>5. CASE ~ (k = h /\ pods[g].list = pods[h].list)
    BY <1>w, <2>2, <2>3, <2>5
  <2> QED
    BY <2>4, <2>5
<1>5. ASSUME NEW g \in Seats, g # h PROVE Listing(g)'
  <2>1. \A l \in Lists : (On(g, l) => On(g, l)') /\ (Off(g, l) => Off(g, l)')
    BY <1>5, <1>w DEF On, Off
  <2>2. Before(pods[g].list) \subseteq Lists
    BY DEF Before, Lists, Pod
  <2>3. pods'[g] = pods[g] /\ phase'[g] = phase[g]
    BY <1>1, <1>3, <1>5
  <2> QED
    BY <2>1, <2>2, <2>3 DEF Listing
<1>6. Listing(h)'
  <2>1. \A l \in Before(pods[h].list) \cup {pods[h].list} :
          IF pods[h].kind = "build" THEN On(h, l)' ELSE Off(h, l)'
    BY <1>0, <1>w DEF Listing, Before, Lists, On, Off
  <2>2. pods[h].list # "policy" =>
          Before(Onward(pods[h].list)) = Before(pods[h].list) \cup {pods[h].list}
    BY <1>0 DEF Before, Onward, Lists
  <2>3. Lists = Before("policy") \cup {"policy"}
    BY DEF Lists, Before
  <2>4. pods'[h] = q
    BY DEF q
  <2> QED
    BY <1>0, <1>1, <1>2, <2>1, <2>2, <2>3, <2>4 DEF Listing
<1> QED
  BY <1>4, <1>5, <1>6

LEMMA StepInv == ASSUME IInv, [Next]_vars PROVE IInv'
<1> DEFINE Goal == Copies' /\ \A g \in Seats : Listing(g)'
<1>1. ASSUME NEW h \in Seats, NEW k \in Kinds, Start(h, k) PROVE Goal
  <2> DEFINE q == [Idle EXCEPT !.kind = k, !.pc = IF k = "build" THEN "org" ELSE "look"]
  <2>1. q.pc \in {"org", "look"} /\ (q.pc = "org" => q.kind = "build" /\ q.list = "agents")
    BY DEF Idle
  <2>2. pods' = [pods EXCEPT ![h] = q] /\ lists' = lists /\ beside' = beside
    BY <1>1 DEF Start
  <2>3. phase' = [phase EXCEPT ![h] = phase'[h]] /\ phase'[h] = "busy"
    BY <1>1 DEF Start, IInv, TypeOK
  <2> HIDE DEF q
  <2> QED
    BY <2>1, <2>2, <2>3, OffList
<1>2. ASSUME NEW h \in Seats, ScriptStep(h) PROVE Goal
  <2>1. lists' = lists /\ beside' = beside /\ pods[h].pc # "idle"
    BY <1>2 DEF ScriptStep, Look, AgentApp, AgentRepo, FindServices, ServiceRepo, ServiceApp,
                ScriptFails, At
  <2>2. CASE ScriptEnds(h, TRUE) \/ ScriptEnds(h, FALSE)
    BY <2>1, <2>2, ScriptEndsInv
  <2>3. CASE ~ (ScriptEnds(h, TRUE) \/ ScriptEnds(h, FALSE))
    <3>1. phase' = phase
      BY <1>2, <2>3 DEF ScriptStep, Look, AgentApp, AgentRepo, FindServices, ServiceRepo,
                        ServiceApp, ScriptFails
    <3>2. pods[h] \in Pod
      BY DEF IInv, TypeOK
    <3>3. /\ pods' = [pods EXCEPT ![h] = pods'[h]]
          /\ pods'[h].pc \in {"agent", "agent-repo", "find", "service", "service-app"}
      <4> DEFINE To(q) == /\ pods' = [pods EXCEPT ![h] = q]
                          /\ q.pc \in {"agent", "agent-repo", "find", "service", "service-app"}
      <4>0. SUFFICES \E q : To(q)
        BY DEF IInv, TypeOK
      <4>1. CASE Look(h)
        <5>1. PICK f : pods' = [pods EXCEPT ![h] = [pods[h] EXCEPT !.pc = "agent", !.todo = f]]
          BY <2>3, <4>1 DEF Look, IInv, TypeOK
        <5>2. [pods[h] EXCEPT !.pc = "agent", !.todo = f].pc = "agent"
          BY <3>2 DEF Pod
        <5> QED
          BY <5>1, <5>2
      <4>2. CASE AgentApp(h)
        <5>1. PICK a \in pods[h].todo :
                pods' = [pods EXCEPT ![h].pc = "agent-repo", ![h].doing = {a}, ![h].todo = @ \ {a}]
          BY <4>2 DEF AgentApp
        <5> DEFINE q == [pods[h] EXCEPT !.pc = "agent-repo", !.doing = {a}, !.todo = @ \ {a}]
        <5>2. q.pc = "agent-repo" /\ pods' = [pods EXCEPT ![h] = q]
          BY <3>2, <5>1 DEF Pod, IInv, TypeOK
        <5> QED
          BY <5>2
      <4>3. CASE AgentRepo(h)
        <5> DEFINE q == [pods[h] EXCEPT !.pc = IF pods[h].todo = {} THEN "find" ELSE "agent"]
        <5>1. q.pc \in {"find", "agent"} /\ pods' = [pods EXCEPT ![h] = q]
          BY <3>2, <4>3 DEF AgentRepo, Goto, Pod, IInv, TypeOK
        <5> HIDE DEF q
        <5> QED
          BY <5>1
      <4>4. CASE FindServices(h)
        <5> DEFINE q == [pods[h] EXCEPT !.pc = "service", !.todo = repos[h] \cap Services]
        <5>1. pods' = [pods EXCEPT ![h].pc = "service", ![h].todo = repos[h] \cap Services]
          BY <2>3, <4>4 DEF FindServices
        <5>2. q.pc = "service" /\ pods' = [pods EXCEPT ![h] = q]
          BY <3>2, <5>1 DEF Pod, IInv, TypeOK
        <5> QED
          BY <5>2
      <4>5. CASE ServiceRepo(h)
        <5>1. PICK s \in pods[h].todo :
                pods' = [pods EXCEPT ![h].pc = "service-app", ![h].doing = {s}, ![h].todo = @ \ {s}]
          BY <4>5 DEF ServiceRepo
        <5> DEFINE q == [pods[h] EXCEPT !.pc = "service-app", !.doing = {s}, !.todo = @ \ {s}]
        <5>2. q.pc = "service-app" /\ pods' = [pods EXCEPT ![h] = q]
          BY <3>2, <5>1 DEF Pod, IInv, TypeOK
        <5> QED
          BY <5>2
      <4>6. CASE ServiceApp(h)
        <5> DEFINE q == [pods[h] EXCEPT !.pc = "service"]
        <5>1. pods' = [pods EXCEPT ![h].pc = "service"]
          BY <2>3, <4>6 DEF ServiceApp, Goto
        <5>2. q.pc = "service" /\ pods' = [pods EXCEPT ![h] = q]
          BY <3>2, <5>1 DEF Pod, IInv, TypeOK
        <5> QED
          BY <5>2
      <4>7. CASE ScriptFails(h)
        BY <2>3, <4>7 DEF ScriptFails
      <4> QED
        BY <1>2, <4>1, <4>2, <4>3, <4>4, <4>5, <4>6, <4>7 DEF ScriptStep
    <3> QED
      BY <2>1, <3>1, <3>3, Moves
  <2> QED
    BY <2>2, <2>3
<1>3. ASSUME NEW h \in Seats, MakeOrg(h) PROVE Goal
  <2> DEFINE q == [pods[h] EXCEPT !.pc = "read"]
  <2>1. pods[h] \in Pod /\ pods[h].kind = "build" /\ pods[h].list = "agents" /\ phase[h] # "none"
    BY <1>3 DEF MakeOrg, At, IInv, TypeOK, Listing
  <2>2. /\ pods' = [pods EXCEPT ![h] = q] /\ lists' = lists /\ beside' = beside
        /\ phase' = phase
    BY <1>3 DEF MakeOrg, Goto
  <2>3. q.pc = "read" /\ q.kind = "build" /\ q.list = "agents"
    BY <2>1 DEF Pod
  <2> HIDE DEF q
  <2>4. phase' = [phase EXCEPT ![h] = phase'[h]] /\ phase'[h] # "none"
    BY <2>1, <2>2 DEF IInv, TypeOK
  <2> QED
    BY <2>2, <2>3, <2>4, OffList
<1>4. ASSUME NEW h \in Seats, ReadList(h) PROVE Goal
  BY <1>4, ReadInv
<1>5. ASSUME NEW h \in Seats, WriteList(h) PROVE Goal
  BY <1>5, WriteInv
<1>6. ASSUME NEW h \in Seats, Raise(h) \/ PodDies(h) \/ MarkReady(h) PROVE Goal
  <2>1. phase[h] # "none" /\ lists' = lists /\ beside' = beside
    BY <1>6 DEF Raise, PodDies, MarkReady, At, IInv, Listing
  <2>2. PICK r \in {"busy", "ready", "error"} : Ends(h, r)
    BY <1>6, <2>1 DEF Raise, PodDies, MarkReady, IInv, TypeOK
  <2> QED
    BY <2>1, <2>2, EndsInv
<1>7. ASSUME NEW h \in Seats, DeleteRepos(h) PROVE Goal
  <2>1. /\ pods[h] \in Pod /\ pods[h].pc = "after" /\ lists' = lists /\ beside' = beside
        /\ phase' = phase /\ \A l \in Lists : Off(h, l)
    BY <1>7 DEF DeleteRepos, At, IInv, TypeOK, Listing
  <2>2. pods' = [pods EXCEPT ![h] = pods'[h]] /\ pods'[h].pc = "drop"
    BY <1>7, <2>1 DEF DeleteRepos, Goto, IInv, TypeOK, Pod
  <2> QED
    BY <2>1, <2>2, Moves
<1>8. ASSUME NEW h \in Seats, DropOrg(h) PROVE Goal
  <2>1. lists' = lists /\ beside' = beside /\ \A l \in Lists : Off(h, l)
    BY <1>8 DEF DropOrg, At, IInv, Listing
  <2>2. Ends(h, "none") \/ Ends(h, phase[h])
    BY <1>8 DEF DropOrg
  <2> QED
    BY <2>1, <2>2, EndsInv
<1>9. ASSUME NEW h \in Seats, NEW i \in Agents \cup Services,
             Publish(h, i) \/ Generate(h, i) \/ Prune(h, i)
      PROVE  Goal
  BY <1>9 DEF Publish, Generate, Prune, IInv, Copies, Listing, On, Off
<1>10. Goal
  <2>1. CASE UNCHANGED vars
    BY <2>1 DEF vars, IInv, Copies, Listing, On, Off
  <2>2. CASE Next
    BY <1>1, <1>2, <1>3, <1>4, <1>5, <1>6, <1>7, <1>8, <1>9, <2>2 DEF Next, PodStep
  <2> QED
    BY <2>1, <2>2
<1> QED
  BY <1>10, StepTypes DEF IInv

------------------------------------------------------------------------------
\* A seat that is removed has no entry left in the ApplicationSets and the policy, whatever call
\* failed, whichever Job died and whatever other Jobs wrote from old copies, with one exception:
\* a list that its own Job changed while another held a copy.
THEOREM GoneStaysUnlisted == Spec => []GoneIsUnlisted
<1>1. IInv /\ [Next]_vars => IInv'
  BY StepInv
<1>2. IInv => GoneIsUnlisted
  BY DEF IInv, Listing, Off, GoneIsUnlisted
<1> QED
  BY <1>1, <1>2, InitInv, PTL DEF Spec

\* A build has its seat ready by the mark, and by nothing else.
LEMMA OnlyMarkReadies ==
  ASSUME IInv, [Next]_vars, NEW h \in Seats,
         pods[h].kind = "build", phase[h] # "ready", phase'[h] = "ready"
  PROVE  MarkReady(h)
<1> USE DEF IInv, TypeOK
<1>1. phase' # phase
  OBVIOUS
<1>2. PICK g \in Seats : (\E k \in Kinds : Start(g, k)) \/ PodStep(g) \/ PodDies(g)
  BY <1>1 DEF Next, vars, Publish, Generate, Prune
<1>3. ~ PodDies(g) /\ \A k \in Kinds : ~ Start(g, k)
  BY DEF PodDies, Ends, Start
<1>4. g = h
  BY <1>1, <1>2, <1>3 DEF PodStep, ScriptStep, Look, AgentApp, AgentRepo, FindServices,
       ServiceRepo, ServiceApp, ScriptFails, ScriptEnds, MakeOrg, ReadList, WriteList, MarkReady,
       Raise, DeleteRepos, DropOrg, Ends
<1>5. ~ ScriptStep(h)
  BY DEF ScriptStep, Look, AgentApp, AgentRepo, FindServices, ServiceRepo, ServiceApp,
         ScriptFails, ScriptEnds, At
<1>6. ~ (MakeOrg(h) \/ ReadList(h) \/ WriteList(h) \/ Raise(h) \/ DeleteRepos(h) \/ DropOrg(h))
  BY <1>1 DEF MakeOrg, ReadList, WriteList, Raise, DeleteRepos, DropOrg, Ends
<1> QED
  BY <1>2, <1>3, <1>4, <1>5, <1>6 DEF PodStep

\* A build that ends well has its seat on every list, whatever other Jobs wrote since, with the
\* same exception.
THEOREM BuildsList == Spec => BuiltIsListed
<1> DEFINE Step == \A h \in Seats : pods[h].kind = "build" /\ phase[h] # "ready" /\ phase'[h] = "ready"
                                    => \A l \in Lists : <<h, l>> \notin beside' => h \in lists'[l]
<1>1. IInv /\ [Next]_vars => IInv'
  BY StepInv
<1>2. IInv /\ [Next]_vars => Step
  <2> SUFFICES ASSUME IInv, [Next]_vars, NEW h \in Seats,
                      pods[h].kind = "build", phase[h] # "ready", phase'[h] = "ready"
               PROVE  \A l \in Lists : <<h, l>> \notin beside' => h \in lists'[l]
    OBVIOUS
  <2>1. MarkReady(h)
    BY OnlyMarkReadies
  <2>2. pods[h].pc = "after" /\ lists' = lists /\ beside' = beside
    BY <2>1 DEF MarkReady, At
  <2> QED
    BY <2>2 DEF IInv, Listing, On
<1>3. IInv /\ [Next]_vars => [Step]_vars
  BY <1>2
<1> HIDE DEF Step
<1>4. Spec => [][Step]_vars
  BY <1>1, <1>3, InitInv, PTL DEF Spec
<1> QED
  BY <1>4 DEF BuiltIsListed, Step

\* Types hold, and no Job leaves a phase on a record that the broker does not know.
THEOREM ArgoTypes == Spec => []TypeOK
<1>1. Init => TypeOK
  BY InitInv DEF IInv
<1>2. TypeOK /\ [Next]_vars => TypeOK'
  BY StepTypes
<1> QED
  BY <1>1, <1>2, PTL DEF Spec
=============================================================================
