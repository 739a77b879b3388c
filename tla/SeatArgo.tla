------------------------------ MODULE SeatArgo ------------------------------
(***************************************************************************)
(* What Argo CD holds of the seats.  Two ApplicationSets list the orgs     *)
(* whose repositories they turn into applications, and a policy lists who  *)
(* may see them.  Jobs of different seats rewrite these lists whole, while *)
(* reset-seat.sh takes applications and repositories away under the        *)
(* ApplicationSet controller.  One Job at a time works on a seat.          *)
(***************************************************************************)
EXTENDS Naturals, FiniteSets

CONSTANTS
  Seats,             \* handles
  Agents, Services,  \* repositories of an org, <agent>-agent-gitops and others
  Wares,             \* Wares[h]: those the owner of seat h may publish
  Built,             \* the seats that are there at the start
  Fixed,             \* TRUE: the ApplicationSets list an org that is no seat's, such as user1's
  Faults,            \* the seats whose Jobs' calls may fail
  Deaths,            \* the seats whose Jobs' pods may die, between two steps
  Rare, MaxJobs      \* the seats of Rare get MaxJobs Jobs at most (a bound)

ASSUME ArgoAssumption ==
  /\ Agents \cap Services = {} /\ Built \subseteq Seats
  /\ Wares \in [Seats -> SUBSET (Agents \cup Services)]
  /\ Fixed \in BOOLEAN /\ Faults \subseteq Seats /\ Deaths \subseteq Seats
  /\ Rare \subseteq Seats /\ MaxJobs \in Nat

Lists == {"agents", "services", "policy"}
Kinds == {"build", "reset", "remove"}

VARIABLES
  lists,   \* list -> the seats it has an entry for
  orgs,    \* the seats that have an org
  repos,   \* seat -> the repositories in its org
  apps,    \* seat -> the repositories that Argo CD runs an application of
  phase,   \* seat -> the phase on its record
  pods,    \* seat -> what its Job is doing
  beside,  \* history: <<seat, list>> where its Job changed the list while another held a copy
  jobs     \* the Jobs that each seat of Rare has had

vars == <<lists, orgs, repos, apps, phase, pods, beside, jobs>>

Idle == [kind |-> "reset", pc |-> "idle", todo |-> {}, doing |-> {}, list |-> "agents",
         got |-> {}]

At(h, k, pc) == pods[h].kind \in k /\ pods[h].pc = pc
Goto(h, pc) == pods' = [pods EXCEPT ![h].pc = pc]

\* (Mutant of Ends: an error is noted as a phase that the broker does not know.)
EndsMisnamed(h, p) == /\ pods' = [pods EXCEPT ![h] = Idle]
                      /\ phase' = [phase EXCEPT ![h] = IF p = "error" THEN "failed" ELSE p]
\* The Job of h ends and leaves p on the record; where it is cut short, "busy" stays.
Ends(h, p) == /\ pods' = [pods EXCEPT ![h] = Idle]
              /\ phase' = [phase EXCEPT ![h] = p]

\* The broker starts a Job.
Start(h, k) ==
  /\ pods[h].pc = "idle"
  /\ h \in Rare => jobs[h] < MaxJobs
  /\ jobs' = IF h \in Rare THEN [jobs EXCEPT ![h] = @ + 1] ELSE jobs
  /\ k = "reset" => phase[h] \in {"ready", "error"}
  /\ k = "remove" => phase[h] # "none"
  /\ phase' = [phase EXCEPT ![h] = "busy"]
  /\ pods' = [pods EXCEPT ![h] = [Idle EXCEPT !.kind = k,
                                              !.pc = IF k = "build" THEN "org" ELSE "look"]]
  /\ UNCHANGED <<lists, orgs, repos, apps, beside>>

------------------------------------------------------------------------------
(* reset-seat.sh.  A removal runs it too, and goes on whatever its status.  *)

ScriptEnds(h, ok) ==
  IF pods[h].kind = "reset" THEN Ends(h, IF ok THEN "ready" ELSE "error")
  ELSE pods' = [pods EXCEPT ![h] = [Idle EXCEPT !.kind = "remove", !.pc = "read"]] /\ phase' = phase

\* The agents that run; an application just made may run none yet.  Without one the script is
\* done: "nothing to reset".
Look(h) ==
  /\ At(h, {"reset", "remove"}, "look")
  /\ \/ \E found \in SUBSET (apps[h] \cap Agents) \ {{}} :
          pods' = [pods EXCEPT ![h].pc = "agent", ![h].todo = found] /\ phase' = phase
     \/ ScriptEnds(h, TRUE)
     \/ h \in Faults /\ ScriptEnds(h, FALSE)
  /\ UNCHANGED <<lists, orgs, repos, apps, beside, jobs>>

Stop(h, i) == apps' = [apps EXCEPT ![h] = @ \ {i}]
\* oc delete --wait of the application, when there is one; a get that fails says there is none.
StopApp(h, i) == Stop(h, i) \/ (h \in Faults /\ apps' = apps)
\* curl -X DELETE of the repository, whatever the answer.
DropRepo(h, i) == \/ repos' = [repos EXCEPT ![h] = @ \ {i}]
                  \/ h \in Faults /\ repos' = repos

\* Agents: first the application ...
AgentApp(h) ==
  /\ At(h, {"reset", "remove"}, "agent")
  /\ \E a \in pods[h].todo :
       /\ StopApp(h, a)
       /\ pods' = [pods EXCEPT ![h].pc = "agent-repo", ![h].doing = {a}, ![h].todo = @ \ {a}]
  /\ UNCHANGED <<lists, orgs, repos, phase, beside, jobs>>

\* ... then the repository.
AgentRepo(h) ==
  /\ At(h, {"reset", "remove"}, "agent-repo")
  /\ \E a \in pods[h].doing : DropRepo(h, a)
  /\ Goto(h, IF pods[h].todo = {} THEN "find" ELSE "agent")
  /\ UNCHANGED <<lists, orgs, apps, phase, beside, jobs>>

\* What other repositories the org has; a listing that fails has none.
FindServices(h) ==
  /\ At(h, {"reset", "remove"}, "find")
  /\ LET found == repos[h] \cap Services IN
     \/ /\ found # {}
        /\ pods' = [pods EXCEPT ![h].pc = "service", ![h].todo = found] /\ phase' = phase
     \/ (found = {} \/ h \in Faults) /\ ScriptEnds(h, TRUE)
  /\ UNCHANGED <<lists, orgs, repos, apps, beside, jobs>>

\* Services: first the repository ...
ServiceRepo(h) ==
  /\ At(h, {"reset", "remove"}, "service")
  /\ \E s \in pods[h].todo :
       /\ DropRepo(h, s)
       /\ pods' = [pods EXCEPT ![h].pc = "service-app", ![h].doing = {s}, ![h].todo = @ \ {s}]
  /\ UNCHANGED <<lists, orgs, apps, phase, beside, jobs>>

\* ... then the application.
ServiceApp(h) ==
  /\ At(h, {"reset", "remove"}, "service-app")
  /\ \E s \in pods[h].doing : StopApp(h, s)
  /\ IF pods[h].todo = {} THEN ScriptEnds(h, TRUE) ELSE Goto(h, "service") /\ phase' = phase
  /\ UNCHANGED <<lists, orgs, repos, beside, jobs>>

\* set -e: a deletion that fails, or takes too long, with or without its effect.
ScriptFails(h) ==
  /\ h \in Faults
  /\ \/ At(h, {"reset", "remove"}, "agent") /\ (\E i \in pods[h].todo : StopApp(h, i)) /\ repos' = repos
     \/ At(h, {"reset", "remove"}, "agent-repo") /\ (\E i \in pods[h].doing : DropRepo(h, i)) /\ apps' = apps
     \/ At(h, {"reset", "remove"}, "service") /\ (\E i \in pods[h].todo : DropRepo(h, i)) /\ apps' = apps
     \/ At(h, {"reset", "remove"}, "service-app") /\ (\E i \in pods[h].doing : StopApp(h, i)) /\ repos' = repos
  /\ ScriptEnds(h, FALSE)
  /\ UNCHANGED <<lists, orgs, beside, jobs>>

------------------------------------------------------------------------------
(* provision-seat.py and deprovision-seat.py. *)

MakeOrg(h) ==
  /\ At(h, {"build"}, "org")
  /\ orgs' = orgs \cup {h}
  /\ Goto(h, "read")
  /\ UNCHANGED <<lists, repos, apps, phase, beside, jobs>>

\* The Jobs beside that of h which have read list l and not yet written it.
Holders(h, l) == {g \in Seats \ {h} : pods[g].pc = "write" /\ pods[g].list = l}

\* oc get of a list ...
ReadList(h) ==
  LET l == pods[h].list IN
  /\ At(h, {"build", "remove"}, "read")
  /\ pods' = [pods EXCEPT ![h].pc = "write", ![h].got = lists[l]]
  /\ beside' = IF Holders(h, l) = {} THEN beside \ {<<h, l>>} ELSE beside
  /\ UNCHANGED <<lists, orgs, repos, apps, phase, jobs>>

\* (Mutant of Rewritten: a removal leaves its entry in the second ApplicationSet.)
RewrittenBut(k, h, list, got) ==
  IF k = "build" THEN got \cup {h} ELSE IF list = "services" THEN got ELSE got \ {h}

Rewritten(k, h, list, got) == IF k = "build" THEN got \cup {h} ELSE got \ {h}

\* The entry of a new org is a copy of another's.
NothingToCopy(h) == /\ pods[h].kind = "build" /\ pods[h].list # "policy"
                    /\ pods[h].got = {} /\ ~ Fixed

\* (Mutant of Onward: the second ApplicationSet is passed over.)
OnwardBut(list) == "policy"
Onward(list) == IF list = "agents" THEN "services" ELSE "policy"

\* ... and oc patch with the whole list, if it is to change, whatever has become of it since.
WriteList(h) ==
  LET pod == pods[h]  new == Rewritten(pod.kind, h, pod.list, pod.got) IN
  /\ At(h, {"build", "remove"}, "write")
  /\ ~ NothingToCopy(h)
  /\ lists' = IF new = pod.got THEN lists ELSE [lists EXCEPT ![pod.list] = new]
  /\ beside' = IF new = pod.got \/ Holders(h, pod.list) = {} THEN beside
               ELSE beside \cup {<<h, pod.list>>}
  /\ pods' = [pods EXCEPT ![h] =
       IF pod.list = "policy" THEN [Idle EXCEPT !.kind = pod.kind, !.pc = "after"]
       ELSE [pod EXCEPT !.pc = "read", !.list = Onward(@), !.got = {}]]
  /\ UNCHANGED <<orgs, repos, apps, phase, jobs>>

\* A build marks the seat ready when Mattermost and the guide are done too.
MarkReady(h) ==
  /\ At(h, {"build"}, "after")
  /\ Ends(h, "ready")
  /\ UNCHANGED <<lists, orgs, repos, apps, beside, jobs>>

\* A build that raises says so on the record; a removal that raises just ends.
Raise(h) ==
  /\ pods[h].pc \in {"org", "read", "write", "after", "drop"}
  /\ h \in Faults \/ (pods[h].pc = "write" /\ NothingToCopy(h))
  /\ Ends(h, IF pods[h].kind = "build" THEN "error" ELSE phase[h])
  /\ UNCHANGED <<lists, orgs, repos, apps, beside, jobs>>

\* All repositories left in the org, whatever Gitea answers.
DeleteRepos(h) ==
  /\ At(h, {"remove"}, "after")
  /\ \E left \in IF h \in Faults THEN SUBSET repos[h] ELSE {{}} : repos' = [repos EXCEPT ![h] = left]
  /\ Goto(h, "drop")
  /\ UNCHANGED <<lists, orgs, apps, phase, beside, jobs>>

\* Gitea refuses to delete an org that owns repositories.
OrgGoes(h) == repos[h] = {}

\* The org, and the record.
DropOrg(h) ==
  /\ At(h, {"remove"}, "drop")
  /\ \/ OrgGoes(h) /\ orgs' = orgs \ {h}
     \/ (~ OrgGoes(h) \/ h \in Faults) /\ orgs' = orgs
  /\ Ends(h, "none") \/ (h \in Faults /\ Ends(h, phase[h]))
  /\ UNCHANGED <<lists, repos, apps, beside, jobs>>

PodDies(h) ==
  /\ h \in Deaths /\ pods[h].pc # "idle"
  /\ Ends(h, phase[h])
  /\ UNCHANGED <<lists, orgs, repos, apps, beside, jobs>>

------------------------------------------------------------------------------
(* The attendee and the ApplicationSet controller. *)

\* Developer Hub publishes a new agent or service to the attendee's org.
Publish(h, i) ==
  /\ h \in orgs /\ i \in Wares[h] \ repos[h]
  /\ repos' = [repos EXCEPT ![h] = @ \cup {i}]
  /\ UNCHANGED <<lists, orgs, apps, phase, pods, beside, jobs>>

\* An application is wanted of each repository of the orgs on the list for its kind.
Wanted(h, i) == i \in repos[h] /\ h \in lists[IF i \in Agents THEN "agents" ELSE "services"]

Generate(h, i) ==
  /\ Wanted(h, i) /\ i \notin apps[h]
  /\ apps' = [apps EXCEPT ![h] = @ \cup {i}]
  /\ UNCHANGED <<lists, orgs, repos, phase, pods, beside, jobs>>

Prune(h, i) ==
  /\ i \in apps[h] /\ ~ Wanted(h, i)
  /\ Stop(h, i)
  /\ UNCHANGED <<lists, orgs, repos, phase, pods, beside, jobs>>

------------------------------------------------------------------------------
Init ==
  /\ lists = [l \in Lists |-> Built]
  /\ orgs = Built
  /\ repos = [h \in Seats |-> {}]
  /\ apps = [h \in Seats |-> {}]
  /\ phase = [h \in Seats |-> IF h \in Built THEN "ready" ELSE "none"]
  /\ pods = [h \in Seats |-> Idle]
  /\ beside = {}
  /\ jobs = [h \in Rare |-> 0]

ScriptStep(h) == Look(h) \/ AgentApp(h) \/ AgentRepo(h) \/ FindServices(h) \/ ServiceRepo(h)
                   \/ ServiceApp(h) \/ ScriptFails(h)
PodStep(h) == ScriptStep(h) \/ MakeOrg(h) \/ ReadList(h) \/ WriteList(h) \/ MarkReady(h)
                \/ Raise(h) \/ DeleteRepos(h) \/ DropOrg(h)

Next == \E h \in Seats :
  \/ \E k \in Kinds : Start(h, k)
  \/ PodStep(h) \/ PodDies(h)
  \/ \E i \in Agents \cup Services : Publish(h, i) \/ Generate(h, i) \/ Prune(h, i)

Spec == Init /\ [][Next]_vars

\* The ApplicationSet controller looks again every minute; nothing else needs to go on.
FairSpec == Spec /\ \A h \in Seats, i \in Agents \cup Services : WF_vars(Prune(h, i))

------------------------------------------------------------------------------
Pod == [kind : Kinds,
        pc : {"idle", "look", "agent", "agent-repo", "find", "service", "service-app", "org",
              "read", "write", "after", "drop"},
        todo : SUBSET (Agents \cup Services), doing : SUBSET (Agents \cup Services),
        list : Lists, got : SUBSET Seats]

\* Types; the phases are those that the broker knows.
TypeOK ==
  /\ lists \in [Lists -> SUBSET Seats]
  /\ orgs \subseteq Seats
  /\ repos \in [Seats -> SUBSET (Agents \cup Services)]
  /\ apps \in [Seats -> SUBSET (Agents \cup Services)]
  /\ phase \in [Seats -> {"none", "busy", "ready", "error"}]
  /\ pods \in [Seats -> Pod]
  /\ beside \subseteq Seats \X Lists
  /\ jobs \in [Rare -> 0 .. MaxJobs]

\* A seat that is removed has no entry left in a list ("Remove: everything above, gone"), whatever
\* other Jobs rewrote since, also from copies that were old: but where its own Job changed the
\* list while another held a copy, that other may have undone it.
GoneIsUnlisted ==
  \A h \in Seats : phase[h] = "none" => \A l \in Lists : <<h, l>> \notin beside => h \notin lists[l]

\* A build that succeeds has its seat on every list, with the same exception: its entry outlives
\* all that other Jobs wrote between its own writes and the mark.
BuiltIsListed ==
  [][\A h \in Seats : pods[h].kind = "build" /\ phase[h] # "ready" /\ phase'[h] = "ready"
       => \A l \in Lists : <<h, l>> \notin beside' => h \in lists'[l]]_vars

\* Of a seat that is removed, with that exception, no application goes on for good, though calls
\* failed, a script stopped half-way, or the controller made an application anew under the script.
ComesDown == \A h \in Seats :
  phase[h] = "none" /\ beside \cap ({h} \X Lists) = {} ~> (apps[h] = {} \/ phase[h] # "none")

------------------------------------------------------------------------------
(* What the repository says of the lists and the code does not keep. *)

\* A seat that is removed has no entry left in any list (deploy/salamander-factory-hub/README.md:
\* "everything above, gone"; bulk removal starts the removals of many seats side by side).
GoneFromLists == \A h \in Seats : phase[h] = "none" => \A l \in Lists : h \notin lists[l]
==============================================================================
