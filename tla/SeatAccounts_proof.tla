------------------------- MODULE SeatAccounts_proof -------------------------
(***************************************************************************)
(* Proofs about SeatAccounts, for any doors, subjects, ids, tokens and     *)
(* secrets, any number of failures passed over, and scripts that stop      *)
(* anywhere or not.                                                        *)
(***************************************************************************)
EXTENDS SeatAccounts, TLAPS

\* The steps of a build before which a thing has been made.
WithPerson == BuildSteps \ {"record", "person"}
WithNs == WithPerson \ {"vault", "ns"}
WithUser == WithNs \ {"gitea"}
WithOrg == WithUser \ {"org"}
WithToken == {"note", "pac", "hook", "chat", "ready"}

\* The record while a script is at work, and what is there only together.
Orderly ==
  /\ phase \in {"none", "ready"} => job.pc = "idle"
  /\ job.pc \in BuildSteps => door \in Doors
  /\ job.pc \in WithOrg => org.there
  /\ ns.life = "none" => ns = NoNs
  /\ gitea.id = None => gitea = NoUser

\* What a seat that was last removed completely has, while it is built and when it is ready.
Sound ==
  /\ job.pc \notin RemovalSteps
  /\ ns.life = "active" /\ ns.token # None => ns.token = gitea.token
  /\ org.hook # None => ns.life = "active" /\ ns.pac = org.hook
  /\ job.pc \in WithNs => ns.life = "active"
  /\ job.pc \in {"mint", "keep"} => ns.token = None
  /\ job.pc = "keep" => job.minted # None /\ gitea.token = job.minted
  /\ job.pc \in WithToken => ns.token # None
  /\ job.pc \in {"hook", "chat", "ready"} => ns.pac # None
  /\ job.pc \in {"chat", "ready"} => org.hook = ns.pac
  /\ phase = "ready" => /\ ns.life = "active" /\ ns.token # None
                        /\ ns.pac # None /\ org.there /\ org.hook = ns.pac

PersonAgrees == signin.sub # None
NsAgrees == ns.life = "active" /\ ns.groups = {Attendees, door}
UserAgrees == gitea.id # None /\ (signin.mail => gitea.login = signin.sub)
ChatAgrees == chat.state = "on" /\ chat.key = gitea.id

\* What a build that met no failure has brought in line ...
InLine == job.ok =>
  /\ job.pc \in WithPerson => /\ PersonAgrees /\ job.groups = {Attendees, door}
                              /\ signin.mail => job.sub = signin.sub
  /\ job.pc \in WithNs => NsAgrees
  /\ job.pc \in WithUser => UserAgrees /\ job.uid = gitea.id
  /\ job.pc = "ready" => ChatAgrees

\* ... and what stays so while the seat is ready.
StaysInLine == phase = "ready" /\ clean => PersonAgrees /\ NsAgrees /\ UserAgrees /\ ChatAgrees

\* What a removal that met no failure has taken away so far, and when it is done.
Taken == job.ok =>
  /\ job.pc \in RemovalSteps \ {"revoke", "dropOrg"} => org = NoOrg
  /\ job.pc \in {"dropChat", "leave", "dropNs", "dropVault", "dropRecord"} => gitea = NoUser
  /\ job.pc \in {"leave", "dropNs", "dropVault", "dropRecord"} => chat.state # "on"
  /\ job.pc \in {"dropNs", "dropVault", "dropRecord"} => Attendees \notin signin.groups
  /\ job.pc \in {"dropVault", "dropRecord"} => ns.life # "active"
  /\ job.pc = "dropRecord" => vault = NoVault

IInv == Orderly /\ (whole => Sound) /\ InLine /\ StaysInLine /\ Taken /\ Gone

------------------------------------------------------------------------------
(* Types *)

LEMMA InitTyped == Init => TypeOK
  BY AccountsAssumption DEF Init, TypeOK, NoSignin, NoUser, NoOrg, NoNs, NoVault, NoChat, NoJob,
       Opt, Groups

Steps == BuildSteps \cup RemovalSteps
Hands == [pc : Steps \cup {"idle"}, sub : Opt(Subs), uid : Opt(Uids), minted : Opt(Toks),
          groups : SUBSET Groups, purge : BOOLEAN, ok : BOOLEAN]
HandTyped == job \in Hands /\ slips \in 0..MaxSlips
Signins == [sub : Opt(Subs), mail : BOOLEAN, groups : SUBSET Groups]
Users == [id : Opt(Uids), login : Opt(Subs), token : Opt(Toks)]
Orgs == [there : BOOLEAN, hook : Opt(Keys)]
Workspaces == [life : {"none", "active", "terminating"}, token : Opt(Toks), pac : Opt(Keys),
               groups : SUBSET Groups]
Vaults == [there : BOOLEAN, tid : Opt(Toks)]
Chats == [state : {"none", "on", "off"}, key : Opt(Uids)]
RestTyped ==
  /\ phase \in {"none", "unready", "ready"} /\ door \in Opt(Doors)
  /\ signin \in Signins /\ gitea \in Users /\ org \in Orgs /\ ns \in Workspaces
  /\ vault \in Vaults /\ chat \in Chats /\ whole \in BOOLEAN /\ clean \in BOOLEAN

LEMMA TwoParts == TypeOK <=> HandTyped /\ RestTyped
  BY DEF TypeOK, HandTyped, RestTyped, Hands, Steps, Signins, Users, Orgs, Workspaces, Vaults, Chats

LEMMA NoJobTyped ==
  /\ NoJob \in Hands
  /\ \A purge \in BOOLEAN : [NoJob EXCEPT !.purge = purge] \in Hands
  BY DEF NoJob, Hands, Opt

\* A script that goes on to one of its steps, with or without a failure passed over.
LEMMA GoesTyped ==
  ASSUME HandTyped, NEW hand \in Hands, NEW pc \in Steps, Goes(hand, pc) \/ Slips(hand, pc)
  PROVE  HandTyped'
<1>1. slips \in 0..MaxSlips /\ MaxSlips \in Nat
  BY AccountsAssumption DEF HandTyped
<1>2. [hand EXCEPT !.pc = pc] \in Hands
  BY DEF Hands
<1>3. [hand EXCEPT !.pc = pc, !.ok = FALSE] \in Hands
  BY DEF Hands
<1> QED
  BY <1>1, <1>2, <1>3 DEF Goes, Slips, HandTyped

LEMMA HandStays == HandTyped /\ UNCHANGED <<job, slips>> => HandTyped'
  BY DEF HandTyped

LEMMA HandEnds == HandTyped /\ Ends => HandTyped'
  BY NoJobTyped DEF HandTyped, Ends

LEMMA HandChanges ==
  ASSUME job \in Hands
  PROVE  /\ \A g \in SUBSET Groups, s \in Opt(Subs) : [job EXCEPT !.groups = g, !.sub = s] \in Hands
         /\ \A g \in SUBSET Groups : [job EXCEPT !.groups = g, !.ok = FALSE] \in Hands
         /\ \A u \in Opt(Uids) : [job EXCEPT !.uid = u] \in Hands
         /\ \A t \in Opt(Toks) : [job EXCEPT !.minted = t] \in Hands
  BY DEF Hands

LEMMA OptTyped ==
  /\ Subs \subseteq Opt(Subs) /\ Uids \subseteq Opt(Uids) /\ Toks \subseteq Opt(Toks)
  /\ Keys \subseteq Opt(Keys) /\ Doors \subseteq Opt(Doors) /\ Doors \subseteq Groups
  /\ None \in Opt(Subs) /\ None \in Opt(Uids) /\ None \in Opt(Toks) /\ None \in Opt(Keys)
  /\ None \in Opt(Doors) /\ Attendees \in Groups
  BY DEF Opt, Groups

LEMMA MovedTyped ==
  ASSUME NEW g \in SUBSET Groups, NEW d \in Doors
  PROVE  Moved(g, d) \in SUBSET Groups
  BY DEF Moved, Groups

LEMMA NextHand == TypeOK /\ (job.pc \in BuildSteps => door \in Doors) /\ [Next]_vars => HandTyped'
<1> SUFFICES ASSUME HandTyped, RestTyped, job.pc \in BuildSteps => door \in Doors, [Next]_vars
             PROVE  HandTyped'
  BY TwoParts
<1>j. job \in Hands
  BY DEF HandTyped
<1>s. /\ BuildSteps \subseteq Steps /\ RemovalSteps \subseteq Steps
      /\ "record" \in BuildSteps
  BY DEF Steps, BuildSteps
<1>1. ASSUME NEW d \in Doors, AskBuild(d) PROVE HandTyped'
  BY <1>1, <1>s, NoJobTyped, GoesTyped DEF AskBuild
<1>2. ASSUME NEW purge \in BOOLEAN, AskRemove(purge) PROVE HandTyped'
  BY <1>2, NoJobTyped, GoesTyped DEF AskRemove, Steps, RemovalSteps
<1>3. CASE SignUp \/ NsGone \/ UNCHANGED vars
  BY <1>3, HandStays DEF SignUp, NsGone, vars
<1>4. CASE BuildStops \/ RemovalStops \/ MarkReady \/ DropRecord
  BY <1>4, HandEnds DEF BuildStops, RemovalStops, MarkReady, DropRecord
<1>5. CASE Record \/ Password \/ Org \/ Keep \/ Note \/ PacSecret \/ Hook
  BY <1>5, <1>j, GoesTyped DEF Record, Password, Org, Keep, Note, PacSecret, Hook, Goto, Steps,
       BuildSteps
<1>6. CASE Namespace \/ HaveSecret \/ Chat
  BY <1>6, <1>j, GoesTyped DEF Namespace, HaveSecret, Chat, Goto, Steps, BuildSteps
<1>7. CASE Person
  <2>1. /\ door \in Doors /\ "vault" \in Steps
        /\ signin.groups \in SUBSET Groups /\ signin.sub \in Opt(Subs)
        /\ {Attendees} \in SUBSET Groups /\ None \in Opt(Subs)
    BY <1>7, OptTyped DEF Person, BuildSteps, Steps, RestTyped, Signins
  <2>2. ASSUME NEW g \in SUBSET Groups, NEW s \in Opt(Subs),
               Goes([job EXCEPT !.groups = g, !.sub = s], "vault")
               \/ Slips([job EXCEPT !.groups = g, !.sub = s], "vault")
        PROVE  HandTyped'
    <3>1. [job EXCEPT !.groups = g, !.sub = s] \in Hands
      BY <1>j, HandChanges
    <3> QED
      BY <2>1, <2>2, <3>1, GoesTyped
  <2>3. ASSUME NEW g \in SUBSET Groups, Goes([job EXCEPT !.groups = g, !.ok = FALSE], "vault")
        PROVE  HandTyped'
    <3>1. [job EXCEPT !.groups = g, !.ok = FALSE] \in Hands
      BY <1>j, HandChanges
    <3> QED
      BY <2>1, <2>3, <3>1, GoesTyped
  <2>4. Moved(signin.groups, door) \in SUBSET Groups
    BY <2>1, MovedTyped
  <2>5. \A seen \in BOOLEAN : (IF seen /\ signin.mail THEN signin.sub ELSE None) \in Opt(Subs)
    BY <2>1
  <2>7. /\ {signin.groups, signin.groups \cup {Attendees, door}} \subseteq SUBSET Groups
        /\ (IF signin.mail THEN signin.sub ELSE None) \in Opt(Subs)
    BY <2>1, OptTyped
  <2>8. CASE Goes([job EXCEPT !.groups = Moved(signin.groups, door),
                              !.sub = IF signin.mail THEN signin.sub ELSE None], "vault")
    BY <2>2, <2>4, <2>7, <2>8
  <2>9. CASE \E groups \in {signin.groups, signin.groups \cup {Attendees, door}}, seen \in BOOLEAN :
               Slips([job EXCEPT !.groups = {Attendees},
                                 !.sub = IF seen /\ signin.mail THEN signin.sub ELSE None], "vault")
    BY <2>1, <2>2, <2>5, <2>9
  <2> QED
    BY <1>7, <2>1, <2>3, <2>8, <2>9 DEF Person
<1>8. CASE GiteaUser
  <2>1. PICK u \in Opt(Uids) : Goes([job EXCEPT !.uid = u], "org") \/ Slips([job EXCEPT !.uid = u], "org")
    <3>1. gitea.id \in Opt(Uids)
      BY DEF RestTyped, Users
    <3> QED
      BY <1>8, <3>1, OptTyped DEF GiteaUser
  <2>2. [job EXCEPT !.uid = u] \in Hands /\ "org" \in Steps
    BY <1>j, HandChanges DEF Steps, BuildSteps
  <2> QED
    BY <2>1, <2>2, GoesTyped
<1>9. CASE Mint
  <2>1. CASE Goto("mint")
    BY <1>j, <2>1, GoesTyped DEF Goto, Steps, BuildSteps
  <2>2. ASSUME NEW t \in Toks, Goes([job EXCEPT !.minted = t], "keep") PROVE HandTyped'
    <3>1. [job EXCEPT !.minted = t] \in Hands /\ "keep" \in Steps
      BY <1>j, HandChanges, OptTyped DEF Steps, BuildSteps
    <3> QED
      BY <2>2, <3>1, GoesTyped
  <2> QED
    BY <1>9, <2>1, <2>2 DEF Mint
<1>10. CASE Revoke \/ DropOrg \/ DropUser \/ DropChat \/ Leave \/ DropNs \/ DropVault
  BY <1>10, <1>j, GoesTyped
  DEF Revoke, DropOrg, DropUser, DropChat, Leave, DropNs, DropVault, Goto, Steps, RemovalSteps
<1> QED
  BY <1>1, <1>2, <1>3, <1>4, <1>5, <1>6, <1>7, <1>8, <1>9, <1>10 DEF Next, BuildStep, RemovalStep

LEMMA NextRest == TypeOK /\ (job.pc \in BuildSteps => door \in Doors) /\ [Next]_vars => RestTyped'
<1> SUFFICES ASSUME job \in Hands, RestTyped, job.pc \in BuildSteps => door \in Doors, [Next]_vars
             PROVE  RestTyped'
  BY TwoParts DEF HandTyped
<1> USE OptTyped DEF outside
<1>h. /\ job.sub \in Opt(Subs) /\ job.uid \in Opt(Uids) /\ job.minted \in Opt(Toks)
      /\ job.groups \in SUBSET Groups /\ job.ok \in BOOLEAN
  BY DEF Hands
<1>1. ASSUME NEW d \in Doors, AskBuild(d) PROVE RestTyped'
  BY <1>1 DEF RestTyped, AskBuild
<1>2. ASSUME NEW purge \in BOOLEAN, AskRemove(purge) PROVE RestTyped'
  BY <1>2 DEF RestTyped, AskRemove
<1>3. CASE SignUp
  <2>1. signin' \in Signins
    BY <1>3 DEF SignUp, Signins
  <2> QED
    BY <1>3, <2>1 DEF RestTyped, SignUp
<1>4. CASE NsGone
  <2>1. ns' \in Workspaces
    BY <1>4 DEF NsGone, NoNs, Workspaces
  <2> QED
    BY <1>4, <2>1 DEF RestTyped, NsGone
<1>5. CASE BuildStops \/ RemovalStops
  BY <1>5 DEF RestTyped, BuildStops, RemovalStops
<1>6. CASE Record \/ MarkReady
  BY <1>6, <1>h DEF RestTyped, Record, MarkReady
<1>7. CASE Person
  <2>1. door \in Doors /\ signin.groups \in SUBSET Groups
    BY <1>7 DEF Person, BuildSteps, RestTyped, Signins
  <2>2. \E g \in SUBSET Groups : signin' = [signin EXCEPT !.groups = g]
    <3>1. Moved(signin.groups, door) \in SUBSET Groups
      BY <2>1, MovedTyped
    <3>2. signin = [signin EXCEPT !.groups = signin.groups]
      BY DEF RestTyped, Signins
    <3>3. {signin.groups, signin.groups \cup {Attendees, door}} \subseteq SUBSET Groups
      BY <2>1
    <3> QED
      BY <1>7, <2>1, <3>1, <3>2, <3>3 DEF Person
  <2>3. signin' \in Signins
    BY <2>2 DEF RestTyped, Signins
  <2> QED
    BY <1>7, <2>3 DEF RestTyped, Person
<1>8. CASE Password
  <2>1. vault' \in Vaults
    BY <1>8 DEF RestTyped, Password, Vaults
  <2> QED
    BY <1>8, <2>1 DEF RestTyped, Password
<1>9. CASE Namespace
  <2>1. ns' \in Workspaces
    BY <1>9, <1>h DEF RestTyped, Namespace, Workspaces
  <2> QED
    BY <1>9, <2>1 DEF RestTyped, Namespace
<1>10. CASE GiteaUser
  <2>1. gitea' \in Users
    BY <1>10, <1>h DEF RestTyped, GiteaUser, NoUser, Matched, Users
  <2> QED
    BY <1>10, <2>1 DEF RestTyped, GiteaUser
<1>11. CASE Org
  <2>1. org' \in Orgs
    BY <1>11 DEF RestTyped, Org, Orgs
  <2> QED
    BY <1>11, <2>1 DEF RestTyped, Org
<1>12. CASE HaveSecret
  BY <1>12 DEF RestTyped, HaveSecret
<1>13. CASE Mint
  <2>1. gitea' \in Users
    BY <1>13 DEF RestTyped, Mint, Users
  <2> QED
    BY <1>13, <2>1 DEF RestTyped, Mint
<1>14. CASE Keep
  <2>1. ns' \in Workspaces
    BY <1>14, <1>h DEF RestTyped, Keep, Workspaces
  <2> QED
    BY <1>14, <2>1 DEF RestTyped, Keep
<1>15. CASE Note
  <2>1. vault' \in Vaults
    BY <1>15, <1>h DEF RestTyped, Note, Vaults
  <2> QED
    BY <1>15, <2>1 DEF RestTyped, Note
<1>16. CASE PacSecret
  <2>1. ns' \in Workspaces
    BY <1>16 DEF RestTyped, PacSecret, NewKeys, Workspaces
  <2> QED
    BY <1>16, <2>1 DEF RestTyped, PacSecret
<1>17. CASE Hook
  <2>1. ns.pac \in Opt(Keys)
    BY <1>17 DEF RestTyped, Workspaces
  <2>2. org' \in Orgs
    BY <1>17, <2>1 DEF RestTyped, Hook, Orgs
  <2> QED
    BY <1>17, <2>1, <2>2 DEF RestTyped, Hook
<1>18. CASE Chat
  <2>1. chat' \in Chats
    BY <1>18, <1>h DEF RestTyped, Chat, Chats
  <2> QED
    BY <1>18, <2>1 DEF RestTyped, Chat
<1>19. CASE Revoke
  <2>1. gitea' \in Users
    BY <1>19 DEF RestTyped, Revoke, Users
  <2> QED
    BY <1>19, <2>1 DEF RestTyped, Revoke
<1>20. CASE DropOrg
  <2>1. NoOrg \in Orgs
    BY <1>20 DEF NoOrg, Orgs
  <2>2. org' \in Orgs
    BY <1>20, <2>1 DEF RestTyped, DropOrg
  <2> QED
    BY <1>20, <2>1, <2>2 DEF RestTyped, DropOrg
<1>21. CASE DropUser
  <2>1. gitea' \in Users
    BY <1>21 DEF RestTyped, DropUser, NoUser, Users
  <2> QED
    BY <1>21, <2>1 DEF RestTyped, DropUser
<1>22. CASE DropChat
  <2>1. chat' \in Chats
    BY <1>22 DEF RestTyped, DropChat, NoChat, Off, Chats
  <2> QED
    BY <1>22, <2>1 DEF RestTyped, DropChat
<1>23. CASE Leave
  <2>1. NoSignin \in Signins
    BY <1>23 DEF NoSignin, Signins
  <2>2. [signin EXCEPT !.groups = @ \ {Attendees}] \in Signins
    BY <1>23 DEF RestTyped, Signins
  <2>3. signin' \in Signins
    BY <1>23, <2>1, <2>2 DEF RestTyped, Leave
  <2> QED
    BY <1>23, <2>1, <2>2, <2>3 DEF RestTyped, Leave
<1>24. CASE DropNs
  <2>1. ns' \in Workspaces
    BY <1>24 DEF RestTyped, DropNs, Workspaces
  <2> QED
    BY <1>24, <2>1 DEF RestTyped, DropNs
<1>25. CASE DropVault
  <2>1. vault' \in Vaults
    BY <1>25 DEF RestTyped, DropVault, NoVault, Vaults
  <2> QED
    BY <1>25, <2>1 DEF RestTyped, DropVault
<1>26. CASE DropRecord
  BY <1>26, <1>h DEF RestTyped, DropRecord
<1>27. CASE UNCHANGED vars
  BY <1>27 DEF RestTyped, vars
<1> QED
  BY <1>1, <1>2, <1>3, <1>4, <1>5, <1>6, <1>7, <1>8, <1>9, <1>10, <1>11, <1>12, <1>13, <1>14,
     <1>15, <1>16, <1>17, <1>18, <1>19, <1>20, <1>21, <1>22, <1>23, <1>24, <1>25, <1>26, <1>27
  DEF Next, BuildStep, RemovalStep

------------------------------------------------------------------------------
(* What the steps with more than one outcome do, field by field *)

SameHand(hand) ==
  /\ job'.sub = hand.sub /\ job'.uid = hand.uid /\ job'.minted = hand.minted
  /\ job'.groups = hand.groups /\ job'.purge = hand.purge

LEMMA HandAfter ==
  ASSUME NEW hand \in Hands, NEW pc
  PROVE  /\ Goes(hand, pc) => job'.pc = pc /\ job'.ok = hand.ok /\ SameHand(hand)
         /\ Slips(hand, pc) => job'.pc = pc /\ job'.ok = FALSE /\ SameHand(hand)
  BY DEF Goes, Slips, SameHand, Hands

LEMMA HandAfterIts ==
  ASSUME job \in Hands, NEW pc
  PROVE  /\ Goto(pc) => job'.pc = pc /\ job'.ok = job.ok /\ SameHand(job)
         /\ Slips(job, pc) => job'.pc = pc /\ job'.ok = FALSE /\ SameHand(job)
  BY HandAfter DEF Goto

LEMMA MovedIs ==
  ASSUME NEW g \in SUBSET Groups, NEW d \in Doors
  PROVE  Moved(g, d) = {Attendees, d}
  BY AccountsAssumption DEF Moved, Groups

LEMMA PersonDoes ==
  ASSUME TypeOK, Person, door \in Doors
  PROVE  /\ job.pc = "person"
         /\ UNCHANGED <<phase, door, gitea, org, ns, vault, chat, whole, clean>>
         /\ job'.pc = "vault"
         /\ signin'.sub = signin.sub /\ signin'.mail = signin.mail
         /\ job'.ok => /\ job.ok /\ signin.sub # None
                       /\ signin'.groups = {Attendees, door} /\ job'.groups = {Attendees, door}
                       /\ signin.mail => job'.sub = signin.sub
<1>t. job \in Hands /\ RestTyped
  BY TwoParts DEF HandTyped
<1>s. signin.groups \in SUBSET Groups /\ signin.sub \in Opt(Subs) /\ signin \in Signins
  BY <1>t DEF RestTyped, Signins
<1>1. ASSUME signin.sub # None, signin' = [signin EXCEPT !.groups = Moved(signin.groups, door)],
             Goes([job EXCEPT !.groups = Moved(signin.groups, door),
                              !.sub = IF signin.mail THEN signin.sub ELSE None], "vault")
      PROVE  /\ job'.pc = "vault" /\ job'.ok = job.ok /\ job'.groups = {Attendees, door}
             /\ signin'.sub = signin.sub /\ signin'.mail = signin.mail
             /\ signin'.groups = {Attendees, door}
             /\ signin.mail => job'.sub = signin.sub
  <2>1. Moved(signin.groups, door) = {Attendees, door}
    BY <1>s, MovedIs
  <2>2. job' = [job EXCEPT !.groups = {Attendees, door},
                           !.sub = IF signin.mail THEN signin.sub ELSE None, !.pc = "vault"]
    BY <1>1, <2>1, <1>t DEF Goes, Hands
  <2>3. /\ signin'.sub = signin.sub /\ signin'.mail = signin.mail
        /\ signin'.groups = {Attendees, door}
    BY <1>1, <2>1, <1>s DEF Signins
  <2> QED
    BY <2>2, <2>3, <1>t DEF Hands
<1>2. ASSUME signin.sub = None, signin' = signin,
             Goes([job EXCEPT !.groups = {Attendees}, !.ok = FALSE], "vault")
      PROVE  job'.pc = "vault" /\ ~ job'.ok
  BY <1>2, <1>t DEF Goes, Hands
<1>3. ASSUME NEW groups, signin' = [signin EXCEPT !.groups = groups],
             NEW sub, Slips([job EXCEPT !.groups = {Attendees}, !.sub = sub], "vault")
      PROVE  /\ job'.pc = "vault" /\ ~ job'.ok
             /\ signin'.sub = signin.sub /\ signin'.mail = signin.mail
  BY <1>3, <1>s, <1>t DEF Slips, Hands, Signins
<1> QED
  BY <1>1, <1>2, <1>3 DEF Person

LEMMA NamespaceDoes ==
  ASSUME TypeOK, Namespace
  PROVE  /\ job.pc = "ns" /\ UNCHANGED <<phase, door, signin, gitea, org, vault, chat, clean>>
         /\ job'.pc = "gitea" /\ SameHand(job) /\ (job'.ok => job.ok)
         /\ ns'.token = ns.token /\ ns'.pac = ns.pac /\ ns'.groups = job.groups
         /\ \/ ns.life # "terminating" /\ ns'.life = "active" /\ whole' = whole
            \/ ns'.life = "terminating" /\ ~ whole' /\ ~ job'.ok
<1>t. job \in Hands /\ ns \in Workspaces
  BY TwoParts DEF HandTyped, RestTyped
<1> QED
  BY <1>t, HandAfterIts DEF Namespace, CanMake, Workspaces

LEMMA GiteaUserDoes ==
  ASSUME TypeOK, GiteaUser
  PROVE  /\ job.pc = "gitea"
         /\ UNCHANGED <<phase, door, signin, org, ns, vault, chat, whole, clean>>
         /\ job'.pc = "org" /\ job'.uid = gitea'.id /\ gitea'.id # None
         /\ job'.groups = job.groups /\ job'.sub = job.sub
         /\ job'.ok => job.ok /\ (job.sub # None => gitea'.login = job.sub)
         /\ \/ gitea' = [id |-> gitea'.id, login |-> gitea'.login, token |-> None] /\ gitea.id = None
            \/ gitea'.token = gitea.token /\ gitea'.id = gitea.id
<1>t. job \in Hands /\ gitea \in Users
  BY TwoParts DEF HandTyped, RestTyped
<1>g. job.pc = "gitea" /\ UNCHANGED <<phase, door, signin, org, ns, vault, chat, whole, clean>>
  BY DEF GiteaUser
<1>1. ASSUME NEW u, Goes([job EXCEPT !.uid = u], "org")
      PROVE  /\ job'.pc = "org" /\ job'.uid = u /\ job'.ok = job.ok
             /\ job'.groups = job.groups /\ job'.sub = job.sub
  BY <1>1, <1>t DEF Goes, Hands
<1>2. ASSUME NEW u, Slips([job EXCEPT !.uid = u], "org")
      PROVE  /\ job'.pc = "org" /\ job'.uid = u /\ ~ job'.ok
             /\ job'.groups = job.groups /\ job'.sub = job.sub
  BY <1>2, <1>t DEF Slips, Hands
<1>3. CASE \E u \in Uids : gitea' = [NoUser EXCEPT !.id = u, !.login = job.sub]
                           /\ Goes([job EXCEPT !.uid = u], "org") /\ gitea.id = None
  <2>1. PICK u \in Uids : gitea' = [NoUser EXCEPT !.id = u, !.login = job.sub]
                          /\ Goes([job EXCEPT !.uid = u], "org") /\ gitea.id = None
    BY <1>3
  <2>2. gitea' = [id |-> u, login |-> job.sub, token |-> None]
    BY <2>1 DEF NoUser
  <2>3. u # None
    BY AccountsAssumption
  <2> QED
    BY <2>1, <2>2, <2>3, <1>1, <1>g
<1>4. CASE gitea.id # None /\ gitea' = [gitea EXCEPT !.login = Matched(gitea.login, job.sub)]
           /\ Goes([job EXCEPT !.uid = gitea.id], "org")
  <2>1. /\ gitea'.id = gitea.id /\ gitea'.token = gitea.token
        /\ job.sub # None => gitea'.login = job.sub
    BY <1>4, <1>t DEF Users, Matched
  <2> QED
    BY <1>4, <1>1, <2>1, <1>g
<1>5. CASE gitea.id # None /\ gitea' = gitea /\ Slips([job EXCEPT !.uid = gitea.id], "org")
  BY <1>5, <1>2, <1>g
<1> QED
  BY <1>3, <1>4, <1>5 DEF GiteaUser

LEMMA HaveSecretDoes ==
  ASSUME TypeOK, HaveSecret
  PROVE  /\ job.pc = "token"
         /\ UNCHANGED <<phase, door, signin, gitea, org, ns, vault, chat, clean>>
         /\ SameHand(job) /\ (job'.ok => job.ok) /\ (whole' => whole)
         /\ \/ job'.pc = "pac" /\ ns.token # None
            \/ job'.pc = "mint" /\ (whole' => ns.token = None)
<1>t. job \in Hands
  BY TwoParts DEF HandTyped
<1>g. job.pc = "token" /\ UNCHANGED <<phase, door, signin, gitea, org, ns, vault, chat, clean>>
  BY DEF HaveSecret, outside
<1>1. CASE ns.token # None /\ Goto("pac") /\ whole' = whole
  BY <1>t, <1>g, <1>1, HandAfterIts
<1>2. CASE ns.token = None /\ Goto("mint") /\ whole' = whole
  BY <1>t, <1>g, <1>2, HandAfterIts
<1>3. CASE Slips(job, "mint") /\ whole' = FALSE
  BY <1>t, <1>g, <1>3, HandAfterIts
<1> QED
  BY <1>1, <1>2, <1>3 DEF HaveSecret, Has, outside

LEMMA MintDoes ==
  ASSUME TypeOK, Mint
  PROVE  /\ job.pc = "mint"
         /\ UNCHANGED <<phase, door, signin, org, ns, vault, chat, whole, clean>>
         /\ gitea'.id = gitea.id /\ gitea'.login = gitea.login
         /\ job'.uid = job.uid /\ job'.sub = job.sub /\ job'.groups = job.groups /\ job'.ok = job.ok
         /\ \/ job'.pc = "mint" /\ gitea'.token = None /\ gitea.token # None
            \/ job'.pc = "keep" /\ gitea'.token = job'.minted /\ job'.minted # None /\ gitea.id # None
<1>t. job \in Hands /\ gitea \in Users
  BY TwoParts DEF HandTyped, RestTyped
<1>g. job.pc = "mint" /\ UNCHANGED <<phase, door, signin, org, ns, vault, chat, whole, clean>>
  BY DEF Mint
<1>1. CASE gitea.token # None /\ gitea' = [gitea EXCEPT !.token = None] /\ Goto("mint")
  BY <1>1, <1>g, <1>t, HandAfterIts DEF SameHand, Users
<1>2. ASSUME gitea.id # None, NEW t \in Toks, gitea' = [gitea EXCEPT !.token = t],
             Goes([job EXCEPT !.minted = t], "keep")
      PROVE  /\ gitea'.id = gitea.id /\ gitea'.login = gitea.login
             /\ job'.uid = job.uid /\ job'.sub = job.sub /\ job'.groups = job.groups /\ job'.ok = job.ok
             /\ job'.pc = "keep" /\ gitea'.token = job'.minted /\ job'.minted # None
  <2>1. t # None
    BY AccountsAssumption
  <2>2. job' = [job EXCEPT !.minted = t, !.pc = "keep"]
    BY <1>2, <1>t DEF Goes, Hands
  <2> QED
    BY <1>2, <2>1, <2>2, <1>t DEF Hands, Users
<1> QED
  BY <1>1, <1>2 DEF Mint

LEMMA ChatDoes ==
  ASSUME TypeOK, Chat
  PROVE  /\ job.pc = "chat"
         /\ UNCHANGED <<phase, door, signin, gitea, org, ns, vault, whole, clean>>
         /\ job'.pc = "ready" /\ SameHand(job)
         /\ job'.ok => job.ok /\ chat'.state = "on" /\ chat'.key = job.uid
<1>t. job \in Hands
  BY TwoParts DEF HandTyped
<1>g. job.pc = "chat" /\ UNCHANGED <<phase, door, signin, gitea, org, ns, vault, whole, clean>>
  BY DEF Chat
<1>1. CASE chat' = [state |-> "on", key |-> job.uid] /\ Goto("ready")
  BY <1>t, <1>g, <1>1, HandAfterIts
<1>2. CASE Slips(job, "ready")
  BY <1>t, <1>g, <1>2, HandAfterIts
<1> QED
  BY <1>1, <1>2 DEF Chat

LEMMA RevokeDoes ==
  ASSUME TypeOK, Revoke
  PROVE  /\ job.pc = "revoke"
         /\ UNCHANGED <<phase, door, signin, org, ns, vault, chat, whole, clean>>
         /\ job'.pc = "dropOrg" /\ SameHand(job) /\ (job'.ok => job.ok)
         /\ gitea'.id = gitea.id /\ gitea'.login = gitea.login
         /\ gitea'.token \in {None, gitea.token}
<1>t. job \in Hands /\ gitea \in Users
  BY TwoParts DEF HandTyped, RestTyped
<1>1. [gitea EXCEPT !.token = None].id = gitea.id /\ [gitea EXCEPT !.token = None].login = gitea.login
      /\ [gitea EXCEPT !.token = None].token = None
  BY <1>t DEF Users
<1> QED
  BY <1>t, <1>1, HandAfterIts DEF Revoke

LEMMA DropOrgDoes ==
  ASSUME TypeOK, DropOrg
  PROVE  /\ job.pc = "dropOrg"
         /\ UNCHANGED <<phase, door, signin, gitea, ns, vault, chat, whole, clean>>
         /\ job'.pc = "dropUser" /\ SameHand(job) /\ (job'.ok => job.ok /\ org' = NoOrg)
         /\ org' \in {NoOrg, org}
<1>t. job \in Hands
  BY TwoParts DEF HandTyped
<1> QED
  BY <1>t, HandAfterIts DEF DropOrg

LEMMA DropUserDoes ==
  ASSUME TypeOK, DropUser
  PROVE  /\ job.pc = "dropUser"
         /\ UNCHANGED <<phase, door, signin, org, ns, vault, chat, whole, clean>>
         /\ job'.pc = "dropChat" /\ SameHand(job) /\ (job'.ok => job.ok /\ gitea' = NoUser)
         /\ gitea' \in {NoUser, gitea}
<1>t. job \in Hands
  BY TwoParts DEF HandTyped
<1> QED
  BY <1>t, HandAfterIts DEF DropUser

LEMMA DropChatDoes ==
  ASSUME TypeOK, DropChat
  PROVE  /\ job.pc = "dropChat"
         /\ UNCHANGED <<phase, door, signin, gitea, org, ns, vault, whole, clean>>
         /\ job'.pc = "leave" /\ SameHand(job) /\ (job'.ok => job.ok /\ chat'.state # "on")
<1>t. job \in Hands /\ chat \in Chats
  BY TwoParts DEF HandTyped, RestTyped
<1>1. NoChat.state # "on" /\ [chat EXCEPT !.state = Off(chat.state)].state # "on"
  BY <1>t DEF NoChat, Chats, Off
<1> QED
  BY <1>t, <1>1, HandAfterIts DEF DropChat

LEMMA LeaveDoes ==
  ASSUME TypeOK, Leave
  PROVE  /\ job.pc = "leave"
         /\ UNCHANGED <<phase, door, gitea, org, ns, vault, chat, whole, clean>>
         /\ job'.pc = "dropNs" /\ SameHand(job)
         /\ job'.ok => job.ok /\ Attendees \notin signin'.groups
<1>t. job \in Hands /\ signin \in Signins
  BY TwoParts DEF HandTyped, RestTyped
<1>1. /\ Attendees \notin NoSignin.groups
      /\ Attendees \notin [signin EXCEPT !.groups = signin.groups \ {Attendees}].groups
  BY <1>t DEF NoSignin, Signins
<1> QED
  BY <1>t, <1>1, HandAfterIts DEF Leave

------------------------------------------------------------------------------
(* The invariant *)

LEMMA OrderlyStays ==
  ASSUME TypeOK, Orderly, [Next]_vars
  PROVE  Orderly'
<1>t. job \in Hands /\ RestTyped
  BY TwoParts DEF HandTyped
<1> USE <1>t, AccountsAssumption DEF Orderly, NoNs, NoUser, RestTyped, Hands, Signins, Users,
     Orgs, Workspaces, Vaults, Chats, Steps, BuildSteps, RemovalSteps, WithPerson, WithNs,
     WithUser, WithOrg, WithToken, outside, Goes, Goto, Slips
<1>1. ASSUME NEW d \in Doors, AskBuild(d) PROVE Orderly'
  BY <1>1 DEF AskBuild, NoJob
<1>2. ASSUME NEW purge \in BOOLEAN, AskRemove(purge) PROVE Orderly'
  BY <1>2 DEF AskRemove, NoJob
<1>3. CASE SignUp
  BY <1>3 DEF SignUp
<1>4. CASE NsGone
  BY <1>4 DEF NsGone, NoNs
<1>5. CASE BuildStops
  BY <1>5 DEF BuildStops, Ends, NoJob
<1>6. CASE RemovalStops
  BY <1>6 DEF RemovalStops, Ends, NoJob
<1>7. CASE Record
  BY <1>7 DEF Record
<1>8. CASE Person
  <2>1. job.pc = "person" /\ door \in Doors
    BY <1>8 DEF Person
  <2> QED
    BY <1>8, <2>1, PersonDoes DEF SameHand
<1>9. CASE Password
  BY <1>9 DEF Password
<1>10. CASE Namespace
  BY <1>10, NamespaceDoes DEF SameHand
<1>11. CASE GiteaUser
  BY <1>11, GiteaUserDoes DEF SameHand, NoUser
<1>12. CASE Org
  BY <1>12 DEF Org
<1>13. CASE HaveSecret
  BY <1>13, HaveSecretDoes DEF SameHand
<1>14. CASE Mint
  BY <1>14, MintDoes DEF SameHand
<1>15. CASE Keep
  BY <1>15 DEF Keep
<1>16. CASE Note
  BY <1>16 DEF Note
<1>17. CASE PacSecret
  BY <1>17 DEF PacSecret, NewKeys, Has
<1>18. CASE Hook
  BY <1>18 DEF Hook
<1>19. CASE Chat
  BY <1>19, ChatDoes DEF SameHand
<1>20. CASE MarkReady
  BY <1>20 DEF MarkReady, Ends, NoJob
<1>21. CASE Revoke
  <2>1. gitea.id = None => gitea' = NoUser
    BY <1>21 DEF Revoke
  <2> QED
    BY <1>21, <2>1, RevokeDoes
<1>22. CASE DropOrg
  BY <1>22, DropOrgDoes DEF SameHand, NoOrg
<1>23. CASE DropUser
  BY <1>23, DropUserDoes DEF SameHand, NoUser
<1>24. CASE DropChat
  BY <1>24, DropChatDoes DEF SameHand, NoChat, Off
<1>25. CASE Leave
  BY <1>25, LeaveDoes DEF SameHand, NoSignin
<1>26. CASE DropNs
  BY <1>26 DEF DropNs
<1>27. CASE DropVault
  BY <1>27 DEF DropVault, NoVault
<1>28. CASE DropRecord
  BY <1>28 DEF DropRecord, Ends, NoJob
<1>29. CASE UNCHANGED vars
  BY <1>29 DEF vars
<1> QED
  BY <1>1, <1>2, <1>3, <1>4, <1>5, <1>6, <1>7, <1>8, <1>9, <1>10, <1>11, <1>12, <1>13, <1>14,
       <1>15, <1>16, <1>17, <1>18, <1>19, <1>20, <1>21, <1>22, <1>23, <1>24, <1>25, <1>26,
       <1>27, <1>28, <1>29 DEF Next, BuildStep, RemovalStep

\* The history "whole" becomes true with the end of a removal only, which found everything taken.
LEMMA SoundStays ==
  ASSUME TypeOK, Orderly, Taken, whole => Sound, whole', [Next]_vars
  PROVE  Sound'
<1>t. job \in Hands /\ RestTyped
  BY TwoParts DEF HandTyped
<1> USE <1>t, AccountsAssumption DEF Orderly, Sound, NoOrg, Taken, RestTyped, Hands, Signins,
     Users, Orgs, Workspaces, Vaults, Chats, Steps, BuildSteps, RemovalSteps, WithPerson, WithNs,
     WithUser, WithOrg, WithToken, outside, Goes, Goto, Slips
<1>1. ASSUME NEW d \in Doors, AskBuild(d) PROVE Sound'
  BY <1>1 DEF AskBuild, NoJob
<1>2. ASSUME NEW purge \in BOOLEAN, AskRemove(purge) PROVE Sound'
  BY <1>2 DEF AskRemove, NoJob
<1>3. CASE SignUp
  BY <1>3 DEF SignUp
<1>4. CASE NsGone
  BY <1>4 DEF NsGone, NoNs
<1>5. CASE BuildStops
  BY <1>5 DEF BuildStops, Ends, NoJob
<1>6. CASE RemovalStops
  BY <1>6 DEF RemovalStops, Ends, NoJob
<1>7. CASE Record
  BY <1>7 DEF Record
<1>8. CASE Person
  <2>1. job.pc = "person" /\ door \in Doors
    BY <1>8 DEF Person
  <2> QED
    BY <1>8, <2>1, PersonDoes DEF SameHand
<1>9. CASE Password
  BY <1>9 DEF Password
<1>10. CASE Namespace
  <2>1. CASE ns.life # "terminating" /\ ns'.life = "active" /\ whole' = whole
    <3>1. ns.life = "none" => ns.token = None
      BY DEF NoNs
    <3> QED
      BY <1>10, <2>1, <3>1, NamespaceDoes DEF SameHand
  <2>2. CASE ~ whole'
    BY <2>2
  <2> QED
    BY <1>10, <2>1, <2>2, NamespaceDoes
<1>11. CASE GiteaUser
  <2>1. CASE gitea.id = None
    <3>1. gitea.token = None
      BY <2>1 DEF NoUser
    <3>2. gitea'.token = None
      BY <1>11, <2>1, <3>1, GiteaUserDoes
    <3> QED
      BY <1>11, <2>1, <3>1, <3>2, GiteaUserDoes
  <2>2. CASE gitea.id # None
    BY <1>11, <2>2, GiteaUserDoes
  <2> QED
    BY <2>1, <2>2
<1>12. CASE Org
  BY <1>12 DEF Org
<1>13. CASE HaveSecret
  BY <1>13, HaveSecretDoes DEF SameHand
<1>14. CASE Mint
  BY <1>14, MintDoes DEF SameHand
<1>15. CASE Keep
  BY <1>15 DEF Keep
<1>16. CASE Note
  BY <1>16 DEF Note
<1>17. CASE PacSecret
  BY <1>17 DEF PacSecret, NewKeys, Has
<1>18. CASE Hook
  BY <1>18 DEF Hook
<1>19. CASE Chat
  BY <1>19, ChatDoes DEF SameHand
<1>20. CASE MarkReady
  BY <1>20 DEF MarkReady, Ends, NoJob
<1>21. CASE Revoke
  BY <1>21, RevokeDoes DEF SameHand
<1>22. CASE DropOrg
  BY <1>22, DropOrgDoes DEF SameHand, NoOrg
<1>23. CASE DropUser
  BY <1>23, DropUserDoes DEF SameHand, NoUser
<1>24. CASE DropChat
  BY <1>24, DropChatDoes DEF SameHand, NoChat, Off
<1>25. CASE Leave
  BY <1>25, LeaveDoes DEF SameHand, NoSignin
<1>26. CASE DropNs
  BY <1>26 DEF DropNs
<1>27. CASE DropVault
  BY <1>27 DEF DropVault, NoVault
<1>28. CASE DropRecord
  <2>1. CASE whole' = job.ok /\ phase' = "none"
    <3>1. job.pc = "dropRecord" /\ job'.pc = "idle" /\ UNCHANGED <<org, ns>>
      BY <1>28 DEF DropRecord, Ends, NoJob
    <3>2. org = NoOrg /\ ns.life # "active"
      BY <2>1, <3>1
    <3> QED
      BY <2>1, <3>1, <3>2
  <2>2. CASE whole' = whole
    BY <1>28, <2>2 DEF DropRecord, Ends, NoJob
  <2> QED
    BY <1>28, <2>1, <2>2 DEF DropRecord
<1>29. CASE UNCHANGED vars
  BY <1>29 DEF vars
<1> QED
  BY <1>1, <1>2, <1>3, <1>4, <1>5, <1>6, <1>7, <1>8, <1>9, <1>10, <1>11, <1>12, <1>13, <1>14,
       <1>15, <1>16, <1>17, <1>18, <1>19, <1>20, <1>21, <1>22, <1>23, <1>24, <1>25, <1>26,
       <1>27, <1>28, <1>29 DEF Next, BuildStep, RemovalStep

LEMMA InLineStays ==
  ASSUME TypeOK, Orderly, InLine, [Next]_vars
  PROVE  InLine'
<1>t. job \in Hands /\ RestTyped
  BY TwoParts DEF HandTyped
<1> USE <1>t, AccountsAssumption DEF Orderly, InLine, PersonAgrees, NsAgrees, UserAgrees,
     ChatAgrees, RestTyped, Hands, Signins, Users, Orgs, Workspaces, Vaults, Chats, Steps,
     BuildSteps, RemovalSteps, WithPerson, WithNs, WithUser, WithOrg, WithToken, outside, Goes,
     Goto, Slips
<1>1. ASSUME NEW d \in Doors, AskBuild(d) PROVE InLine'
  BY <1>1 DEF AskBuild, NoJob
<1>2. ASSUME NEW purge \in BOOLEAN, AskRemove(purge) PROVE InLine'
  BY <1>2 DEF AskRemove, NoJob
<1>3. CASE SignUp
  BY <1>3 DEF SignUp
<1>4. CASE NsGone
  BY <1>4 DEF NsGone, NoNs
<1>5. CASE BuildStops
  BY <1>5 DEF BuildStops, Ends, NoJob
<1>6. CASE RemovalStops
  BY <1>6 DEF RemovalStops, Ends, NoJob
<1>7. CASE Record
  BY <1>7 DEF Record
<1>8. CASE Person
  <2>1. job.pc = "person" /\ door \in Doors
    BY <1>8 DEF Person
  <2> QED
    BY <1>8, <2>1, PersonDoes DEF SameHand
<1>9. CASE Password
  BY <1>9 DEF Password
<1>10. CASE Namespace
  BY <1>10, NamespaceDoes DEF SameHand
<1>11. CASE GiteaUser
  <2>1. /\ job.pc = "gitea" /\ job'.pc = "org" /\ gitea'.id # None /\ job'.uid = gitea'.id
        /\ UNCHANGED <<door, signin, ns>>
    BY <1>11, GiteaUserDoes
  <2>2. job'.ok => job.ok /\ job'.groups = job.groups /\ job'.sub = job.sub
    BY <1>11, GiteaUserDoes
  <2>3. job'.ok => (signin.mail => gitea'.login = signin.sub)
    BY <1>11, GiteaUserDoes
  <2> QED
    BY <2>1, <2>2, <2>3
<1>12. CASE Org
  BY <1>12 DEF Org
<1>13. CASE HaveSecret
  BY <1>13, HaveSecretDoes DEF SameHand
<1>14. CASE Mint
  BY <1>14, MintDoes DEF SameHand
<1>15. CASE Keep
  BY <1>15 DEF Keep
<1>16. CASE Note
  BY <1>16 DEF Note
<1>17. CASE PacSecret
  BY <1>17 DEF PacSecret, NewKeys, Has
<1>18. CASE Hook
  BY <1>18 DEF Hook
<1>19. CASE Chat
  BY <1>19, ChatDoes DEF SameHand
<1>20. CASE MarkReady
  BY <1>20 DEF MarkReady, Ends, NoJob
<1>21. CASE Revoke
  BY <1>21, RevokeDoes DEF SameHand
<1>22. CASE DropOrg
  BY <1>22, DropOrgDoes DEF SameHand, NoOrg
<1>23. CASE DropUser
  BY <1>23, DropUserDoes DEF SameHand, NoUser
<1>24. CASE DropChat
  BY <1>24, DropChatDoes DEF SameHand, NoChat, Off
<1>25. CASE Leave
  BY <1>25, LeaveDoes DEF SameHand, NoSignin
<1>26. CASE DropNs
  BY <1>26 DEF DropNs
<1>27. CASE DropVault
  BY <1>27 DEF DropVault, NoVault
<1>28. CASE DropRecord
  BY <1>28 DEF DropRecord, Ends, NoJob
<1>29. CASE UNCHANGED vars
  BY <1>29 DEF vars
<1> QED
  BY <1>1, <1>2, <1>3, <1>4, <1>5, <1>6, <1>7, <1>8, <1>9, <1>10, <1>11, <1>12, <1>13, <1>14,
       <1>15, <1>16, <1>17, <1>18, <1>19, <1>20, <1>21, <1>22, <1>23, <1>24, <1>25, <1>26,
       <1>27, <1>28, <1>29 DEF Next, BuildStep, RemovalStep

\* While a seat is ready no script is at work on it, and all that was brought in line stays so.
LEMMA StillInLine ==
  ASSUME TypeOK, Orderly, InLine, StaysInLine, [Next]_vars
  PROVE  StaysInLine'
<1>t. job \in Hands /\ RestTyped
  BY TwoParts DEF HandTyped
<1> USE <1>t, AccountsAssumption DEF Orderly, InLine, StaysInLine, PersonAgrees, NsAgrees,
     UserAgrees, ChatAgrees, RestTyped, Hands, Signins, Users, Orgs, Workspaces, Vaults, Chats,
     Steps, BuildSteps, RemovalSteps, WithPerson, WithNs, WithUser, WithOrg, WithToken, outside,
     Goes, Goto, Slips
<1>1. ASSUME NEW d \in Doors, AskBuild(d) PROVE StaysInLine'
  BY <1>1 DEF AskBuild, NoJob
<1>2. ASSUME NEW purge \in BOOLEAN, AskRemove(purge) PROVE StaysInLine'
  BY <1>2 DEF AskRemove, NoJob
<1>3. CASE SignUp
  BY <1>3 DEF SignUp
<1>4. CASE NsGone
  BY <1>4 DEF NsGone, NoNs
<1>5. CASE BuildStops
  BY <1>5 DEF BuildStops, Ends, NoJob
<1>6. CASE RemovalStops
  BY <1>6 DEF RemovalStops, Ends, NoJob
<1>7. CASE Record
  BY <1>7 DEF Record
<1>8. CASE Person
  <2>1. job.pc = "person" /\ door \in Doors
    BY <1>8 DEF Person
  <2> QED
    BY <1>8, <2>1, PersonDoes DEF SameHand
<1>9. CASE Password
  BY <1>9 DEF Password
<1>10. CASE Namespace
  BY <1>10, NamespaceDoes DEF SameHand
<1>11. CASE GiteaUser
  BY <1>11, GiteaUserDoes DEF SameHand, NoUser
<1>12. CASE Org
  BY <1>12 DEF Org
<1>13. CASE HaveSecret
  BY <1>13, HaveSecretDoes DEF SameHand
<1>14. CASE Mint
  BY <1>14, MintDoes DEF SameHand
<1>15. CASE Keep
  BY <1>15 DEF Keep
<1>16. CASE Note
  BY <1>16 DEF Note
<1>17. CASE PacSecret
  BY <1>17 DEF PacSecret, NewKeys, Has
<1>18. CASE Hook
  BY <1>18 DEF Hook
<1>19. CASE Chat
  BY <1>19, ChatDoes DEF SameHand
<1>20. CASE MarkReady
  BY <1>20 DEF MarkReady, Ends, NoJob
<1>21. CASE Revoke
  BY <1>21, RevokeDoes DEF SameHand
<1>22. CASE DropOrg
  BY <1>22, DropOrgDoes DEF SameHand, NoOrg
<1>23. CASE DropUser
  BY <1>23, DropUserDoes DEF SameHand, NoUser
<1>24. CASE DropChat
  BY <1>24, DropChatDoes DEF SameHand, NoChat, Off
<1>25. CASE Leave
  BY <1>25, LeaveDoes DEF SameHand, NoSignin
<1>26. CASE DropNs
  BY <1>26 DEF DropNs
<1>27. CASE DropVault
  BY <1>27 DEF DropVault, NoVault
<1>28. CASE DropRecord
  BY <1>28 DEF DropRecord, Ends, NoJob
<1>29. CASE UNCHANGED vars
  BY <1>29 DEF vars
<1> QED
  BY <1>1, <1>2, <1>3, <1>4, <1>5, <1>6, <1>7, <1>8, <1>9, <1>10, <1>11, <1>12, <1>13, <1>14,
       <1>15, <1>16, <1>17, <1>18, <1>19, <1>20, <1>21, <1>22, <1>23, <1>24, <1>25, <1>26,
       <1>27, <1>28, <1>29 DEF Next, BuildStep, RemovalStep

LEMMA TakenStays ==
  ASSUME TypeOK, Orderly, Taken, [Next]_vars
  PROVE  Taken'
<1>t. job \in Hands /\ RestTyped
  BY TwoParts DEF HandTyped
<1> USE <1>t, AccountsAssumption DEF Orderly, Taken, NoOrg, NoUser, RestTyped, Hands, Signins,
     Users, Orgs, Workspaces, Vaults, Chats, Steps, BuildSteps, RemovalSteps, WithPerson, WithNs,
     WithUser, WithOrg, WithToken, outside, Goes, Goto, Slips
<1>1. ASSUME NEW d \in Doors, AskBuild(d) PROVE Taken'
  BY <1>1 DEF AskBuild, NoJob
<1>2. ASSUME NEW purge \in BOOLEAN, AskRemove(purge) PROVE Taken'
  BY <1>2 DEF AskRemove, NoJob
<1>3. CASE SignUp
  BY <1>3 DEF SignUp
<1>4. CASE NsGone
  BY <1>4 DEF NsGone, NoNs
<1>5. CASE BuildStops
  BY <1>5 DEF BuildStops, Ends, NoJob
<1>6. CASE RemovalStops
  BY <1>6 DEF RemovalStops, Ends, NoJob
<1>7. CASE Record
  BY <1>7 DEF Record
<1>8. CASE Person
  <2>1. job.pc = "person" /\ door \in Doors
    BY <1>8 DEF Person
  <2> QED
    BY <1>8, <2>1, PersonDoes DEF SameHand
<1>9. CASE Password
  BY <1>9 DEF Password
<1>10. CASE Namespace
  BY <1>10, NamespaceDoes DEF SameHand
<1>11. CASE GiteaUser
  BY <1>11, GiteaUserDoes DEF SameHand, NoUser
<1>12. CASE Org
  BY <1>12 DEF Org
<1>13. CASE HaveSecret
  BY <1>13, HaveSecretDoes DEF SameHand
<1>14. CASE Mint
  BY <1>14, MintDoes DEF SameHand
<1>15. CASE Keep
  BY <1>15 DEF Keep
<1>16. CASE Note
  BY <1>16 DEF Note
<1>17. CASE PacSecret
  BY <1>17 DEF PacSecret, NewKeys, Has
<1>18. CASE Hook
  BY <1>18 DEF Hook
<1>19. CASE Chat
  BY <1>19, ChatDoes DEF SameHand
<1>20. CASE MarkReady
  BY <1>20 DEF MarkReady, Ends, NoJob
<1>21. CASE Revoke
  BY <1>21, RevokeDoes DEF SameHand
<1>22. CASE DropOrg
  BY <1>22, DropOrgDoes DEF SameHand, NoOrg
<1>23. CASE DropUser
  BY <1>23, DropUserDoes DEF SameHand, NoUser
<1>24. CASE DropChat
  BY <1>24, DropChatDoes DEF SameHand, NoChat, Off
<1>25. CASE Leave
  BY <1>25, LeaveDoes DEF SameHand, NoSignin
<1>26. CASE DropNs
  BY <1>26 DEF DropNs
<1>27. CASE DropVault
  BY <1>27 DEF DropVault, NoVault
<1>28. CASE DropRecord
  BY <1>28 DEF DropRecord, Ends, NoJob
<1>29. CASE UNCHANGED vars
  BY <1>29 DEF vars
<1> QED
  BY <1>1, <1>2, <1>3, <1>4, <1>5, <1>6, <1>7, <1>8, <1>9, <1>10, <1>11, <1>12, <1>13, <1>14,
       <1>15, <1>16, <1>17, <1>18, <1>19, <1>20, <1>21, <1>22, <1>23, <1>24, <1>25, <1>26,
       <1>27, <1>28, <1>29 DEF Next, BuildStep, RemovalStep

LEMMA GoneStays ==
  ASSUME TypeOK, Orderly, Taken, Gone, [Next]_vars
  PROVE  Gone'
<1>t. job \in Hands /\ RestTyped
  BY TwoParts DEF HandTyped
<1> USE <1>t, AccountsAssumption DEF Orderly, Taken, Gone, NoOrg, NoUser, NoVault, RestTyped,
     Hands, Signins, Users, Orgs, Workspaces, Vaults, Chats, Steps, BuildSteps, RemovalSteps,
     WithPerson, WithNs, WithUser, WithOrg, WithToken, outside, Goes, Goto, Slips
<1>1. ASSUME NEW d \in Doors, AskBuild(d) PROVE Gone'
  BY <1>1 DEF AskBuild, NoJob
<1>2. ASSUME NEW purge \in BOOLEAN, AskRemove(purge) PROVE Gone'
  BY <1>2 DEF AskRemove, NoJob
<1>3. CASE SignUp
  BY <1>3 DEF SignUp
<1>4. CASE NsGone
  BY <1>4 DEF NsGone, NoNs
<1>5. CASE BuildStops
  BY <1>5 DEF BuildStops, Ends, NoJob
<1>6. CASE RemovalStops
  BY <1>6 DEF RemovalStops, Ends, NoJob
<1>7. CASE Record
  BY <1>7 DEF Record
<1>8. CASE Person
  <2>1. job.pc = "person" /\ door \in Doors
    BY <1>8 DEF Person
  <2> QED
    BY <1>8, <2>1, PersonDoes DEF SameHand
<1>9. CASE Password
  BY <1>9 DEF Password
<1>10. CASE Namespace
  BY <1>10, NamespaceDoes DEF SameHand
<1>11. CASE GiteaUser
  BY <1>11, GiteaUserDoes DEF SameHand, NoUser
<1>12. CASE Org
  BY <1>12 DEF Org
<1>13. CASE HaveSecret
  BY <1>13, HaveSecretDoes DEF SameHand
<1>14. CASE Mint
  BY <1>14, MintDoes DEF SameHand
<1>15. CASE Keep
  BY <1>15 DEF Keep
<1>16. CASE Note
  BY <1>16 DEF Note
<1>17. CASE PacSecret
  BY <1>17 DEF PacSecret, NewKeys, Has
<1>18. CASE Hook
  BY <1>18 DEF Hook
<1>19. CASE Chat
  BY <1>19, ChatDoes DEF SameHand
<1>20. CASE MarkReady
  BY <1>20 DEF MarkReady, Ends, NoJob
<1>21. CASE Revoke
  BY <1>21, RevokeDoes DEF SameHand
<1>22. CASE DropOrg
  BY <1>22, DropOrgDoes DEF SameHand, NoOrg
<1>23. CASE DropUser
  BY <1>23, DropUserDoes DEF SameHand, NoUser
<1>24. CASE DropChat
  BY <1>24, DropChatDoes DEF SameHand, NoChat, Off
<1>25. CASE Leave
  BY <1>25, LeaveDoes DEF SameHand, NoSignin
<1>26. CASE DropNs
  BY <1>26 DEF DropNs
<1>27. CASE DropVault
  BY <1>27 DEF DropVault, NoVault
<1>28. CASE DropRecord
  <2>1. signin.groups \subseteq Groups /\ signin' = signin
    BY <1>28 DEF DropRecord
  <2>2. Attendees \notin signin.groups => signin'.groups \subseteq Doors
    BY <2>1 DEF Groups
  <2> QED
    BY <1>28, <2>2 DEF DropRecord, Ends, NoJob
<1>29. CASE UNCHANGED vars
  BY <1>29 DEF vars
<1> QED
  BY <1>1, <1>2, <1>3, <1>4, <1>5, <1>6, <1>7, <1>8, <1>9, <1>10, <1>11, <1>12, <1>13, <1>14,
       <1>15, <1>16, <1>17, <1>18, <1>19, <1>20, <1>21, <1>22, <1>23, <1>24, <1>25, <1>26,
       <1>27, <1>28, <1>29 DEF Next, BuildStep, RemovalStep

Inductive == TypeOK /\ IInv

LEMMA Initially == Init => Inductive
<1> SUFFICES ASSUME Init PROVE IInv
  BY InitTyped DEF Inductive
<1> QED
  BY DEF Init, IInv, Orderly, Sound, InLine, StaysInLine, Taken, Gone, NoSignin, NoUser, NoOrg,
       NoNs,
         NoVault, NoChat, NoJob, BuildSteps, RemovalSteps, WithPerson, WithNs, WithUser, WithOrg,
         WithToken

LEMMA Inductively == Inductive /\ [Next]_vars => Inductive'
<1> SUFFICES ASSUME TypeOK, IInv, [Next]_vars PROVE Inductive'
  BY DEF Inductive
<1> USE DEF IInv
<1>1. TypeOK'
  <2>1. job.pc \in BuildSteps => door \in Doors
    BY DEF Orderly
  <2>2. HandTyped' /\ RestTyped'
    BY <2>1, NextHand, NextRest
  <2> QED
    BY <2>2 DEF TypeOK, HandTyped, RestTyped, Hands, Steps, Signins, Users, Orgs,
                          Workspaces, Vaults, Chats
<1>2. Orderly'
  BY OrderlyStays
<1>3. whole' => Sound'
  BY SoundStays
<1>4. InLine' /\ StaysInLine'
  BY InLineStays, StillInLine
<1>5. Taken' /\ Gone'
  BY TakenStays, GoneStays
<1> QED
  BY <1>1, <1>2, <1>3, <1>4, <1>5 DEF Inductive

LEMMA Always == Spec => []Inductive
  BY Initially, Inductively, PTL DEF Spec

------------------------------------------------------------------------------
(* The theorems *)

\* Everything has its type, whatever fails and wherever a script stops: tokens are where tokens
\* belong, webhook secrets where theirs do.
THEOREM AccountsTypes == Spec => []TypeOK
<1>1. Inductive => TypeOK
  BY DEF Inductive
<1> QED
  BY <1>1, Always, PTL

\* The token that a ready seat's agents use is one that Gitea takes, and its workspace stays:
\* however builds and removals were cut short before, if the last removal was complete.
THEOREM TokensLive == Spec => []TokenLives
<1>1. Inductive => TokenLives
  BY DEF Inductive, IInv, Sound, TokenLives
<1> QED
  BY <1>1, Always, PTL

\* Gitea signs the webhooks of a ready seat with the secret that its pipelines check.
THEOREM HooksAgree == Spec => []HookAgrees
<1>1. Inductive => HookAgrees
  BY DEF Inductive, IInv, Sound, HookAgrees
<1> QED
  BY <1>1, Always, PTL

\* The sign-ins of a seat that a build without failures made ready lead to its owner.
THEOREM LoginsAgree == Spec => []LoginAgrees
<1>1. Inductive => LoginAgrees
  BY DEF Inductive, IInv, StaysInLine, UserAgrees, ChatAgrees, LoginAgrees
<1> QED
  BY <1>1, Always, PTL

\* The workspace of such a seat shows the menu of the door on its record, and no other door's.
THEOREM MenusFollow == Spec => []MenuFollowsDoor
<1>1. Inductive => MenuFollowsDoor
  BY DEF Inductive, IInv, StaysInLine, NsAgrees, MenuFollowsDoor
<1> QED
  BY <1>1, Always, PTL

\* Once the record is gone, after a removal that met no failure, the Gitea user, the org and the
\* Secret of the seat are gone, no workspace stays and no Mattermost account is active, and of the
\* Keycloak groups the person is in those of doors at most.  (That group stays: MembershipsGo.)
THEOREM OnlyDoorsLeft == Spec => []Gone
<1>1. Inductive => Gone
  BY DEF Inductive, IInv
<1> QED
  BY <1>1, Always, PTL

RepairKeeps ==
  whole' /\ ns.life = "active" =>
    /\ ns.token # None => ns'.token = ns.token
    /\ ns.pac # None => ns'.pac = ns.pac
    /\ org.hook # None /\ org'.there => org'.hook = org.hook

LEMMA StepKeeps == Inductive /\ [Next]_vars => RepairKeeps
<1> SUFFICES ASSUME TypeOK, IInv, [Next]_vars, whole', ns.life = "active"
             PROVE  /\ ns.token # None => ns'.token = ns.token
                    /\ ns.pac # None => ns'.pac = ns.pac
                    /\ org.hook # None /\ org'.there => org'.hook = org.hook
  BY DEF Inductive, RepairKeeps
<1>t. job \in Hands /\ RestTyped /\ org \in Orgs /\ ns \in Workspaces
  BY TwoParts DEF HandTyped, RestTyped
<1>1. CASE UNCHANGED <<ns, org>>
  BY <1>1
<1>2. CASE NsGone
  BY <1>2 DEF NsGone
<1>3. CASE Namespace
  BY <1>3, NamespaceDoes
<1>4. CASE Org
  BY <1>4, <1>t DEF Org, Orgs
<1>5. CASE Keep
  <2>1. job.pc = "keep" /\ whole /\ UNCHANGED org
    BY <1>5 DEF Keep
  <2>2. ns.token = None
    BY <2>1 DEF IInv, Sound
  <2> QED
    BY <1>5, <2>1, <2>2, <1>t DEF Keep, Workspaces
<1>6. CASE PacSecret
  BY <1>6, <1>t DEF PacSecret, Has, Workspaces
<1>7. CASE Hook
  BY <1>7, <1>t DEF Hook, Orgs
<1>8. CASE DropOrg \/ DropNs
  <2>1. job.pc \in RemovalSteps /\ whole
    BY <1>8 DEF DropOrg, DropNs, RemovalSteps
  <2> QED
    BY <2>1 DEF IInv, Sound
<1> QED
  BY <1>1, <1>2, <1>3, <1>4, <1>5, <1>6, <1>7, <1>8
  DEF Next, BuildStep, RemovalStep, vars, outside, AskBuild, AskRemove, SignUp, BuildStops,
      RemovalStops, Record, Person, Password, GiteaUser, HaveSecret, Mint, Note, Chat, MarkReady,
      Revoke, DropUser, DropChat, Leave, DropVault, DropRecord

\* A build takes no working secret away: what a workspace or an org has, repairs leave alone.
THEOREM RepairsKept == Spec => RepairsKeep
<1>1. Inductive /\ [Next]_vars => [RepairKeeps]_vars
  BY StepKeeps
<1> QED
  BY <1>1, Always, PTL DEF Spec, RepairsKeep, RepairKeeps
=============================================================================
