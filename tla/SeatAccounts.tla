---------------------------- MODULE SeatAccounts ----------------------------
(***************************************************************************)
(* What one seat has outside the hub: the person's sign-in in Keycloak, a  *)
(* Gitea user with a token, an org with a webhook, a workspace namespace   *)
(* that holds the secrets of the two, a Mattermost account, and the Secret *)
(* in which the hub notes the token.  provision-seat.py makes or mends     *)
(* them step by step, deprovision-seat.py takes them away, and either may  *)
(* stop anywhere.  One Job at a time works on a seat; what becomes of the  *)
(* record when two do is the subject of SeatHub.                           *)
(***************************************************************************)
EXTENDS Naturals

CONSTANTS
  None,
  Doors,              \* the brands, each with the name of its attendees' group
  Attendees,          \* the group of all attendees
  Subs, Uids, Toks, Keys,  \* Keycloak subjects, Gitea ids, tokens, webhook secrets
  BuildsStop,         \* TRUE: a build may raise, or its pod die, at any step
  RemovalsStop,       \* TRUE: the same for a removal
  MaxSlips            \* how many calls may fail whose failure the scripts print or overlook

ASSUME AccountsAssumption ==
  /\ Attendees \notin Doors
  /\ None \notin Doors \cup Subs \cup Uids \cup Toks \cup Keys
  /\ BuildsStop \in BOOLEAN /\ RemovalsStop \in BOOLEAN /\ MaxSlips \in Nat

Groups == Doors \cup {Attendees}
Opt(S) == S \cup {None}

VARIABLES
  phase,   \* on the record in factory-seats: "none" without one, "ready", or one of those on the way
  door,    \* the brand on the record
  signin,  \* Keycloak: the account, whether it has an email, its groups
  gitea,   \* the Gitea user: id, login_name (None: the username), token "seat-agent"
  org,     \* the Gitea org: is it there, the secret of its webhook
  ns,      \* the workspace: its life, Secrets gitea-token and pac-gitea-webhook, groups annotated
  vault,   \* Secret seat-<handle>: is it there, gitea_token_id
  chat,    \* the Mattermost account: is it there and active, the Gitea id it is keyed to
  job,     \* the Job at work and what its script has in hand
  whole,   \* history: the last removal took everything, and nothing since made that untrue
  clean,   \* history: the build that marked the seat ready met no failure it only printed
  slips    \* history: how many failures have been passed over

outside == <<signin, gitea, org, ns, vault, chat>>
vars == <<phase, door, outside, job, whole, clean, slips>>

BuildSteps == {"record", "person", "vault", "ns", "gitea", "org", "token", "mint", "keep", "note",
               "pac", "hook", "chat", "ready"}
RemovalSteps == {"revoke", "dropOrg", "dropUser", "dropChat", "leave", "dropNs", "dropVault",
                 "dropRecord"}

NoSignin == [sub |-> None, mail |-> FALSE, groups |-> {}]
NoUser == [id |-> None, login |-> None, token |-> None]
NoOrg == [there |-> FALSE, hook |-> None]
NoNs == [life |-> "none", token |-> None, pac |-> None, groups |-> {}]
NoVault == [there |-> FALSE, tid |-> None]
NoChat == [state |-> "none", key |-> None]
NoJob == [pc |-> "idle", sub |-> None, uid |-> None, minted |-> None, groups |-> {},
          purge |-> FALSE, ok |-> TRUE]

Init ==
  /\ phase = "none" /\ door = None /\ signin = NoSignin /\ gitea = NoUser /\ org = NoOrg
  /\ ns = NoNs /\ vault = NoVault /\ chat = NoChat /\ job = NoJob /\ whole = TRUE /\ clean = TRUE
  /\ slips = 0

\* The script, with this in hand, goes on to pc, ...
Goes(hand, pc) == job' = [hand EXCEPT !.pc = pc] /\ slips' = slips
Goto(pc) == Goes(job, pc)
\* ... passing over a failure, ...
Slips(hand, pc) ==
  slips < MaxSlips /\ slips' = slips + 1 /\ job' = [hand EXCEPT !.pc = pc, !.ok = FALSE]
\* ... or it ends.
Ends == job' = NoJob /\ slips' = slips

------------------------------------------------------------------------------
(* Around the scripts *)

\* The person signs up, again after a purge.
SignUp ==
  /\ signin.sub = None
  /\ \E s \in Subs \ {gitea.login, job.sub}, m \in BOOLEAN :
       signin' = [sub |-> s, mail |-> m, groups |-> {}]
  /\ UNCHANGED <<phase, door, gitea, org, ns, vault, chat, job, whole, clean, slips>>

\* The namespace controller is done with a deletion.
NsGone ==
  /\ ns.life = "terminating" /\ ns' = NoNs
  /\ UNCHANGED <<phase, door, signin, gitea, org, vault, chat, job, whole, clean, slips>>

\* The broker takes a request to build or rebuild that came through door d ...
AskBuild(d) ==
  /\ job.pc = "idle"
  /\ phase' = "unready" /\ door' = d
  /\ Goes(NoJob, "record")
  /\ UNCHANGED <<outside, whole, clean>>

\* ... or an admin's to remove.
AskRemove(purge) ==
  /\ job.pc = "idle" /\ phase # "none"
  /\ phase' = "unready" /\ whole' = FALSE
  /\ Goes([NoJob EXCEPT !.purge = purge], "revoke")
  /\ UNCHANGED <<door, outside, clean>>

\* A build raises, and fail() notes the error if it can; or its pod dies.
BuildStops ==
  /\ BuildsStop /\ job.pc \in BuildSteps
  /\ Ends
  /\ UNCHANGED <<phase, door, outside, whole, clean>>

RemovalStops ==
  /\ RemovalsStop /\ job.pc \in RemovalSteps
  /\ Ends
  /\ UNCHANGED <<phase, door, outside, whole, clean>>

------------------------------------------------------------------------------
(* provision-seat.py *)

\* "seat record"
Record ==
  /\ job.pc = "record"
  /\ phase' = "unready" /\ Goto("person")
  /\ UNCHANGED <<door, outside, whole, clean>>

\* (Mutant of Moved: the other door's is kept.)
MovedInto(groups, d) == groups \cup {Attendees, d}
\* The memberships a build wants: all attendees, and those of this door instead of another.
Moved(groups, d) == (groups \ Doors) \cup {Attendees, d}

\* "email from keycloak", "keycloak attendees group".  The subject is taken only of an account
\* with an email.  Without an account the groups are skipped; a call that fails is printed.
Person ==
  /\ job.pc = "person"
  /\ \/ /\ signin.sub # None
        /\ LET groups == Moved(signin.groups, door) IN
           /\ signin' = [signin EXCEPT !.groups = groups]
           /\ Goes([job EXCEPT !.groups = groups,
                               !.sub = IF signin.mail THEN signin.sub ELSE None], "vault")
     \/ /\ signin.sub = None
        /\ signin' = signin
        /\ Goes([job EXCEPT !.groups = {Attendees}, !.ok = FALSE], "vault")
     \/ /\ signin.sub # None
        /\ \E groups \in {signin.groups, signin.groups \cup {Attendees, door}}, seen \in BOOLEAN :
             /\ signin' = [signin EXCEPT !.groups = groups]
             /\ Slips([job EXCEPT !.groups = {Attendees},
                                  !.sub = IF seen /\ signin.mail THEN signin.sub ELSE None],
                      "vault")
  /\ UNCHANGED <<phase, door, gitea, org, ns, vault, chat, whole, clean>>

\* "seat password": the Secret is made once.
Password ==
  /\ job.pc = "vault"
  /\ vault' = [vault EXCEPT !.there = TRUE] /\ Goto("ns")
  /\ UNCHANGED <<phase, door, signin, gitea, org, ns, chat, whole, clean>>

\* (Mutant of CanMake: the one of the removal before is not waited for.)
CanMakeAnyway == TRUE
CanMake == ns.life # "terminating"

\* "workspace namespace": waits for the one of the removal before.  A poll that fails ends the
\* wait: `oc create ns` then does nothing, and what is there is annotated.
Namespace ==
  /\ job.pc = "ns"
  /\ \/ /\ CanMake
        /\ ns' = [ns EXCEPT !.life = "active", !.groups = job.groups]
        /\ Goto("gitea") /\ whole' = whole
     \/ /\ ns.life = "terminating"
        /\ ns' = [ns EXCEPT !.groups = job.groups]
        /\ Slips(job, "gitea") /\ whole' = FALSE
  /\ UNCHANGED <<phase, door, signin, gitea, org, vault, chat, clean>>

\* (Mutant of Matched: the login_name of a user that is there is left alone.)
MatchedOnce(login, sub) == login
\* The direct match of the Keycloak account, kept current.
Matched(login, sub) == IF sub = None THEN login ELSE sub

\* "gitea user": a new one, or the one there with its login_name brought up to date.
GiteaUser ==
  /\ job.pc = "gitea"
  /\ \/ /\ gitea.id = None
        /\ \E u \in Uids \ {chat.key} :
             /\ gitea' = [NoUser EXCEPT !.id = u, !.login = job.sub]
             /\ Goes([job EXCEPT !.uid = u], "org")
     \/ /\ gitea.id # None
        /\ gitea' = [gitea EXCEPT !.login = Matched(@, job.sub)]
        /\ Goes([job EXCEPT !.uid = gitea.id], "org")
     \/ /\ gitea.id # None /\ gitea' = gitea
        /\ Slips([job EXCEPT !.uid = gitea.id], "org")
  /\ UNCHANGED <<phase, door, signin, org, ns, vault, chat, whole, clean>>

Org ==
  /\ job.pc = "org"
  /\ org' = [org EXCEPT !.there = TRUE] /\ Goto("token")
  /\ UNCHANGED <<phase, door, signin, gitea, ns, vault, chat, whole, clean>>

\* (Mutant of Has: not asked; a new one each time.)
HasNever(secret) == FALSE
\* oc get secret: it is there.
Has(secret) == secret # None

\* "gitea seat token": minted unless the workspace has the Secret.  A get that fails says no.
HaveSecret ==
  /\ job.pc = "token"
  /\ \/ Has(ns.token) /\ Goto("pac") /\ whole' = whole
     \/ ~ Has(ns.token) /\ Goto("mint") /\ whole' = whole
     \/ Has(ns.token) /\ Slips(job, "mint") /\ whole' = FALSE
  /\ UNCHANGED <<phase, door, outside, clean>>

\* A token of the same name blocks minting: it is deleted first.
Mint ==
  /\ job.pc = "mint"
  /\ \/ /\ gitea.token # None
        /\ gitea' = [gitea EXCEPT !.token = None] /\ Goto("mint")
     \/ /\ gitea.id # None /\ gitea.token = None
        /\ \E t \in Toks \ {ns.token, vault.tid} :
             /\ gitea' = [gitea EXCEPT !.token = t]
             /\ Goes([job EXCEPT !.minted = t], "keep")
  /\ UNCHANGED <<phase, door, signin, org, ns, vault, chat, whole, clean>>

\* The Secret in the workspace; nothing new can be made in one that terminates.
Keep ==
  /\ job.pc = "keep"
  /\ ns.life = "active" \/ ns.token # None
  /\ ns' = [ns EXCEPT !.token = job.minted] /\ Goto("note")
  /\ UNCHANGED <<phase, door, signin, gitea, org, vault, chat, whole, clean>>

\* The token's id in the Secret of the seat, for the removal.
Note ==
  /\ job.pc = "note" /\ vault.there
  /\ vault' = [vault EXCEPT !.tid = job.minted] /\ Goto("pac")
  /\ UNCHANGED <<phase, door, signin, gitea, org, ns, chat, whole, clean>>

\* (Mutant of NewKeys: the token serves as webhook secret.)
NewKeysToken == {job.minted}
\* token_hex(24): unlike those in use.
NewKeys == Keys \ {org.hook}

\* "supply chain": the webhook secret of the workspace ...
PacSecret ==
  /\ job.pc = "pac"
  /\ \/ Has(ns.pac) /\ ns' = ns
     \/ /\ ~ Has(ns.pac) /\ ns.life = "active"
        /\ \E k \in NewKeys : ns' = [ns EXCEPT !.pac = k]
  /\ Goto("hook")
  /\ UNCHANGED <<phase, door, signin, gitea, org, vault, chat, whole, clean>>

\* ... and the org's webhook with it, unless the org has one.
Hook ==
  /\ job.pc = "hook" /\ ns.pac # None /\ org.there
  /\ org' = [org EXCEPT !.hook = IF @ = None THEN ns.pac ELSE @] /\ Goto("chat")
  /\ UNCHANGED <<phase, door, signin, gitea, ns, vault, chat, whole, clean>>

\* "mattermost account": made, or activated and keyed to the Gitea user.  Each answer that is not
\* the wanted one is printed: the account stays as it was, or is a local one.
Chat ==
  /\ job.pc = "chat"
  /\ \/ chat' = [state |-> "on", key |-> job.uid] /\ Goto("ready")
     \/ /\ Slips(job, "ready")
        /\ \/ chat' = chat
           \/ chat.state = "none" /\ chat' = [state |-> "on", key |-> None]
           \/ chat.state = "off" /\ chat' = [chat EXCEPT !.state = "on"]
           \/ chat.state # "none" /\ chat' = [chat EXCEPT !.key = job.uid]
  /\ UNCHANGED <<phase, door, signin, gitea, org, ns, vault, whole, clean>>

\* "mark ready"
MarkReady ==
  /\ job.pc = "ready"
  /\ phase' = "ready" /\ clean' = job.ok /\ Ends
  /\ UNCHANGED <<door, outside, whole>>

------------------------------------------------------------------------------
(* deprovision-seat.py.  The answers to its HTTP calls are printed. *)

\* "gitea token": the one noted, if it is still that.
Revoke ==
  /\ job.pc = "revoke"
  /\ \/ vault.tid = gitea.token /\ gitea' = [gitea EXCEPT !.token = None] /\ Goto("dropOrg")
     \/ vault.tid # gitea.token /\ gitea' = gitea /\ Goto("dropOrg")
     \/ vault.tid # None /\ gitea' = gitea /\ Slips(job, "dropOrg")
  /\ UNCHANGED <<phase, door, signin, org, ns, vault, chat, whole, clean>>

DropOrg ==
  /\ job.pc = "dropOrg"
  /\ \/ org' = NoOrg /\ Goto("dropUser")
     \/ org.there /\ org' = org /\ Slips(job, "dropUser")
  /\ UNCHANGED <<phase, door, signin, gitea, ns, vault, chat, whole, clean>>

\* Deleting the user takes its tokens along.
DropUser ==
  /\ job.pc = "dropUser"
  /\ \/ gitea' = NoUser /\ Goto("dropChat")
     \/ gitea.id # None /\ gitea' = gitea /\ Slips(job, "dropChat")
  /\ UNCHANGED <<phase, door, signin, org, ns, vault, chat, whole, clean>>

\* (Mutant of Off: where the server does not delete it, it stays.)
OffNot(state) == state
Off(state) == "off"

\* "mattermost account": deleted if the server allows it, else deactivated.
DropChat ==
  /\ job.pc = "dropChat"
  /\ \/ chat' = NoChat /\ Goto("leave")
     \/ chat.state # "none" /\ chat' = [chat EXCEPT !.state = Off(@)] /\ Goto("leave")
     \/ chat.state = "on" /\ chat' = chat /\ Slips(job, "leave")
  /\ UNCHANGED <<phase, door, signin, gitea, org, ns, vault, whole, clean>>

\* "keycloak attendees membership", and with a purge the account.
Leave ==
  /\ job.pc = "leave"
  /\ \/ /\ signin' = IF job.purge THEN NoSignin
                     ELSE [signin EXCEPT !.groups = @ \ {Attendees}]
        /\ Goto("dropNs")
     \/ signin.sub # None /\ signin' = signin /\ Slips(job, "dropNs")
  /\ UNCHANGED <<phase, door, gitea, org, ns, vault, chat, whole, clean>>

\* "cluster objects": the deletion of the namespaces is not waited for.
DropNs ==
  /\ job.pc = "dropNs"
  /\ ns' = [ns EXCEPT !.life = IF @ = "none" THEN @ ELSE "terminating"] /\ Goto("dropVault")
  /\ UNCHANGED <<phase, door, signin, gitea, org, vault, chat, whole, clean>>

DropVault ==
  /\ job.pc = "dropVault"
  /\ vault' = NoVault /\ Goto("dropRecord")
  /\ UNCHANGED <<phase, door, signin, gitea, org, ns, chat, whole, clean>>

DropRecord ==
  /\ job.pc = "dropRecord"
  /\ \/ phase' = "none" /\ door' = None /\ whole' = job.ok
     \/ UNCHANGED <<phase, door, whole>>
  /\ Ends
  /\ UNCHANGED <<outside, clean>>

------------------------------------------------------------------------------
BuildStep ==
  \/ Record \/ Person \/ Password \/ Namespace \/ GiteaUser \/ Org \/ HaveSecret \/ Mint \/ Keep
  \/ Note \/ PacSecret \/ Hook \/ Chat \/ MarkReady
RemovalStep ==
  Revoke \/ DropOrg \/ DropUser \/ DropChat \/ Leave \/ DropNs \/ DropVault \/ DropRecord

Next ==
  \/ \E d \in Doors : AskBuild(d)
  \/ \E purge \in BOOLEAN : AskRemove(purge)
  \/ SignUp \/ NsGone \/ BuildStops \/ RemovalStops \/ BuildStep \/ RemovalStep

Spec == Init /\ [][Next]_vars

------------------------------------------------------------------------------
(* Properties *)

\* Everything has its type: tokens are where tokens belong, webhook secrets where theirs do.
TypeOK ==
  /\ phase \in {"none", "unready", "ready"} /\ door \in Opt(Doors)
  /\ signin \in [sub : Opt(Subs), mail : BOOLEAN, groups : SUBSET Groups]
  /\ gitea \in [id : Opt(Uids), login : Opt(Subs), token : Opt(Toks)]
  /\ org \in [there : BOOLEAN, hook : Opt(Keys)]
  /\ ns \in [life : {"none", "active", "terminating"}, token : Opt(Toks), pac : Opt(Keys),
             groups : SUBSET Groups]
  /\ vault \in [there : BOOLEAN, tid : Opt(Toks)]
  /\ chat \in [state : {"none", "on", "off"}, key : Opt(Uids)]
  /\ job \in [pc : BuildSteps \cup RemovalSteps \cup {"idle"}, sub : Opt(Subs), uid : Opt(Uids),
              minted : Opt(Toks), groups : SUBSET Groups, purge : BOOLEAN, ok : BOOLEAN]
  /\ whole \in BOOLEAN /\ clean \in BOOLEAN /\ slips \in 0..MaxSlips

\* The token a ready seat's agents use is one that Gitea takes, in a workspace that stays: however
\* often builds were cut short and repeated, also right after a removal.  It needs that the
\* removal before was not cut short.
TokenLives == phase = "ready" /\ whole =>
  ns.life = "active" /\ ns.token # None /\ ns.token = gitea.token

\* Gitea signs the webhooks of a ready seat's org with the secret that its pipelines check.
HookAgrees == phase = "ready" /\ whole => ns.pac # None /\ org.there /\ org.hook = ns.pac

\* The sign-ins of a ready seat lead to its owner: Gitea's to the person's present Keycloak
\* account (if it has an email), Mattermost's through the present Gitea user, whatever earlier
\* removals, purges and sign-ups left behind.
LoginAgrees == phase = "ready" /\ clean =>
  /\ chat.state = "on" /\ gitea.id # None /\ chat.key = gitea.id
  /\ signin.mail => gitea.login = signin.sub

\* The menu follows the door: the workspace of a ready seat is annotated with the groups of the
\* door on the record, and no other door's.
MenuFollowsDoor == phase = "ready" /\ clean => ns.groups = {Attendees, door}

\* Without a record what can be counted is gone: the accounts, the org, the Secret of the seat
\* and the membership of all attendees, and no workspace stays; also when builds stopped half-way,
\* for they make nothing before there is a record, and a removal drops the record last.  Of the
\* memberships that of the door is left, with the sign-in (MembershipsGo).
Gone == phase = "none" /\ whole =>
  /\ gitea = NoUser /\ org = NoOrg /\ vault = NoVault
  /\ ns.life # "active" /\ chat.state # "on" /\ signin.groups \subseteq Doors

\* What the removal's own words promise: the person is in no group of the seat's any more.  The
\* code breaks it: the script takes the person out of `attendees` alone, and the group of the
\* door, which the platform's models are offered to, stays unless the sign-in goes too.
MembershipsGo == phase = "none" /\ whole => signin.groups = {}

\* A build keeps what works: only a removal takes the secrets of a workspace away.
RepairsKeep == [][
  whole' /\ ns.life = "active" =>
    /\ ns.token # None => ns'.token = ns.token
    /\ ns.pac # None => ns'.pac = ns.pac
    /\ org.hook # None /\ org'.there => org'.hook = org.hook]_vars
=============================================================================
