------------------------------ MODULE HelpDesk ------------------------------
(***************************************************************************)
(* The help desk of the hub (helpdesk.py): chat and end requests, each a   *)
(* thread of the broker; the conversations in its memory; the bucket that  *)
(* is their record; and the sweeper that mails what the bucket holds.      *)
(*                                                                         *)
(* A chat changes its conversation twice under the lock, and asks the      *)
(* gateway in between without it.  The sweeper reads an object before it   *)
(* takes the lock.                                                         *)
(***************************************************************************)
EXTENDS Naturals, FiniteSets

CONSTANTS
  Users,      \* attendees
  Tag,        \* Tag[u]: the seat handle of u, or the tag "noseat" of everyone without
  Chats, Ends,  \* the requests, one of each kind for each element (bounds their number)
  MaxClock,   \* bounds the seconds in which conversations begin (as many as Chats: no bound)
  NoReq, NoConv,
  MailFails,  \* TRUE: a mail may fail
  StoreFails, \* TRUE: a call to the object store may fail
  Restarts,   \* TRUE: the broker may die and come back
  SameSecond  \* TRUE: two conversations of one tag may begin within one second

ASSUME DeskAssumption ==
  /\ MaxClock \in Nat \ {0} /\ Users # {} /\ NoReq \notin Chats \cup Ends /\ Chats \cap Ends = {}
  /\ MailFails \in BOOLEAN /\ StoreFails \in BOOLEAN /\ Restarts \in BOOLEAN
  /\ SameSecond \in BOOLEAN

Clock == 1 .. MaxClock
Requests == Chats \cup Ends
\* An id is the second a conversation began and its attendee's tag.
Ids == Clock \X {Tag[u] : u \in Users}
\* A message is a chat's question or its answer.
Messages == Chats \X {"question", "answer"}

VARIABLES
  clock,    \* the second in which the next conversation may begin
  reqs,     \* the requests: what each is doing, whose it is, its conversation object, and
            \* (history) the id of the conversation it began
  objs,     \* the conversation objects; one is named for the request that made it
  conv,     \* _conv: id -> object
  bucket,   \* the object store: id -> the conversation as last put
  sweep,    \* the sweeper: the keys it has yet to read, and what it read of one
  mailed    \* id -> the messages that mails about it held

vars == <<clock, reqs, objs, conv, bucket, sweep, mailed>>

\* recent: updated less than HELP_IDLE_MINUTES ago.
Conversation == [id : Ids, user : Users, msgs : SUBSET Messages, ended : BOOLEAN,
                 emailed : BOOLEAN, recent : BOOLEAN]

ASSUME NoneAssumption == NoConv \notin Conversation /\ NoReq \notin Ids

Asleep == [pc |-> "asleep", todo |-> {}, id |-> <<1, NoReq>>, raw |-> NoConv]
\* turns: the number of answers.
HasTurns(c) == \E r \in Chats : <<r, "answer">> \in c.msgs

\* persist(c): a put that fails goes unnoticed.
Put(id, c) == \/ bucket' = [bucket EXCEPT ![id] = c]
              \/ StoreFails /\ bucket' = bucket

\* (Mutant of Mailed: marked although the mail failed.)
MailedAlways(c, ok) == [c EXCEPT !.emailed = TRUE]

\* email_transcript(c): marks c only when the mail is gone.
Mailed(c, ok) == [c EXCEPT !.emailed = @ \/ ok]
Send(c, ok) == mailed' = IF ok THEN [mailed EXCEPT ![c.id] = @ \cup c.msgs] ELSE mailed
Outcomes == IF MailFails THEN BOOLEAN ELSE {TRUE}

------------------------------------------------------------------------------
(* Requests.  The browser names a conversation, any it likes, or none. *)

\* _open_for(user): of several the newest.
Known == {conv[id] : id \in Ids} \ {NoReq}
Open(u) == {o \in Known : objs[o].user = u /\ ~ objs[o].ended}
OpenFor(u) == {o \in Open(u) : \A p \in Open(u) : objs[p].id[1] <= objs[o].id[1]}

\* _conv.get(conversation_id) or _open_for(user); NoReq for none.
Found(u, named) ==
  IF named \in Ids /\ conv[named] # NoReq THEN {conv[named]}
  ELSE IF OpenFor(u) = {} THEN {NoReq} ELSE OpenFor(u)

\* (Mutant of Yours: the conversation's user is not asked for.)
YoursAnyway(o, u) == TRUE
\* c["user"] == user: a conversation that is named may be another's.
Yours(o, u) == o # NoReq => objs[o].user = u

\* (Mutant of Started: the id is tagged with whatever handle, not the attendee's own.)
StartedAnySeat(u) == [id |-> CHOOSE id \in Ids : id[1] = clock, user |-> u, msgs |-> {},
                      ended |-> FALSE, emailed |-> FALSE, recent |-> TRUE]
Started(u) == [id |-> <<clock, Tag[u]>>, user |-> u, msgs |-> {}, ended |-> FALSE,
               emailed |-> FALSE, recent |-> TRUE]

\* c["messages"].append, c["updated"] = now.
Said(c, r, what) == [c EXCEPT !.msgs = @ \cup {<<r, what>>}, !.recent = TRUE]

\* Seconds go by between two conversations, unless SameSecond.
Later == {clock + 1} \cup (IF SameSecond THEN {clock} ELSE {})

\* The question is appended, and on record before the agent answers.
Chat(r, u, named) ==
  /\ reqs[r].pc = "new"
  /\ \E o \in Found(u, named) :
       /\ Yours(o, u)
       /\ LET fresh == o = NoReq \/ objs[o].ended
              x == IF fresh THEN r ELSE o
              c == Said(IF fresh THEN Started(u) ELSE objs[o], r, "question") IN
          /\ IF fresh THEN clock \in Clock /\ clock' \in Later ELSE clock' = clock
          /\ reqs' = [reqs EXCEPT ![r] = [pc |-> "asking", user |-> u, obj |-> x,
                                       began |-> IF fresh THEN c.id ELSE NoReq]]
          /\ objs' = [objs EXCEPT ![x] = c]
          /\ conv' = IF fresh THEN [conv EXCEPT ![c.id] = r] ELSE conv
          /\ Put(c.id, c)
  /\ UNCHANGED <<sweep, mailed>>

\* The agent's reply, or the excuse for none, up to HELP_GATEWAY_TIMEOUT later: to the object
\* in hand, whatever became of it.
Reply(r) ==
  /\ reqs[r].pc = "asking"
  /\ LET x == reqs[r].obj
         c == Said(objs[x], r, "answer") IN
     /\ objs' = [objs EXCEPT ![x] = c]
     /\ Put(c.id, c)
  /\ reqs' = [reqs EXCEPT ![r].pc = "answered", ![r].obj = NoReq]
  /\ UNCHANGED <<clock, conv, sweep, mailed>>

\* "End" mails at once, but a conversation without a turn is not mailed.
End(r, u, named) ==
  /\ reqs[r].pc = "new"
  /\ \E o \in Found(u, named), ok \in Outcomes :
       /\ o # NoReq /\ Yours(o, u)
       /\ LET c == [objs[o] EXCEPT !.ended = TRUE] IN
          /\ Send(c, ok /\ HasTurns(c))
          /\ objs' = [objs EXCEPT ![o] = Mailed(c, ok /\ HasTurns(c))]
          /\ Put(c.id, objs'[o])
  /\ reqs' = [reqs EXCEPT ![r] = [pc |-> "ended", user |-> u, obj |-> NoReq, began |-> NoReq]]
  /\ UNCHANGED <<clock, conv, sweep>>

------------------------------------------------------------------------------
(* The sweeper.  It goes by what is in the bucket. *)

Listed == {id \in Ids : bucket[id] # NoConv}

\* A listing that fails returns no keys (of more than 1000 objects: those of the pages before).
SweepStart(todo) ==
  /\ sweep.pc = "asleep"
  /\ sweep' = [sweep EXCEPT !.pc = "reading", !.todo = todo]
  /\ UNCHANGED <<clock, reqs, objs, conv, bucket, mailed>>

\* (Mutant of Due: only what its attendee ended is mailed.)
DueEnded(c) == ~ c.emailed /\ HasTurns(c) /\ c.ended
Due(c) == ~ c.emailed /\ HasTurns(c) /\ (c.ended \/ ~ c.recent)

\* One object is read, without the lock: it is due ...
SweepRead(id) ==
  /\ sweep.pc = "reading" /\ id \in sweep.todo
  /\ Due(bucket[id])
  /\ sweep' = [sweep EXCEPT !.pc = "due", !.todo = @ \ {id}, !.id = id, !.raw = bucket[id]]
  /\ UNCHANGED <<clock, reqs, objs, conv, bucket, mailed>>

\* ... or skipped.
SweepSkip(id) ==
  /\ sweep.pc = "reading" /\ id \in sweep.todo
  /\ ~ Due(bucket[id]) \/ StoreFails
  /\ sweep' = [sweep EXCEPT !.todo = @ \ {id}]
  /\ UNCHANGED <<clock, reqs, objs, conv, bucket, mailed>>

\* Under the lock: the working copy is mailed, unless there is none or it is marked already;
\* then what was read is mailed and takes the place of both.
SweepMail(id, ok) ==
  /\ sweep.pc = "due" /\ sweep.id = id
  /\ LET live == conv[id]
         c == [(IF live # NoReq /\ ~ objs[live].emailed THEN objs[live] ELSE sweep.raw)
                 EXCEPT !.ended = TRUE] IN
     /\ Send(c, ok)
     /\ Put(id, Mailed(c, ok))
     /\ objs' = IF live = NoReq THEN objs ELSE [objs EXCEPT ![live] = Mailed(c, ok)]
  /\ sweep' = [Asleep EXCEPT !.pc = "reading", !.todo = sweep.todo]
  /\ UNCHANGED <<clock, reqs, conv>>

SweepEnd ==
  /\ sweep.pc = "reading" /\ sweep.todo = {}
  /\ sweep' = Asleep
  /\ UNCHANGED <<clock, reqs, objs, conv, bucket, mailed>>

------------------------------------------------------------------------------
\* The broker dies with its memory and its threads, and starts anew.
Restart ==
  /\ Restarts
  /\ conv # [id \in Ids |-> NoReq]   \* bounds the restarts: one that loses nothing is left out
  /\ conv' = [id \in Ids |-> NoReq]
  /\ objs' = [r \in Chats |-> NoConv]
  /\ reqs' = [r \in Requests |-> IF reqs[r].pc = "asking"
                                 THEN [reqs[r] EXCEPT !.pc = "gone", !.obj = NoReq] ELSE reqs[r]]
  /\ sweep' = Asleep
  /\ UNCHANGED <<clock, bucket, mailed>>

\* HELP_IDLE_MINUTES go by.  No answer takes that long (HELP_GATEWAY_TIMEOUT), nor does the
\* sweeper wait that long for the lock.
Pause ==
  /\ \A r \in Chats : reqs[r].pc # "asking"
  /\ sweep.pc # "due"
  /\ LET quiet(c) == IF c = NoConv THEN c ELSE [c EXCEPT !.recent = FALSE] IN
     /\ objs' = [r \in Chats |-> quiet(objs[r])]
     /\ bucket' = [id \in Ids |-> quiet(bucket[id])]
  /\ UNCHANGED <<clock, reqs, conv, sweep, mailed>>

Init ==
  /\ clock = 1
  /\ reqs = [r \in Requests |-> [pc |-> "new", user |-> CHOOSE u \in Users : TRUE,
                                 obj |-> NoReq, began |-> NoReq]]
  /\ objs = [r \in Chats |-> NoConv]
  /\ conv = [id \in Ids |-> NoReq]
  /\ bucket = [id \in Ids |-> NoConv]
  /\ sweep = Asleep
  /\ mailed = [id \in Ids |-> {}]

Next ==
  \/ \E u \in Users, named \in Ids \cup {NoReq} :
       \/ \E r \in Chats : Chat(r, u, named)
       \/ \E r \in Ends : End(r, u, named)
  \/ \E r \in Chats : Reply(r)
  \/ SweepStart(Listed) \/ (StoreFails /\ SweepStart({})) \/ SweepEnd
  \/ \E id \in Ids : SweepRead(id) \/ SweepSkip(id) \/ \E ok \in Outcomes : SweepMail(id, ok)
  \/ Restart \/ Pause

Spec == Init /\ [][Next]_vars

\* The gateway answers or times out, the sweeper's thread runs on, time passes, and the mail
\* server is not down for good.
Fairness ==
  /\ \A r \in Chats : WF_vars(Reply(r))
  /\ WF_vars(SweepStart(Listed)) /\ WF_vars(SweepEnd) /\ WF_vars(Pause)
  /\ \A id \in Ids : /\ WF_vars(SweepRead(id)) /\ WF_vars(SweepSkip(id))
                     /\ SF_vars(SweepMail(id, TRUE)) /\ WF_vars(\E ok \in Outcomes : SweepMail(id, ok))

FairSpec == Spec /\ Fairness

------------------------------------------------------------------------------
Stored(id) == bucket[id] # NoConv

Request == [pc : {"new", "asking", "answered", "ended", "gone"}, user : Users,
            obj : Chats \cup {NoReq}, began : Ids \cup {NoReq}]
Sweeper == [pc : {"asleep", "reading", "due"}, todo : SUBSET Ids, id : Ids \cup {<<1, NoReq>>},
            raw : Conversation \cup {NoConv}]

\* Those for whom a conversation with this id was begun, by the requests rq.  It is one attendee,
\* or several of one tag (that is: without a seat) who began within the same second.
Beginners(rq, id) == {rq[r].user : r \in {q \in Chats : rq[q].began = id}}

\* Types; an object is there for every id of the memory and for every thread that asks the
\* gateway, and is of a conversation of its attendee's; an id carries their tag.
TypeOK ==
  /\ clock \in 1 .. MaxClock + 1
  /\ reqs \in [Requests -> Request]
  /\ objs \in [Chats -> Conversation \cup {NoConv}]
  /\ conv \in [Ids -> Chats \cup {NoReq}]
  /\ bucket \in [Ids -> Conversation \cup {NoConv}]
  /\ sweep \in Sweeper
  /\ sweep.pc = "due" => sweep.id \in Ids /\ sweep.raw # NoConv
  /\ mailed \in [Ids -> SUBSET Messages]
  /\ \A id \in Ids : conv[id] # NoReq => objs[conv[id]] # NoConv
  /\ \A r \in Requests : reqs[r].pc = "asking" =>
       /\ reqs[r].obj # NoReq /\ objs[reqs[r].obj] # NoConv
       /\ reqs[r].user \in Beginners(reqs, objs[reqs[r].obj].id)
  /\ \A id \in Ids : \A u \in Beginners(reqs, id) : Tag[u] = id[2]

\* All in c was exchanged with those for whom c's very id was begun.
Authored(c) == \A m \in c.msgs : reqs[m[1]].user \in Beginners(reqs, c.id)

\* Nobody's words end up in a conversation that was not begun for them, in memory, with the
\* sweeper or in the bucket, whatever conversation a browser names and whatever overlaps.  (Two
\* attendees without seats who begin in the same second have one id: the code cannot keep their
\* words apart.)
OwnWords ==
  /\ \A o \in Chats : objs[o] # NoConv => Authored(objs[o])
  /\ \A id \in Ids : Stored(id) => Authored(bucket[id])
  /\ sweep.pc = "due" => Authored(sweep.raw)

\* What the bucket marks as emailed was mailed: a mail that failed is tried again (the
\* sweeper's stale copy never brings a mark back, or sets one).
MarkIsTrue == \A id \in Ids : Stored(id) /\ bucket[id].emailed => mailed[id] # {}

\* A conversation with an answer on record is mailed, though the browser is closed, the
\* broker restarts and mails fail.
TurnsMailed ==
  \A id \in Ids : (Stored(id) /\ HasTurns(bucket[id])) ~> (mailed[id] # {})

------------------------------------------------------------------------------
(* What the repository says of the help desk and the code does not keep. *)

\* An answer that was returned is in the bucket, for good (helpdesk.py docstring: "every turn
\* is written to the cluster's own object store ... before the reply is returned").
AnswersKept ==
  \A r \in Chats : reqs[r].pc = "answered" =>
    \E id \in Ids : Stored(id) /\ {<<r, "question">>, <<r, "answer">>} \subseteq bucket[id].msgs
==============================================================================
