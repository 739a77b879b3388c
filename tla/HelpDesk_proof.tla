--------------------------- MODULE HelpDesk_proof ---------------------------
(* Proofs about HelpDesk, for any attendees, requests and seconds, and with or *)
(* without failing mails, a failing object store and restarts.                 *)
EXTENDS HelpDesk, TLAPS

\* c's id was begun for its attendee, and for all with whom something in c was exchanged; the
\* requests are rq.
Own(c, rq) ==
  /\ c.user \in Beginners(rq, c.id)
  /\ \A m \in c.msgs : rq[m[1]].pc # "new" /\ rq[m[1]].user \in Beginners(rq, c.id)

Good(c, rq) == c \in Conversation /\ Own(c, rq)

\* A request that has arrived stays its attendee's, and what was begun was begun.
KeepsAuthors(rq, rq2) ==
  /\ \A r \in Chats : rq[r].pc # "new" => rq2[r].pc # "new" /\ rq2[r].user = rq[r].user
  /\ \A id \in Ids : Beginners(rq, id) \subseteq Beginners(rq2, id)

Types ==
  /\ clock \in 1 .. MaxClock + 1
  /\ reqs \in [Requests -> Request]
  /\ objs \in [Chats -> Conversation \cup {NoConv}]
  /\ conv \in [Ids -> Chats \cup {NoReq}]
  /\ bucket \in [Ids -> Conversation \cup {NoConv}]
  /\ sweep \in Sweeper
  /\ mailed \in [Ids -> SUBSET Messages]
ObjsGood == \A o \in Chats : objs[o] # NoConv => Good(objs[o], reqs) /\ reqs[o].pc # "new"
ConvGood == \A id \in Ids : conv[id] # NoReq => objs[conv[id]] # NoConv /\ objs[conv[id]].id = id
BucketGood == \A id \in Ids : bucket[id] # NoConv => Good(bucket[id], reqs) /\ bucket[id].id = id
SweepGood == sweep.pc = "due" => /\ sweep.id \in Ids /\ sweep.raw # NoConv
                                 /\ Good(sweep.raw, reqs) /\ sweep.raw.id = sweep.id
TodoGood == \A id \in sweep.todo : bucket[id] # NoConv
AskGood == \A r \in Requests : reqs[r].pc = "asking" =>
             /\ reqs[r].obj # NoReq /\ objs[reqs[r].obj] # NoConv
             /\ reqs[r].user \in Beginners(reqs, objs[reqs[r].obj].id)
\* Nothing is begun by a request that has not arrived, and an id carries the tag of its beginners.
NewGood == \A r \in Requests : reqs[r].pc = "new" => reqs[r].began = NoReq
TagGood == \A id \in Ids : \A u \in Beginners(reqs, id) : Tag[u] = id[2]

Inv == /\ Types /\ ObjsGood /\ ConvGood /\ BucketGood /\ SweepGood /\ TodoGood /\ AskGood
       /\ NewGood /\ TagGood

\* Requests that had arrived go on as whose they were.
LEMMA Keeping ==
  ASSUME Inv,
         \A r \in Chats : reqs[r].pc # "new" =>
           reqs'[r].pc # "new" /\ reqs'[r].user = reqs[r].user /\ reqs'[r].began = reqs[r].began
  PROVE  KeepsAuthors(reqs, reqs')
<1>1. ASSUME NEW id \in Ids, NEW u \in Beginners(reqs, id) PROVE u \in Beginners(reqs', id)
  <2>1. PICK r \in Chats : reqs[r].began = id /\ reqs[r].user = u
    BY <1>1 DEF Beginners
  <2>2. reqs[r].pc # "new"
    BY <2>1, NoneAssumption DEF Inv, NewGood, Requests
  <2> QED
    BY <2>1, <2>2 DEF Beginners
<1> QED
  BY <1>1 DEF KeepsAuthors

\* Where no request arrives that begins a conversation, there are no further beginners.
LEMMA NoMore ==
  ASSUME Inv, \A r \in Chats : reqs'[r].began # NoReq => reqs'[r].began = reqs[r].began
                                                      /\ reqs'[r].user = reqs[r].user
  PROVE  TagGood'
<1> SUFFICES ASSUME NEW id \in Ids, NEW r \in Chats, reqs'[r].began = id
             PROVE  Tag[reqs'[r].user] = id[2]
  BY DEF TagGood, Beginners
<1>1. reqs[r].began = id /\ reqs[r].user = reqs'[r].user
  BY NoneAssumption
<1> QED
  BY <1>1 DEF Inv, TagGood, Beginners

------------------------------------------------------------------------------
(* What becomes of one conversation. *)

LEMMA GoodStays == ASSUME NEW c, NEW rq, NEW rq2, Good(c, rq), KeepsAuthors(rq, rq2)
                   PROVE  Good(c, rq2)
<1>1. c.id \in Ids /\ \A m \in c.msgs : m[1] \in Chats
  BY DEF Good, Conversation, Messages
<1> QED
  BY <1>1 DEF Good, Own, KeepsAuthors

LEMMA GoodFlags == ASSUME NEW c, NEW rq, Good(c, rq), NEW b \in BOOLEAN
                   PROVE  /\ Good([c EXCEPT !.ended = b], rq) /\ [c EXCEPT !.ended = b].id = c.id
                          /\ [c EXCEPT !.ended = b].user = c.user
                          /\ Good([c EXCEPT !.recent = b], rq) /\ [c EXCEPT !.recent = b].id = c.id
                          /\ [c EXCEPT !.recent = b].user = c.user
                          /\ Good(Mailed(c, b), rq) /\ Mailed(c, b).id = c.id
                          /\ Mailed(c, b).user = c.user
<1>1. c \in Conversation
  BY DEF Good
<1> QED
  BY <1>1 DEF Good, Own, Mailed, Conversation

LEMMA GoodMore == ASSUME NEW c, NEW rq, Good(c, rq), NEW r \in Chats, rq[r].pc # "new",
                         rq[r].user \in Beginners(rq, c.id), NEW k \in {"question", "answer"}
                  PROVE  /\ Good(Said(c, r, k), rq) /\ Said(c, r, k).id = c.id
                         /\ Said(c, r, k).user = c.user
<1> DEFINE d == Said(c, r, k)
<1>1. c \in Conversation
  BY DEF Good
<1>2. <<r, k>> \in Messages
  BY DEF Messages
<1>3. d \in Conversation /\ d.id = c.id /\ d.user = c.user /\ d.msgs = c.msgs \cup {<<r, k>>}
  BY <1>1, <1>2 DEF Conversation, Said
<1> HIDE DEF d
<1>4. ASSUME NEW m \in d.msgs
      PROVE  rq[m[1]].pc # "new" /\ rq[m[1]].user \in Beginners(rq, d.id)
  <2>1. CASE m \in c.msgs
    BY <2>1, <1>3, <1>4 DEF Good, Own
  <2>2. CASE m = <<r, k>>
    BY <2>2, <1>3, <1>4
  <2> QED
    BY <2>1, <2>2, <1>3, <1>4
<1>5. Good(d, rq)
  BY <1>3, <1>4 DEF Good, Own
<1> QED
  BY <1>3, <1>5 DEF d

LEMMA GoodStart == ASSUME NEW u \in Users, clock \in Clock, NEW rq,
                          u \in Beginners(rq, <<clock, Tag[u]>>)
                   PROVE  Good(Started(u), rq) /\ Started(u).user = u /\ Started(u).id \in Ids
  BY DEF Started, Good, Own, Conversation, Ids

\* A good conversation is one, and no absence of one.
LEMMA GoodIsOne == ASSUME NEW c, NEW rq, Good(c, rq)
                   PROVE  c \in Conversation /\ c # NoConv /\ c.id \in Ids /\ c.user \in Users
                          /\ c.msgs \subseteq Messages
  BY NoneAssumption DEF Good, Conversation

------------------------------------------------------------------------------
(* What becomes of the objects, the memory and the bucket when one conversation is put. *)

LEMMA OneObject ==
  ASSUME Inv, KeepsAuthors(reqs, reqs'), reqs' \in [Requests -> Request],
         NEW x \in Chats, NEW c, Good(c, reqs'), reqs'[x].pc # "new",
         objs' = [objs EXCEPT ![x] = c],
         objs[x] # NoConv => c.id = objs[x].id,
         \A r \in Requests : reqs'[r].pc = "asking" =>
           \/ reqs[r].pc = "asking" /\ reqs'[r].obj = reqs[r].obj /\ reqs'[r].user = reqs[r].user
           \/ reqs'[r].obj = x /\ reqs'[r].user \in Beginners(reqs', c.id)
  PROVE  objs' \in [Chats -> Conversation \cup {NoConv}] /\ ObjsGood' /\ AskGood'
<1>1. c \in Conversation /\ c # NoConv
  BY GoodIsOne
<1>2. objs' \in [Chats -> Conversation \cup {NoConv}]
  BY <1>1 DEF Inv, Types
<1>3. \A o \in Chats : objs'[o] = IF o = x THEN c ELSE objs[o]
  BY DEF Inv, Types
<1>4. ObjsGood'
  <2> SUFFICES ASSUME NEW o \in Chats, objs'[o] # NoConv
               PROVE  Good(objs'[o], reqs') /\ reqs'[o].pc # "new"
    BY DEF ObjsGood
  <2>1. CASE o = x
    BY <2>1, <1>3
  <2>2. CASE o # x
    <3>1. Good(objs[o], reqs) /\ reqs[o].pc # "new"
      BY <2>2, <1>3 DEF Inv, ObjsGood
    <3>2. reqs'[o].pc # "new"
      BY <3>1 DEF KeepsAuthors
    <3> QED
      BY <2>2, <3>1, <3>2, <1>3, GoodStays
  <2> QED
    BY <2>1, <2>2
<1>5. AskGood'
  <2> SUFFICES ASSUME NEW r \in Requests, reqs'[r].pc = "asking"
               PROVE  /\ reqs'[r].obj # NoReq /\ objs'[reqs'[r].obj] # NoConv
                      /\ reqs'[r].user \in Beginners(reqs', objs'[reqs'[r].obj].id)
    BY DEF AskGood
  <2>1. NoReq \notin Chats
    BY DeskAssumption
  <2>2. CASE reqs'[r].obj = x /\ reqs'[r].user \in Beginners(reqs', c.id)
    BY <2>1, <2>2, <1>1, <1>3
  <2>3. CASE reqs[r].pc = "asking" /\ reqs'[r].obj = reqs[r].obj /\ reqs'[r].user = reqs[r].user
    <3>1. /\ reqs[r].obj # NoReq /\ objs[reqs[r].obj] # NoConv
          /\ reqs[r].user \in Beginners(reqs, objs[reqs[r].obj].id)
      BY <2>3 DEF Inv, AskGood
    <3>2. reqs[r].obj \in Chats
      BY <3>1 DEF Inv, Types, Request
    <3>3. objs[reqs[r].obj].id \in Ids
      BY <3>1, <3>2 DEF Inv, Types, Conversation
    <3>4. reqs[r].user \in Beginners(reqs', objs[reqs[r].obj].id)
      BY <3>1, <3>3 DEF KeepsAuthors
    <3>5. objs'[reqs[r].obj] # NoConv /\ objs'[reqs[r].obj].id = objs[reqs[r].obj].id
      BY <3>1, <3>2, <1>1, <1>3
    <3> QED
      BY <2>3, <3>1, <3>4, <3>5
  <2> QED
    BY <2>2, <2>3
<1> QED
  BY <1>2, <1>4, <1>5

LEMMA OnePut ==
  ASSUME Inv, KeepsAuthors(reqs, reqs'), NEW id \in Ids, NEW c, Good(c, reqs'), c.id = id,
         Put(id, c), sweep'.todo = sweep.todo \/ sweep'.todo = {}
  PROVE  bucket' \in [Ids -> Conversation \cup {NoConv}] /\ BucketGood' /\ TodoGood'
<1>1. c \in Conversation
  BY GoodIsOne
<1>2. bucket' \in [Ids -> Conversation \cup {NoConv}]
  BY <1>1 DEF Inv, Types, Put
<1>3. \A i \in Ids : bucket'[i] = bucket[i] \/ (i = id /\ bucket'[i] = c)
  BY DEF Inv, Types, Put
<1>4. BucketGood'
  <2> SUFFICES ASSUME NEW i \in Ids, bucket'[i] # NoConv
               PROVE  Good(bucket'[i], reqs') /\ bucket'[i].id = i
    BY DEF BucketGood
  <2>1. CASE i = id /\ bucket'[i] = c
    BY <2>1
  <2>2. CASE bucket'[i] = bucket[i]
    <3>1. Good(bucket[i], reqs) /\ bucket[i].id = i
      BY <2>2 DEF Inv, BucketGood
    <3> QED
      BY <2>2, <3>1, GoodStays
  <2> QED
    BY <1>3, <2>1, <2>2
<1>5. \A i \in Ids : bucket[i] # NoConv => bucket'[i] # NoConv
  BY <1>3, GoodIsOne
<1>6. TodoGood'
  BY <1>5 DEF Inv, Types, Sweeper, TodoGood
<1> QED
  BY <1>2, <1>4, <1>6

LEMMA OneMail ==
  ASSUME Inv, NEW c, NEW rq, Good(c, rq), NEW ok, Send(c, ok)
  PROVE  mailed' \in [Ids -> SUBSET Messages]
<1>1. c.msgs \subseteq Messages /\ c.id \in Ids
  BY GoodIsOne
<1> QED
  BY <1>1 DEF Inv, Types, Send

LEMMA SweepStays ==
  ASSUME Inv, KeepsAuthors(reqs, reqs'), sweep' = sweep
  PROVE  SweepGood' /\ sweep' \in Sweeper
  BY GoodStays DEF Inv, Types, SweepGood

------------------------------------------------------------------------------
(* The invariant, action by action. *)

LEMMA InvInit == Init => Inv
<1> SUFFICES ASSUME Init PROVE Inv
  OBVIOUS
<1>1. (CHOOSE u \in Users : TRUE) \in Users
  BY DeskAssumption
<1>2. Asleep \in Sweeper /\ Asleep.pc = "asleep"
  BY DEF Asleep, Sweeper
<1>3. Types
  BY <1>1, <1>2, DeskAssumption DEF Init, Types, Request
<1> QED
  BY <1>2, <1>3, NoneAssumption
     DEF Init, Inv, ObjsGood, ConvGood, BucketGood, SweepGood, TodoGood, AskGood, NewGood, TagGood,
         Beginners, Requests, Asleep

\* The conversations a browser can reach are in memory.
LEMMA FoundOnes == ASSUME Inv, NEW u, NEW named, NEW o \in Found(u, named), o # NoReq
                   PROVE  o \in Chats /\ objs[o] # NoConv
  BY DEF Found, OpenFor, Open, Known, Inv, Types, ConvGood

LEMMA InvChat == ASSUME Inv, NEW r \in Chats, NEW u \in Users, NEW named, Chat(r, u, named)
                 PROVE  Inv'
<1>1. PICK o \in Found(u, named) :
        /\ Yours(o, u)
        /\ LET fresh == o = NoReq \/ objs[o].ended
               x == IF fresh THEN r ELSE o
               c == Said(IF fresh THEN Started(u) ELSE objs[o], r, "question") IN
           /\ IF fresh THEN clock \in Clock /\ clock' \in Later ELSE clock' = clock
           /\ reqs' = [reqs EXCEPT ![r] = [pc |-> "asking", user |-> u, obj |-> x,
                                           began |-> IF fresh THEN c.id ELSE NoReq]]
           /\ objs' = [objs EXCEPT ![x] = c]
           /\ conv' = IF fresh THEN [conv EXCEPT ![c.id] = r] ELSE conv
           /\ Put(c.id, c)
  BY DEF Chat
<1> DEFINE fresh == o = NoReq \/ objs[o].ended
           x == IF fresh THEN r ELSE o
           b == IF fresh THEN Started(u) ELSE objs[o]
           c == Said(b, r, "question")
<1>2. reqs[r].pc = "new" /\ UNCHANGED <<sweep, mailed>>
  BY DEF Chat
<1>3. r \in Requests /\ x \in Chats
  BY FoundOnes DEF Requests
<1>4. /\ reqs' = [reqs EXCEPT ![r] = [pc |-> "asking", user |-> u, obj |-> x,
                                       began |-> IF fresh THEN c.id ELSE NoReq]]
      /\ objs' = [objs EXCEPT ![x] = c]
      /\ conv' = IF fresh THEN [conv EXCEPT ![c.id] = r] ELSE conv
      /\ Put(c.id, c)
      /\ IF fresh THEN clock \in Clock /\ clock' \in Later ELSE clock' = clock
  BY <1>1
<1>id. fresh => c.id = <<clock, Tag[u]>> /\ <<clock, Tag[u]>> \in Ids
  BY <1>4 DEF Said, Started, Ids
<1>5. /\ reqs' \in [Requests -> Request]
      /\ reqs'[r] = [pc |-> "asking", user |-> u, obj |-> x,
                     began |-> IF fresh THEN c.id ELSE NoReq]
      /\ \A s \in Requests : s # r => reqs'[s] = reqs[s]
  <2>1. [pc |-> "asking", user |-> u, obj |-> x, began |-> IF fresh THEN c.id ELSE NoReq]
          \in Request
    <3> HIDE DEF x, c, fresh
    <3> QED
      BY <1>3, <1>id DEF Request
  <2> HIDE DEF x, c, fresh
  <2> QED
    BY <1>3, <1>4, <2>1 DEF Inv, Types
<1>6. KeepsAuthors(reqs, reqs')
  <2> HIDE DEF x, c, fresh
  <2>1. \A s \in Chats : reqs[s].pc # "new" => reqs'[s] = reqs[s]
    BY <1>2, <1>5 DEF Requests
  <2> QED
    BY <2>1, Keeping
<1>be. fresh => u \in Beginners(reqs', <<clock, Tag[u]>>)
  <2> HIDE DEF x, c, fresh
  <2> QED
    BY <1>5, <1>id DEF Beginners
<1>7. Good(b, reqs') /\ b.user = u
  <2>1. CASE fresh
    BY <2>1, <1>4, <1>be, GoodStart
  <2>2. CASE ~ fresh
    <3>1. o \in Chats /\ objs[o] # NoConv
      BY <2>2, FoundOnes
    <3>2. Good(objs[o], reqs)
      BY <3>1 DEF Inv, ObjsGood
    <3> QED
      BY <2>2, <3>2, <1>1, <1>6, GoodStays DEF Yours
  <2> QED
    BY <2>1, <2>2
<1>8. Good(c, reqs') /\ c.id = b.id /\ c.user = u
  <2>1. reqs'[r].pc # "new" /\ reqs'[r].user = b.user
    BY <1>5, <1>7
  <2>2. reqs'[r].user \in Beginners(reqs', b.id)
    BY <2>1, <1>7 DEF Good, Own
  <2> HIDE DEF b
  <2> QED
    BY <2>1, <2>2, <1>7, GoodMore
<1>9. c.id \in Ids /\ c # NoConv
  BY <1>8, GoodIsOne
<1>10. objs[r] = NoConv
  BY <1>2 DEF Inv, ObjsGood
<1>11. reqs'[x].pc # "new" /\ (objs[x] # NoConv => c.id = objs[x].id)
  <2>1. CASE fresh
    BY <2>1, <1>5, <1>10
  <2>2. CASE ~ fresh
    <3>1. o \in Chats /\ objs[o] # NoConv
      BY <2>2, FoundOnes
    <3>2. reqs[o].pc # "new"
      BY <3>1 DEF Inv, ObjsGood
    <3> QED
      BY <2>2, <3>1, <3>2, <1>6, <1>7, <1>8 DEF KeepsAuthors
  <2> QED
    BY <2>1, <2>2
<1>12. \A s \in Requests : reqs'[s].pc = "asking" =>
         \/ reqs[s].pc = "asking" /\ reqs'[s].obj = reqs[s].obj /\ reqs'[s].user = reqs[s].user
         \/ reqs'[s].obj = x /\ reqs'[s].user \in Beginners(reqs', c.id)
  <2> TAKE s \in Requests
  <2>1. CASE s = r
    <3>1. c.user \in Beginners(reqs', c.id)
      BY <1>8 DEF Good, Own
    <3> HIDE DEF c, x, fresh
    <3> QED
      BY <2>1, <3>1, <1>5, <1>8
  <2>2. CASE s # r
    BY <2>2, <1>5
  <2> QED
    BY <2>1, <2>2
<1>13. ConvGood' /\ conv' \in [Ids -> Chats \cup {NoReq}]
  <2> HIDE DEF c
  <2>1. CASE fresh
    <3>1. objs' = [objs EXCEPT ![r] = c] /\ conv' = [conv EXCEPT ![c.id] = r]
      BY <2>1, <1>4
    <3> QED
      BY <3>1, <1>9, <1>10 DEF Inv, Types, ConvGood
  <2>2. CASE ~ fresh
    <3>1. conv' = conv /\ objs' = [objs EXCEPT ![x] = c]
      BY <2>2, <1>4
    <3>2. x \in Chats /\ objs[x] # NoConv /\ c.id = objs[x].id
      BY <2>2, <1>11, FoundOnes
    <3> HIDE DEF x, fresh
    <3> QED
      BY <3>1, <3>2, <1>9 DEF Inv, Types, ConvGood
  <2> QED
    BY <2>1, <2>2
<1>14. clock' \in 1 .. MaxClock + 1
  <2>1. CASE fresh
    BY <2>1, <1>4, DeskAssumption DEF Later, Clock
  <2>2. CASE ~ fresh
    BY <2>2, <1>4 DEF Inv, Types
  <2> QED
    BY <2>1, <2>2
<1> HIDE DEF c, x, b, fresh
<1>ng. NewGood'
  BY <1>5 DEF Inv, NewGood
<1>tg. TagGood'
  <2> SUFFICES ASSUME NEW i \in Ids, NEW s \in Chats, reqs'[s].began = i
               PROVE  Tag[reqs'[s].user] = i[2]
    BY DEF TagGood, Beginners
  <2>1. CASE s = r
    <3>1. fresh /\ i = c.id /\ reqs'[s].user = u
      BY <2>1, <1>5, NoneAssumption
    <3> QED
      BY <3>1, <1>id
  <2>2. CASE s # r
    <3>1. reqs[s].began = i /\ reqs'[s] = reqs[s]
      BY <2>2, <1>5 DEF Requests
    <3> QED
      BY <3>1 DEF Inv, TagGood, Beginners
  <2> QED
    BY <2>1, <2>2
<1>15. objs' \in [Chats -> Conversation \cup {NoConv}] /\ ObjsGood' /\ AskGood'
  BY <1>3, <1>4, <1>5, <1>6, <1>8, <1>11, <1>12, OneObject
<1>16. bucket' \in [Ids -> Conversation \cup {NoConv}] /\ BucketGood' /\ TodoGood'
  BY <1>2, <1>4, <1>6, <1>8, <1>9, OnePut
<1>17. SweepGood' /\ sweep' \in Sweeper
  BY <1>2, <1>6, SweepStays
<1>18. mailed' \in [Ids -> SUBSET Messages]
  BY <1>2 DEF Inv, Types
<1> QED
  BY <1>5, <1>13, <1>14, <1>15, <1>16, <1>17, <1>18, <1>ng, <1>tg DEF Inv, Types

LEMMA InvReply == ASSUME Inv, NEW r \in Chats, Reply(r) PROVE Inv'
<1> DEFINE x == reqs[r].obj
           c == Said(objs[x], r, "answer")
<1>1. /\ reqs[r].pc = "asking" /\ objs' = [objs EXCEPT ![x] = c] /\ Put(c.id, c)
      /\ reqs' = [reqs EXCEPT ![r].pc = "answered", ![r].obj = NoReq]
      /\ UNCHANGED <<clock, conv, sweep, mailed>>
  BY DEF Reply
<1>2. r \in Requests
  BY DEF Requests
<1>3. x \in Chats /\ objs[x] # NoConv /\ reqs[r].user \in Beginners(reqs, objs[x].id)
  BY <1>1, <1>2 DEF Inv, Types, AskGood, Request
<1>4. /\ reqs' \in [Requests -> Request] /\ reqs'[r].pc = "answered"
      /\ reqs'[r].user = reqs[r].user /\ reqs'[r].began = reqs[r].began
      /\ \A s \in Requests : s # r => reqs'[s] = reqs[s]
  BY <1>1, <1>2 DEF Inv, Types, Request
<1>same. \A s \in Requests : /\ reqs'[s].user = reqs[s].user /\ reqs'[s].began = reqs[s].began
                             /\ reqs[s].pc # "new" <=> reqs'[s].pc # "new"
  BY <1>1, <1>4
<1>5. KeepsAuthors(reqs, reqs') /\ TagGood' /\ NewGood'
  BY <1>same, Keeping, NoMore DEF Requests, Inv, NewGood
<1>6. Good(objs[x], reqs') /\ reqs[x].pc # "new"
  BY <1>3, <1>5, GoodStays DEF Inv, ObjsGood
<1>7. Good(c, reqs') /\ c.id = objs[x].id /\ c.user = objs[x].user
  <2>1. reqs'[r].pc # "new" /\ objs[x].id \in Ids
    BY <1>4, <1>6 DEF Good, Conversation
  <2>2. reqs'[r].user \in Beginners(reqs', objs[x].id)
    BY <2>1, <1>3, <1>4, <1>5 DEF KeepsAuthors
  <2> HIDE DEF x
  <2> QED
    BY <2>1, <2>2, <1>6, GoodMore
<1>8. c.id \in Ids /\ c # NoConv
  BY <1>7, GoodIsOne
<1> HIDE DEF c, x
<1>9. reqs'[x].pc # "new"
  BY <1>3, <1>5, <1>6 DEF KeepsAuthors
<1>10. \A s \in Requests : reqs'[s].pc = "asking" =>
         reqs[s].pc = "asking" /\ reqs'[s].obj = reqs[s].obj /\ reqs'[s].user = reqs[s].user
  BY <1>4
<1>11. ConvGood' /\ conv' \in [Ids -> Chats \cup {NoReq}]
  BY <1>1, <1>3, <1>7, <1>8 DEF Inv, Types, ConvGood
<1>12. objs' \in [Chats -> Conversation \cup {NoConv}] /\ ObjsGood' /\ AskGood'
  BY <1>1, <1>3, <1>4, <1>5, <1>7, <1>9, <1>10, OneObject
<1>13. bucket' \in [Ids -> Conversation \cup {NoConv}] /\ BucketGood' /\ TodoGood'
  BY <1>1, <1>5, <1>7, <1>8, OnePut
<1>14. SweepGood' /\ sweep' \in Sweeper
  BY <1>1, <1>5, SweepStays
<1> QED
  BY <1>1, <1>4, <1>5, <1>11, <1>12, <1>13, <1>14 DEF Inv, Types

LEMMA InvEnd == ASSUME Inv, NEW r \in Ends, NEW u \in Users, NEW named, End(r, u, named)
                PROVE  Inv'
<1>1. PICK o \in Found(u, named), ok \in Outcomes :
        /\ o # NoReq /\ Yours(o, u)
        /\ LET c == [objs[o] EXCEPT !.ended = TRUE] IN
           /\ Send(c, ok /\ HasTurns(c))
           /\ objs' = [objs EXCEPT ![o] = Mailed(c, ok /\ HasTurns(c))]
           /\ Put(c.id, objs'[o])
  BY DEF End
<1> DEFINE c == [objs[o] EXCEPT !.ended = TRUE]
           sent == ok /\ HasTurns(c)
           d == Mailed(c, sent)
<1>2. /\ reqs[r].pc = "new" /\ UNCHANGED <<clock, conv, sweep>>
      /\ reqs' = [reqs EXCEPT ![r] = [pc |-> "ended", user |-> u, obj |-> NoReq,
                                      began |-> NoReq]]
  BY DEF End
<1>3. o \in Chats /\ objs[o] # NoConv
  BY <1>1, FoundOnes
<1>4. r \in Requests /\ r \notin Chats
  BY DeskAssumption DEF Requests
<1>5. /\ reqs' \in [Requests -> Request] /\ reqs'[r].pc = "ended"
      /\ \A s \in Requests : s # r => reqs'[s] = reqs[s]
  BY <1>2, <1>4 DEF Inv, Types, Request
<1>6. KeepsAuthors(reqs, reqs') /\ TagGood' /\ NewGood'
  <2>1. \A s \in Chats : reqs'[s] = reqs[s]
    BY <1>4, <1>5 DEF Requests
  <2> QED
    BY <2>1, <1>5, Keeping, NoMore DEF Inv, NewGood
<1>7. Good(objs[o], reqs') /\ reqs[o].pc # "new"
  BY <1>3, <1>6, GoodStays DEF Inv, ObjsGood
<1>8. Good(c, reqs') /\ c.id = objs[o].id /\ c.user = objs[o].user
  BY <1>7, GoodFlags
<1>9. sent \in BOOLEAN
  BY DEF Outcomes
<1> HIDE DEF c, sent
<1>10. Good(d, reqs') /\ d.id = objs[o].id /\ d.user = objs[o].user
  BY <1>8, <1>9, GoodFlags
<1>11. d.id \in Ids /\ d # NoConv
  BY <1>10, GoodIsOne
<1>12. Send(c, sent) /\ objs' = [objs EXCEPT ![o] = d] /\ Put(c.id, objs'[o])
  BY <1>1 DEF c, sent
<1> HIDE DEF d
<1>13. Put(d.id, d)
  <2>1. objs'[o] = d
    BY <1>3, <1>12 DEF Inv, Types
  <2> QED
    BY <2>1, <1>8, <1>10, <1>12
<1>14. reqs'[o].pc # "new"
  BY <1>3, <1>6, <1>7 DEF KeepsAuthors
<1>15. \A s \in Requests : reqs'[s].pc = "asking" =>
         reqs[s].pc = "asking" /\ reqs'[s].obj = reqs[s].obj /\ reqs'[s].user = reqs[s].user
  BY <1>5
<1>16. ConvGood' /\ conv' \in [Ids -> Chats \cup {NoReq}]
  BY <1>2, <1>3, <1>10, <1>11, <1>12 DEF Inv, Types, ConvGood
<1>17. objs' \in [Chats -> Conversation \cup {NoConv}] /\ ObjsGood' /\ AskGood'
  BY <1>3, <1>5, <1>6, <1>10, <1>12, <1>14, <1>15, OneObject
<1>18. bucket' \in [Ids -> Conversation \cup {NoConv}] /\ BucketGood' /\ TodoGood'
  BY <1>2, <1>6, <1>10, <1>11, <1>13, OnePut
<1>19. SweepGood' /\ sweep' \in Sweeper
  BY <1>2, <1>6, SweepStays
<1>20. mailed' \in [Ids -> SUBSET Messages]
  BY <1>8, <1>12, OneMail
<1> QED
  BY <1>2, <1>5, <1>6, <1>16, <1>17, <1>18, <1>19, <1>20 DEF Inv, Types

\* Steps that leave requests and conversations alone.
LEMMA InvSweep == ASSUME Inv, UNCHANGED <<clock, reqs, objs, conv, bucket, mailed>>,
                         sweep' \in Sweeper, SweepGood', TodoGood'
                  PROVE  Inv'
  BY DEF Inv, Types, ObjsGood, ConvGood, BucketGood, AskGood, NewGood, TagGood

LEMMA InvSweepRead == ASSUME Inv, NEW id \in Ids, SweepRead(id) PROVE Inv'
<1>1. /\ id \in sweep.todo /\ UNCHANGED <<clock, reqs, objs, conv, bucket, mailed>>
      /\ sweep' = [sweep EXCEPT !.pc = "due", !.todo = @ \ {id}, !.id = id, !.raw = bucket[id]]
  BY DEF SweepRead
<1>2. bucket[id] \in Conversation /\ bucket[id] # NoConv /\ Good(bucket[id], reqs)
      /\ bucket[id].id = id
  BY <1>1 DEF Inv, Types, TodoGood, BucketGood
<1>3. /\ sweep' \in Sweeper /\ sweep'.id = id /\ sweep'.raw = bucket[id]
      /\ sweep'.todo = sweep.todo \ {id}
  BY <1>1, <1>2 DEF Inv, Types, Sweeper
<1>4. SweepGood'
  BY <1>1, <1>2, <1>3 DEF SweepGood
<1>5. TodoGood'
  BY <1>1, <1>3 DEF Inv, TodoGood
<1> QED
  BY <1>1, <1>3, <1>4, <1>5, InvSweep

LEMMA InvSweepMail ==
  ASSUME Inv, NEW id \in Ids, NEW ok \in Outcomes, SweepMail(id, ok)
  PROVE  Inv'
<1> DEFINE live == conv[id]
           b == IF live # NoReq /\ ~ objs[live].emailed THEN objs[live] ELSE sweep.raw
           c == [b EXCEPT !.ended = TRUE]
           d == Mailed(c, ok)
<1>1. /\ sweep.pc = "due" /\ sweep.id = id /\ UNCHANGED <<clock, reqs, conv>>
      /\ sweep' = [Asleep EXCEPT !.pc = "reading", !.todo = sweep.todo]
      /\ Send(c, ok) /\ Put(id, d)
      /\ objs' = IF live = NoReq THEN objs ELSE [objs EXCEPT ![live] = d]
  BY DEF SweepMail
<1>2. ok \in BOOLEAN
  BY DEF Outcomes
<1>3. KeepsAuthors(reqs, reqs') /\ reqs' \in [Requests -> Request]
  BY <1>1, Keeping DEF Inv, Types
<1>4. Good(sweep.raw, reqs') /\ sweep.raw.id = id
  <2>1. Good(sweep.raw, reqs) /\ sweep.raw.id = sweep.id
    BY <1>1 DEF Inv, SweepGood
  <2> QED
    BY <1>1, <2>1
<1>5. live # NoReq => /\ live \in Chats /\ objs[live] # NoConv /\ objs[live].id = id
                      /\ Good(objs[live], reqs') /\ reqs'[live].pc # "new"
  <2> SUFFICES ASSUME live # NoReq
               PROVE  /\ live \in Chats /\ objs[live] # NoConv /\ objs[live].id = id
                      /\ Good(objs[live], reqs') /\ reqs'[live].pc # "new"
    OBVIOUS
  <2>1. live \in Chats /\ objs[live] # NoConv /\ objs[live].id = id
    BY DEF Inv, Types, ConvGood
  <2>2. Good(objs[live], reqs) /\ reqs[live].pc # "new"
    BY <2>1 DEF Inv, ObjsGood
  <2> QED
    BY <1>1, <2>1, <2>2
<1>6. Good(b, reqs') /\ b.id = id
  BY <1>4, <1>5
<1> HIDE DEF b
<1>7. Good(d, reqs') /\ d.id = id /\ d.user = b.user /\ Good(c, reqs')
  BY <1>2, <1>6, GoodFlags
<1>8. d # NoConv /\ d \in Conversation
  BY <1>7, GoodIsOne
<1> HIDE DEF c, d
<1>9. NewGood' /\ TagGood'
  BY <1>1 DEF Inv, NewGood, TagGood
<1>10. objs' \in [Chats -> Conversation \cup {NoConv}] /\ ObjsGood' /\ AskGood'
  <2>1. CASE live = NoReq
    BY <2>1, <1>1 DEF Inv, Types, ObjsGood, AskGood
  <2>2. CASE live # NoReq
    <3>1. objs' = [objs EXCEPT ![live] = d]
      BY <2>2, <1>1
    <3>2. \A s \in Requests : reqs'[s].pc = "asking" =>
            reqs[s].pc = "asking" /\ reqs'[s].obj = reqs[s].obj /\ reqs'[s].user = reqs[s].user
      BY <1>1
    <3> HIDE DEF live
    <3> QED
      BY <2>2, <3>1, <3>2, <1>3, <1>5, <1>7, OneObject
  <2> QED
    BY <2>1, <2>2
<1>11. ConvGood'
  <2>1. CASE live = NoReq
    BY <2>1, <1>1 DEF Inv, ConvGood
  <2>2. CASE live # NoReq
    <3>1. objs' = [objs EXCEPT ![live] = d] /\ conv' = conv
      BY <2>2, <1>1
    <3> HIDE DEF live
    <3> QED
      BY <2>2, <3>1, <1>5, <1>7, <1>8 DEF Inv, Types, ConvGood
  <2> QED
    BY <2>1, <2>2
<1>12. sweep' \in Sweeper /\ sweep'.pc = "reading" /\ sweep'.todo = sweep.todo
  BY <1>1 DEF Inv, Types, Sweeper, Asleep
<1>13. bucket' \in [Ids -> Conversation \cup {NoConv}] /\ BucketGood' /\ TodoGood'
  BY <1>1, <1>3, <1>7, <1>12, OnePut
<1>14. mailed' \in [Ids -> SUBSET Messages]
  BY <1>1, <1>7, OneMail
<1> QED
  BY <1>1, <1>3, <1>9, <1>10, <1>11, <1>12, <1>13, <1>14 DEF Inv, Types, SweepGood

LEMMA InvRestart == ASSUME Inv, Restart PROVE Inv'
<1>1. /\ conv' = [id \in Ids |-> NoReq] /\ objs' = [r \in Chats |-> NoConv] /\ sweep' = Asleep
      /\ reqs' = [r \in Requests |-> IF reqs[r].pc = "asking"
                                 THEN [reqs[r] EXCEPT !.pc = "gone", !.obj = NoReq] ELSE reqs[r]]
      /\ UNCHANGED <<clock, bucket, mailed>>
  BY DEF Restart
<1>2. \A r \in Requests : /\ reqs'[r] \in Request /\ reqs'[r].pc # "asking"
                          /\ reqs'[r].user = reqs[r].user /\ reqs'[r].began = reqs[r].began
                          /\ reqs[r].pc # "new" <=> reqs'[r].pc # "new"
  <2> TAKE r \in Requests
  <2>1. reqs[r] \in Request
    BY DEF Inv, Types
  <2> QED
    BY <1>1, <2>1 DEF Request
<1>3. reqs' \in [Requests -> Request]
  BY <1>1, <1>2
<1>4. KeepsAuthors(reqs, reqs') /\ TagGood' /\ NewGood'
  BY <1>2, Keeping, NoMore DEF Requests, Inv, NewGood
<1>5. BucketGood'
  BY <1>1, <1>4, GoodStays DEF Inv, BucketGood
<1>6. sweep' \in Sweeper /\ sweep'.pc = "asleep" /\ sweep'.todo = {}
  BY <1>1 DEF Asleep, Sweeper
<1> QED
  BY <1>1, <1>2, <1>3, <1>4, <1>5, <1>6
     DEF Inv, Types, ObjsGood, ConvGood, SweepGood, TodoGood, AskGood

LEMMA InvPause == ASSUME Inv, Pause PROVE Inv'
<1> DEFINE quiet(c) == IF c = NoConv THEN c ELSE [c EXCEPT !.recent = FALSE]
<1>1. /\ objs' = [r \in Chats |-> quiet(objs[r])]
      /\ bucket' = [id \in Ids |-> quiet(bucket[id])]
      /\ UNCHANGED <<clock, reqs, conv, sweep, mailed>>
  BY DEF Pause
<1>2. ASSUME NEW c \in Conversation \cup {NoConv}, c # NoConv => Good(c, reqs)
      PROVE  /\ quiet(c) \in Conversation \cup {NoConv} /\ (quiet(c) = NoConv <=> c = NoConv)
             /\ c # NoConv => /\ Good(quiet(c), reqs) /\ quiet(c).id = c.id
                              /\ quiet(c).user = c.user
  <2>1. CASE c = NoConv
    BY <2>1
  <2>2. CASE c # NoConv
    <3>1. Good(quiet(c), reqs) /\ quiet(c).id = c.id /\ quiet(c).user = c.user
      BY <1>2, <2>2, GoodFlags
    <3> HIDE DEF quiet
    <3> QED
      BY <2>2, <3>1, GoodIsOne
  <2> QED
    BY <2>1, <2>2
<1> HIDE DEF quiet
<1>3. \A o \in Chats : /\ objs'[o] \in Conversation \cup {NoConv}
                       /\ objs'[o] = NoConv <=> objs[o] = NoConv
                       /\ objs[o] # NoConv => /\ Good(objs'[o], reqs) /\ objs'[o].id = objs[o].id
                                              /\ objs'[o].user = objs[o].user
  BY <1>1, <1>2 DEF Inv, Types, ObjsGood
<1>4. \A i \in Ids : /\ bucket'[i] \in Conversation \cup {NoConv}
                     /\ bucket'[i] # NoConv => Good(bucket'[i], reqs) /\ bucket'[i].id = i
                     /\ bucket[i] # NoConv => bucket'[i] # NoConv
  BY <1>1, <1>2 DEF Inv, Types, BucketGood
<1>5. Types'
  BY <1>1, <1>3, <1>4 DEF Inv, Types
<1>6. ObjsGood' /\ BucketGood' /\ SweepGood' /\ TodoGood'
  BY <1>1, <1>3, <1>4 DEF Inv, Types, Sweeper, ObjsGood, BucketGood, SweepGood, TodoGood
<1>7. ConvGood'
  BY <1>1, <1>3 DEF Inv, Types, ConvGood
<1>8. AskGood'
  <2> SUFFICES ASSUME NEW r \in Requests, reqs[r].pc = "asking"
               PROVE  /\ reqs[r].obj # NoReq /\ objs'[reqs[r].obj] # NoConv
                      /\ reqs[r].user \in Beginners(reqs, objs'[reqs[r].obj].id)
    BY <1>1 DEF AskGood
  <2>1. reqs[r].obj \in Chats
    BY DEF Inv, Types, AskGood, Request
  <2> QED
    BY <2>1, <1>3 DEF Inv, AskGood
<1>9. NewGood' /\ TagGood'
  BY <1>1 DEF Inv, NewGood, TagGood
<1> QED
  BY <1>5, <1>6, <1>7, <1>8, <1>9 DEF Inv

------------------------------------------------------------------------------
LEMMA InvNext == ASSUME Inv, [Next]_vars PROVE Inv'
<1>1. ASSUME NEW r \in Chats, NEW u \in Users, NEW named \in Ids \cup {NoReq}, Chat(r, u, named)
      PROVE  Inv'
  BY <1>1, InvChat
<1>2. ASSUME NEW r \in Ends, NEW u \in Users, NEW named \in Ids \cup {NoReq}, End(r, u, named)
      PROVE  Inv'
  BY <1>2, InvEnd
<1>3. ASSUME NEW r \in Chats, Reply(r) PROVE Inv'
  BY <1>3, InvReply
<1>4. ASSUME NEW todo \in SUBSET Listed, SweepStart(todo) PROVE Inv'
  <2>1. sweep' \in Sweeper /\ sweep'.pc = "reading" /\ sweep'.todo = todo
    BY <1>4 DEF SweepStart, Inv, Types, Sweeper, Listed
  <2>2. SweepGood' /\ TodoGood'
    BY <1>4, <2>1 DEF SweepStart, SweepGood, TodoGood, Listed
  <2> QED
    BY <1>4, <2>1, <2>2, InvSweep DEF SweepStart
<1>5. Listed \in SUBSET Listed /\ {} \in SUBSET Listed
  OBVIOUS
<1>6. CASE SweepEnd
  <2>1. sweep' \in Sweeper /\ sweep'.pc = "asleep" /\ sweep'.todo = {}
    BY <1>6 DEF SweepEnd, Asleep, Sweeper
  <2> QED
    BY <1>6, <2>1, InvSweep DEF SweepEnd, SweepGood, TodoGood
<1>7. ASSUME NEW id \in Ids, SweepRead(id) PROVE Inv'
  BY <1>7, InvSweepRead
<1>8. ASSUME NEW id \in Ids, SweepSkip(id) PROVE Inv'
  <2>1. sweep' \in Sweeper /\ sweep'.pc = "reading" /\ sweep'.todo = sweep.todo \ {id}
    BY <1>8 DEF SweepSkip, Inv, Types, Sweeper
  <2>2. SweepGood' /\ TodoGood'
    BY <1>8, <2>1 DEF SweepSkip, Inv, SweepGood, TodoGood
  <2> QED
    BY <1>8, <2>1, <2>2, InvSweep DEF SweepSkip
<1>9. ASSUME NEW id \in Ids, NEW ok \in Outcomes, SweepMail(id, ok) PROVE Inv'
  BY <1>9, InvSweepMail
<1>10. CASE Restart
  BY <1>10, InvRestart
<1>11. CASE Pause
  BY <1>11, InvPause
<1>12. CASE UNCHANGED vars
  <2>1. sweep' \in Sweeper /\ SweepGood' /\ TodoGood'
    BY <1>12 DEF vars, Inv, Types, SweepGood, TodoGood
  <2> QED
    BY <1>12, <2>1, InvSweep DEF vars
<1> QED
  BY <1>1, <1>2, <1>3, <1>4, <1>5, <1>6, <1>7, <1>8, <1>9, <1>10, <1>11, <1>12 DEF Next

\* Nobody's words end up in a conversation whose id was not begun for them: with whatever
\* conversation a browser names, whatever chats, ends, sweeps and restarts overlap, whatever mails
\* and puts fail, and also where attendees without a seat share a tag.
THEOREM WordsStayOwn == Spec => []OwnWords
<1>1. Init => Inv
  BY InvInit
<1>2. Inv /\ [Next]_vars => Inv'
  BY InvNext
<1>3. Inv => OwnWords
  BY DEF Inv, ObjsGood, BucketGood, SweepGood, Good, Own, OwnWords, Authored, Stored
<1> QED
  BY <1>1, <1>2, <1>3, PTL DEF Spec

\* Types hold, every thread that waits for the agent holds a conversation begun for its attendee,
\* and an id carries the tag of those it was begun for.
THEOREM DeskTypes == Spec => []TypeOK
<1>1. Init => Inv
  BY InvInit
<1>2. Inv /\ [Next]_vars => Inv'
  BY InvNext
<1>3. Inv => TypeOK
  BY DEF Inv, Types, ConvGood, SweepGood, AskGood, TagGood, TypeOK
<1> QED
  BY <1>1, <1>2, <1>3, PTL DEF Spec

------------------------------------------------------------------------------
(* The marks *)

\* A mark is true of whatever has it, and what the sweeper holds as due has none.
Marks ==
  /\ \A o \in Chats : objs[o] # NoConv =>
       objs[o].msgs # {} /\ (objs[o].emailed => mailed[objs[o].id] # {})
  /\ MarkIsTrue
  /\ sweep.pc = "due" => ~ sweep.raw.emailed /\ sweep.raw.msgs # {}

LEMMA MarksPut ==
  ASSUME Inv, Marks, NEW x \in Chats, NEW c \in Conversation, c.msgs # {},
         c.emailed => mailed'[c.id] # {},
         objs' = objs \/ objs' = [objs EXCEPT ![x] = c], Put(c.id, c),
         \A i \in Ids : mailed[i] # {} => mailed'[i] # {},
         sweep'.pc = "due" => sweep' = sweep
  PROVE  Marks'
<1>1. \A o \in Chats : objs'[o] = objs[o] \/ objs'[o] = c
  BY DEF Inv, Types
<1>2. \A i \in Ids : bucket'[i] = bucket[i] \/ (i = c.id /\ bucket'[i] = c)
  BY DEF Inv, Types, Put
<1>3. \A o \in Chats : objs[o] # NoConv => objs[o].id \in Ids
  BY DEF Inv, Types, Conversation
<1>4. ASSUME NEW o \in Chats, objs'[o] # NoConv
      PROVE  objs'[o].msgs # {} /\ (objs'[o].emailed => mailed'[objs'[o].id] # {})
  BY <1>1, <1>3, <1>4 DEF Marks
<1>5. MarkIsTrue'
  BY <1>2 DEF Marks, MarkIsTrue, Stored
<1>6. sweep'.pc = "due" => ~ sweep'.raw.emailed /\ sweep'.raw.msgs # {}
  BY DEF Marks
<1> QED
  BY <1>4, <1>5, <1>6 DEF Marks

\* What more is said, or flagged, and what a mail does.
LEMMA SaidMore == ASSUME NEW c \in Conversation, NEW r \in Chats, NEW k \in {"question", "answer"}
                  PROVE  /\ Said(c, r, k) \in Conversation /\ Said(c, r, k).msgs # {}
                         /\ Said(c, r, k).id = c.id /\ Said(c, r, k).emailed = c.emailed
<1>1. <<r, k>> \in Messages
  BY DEF Messages
<1> QED
  BY <1>1 DEF Said, Conversation

LEMMA EndedMailed ==
  ASSUME NEW c \in Conversation, NEW ok \in BOOLEAN
  PROVE  LET e == [c EXCEPT !.ended = TRUE]  d == Mailed([c EXCEPT !.ended = TRUE], ok) IN
         /\ e \in Conversation /\ e.id = c.id /\ e.msgs = c.msgs
         /\ d \in Conversation /\ d.id = c.id /\ d.msgs = c.msgs
         /\ d.emailed => c.emailed \/ ok
<1> DEFINE e == [c EXCEPT !.ended = TRUE]
<1>1. e \in Conversation /\ e.id = c.id /\ e.msgs = c.msgs /\ e.emailed = c.emailed
  BY DEF Conversation
<1> HIDE DEF e
<1>2. /\ Mailed(e, ok) \in Conversation /\ Mailed(e, ok).id = e.id
      /\ Mailed(e, ok).msgs = e.msgs /\ (Mailed(e, ok).emailed => e.emailed \/ ok)
  BY <1>1 DEF Mailed, Conversation
<1> QED
  BY <1>1, <1>2 DEF e

LEMMA MailsAdd ==
  ASSUME Inv, NEW c \in Conversation, NEW ok, Send(c, ok)
  PROVE  /\ \A i \in Ids : mailed[i] # {} => mailed'[i] # {}
         /\ ok /\ c.msgs # {} => mailed'[c.id] # {}
  BY DEF Inv, Types, Send, Conversation

LEMMA MarksChat ==
  ASSUME Inv, Marks, NEW r \in Chats, NEW u \in Users, NEW named, Chat(r, u, named)
  PROVE  Marks'
<1>1. PICK o \in Found(u, named) :
        LET fresh == o = NoReq \/ objs[o].ended
            x == IF fresh THEN r ELSE o
            c == Said(IF fresh THEN Started(u) ELSE objs[o], r, "question") IN
        /\ IF fresh THEN clock \in Clock /\ clock' \in Later ELSE clock' = clock
        /\ objs' = [objs EXCEPT ![x] = c]
        /\ Put(c.id, c)
  BY DEF Chat
<1> DEFINE fresh == o = NoReq \/ objs[o].ended
           x == IF fresh THEN r ELSE o
           b == IF fresh THEN Started(u) ELSE objs[o]
           c == Said(b, r, "question")
<1>2. x \in Chats
  BY FoundOnes
<1>3. b \in Conversation /\ (b.emailed => mailed[b.id] # {})
  <2>1. CASE fresh
    BY <2>1, <1>1 DEF Started, Conversation, Ids
  <2>2. CASE ~ fresh
    <3>1. o \in Chats /\ objs[o] # NoConv
      BY <2>2, FoundOnes
    <3> QED
      BY <2>2, <3>1 DEF Inv, Types, Marks
  <2> QED
    BY <2>1, <2>2
<1>4. objs' = [objs EXCEPT ![x] = c] /\ Put(c.id, c) /\ UNCHANGED <<sweep, mailed>>
  BY <1>1 DEF Chat
<1> HIDE DEF b, x
<1>5. c \in Conversation /\ c.msgs # {} /\ c.id = b.id /\ c.emailed = b.emailed
  BY <1>3, SaidMore
<1> HIDE DEF c
<1> QED
  BY <1>2, <1>3, <1>4, <1>5, MarksPut

LEMMA MarksReply == ASSUME Inv, Marks, NEW r \in Chats, Reply(r) PROVE Marks'
<1> DEFINE x == reqs[r].obj
           c == Said(objs[x], r, "answer")
<1>1. /\ reqs[r].pc = "asking" /\ objs' = [objs EXCEPT ![x] = c] /\ Put(c.id, c)
      /\ UNCHANGED <<sweep, mailed>>
  BY DEF Reply
<1>2. x \in Chats /\ objs[x] # NoConv
  BY <1>1 DEF Inv, Types, AskGood, Request, Requests
<1>3. objs[x] \in Conversation /\ (objs[x].emailed => mailed[objs[x].id] # {})
  BY <1>2 DEF Inv, Types, Marks
<1>4. c \in Conversation /\ c.msgs # {} /\ c.id = objs[x].id /\ c.emailed = objs[x].emailed
  BY <1>3, SaidMore
<1> HIDE DEF c, x
<1> QED
  BY <1>1, <1>2, <1>3, <1>4, MarksPut

LEMMA MarksEnd ==
  ASSUME Inv, Marks, NEW r, NEW u, NEW named, End(r, u, named)
  PROVE  Marks'
<1>1. PICK o \in Found(u, named), ok \in Outcomes :
        /\ o # NoReq
        /\ LET c == [objs[o] EXCEPT !.ended = TRUE] IN
           /\ Send(c, ok /\ HasTurns(c))
           /\ objs' = [objs EXCEPT ![o] = Mailed(c, ok /\ HasTurns(c))]
           /\ Put(c.id, objs'[o])
  BY DEF End
<1> DEFINE c == [objs[o] EXCEPT !.ended = TRUE]
           sent == ok /\ HasTurns(c)
           d == Mailed(c, sent)
<1>2. o \in Chats /\ objs[o] # NoConv
  BY <1>1, FoundOnes
<1>3. /\ objs[o] \in Conversation /\ objs[o].msgs # {}
      /\ objs[o].emailed => mailed[objs[o].id] # {}
  BY <1>2 DEF Inv, Types, Marks
<1>4. sent \in BOOLEAN
  BY DEF Outcomes
<1>5. Send(c, sent) /\ objs' = [objs EXCEPT ![o] = d] /\ Put(c.id, objs'[o]) /\ sweep' = sweep
  BY <1>1 DEF End
<1> HIDE DEF sent
<1>6. /\ c \in Conversation /\ c.id = objs[o].id /\ c.msgs # {}
      /\ d \in Conversation /\ d.id = c.id /\ d.msgs # {}
      /\ d.emailed => objs[o].emailed \/ sent
  BY <1>3, <1>4, EndedMailed
<1> HIDE DEF c, d
<1>7. /\ \A i \in Ids : mailed[i] # {} => mailed'[i] # {}
      /\ sent => mailed'[c.id] # {}
  BY <1>5, <1>6, MailsAdd
<1>8. objs'[o] = d
  BY <1>2, <1>5 DEF Inv, Types
<1>9. c.id \in Ids
  BY <1>6 DEF Conversation
<1>10. d.emailed => mailed'[d.id] # {}
  BY <1>3, <1>6, <1>7, <1>9
<1> QED
  BY <1>2, <1>5, <1>6, <1>7, <1>8, <1>10, MarksPut

LEMMA MarksSweepMail ==
  ASSUME Inv, Marks, NEW id \in Ids, NEW ok \in Outcomes, SweepMail(id, ok)
  PROVE  Marks'
<1> DEFINE live == conv[id]
           b == IF live # NoReq /\ ~ objs[live].emailed THEN objs[live] ELSE sweep.raw
           c == [b EXCEPT !.ended = TRUE]
           d == Mailed(c, ok)
<1>1. /\ sweep.pc = "due" /\ sweep.id = id
      /\ sweep' = [Asleep EXCEPT !.pc = "reading", !.todo = sweep.todo]
      /\ Send(c, ok) /\ Put(id, d)
      /\ objs' = IF live = NoReq THEN objs ELSE [objs EXCEPT ![live] = d]
  BY DEF SweepMail
<1>2. ok \in BOOLEAN
  BY DEF Outcomes
<1>3. live # NoReq => live \in Chats /\ objs[live] # NoConv /\ objs[live].id = id
  BY DEF Inv, Types, ConvGood
<1>4. /\ sweep.raw \in Conversation /\ sweep.raw.id = id /\ ~ sweep.raw.emailed
      /\ sweep.raw.msgs # {}
  BY <1>1 DEF Inv, Types, SweepGood, Good, Marks
<1>5. b \in Conversation /\ b.id = id /\ ~ b.emailed /\ b.msgs # {}
  BY <1>3, <1>4 DEF Inv, Types, Marks
<1> HIDE DEF b
<1>6. /\ c \in Conversation /\ c.id = id /\ c.msgs # {}
      /\ d \in Conversation /\ d.id = id /\ d.msgs # {} /\ (d.emailed => ok)
  BY <1>2, <1>5, EndedMailed
<1> HIDE DEF c, d
<1>7. /\ \A i \in Ids : mailed[i] # {} => mailed'[i] # {}
      /\ ok => mailed'[id] # {}
  BY <1>1, <1>6, MailsAdd
<1>8. sweep'.pc = "reading"
  BY <1>1 DEF Asleep
<1>9. CASE live = NoReq
  <2>1. Chats # {}
    BY <1>6 DEF Conversation, Messages
  <2> QED
    BY <1>9, <2>1, <1>1, <1>6, <1>7, <1>8, MarksPut
<1>10. CASE live # NoReq
  <2>1. live \in Chats /\ objs' = [objs EXCEPT ![live] = d]
    BY <1>10, <1>1, <1>3
  <2> HIDE DEF live
  <2> QED
    BY <2>1, <1>1, <1>6, <1>7, <1>8, MarksPut
<1> QED
  BY <1>9, <1>10

LEMMA MarksSweepRead == ASSUME Inv, Marks, NEW id \in Ids, SweepRead(id) PROVE Marks'
<1>1. /\ Due(bucket[id]) /\ sweep'.raw = bucket[id]
      /\ UNCHANGED <<objs, bucket, mailed>>
  BY DEF SweepRead, Inv, Types, Sweeper
<1>2. ~ bucket[id].emailed /\ bucket[id].msgs # {}
  BY <1>1 DEF Due, HasTurns
<1> QED
  BY <1>1, <1>2 DEF Marks, MarkIsTrue, Stored

LEMMA MarksPause == ASSUME Inv, Marks, Pause PROVE Marks'
<1> DEFINE quiet(c) == IF c = NoConv THEN c ELSE [c EXCEPT !.recent = FALSE]
<1>1. /\ objs' = [r \in Chats |-> quiet(objs[r])]
      /\ bucket' = [id \in Ids |-> quiet(bucket[id])]
      /\ UNCHANGED <<sweep, mailed>>
  BY DEF Pause
<1>2. ASSUME NEW c \in Conversation \cup {NoConv}
      PROVE  /\ quiet(c) # NoConv => c # NoConv
             /\ c # NoConv => /\ quiet(c).emailed = c.emailed /\ quiet(c).msgs = c.msgs
                              /\ quiet(c).id = c.id
  BY DEF Conversation
<1> HIDE DEF quiet
<1>3. \A o \in Chats : /\ objs'[o] # NoConv => objs[o] # NoConv
                       /\ objs[o] # NoConv => /\ objs'[o].emailed = objs[o].emailed
                                              /\ objs'[o].msgs = objs[o].msgs
                                              /\ objs'[o].id = objs[o].id
  BY <1>1, <1>2 DEF Inv, Types
<1>4. \A i \in Ids : /\ bucket'[i] # NoConv => bucket[i] # NoConv
                     /\ bucket[i] # NoConv => bucket'[i].emailed = bucket[i].emailed
  BY <1>1, <1>2 DEF Inv, Types
<1>5. \A o \in Chats : objs'[o] # NoConv =>
        objs'[o].msgs # {} /\ (objs'[o].emailed => mailed'[objs'[o].id] # {})
  BY <1>1, <1>3 DEF Marks
<1>6. MarkIsTrue'
  BY <1>1, <1>4 DEF Marks, MarkIsTrue, Stored
<1> QED
  BY <1>1, <1>5, <1>6 DEF Marks

LEMMA MarksNext == ASSUME Inv, Marks, [Next]_vars PROVE Marks'
<1>1. ASSUME NEW todo, SweepStart(todo) PROVE Marks'
  BY <1>1 DEF SweepStart, Inv, Types, Sweeper, Marks, MarkIsTrue, Stored
<1>2. CASE SweepEnd
  BY <1>2 DEF SweepEnd, Asleep, Marks, MarkIsTrue, Stored
<1>3. ASSUME NEW id \in Ids, SweepSkip(id) PROVE Marks'
  BY <1>3 DEF SweepSkip, Inv, Types, Sweeper, Marks, MarkIsTrue, Stored
<1>4. CASE Restart
  BY <1>4 DEF Restart, Asleep, Marks, MarkIsTrue, Stored
<1>5. CASE UNCHANGED vars
  BY <1>5 DEF vars, Marks, MarkIsTrue, Stored
<1> QED
  BY <1>1, <1>2, <1>3, <1>4, <1>5, MarksChat, MarksReply, MarksEnd, MarksSweepMail,
     MarksSweepRead, MarksPause DEF Next

\* What the bucket says was emailed was emailed, also where attendees share a tag and so one
\* conversation takes another's place: email_transcript marks what it has sent, and the sweeper
\* (sweep_bucket) never puts its older copy over a mark without sending that copy.
THEOREM MarksHold == Spec => []MarkIsTrue
<1>1. Init => Inv /\ Marks
  BY InvInit DEF Init, Asleep, Marks, MarkIsTrue, Stored
<1>2. Inv /\ Marks /\ [Next]_vars => (Inv /\ Marks)'
  BY InvNext, MarksNext
<1>3. Marks => MarkIsTrue
  BY DEF Marks
<1> QED
  BY <1>1, <1>2, <1>3, PTL DEF Spec

==============================================================================
