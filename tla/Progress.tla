------------------------------ MODULE Progress ------------------------------
(***************************************************************************)
(* The progress ledger: a ConfigMap with one entry per seat, which beacons *)
(* of the guide read, change and write without a lock, each in a thread of *)
(* the broker (progress.py); and the loop that mails a digest once a day   *)
(* and marks the day in the same ConfigMap (digest.py).                    *)
(***************************************************************************)
EXTENDS Naturals, FiniteSets

CONSTANTS
  Seats,      \* handles
  Beacons,    \* requests from the guides, a thread each
  GapMax,     \* the longest silence that counts as time spent, in ticks of the clock
  DayLength, Hour,  \* ticks of a day, and after how many of them its digest is due
  MaxClock,   \* bound of the clock
  MaxFaults   \* how often a call fails, or the broker stops and starts anew

ASSUME ProgressAssumption ==
  /\ GapMax \in Nat /\ DayLength \in Nat \ {0} /\ Hour \in Nat /\ MaxClock \in Nat \ {0}
  /\ MaxFaults \in Nat

DayOf(t) == 1 + t \div DayLength
Days == 1..DayOf(MaxClock)
NoDay == 0

NoEntry == [last |-> 0, seconds |-> 0, views |-> {}]
Entries == [last : Nat, seconds : Nat, views : SUBSET Beacons]

VARIABLES
  clock,
  ledger,    \* seat -> its entry: last_seen (0: none), seconds, the beacons whose view it counts
  beacons,   \* beacon -> its thread: the seat, is it a view, the entry in hand
  marker,    \* the day of "_digest"
  loop,      \* the digest loop and the day it has found to be due
  sent,      \* history: day -> how many digests it had, 2 for more than one
  stamps,    \* history: seat -> the times at which its entry was written
  beside,    \* history: the beacons that were in flight beside another of their seat
  upset,     \* history: the seats whose entry could not be read
  restless,  \* history: the days on which a call for the marker, the mail or the loop failed
  faults     \* history: how many there were

Resting == [pc |-> "rest", day |-> NoDay]

ghosts == <<sent, stamps, beside, upset, restless, faults>>
vars == <<clock, ledger, beacons, marker, loop, ghosts>>

Init ==
  /\ clock = 1 /\ ledger = [h \in Seats |-> NoEntry]
  /\ \E of \in [Beacons -> Seats] :
       beacons = [b \in Beacons |-> [seat |-> of[b], pc |-> "new", view |-> FALSE, entry |-> NoEntry]]
  /\ marker = NoDay /\ loop = Resting
  /\ sent = [d \in Days |-> 0] /\ stamps = [h \in Seats |-> {}] /\ beside = {} /\ upset = {}
  /\ restless = {} /\ faults = 0

Tick ==
  /\ clock < MaxClock /\ clock' = clock + 1
  /\ UNCHANGED <<ledger, beacons, marker, loop, ghosts>>

------------------------------------------------------------------------------
(* Beacons *)

InFlight(h) == {b \in Beacons : beacons[b].seat = h /\ beacons[b].pc \in {"loaded", "stamped"}}

\* A call that may fail.
Call(ok) == IF ok THEN faults' = faults ELSE faults < MaxFaults /\ faults' = faults + 1

\* The broker has accepted a beacon by the token of its seat, and record() loads the ledger.  A GET
\* that fails looks like an empty one.
Load(b) ==
  LET h == beacons[b].seat IN
  /\ beacons[b].pc = "new"
  /\ \E view \in BOOLEAN, ok \in BOOLEAN :
       /\ Call(ok)
       /\ beacons' = [beacons EXCEPT ![b] = [@ EXCEPT !.pc = "loaded", !.view = view,
                                              !.entry = IF ok THEN ledger[h] ELSE NoEntry]]
       /\ upset' = IF ok THEN upset ELSE upset \cup {h}
  /\ beside' = IF InFlight(h) = {} THEN beside ELSE beside \cup InFlight(h) \cup {b}
  /\ UNCHANGED <<clock, ledger, marker, loop, sent, stamps, restless>>

\* (Mutant of Counts: silences count.)
CountsAll(e, now) == e.last # 0
\* Time passes for a seat while its beacons keep coming.
Counts(e, now) == e.last # 0 /\ 0 < now - e.last /\ now - e.last <= GapMax

Updated(e, b, view, now) ==
  [last |-> now,
   seconds |-> IF Counts(e, now) THEN e.seconds + (now - e.last) ELSE e.seconds,
   views |-> IF view THEN e.views \cup {b} ELSE e.views]

\* The clock is read after the ledger, and the entry brought up to that time.
Stamp(b) ==
  /\ beacons[b].pc = "loaded"
  /\ LET e == Updated(beacons[b].entry, b, beacons[b].view, clock) IN
     beacons' = [beacons EXCEPT ![b] = [@ EXCEPT !.pc = "stamped", !.entry = e]]
  /\ UNCHANGED <<clock, ledger, marker, loop, ghosts>>

\* (Mutant of Stored: the ConfigMap is replaced.)
StoredAlone(h, e) == [g \in Seats |-> IF g = h THEN e ELSE NoEntry]
Stored(h, e) == [ledger EXCEPT ![h] = e]

\* The PATCH of the seat's key; whether it worked is not asked.
Store(b) ==
  LET h == beacons[b].seat IN
  /\ beacons[b].pc = "stamped"
  /\ beacons' = [beacons EXCEPT ![b] = [@ EXCEPT !.pc = "done", !.entry = NoEntry]]
  /\ \/ /\ ledger' = Stored(h, beacons[b].entry)
        /\ stamps' = [stamps EXCEPT ![h] = @ \cup {beacons[b].entry.last}]
        /\ upset' = upset /\ Call(TRUE)
     \/ Call(FALSE) /\ upset' = upset \cup {h} /\ UNCHANGED <<ledger, stamps>>
  /\ UNCHANGED <<clock, marker, loop, sent, beside, restless>>

------------------------------------------------------------------------------
(* The digest *)

Today == DayOf(clock)
\* (Mutant of Due: the marker is not asked for.)
DueAnyway(seen) == clock % DayLength >= Hour
Due(seen) == clock % DayLength >= Hour /\ seen # Today
Rests == loop' = Resting
Disturbed(d, bad) == restless' = IF bad THEN restless \cup {d} ELSE restless

\* Every five minutes: is today's due and not marked?  A marker that cannot be read is none.
Look ==
  /\ loop.pc = "rest"
  /\ \E ok \in BOOLEAN :
       /\ Call(ok)
       /\ Due(IF ok THEN marker ELSE NoDay)
       /\ Disturbed(Today, ~ ok)
  /\ loop' = [pc |-> "mail", day |-> Today]
  /\ UNCHANGED <<clock, ledger, beacons, marker, sent, stamps, beside, upset>>

\* (Mutant of Sent: the answer of send() is dropped.)
SentAnyway(went, known) == TRUE
Sent(went, known) == went /\ known

\* The mail.  It may go and be taken for failed, when the server hangs up on the goodbye.
Mail ==
  /\ loop.pc = "mail"
  /\ \E went, known \in BOOLEAN :
       /\ Call(went /\ known)
       /\ sent' = IF went /\ sent[loop.day] < 2 THEN [sent EXCEPT ![loop.day] = @ + 1] ELSE sent
       /\ loop' = IF Sent(went, known) THEN [loop EXCEPT !.pc = "mark"] ELSE Resting
       /\ Disturbed(loop.day, went /\ ~ known)
  /\ UNCHANGED <<clock, ledger, beacons, marker, stamps, beside, upset>>

\* (Mutant of Date: the day until which no other is due.)
DateNext(d) == d + 1
Date(d) == d

\* The marker, with the day that was due.
Mark ==
  /\ loop.pc = "mark" /\ Rests
  /\ \/ marker' = Date(loop.day) /\ restless' = restless /\ Call(TRUE)
     \/ Call(FALSE) /\ marker' = marker /\ Disturbed(loop.day, TRUE)
  /\ UNCHANGED <<clock, ledger, beacons, sent, stamps, beside, upset>>

\* The broker stops, with all its threads, and is there again.
Restart ==
  /\ Call(FALSE) /\ Rests
  /\ beacons' = [b \in Beacons |-> IF b \in InFlight(beacons[b].seat)
                                   THEN [beacons[b] EXCEPT !.pc = "gone", !.entry = NoEntry]
                                   ELSE beacons[b]]
  /\ Disturbed(loop.day, loop.pc = "mark")
  /\ UNCHANGED <<clock, ledger, marker, sent, stamps, beside, upset>>

------------------------------------------------------------------------------
Next ==
  \/ \E b \in Beacons : Load(b) \/ Stamp(b) \/ Store(b)
  \/ Tick \/ Look \/ Mail \/ Mark \/ Restart

Spec == Init /\ [][Next]_vars

------------------------------------------------------------------------------
(* Properties *)

TypeOK ==
  /\ clock \in 1..MaxClock /\ ledger \in [Seats -> Entries]
  /\ beacons \in [Beacons -> [seat : Seats, pc : {"new", "loaded", "stamped", "done", "gone"},
                              view : BOOLEAN, entry : Entries]]
  /\ marker \in Days \cup {NoDay}
  /\ loop \in [pc : {"rest", "mail", "mark"}, day : Days \cup {NoDay}]
  /\ sent \in [Days -> 0..2] /\ stamps \in [Seats -> SUBSET (1..MaxClock)]
  /\ beside \subseteq Beacons /\ upset \subseteq Seats /\ restless \subseteq Days
  /\ faults \in 0..MaxFaults

\* The seconds spent before t count where beacons came on both sides of them, near enough.
Watched(h) ==
  {t \in 1..MaxClock : \E s1, s2 \in stamps[h] : s1 < t /\ t <= s2 /\ s2 - s1 <= GapMax}

\* Whatever beacons overlap, fail or die: no second is counted twice, and none of a silence.
OnlyWatched == \A h \in Seats : ledger[h].seconds <= Cardinality(Watched(h))

Viewed(h) == {b \in Beacons : beacons[b].seat = h /\ beacons[b].pc = "done" /\ beacons[b].view}

\* A view is missing only where its beacon was in flight beside another of the same seat, or a
\* call for that seat failed; never for what other seats send.
ViewsKept == \A h \in Seats \ upset : Viewed(h) \ beside \subseteq ledger[h].views

\* A day's digest is mailed once, unless a call for the marker or the mail, or the broker between
\* the two, failed that day.
OncePerDay == \A d \in Days \ restless : sent[d] <= 1

\* A day that is marked had its digest.
MarkedIsSent == marker # NoDay => sent[marker] > 0
=============================================================================
