--------------------------- MODULE Progress_proof ---------------------------
(***************************************************************************)
(* Proofs about Progress, for any seats, beacons, silences and days.       *)
(***************************************************************************)
EXTENDS Progress, FiniteSetTheorems, TLAPS

(* The calendar *)

LEMMA Division ==
  ASSUME NEW s \in Nat, NEW d \in Nat \ {0}
  PROVE  s \div d \in Nat /\ d * (s \div d) <= s /\ s < d * (s \div d) + d
  OBVIOUS

LEMMA Multiples ==
  ASSUME NEW d \in Nat \ {0}, NEW i \in Nat, NEW j \in Nat, d * i < d * j + d
  PROVE  i <= j
<1> SUFFICES ASSUME ~ i <= j PROVE FALSE
  OBVIOUS
<1>1. PICK k \in Nat : i = j + 1 + k
  <2>1. i - j - 1 \in Nat /\ i = j + 1 + (i - j - 1)
    OBVIOUS
  <2> QED
    BY <2>1
<1>2. d * i = d * j + d + d * k /\ d * k \in Nat
  BY <1>1
<1> QED
  BY <1>2

LEMMA DaysGoOn ==
  ASSUME NEW s \in Nat, NEW t \in Nat, s <= t
  PROVE  DayOf(s) \in Nat \ {0} /\ DayOf(t) \in Nat /\ DayOf(s) <= DayOf(t)
<1> DEFINE i == s \div DayLength
           j == t \div DayLength
<1>1. /\ i \in Nat /\ DayLength * i <= s /\ s < DayLength * i + DayLength
      /\ j \in Nat /\ DayLength * j <= t /\ t < DayLength * j + DayLength
  BY Division, ProgressAssumption
<1>2. DayLength * i < DayLength * j + DayLength
  <2>1. DayLength * i \in Nat /\ DayLength * j \in Nat /\ DayLength \in Nat
    BY <1>1, ProgressAssumption
  <2> HIDE DEF i, j
  <2> QED
    BY <1>1, <2>1
<1>3. i <= j
  <2> HIDE DEF i, j
  <2> QED
    BY <1>1, <1>2, Multiples, ProgressAssumption
<1> QED
  BY <1>1, <1>3 DEF DayOf

------------------------------------------------------------------------------
(* Types *)

Beacon == [seat : Seats, pc : {"new", "loaded", "stamped", "done", "gone"}, view : BOOLEAN,
           entry : Entries]

\* Nothing is dated later than now.
NotYet ==
  /\ loop.pc # "rest" => loop.day \in 1..Today
  /\ marker <= Today
  /\ \A b \in Beacons : beacons[b].pc = "stamped" => beacons[b].entry.last \in 1..clock
  /\ \A h \in Seats : stamps[h] \subseteq 1..clock

Typed == TypeOK /\ NotYet

LEMMA NoEntryTyped == NoEntry \in Entries
  BY DEF NoEntry, Entries

LEMMA TodayIsADay ==
  ASSUME TypeOK PROVE Today \in Nat /\ 1..Today \subseteq Days /\ Days \subseteq Nat /\ Today \in Days
<1>1. clock \in Nat /\ MaxClock \in Nat /\ clock <= MaxClock
  BY ProgressAssumption DEF TypeOK
<1> QED
  BY <1>1, DaysGoOn DEF Today, Days

LEMMA InitTyped == Init => Typed
<1> SUFFICES ASSUME Init PROVE Typed
  OBVIOUS
<1>1. beacons \in [Beacons -> Beacon]
  BY NoEntryTyped DEF Init, Beacon
<1>2. clock \in 1..MaxClock /\ faults \in 0..MaxFaults
  BY ProgressAssumption DEF Init
<1>3. TypeOK
  BY <1>1, <1>2, NoEntryTyped DEF Init, TypeOK, Beacon, Resting, NoDay, Days
<1>4. Today \in Nat
  BY <1>3, TodayIsADay
<1>5. \A b \in Beacons : beacons[b].pc = "new"
  BY DEF Init
<1> QED
  BY <1>3, <1>4, <1>5 DEF Init, Typed, NotYet, Resting, NoDay

LEMMA CallTyped ==
  ASSUME NEW ok \in BOOLEAN, faults \in 0..MaxFaults, Call(ok)
  PROVE  faults' \in 0..MaxFaults
  BY ProgressAssumption DEF Call

LEMMA UpdatedTyped ==
  ASSUME NEW e \in Entries, NEW b \in Beacons, NEW view \in BOOLEAN, NEW now \in Nat
  PROVE  Updated(e, b, view, now) \in Entries
<1>1. e.last \in Nat /\ e.seconds \in Nat /\ e.views \in SUBSET Beacons
  BY DEF Entries
<1>2. Counts(e, now) => e.seconds + (now - e.last) \in Nat
  BY <1>1 DEF Counts
<1> QED
  BY <1>1, <1>2 DEF Updated, Entries

LEMMA NextTyped == Typed /\ [Next]_vars => Typed'
<1> SUFFICES ASSUME Typed, [Next]_vars PROVE Typed'
  OBVIOUS
<1>0. /\ clock \in 1..MaxClock /\ clock \in Nat /\ ledger \in [Seats -> Entries]
      /\ beacons \in [Beacons -> Beacon]
      /\ marker \in Days \cup {NoDay} /\ loop \in [pc : {"rest", "mail", "mark"}, day : Days \cup {NoDay}]
      /\ sent \in [Days -> 0..2] /\ stamps \in [Seats -> SUBSET (1..MaxClock)]
      /\ beside \subseteq Beacons /\ upset \subseteq Seats /\ restless \subseteq Days
      /\ faults \in 0..MaxFaults /\ MaxClock \in Nat
  BY ProgressAssumption DEF Typed, TypeOK, Beacon
<1>n. NotYet
  BY DEF Typed
<1>d. Today \in Nat /\ 1..Today \subseteq Days /\ Days \subseteq Nat /\ Today \in Days
  BY TodayIsADay DEF Typed
<1>1. ASSUME NEW b \in Beacons, Load(b)
      PROVE  Typed'
  <2> DEFINE h == beacons[b].seat
  <2>1. h \in Seats /\ beacons[b] \in Beacon
    BY <1>0 DEF Beacon
  <2>2. PICK view \in BOOLEAN, ok \in BOOLEAN :
          /\ Call(ok)
          /\ beacons' = [beacons EXCEPT ![b] = [@ EXCEPT !.pc = "loaded", !.view = view,
                                              !.entry = IF ok THEN ledger[h] ELSE NoEntry]]
          /\ upset' = IF ok THEN upset ELSE upset \cup {h}
    BY <1>1 DEF Load
  <2>3. beacons' \in [Beacons -> Beacon]
    <3>1. (IF ok THEN ledger[h] ELSE NoEntry) \in Entries
      BY <1>0, <2>1, NoEntryTyped
    <3> QED
      BY <1>0, <2>1, <2>2, <3>1 DEF Beacon
  <2>4. upset' \subseteq Seats /\ faults' \in 0..MaxFaults
    BY <1>0, <2>1, <2>2, CallTyped
  <2>5. beside' \subseteq Beacons
    BY <1>0, <1>1 DEF Load, InFlight
  <2>6. \A c \in Beacons : beacons'[c].pc = "stamped" => beacons'[c] = beacons[c]
    BY <1>0, <2>2
  <2>7. UNCHANGED <<clock, ledger, marker, loop, sent, stamps, restless>>
    BY <1>1 DEF Load
  <2> QED
    BY <1>0, <1>n, <2>3, <2>4, <2>5, <2>6, <2>7 DEF Typed, TypeOK, NotYet, Beacon, Today
<1>2. ASSUME NEW b \in Beacons, Stamp(b)
      PROVE  Typed'
  <2>1. beacons[b] \in Beacon /\ beacons[b].entry \in Entries /\ beacons[b].view \in BOOLEAN
    BY <1>0 DEF Beacon
  <2> DEFINE e == Updated(beacons[b].entry, b, beacons[b].view, clock)
  <2>2. e \in Entries /\ e.last = clock
    BY <1>0, <2>1, UpdatedTyped DEF Updated
  <2> HIDE DEF e
  <2>3. beacons' = [beacons EXCEPT ![b] = [beacons[b] EXCEPT !.pc = "stamped", !.entry = e]]
    BY <1>0, <1>2 DEF Stamp, e
  <2>4. beacons' \in [Beacons -> Beacon]
    BY <1>0, <2>1, <2>2, <2>3 DEF Beacon
  <2>5. \A c \in Beacons : beacons'[c].pc = "stamped" =>
          beacons'[c] = beacons[c] \/ beacons'[c].entry.last = clock
    BY <1>0, <2>1, <2>2, <2>3 DEF Beacon
  <2>6. UNCHANGED <<clock, ledger, marker, loop, ghosts>>
    BY <1>2 DEF Stamp
  <2>7. clock \in 1..clock
    BY <1>0
  <2> QED
    BY <1>0, <1>n, <2>4, <2>5, <2>6, <2>7 DEF Typed, TypeOK, NotYet, Beacon, Today, ghosts
<1>3. ASSUME NEW b \in Beacons, Store(b)
      PROVE  Typed'
  <2> DEFINE h == beacons[b].seat
  <2>1. h \in Seats /\ beacons[b] \in Beacon /\ beacons[b].entry \in Entries
    BY <1>0 DEF Beacon
  <2>2. beacons[b].entry.last \in 1..clock /\ 1..clock \subseteq 1..MaxClock
    BY <1>0, <1>3, <1>n DEF Store, NotYet
  <2>3. beacons' = [beacons EXCEPT ![b] = [@ EXCEPT !.pc = "done", !.entry = NoEntry]]
        /\ UNCHANGED <<clock, marker, loop, sent, beside, restless>>
    BY <1>3 DEF Store
  <2>4. beacons' \in [Beacons -> Beacon]
    BY <1>0, <2>1, <2>3, NoEntryTyped DEF Beacon
  <2>5. \A c \in Beacons : beacons'[c].pc = "stamped" => beacons'[c] = beacons[c]
    BY <1>0, <2>3
  <2>6. ledger' \in [Seats -> Entries] /\ upset' \subseteq Seats
    BY <1>0, <1>3, <2>1 DEF Store, Stored
  <2>7. stamps' \in [Seats -> SUBSET (1..MaxClock)] /\ \A g \in Seats : stamps'[g] \subseteq 1..clock
    <3>1. \/ stamps' = [stamps EXCEPT ![h] = stamps[h] \cup {beacons[b].entry.last}]
          \/ stamps' = stamps
      BY <1>3 DEF Store
    <3>2. stamps[h] \cup {beacons[b].entry.last} \subseteq 1..clock
      BY <1>n, <2>1, <2>2 DEF NotYet
    <3> QED
      BY <1>0, <1>n, <2>1, <2>2, <3>1, <3>2 DEF NotYet
  <2>8. faults' \in 0..MaxFaults
    BY <1>0, <1>3, CallTyped DEF Store
  <2> QED
    BY <1>0, <1>n, <2>3, <2>4, <2>5, <2>6, <2>7, <2>8 DEF Typed, TypeOK, NotYet, Beacon, Today
<1>4. CASE Tick
  <2>1. clock' = clock + 1 /\ clock < MaxClock /\ UNCHANGED <<ledger, beacons, marker, loop, ghosts>>
    BY <1>4 DEF Tick
  <2>2. Today' \in Nat /\ Today <= Today'
    BY <1>0, <2>1, DaysGoOn DEF Today
  <2>3. clock' \in 1..MaxClock /\ 1..clock \subseteq 1..clock'
    BY <1>0, <2>1
  <2>4. 1..Today \subseteq 1..Today' /\ marker <= Today'
    <3>1. marker \in Nat /\ marker <= Today
      BY <1>0, <1>n, <1>d DEF NotYet, NoDay
    <3> QED
      BY <1>d, <2>2, <3>1
  <2> QED
    BY <1>0, <1>n, <2>1, <2>3, <2>4 DEF Typed, TypeOK, NotYet, Beacon, ghosts
<1>5. CASE Look
  <2>1. loop' = [pc |-> "mail", day |-> Today] /\ faults' \in 0..MaxFaults
        /\ UNCHANGED <<clock, ledger, beacons, marker, sent, stamps, beside, upset>>
    BY <1>0, <1>5, CallTyped DEF Look
  <2>2. restless' \subseteq Days
    BY <1>0, <1>d, <1>5 DEF Look, Disturbed
  <2>3. Today \in 1..Today
    BY <1>d DEF Today, Days
  <2> QED
    BY <1>0, <1>n, <1>d, <2>1, <2>2, <2>3 DEF Typed, TypeOK, NotYet, Beacon, Today
<1>6. CASE Mail
  <2>1. loop.pc = "mail" /\ loop.day \in Days /\ loop.day \in 1..Today
    BY <1>n, <1>d, <1>6 DEF Mail, NotYet
  <2>2. loop' = [loop EXCEPT !.pc = "mark"] \/ loop' = Resting
    BY <1>6 DEF Mail
  <2>3. /\ loop' \in [pc : {"rest", "mail", "mark"}, day : Days \cup {NoDay}]
        /\ loop'.pc # "rest" => loop'.day = loop.day
    BY <1>0, <2>2 DEF Resting
  <2>4. sent' \in [Days -> 0..2] /\ restless' \subseteq Days /\ faults' \in 0..MaxFaults
    <3>1. PICK went, known \in BOOLEAN :
            /\ Call(went /\ known) /\ Disturbed(loop.day, went /\ ~ known)
            /\ sent' = IF went /\ sent[loop.day] < 2 THEN [sent EXCEPT ![loop.day] = @ + 1] ELSE sent
      BY <1>6 DEF Mail
    <3>2. sent[loop.day] \in 0..2
      BY <1>0, <2>1
    <3>3. sent' \in [Days -> 0..2]
      <4>1. \/ sent' = sent
            \/ sent[loop.day] < 2 /\ sent' = [sent EXCEPT ![loop.day] = sent[loop.day] + 1]
        BY <3>1
      <4> QED
        BY <1>0, <3>2, <4>1
    <3>4. restless' \subseteq Days
      BY <1>0, <2>1, <3>1 DEF Disturbed
    <3> QED
      BY <1>0, <3>1, <3>3, <3>4, CallTyped
  <2>5. UNCHANGED <<clock, ledger, beacons, marker, stamps, beside, upset>>
    BY <1>6 DEF Mail
  <2> QED
    BY <1>0, <1>n, <2>1, <2>3, <2>4, <2>5 DEF Typed, TypeOK, NotYet, Beacon, Today
<1>7. CASE Mark
  <2>1. loop.day \in Days /\ loop.day \in 1..Today /\ loop.pc = "mark"
    BY <1>n, <1>d, <1>7 DEF Mark, NotYet
  <2>2. marker' = loop.day \/ marker' = marker
    BY <1>7 DEF Mark, Date
  <2>3. restless' \subseteq Days /\ faults' \in 0..MaxFaults
    BY <1>0, <1>7, <2>1, CallTyped DEF Mark, Disturbed
  <2>4. loop' = Resting /\ UNCHANGED <<clock, ledger, beacons, sent, stamps, beside, upset>>
    BY <1>7 DEF Mark, Rests
  <2>5. marker' <= Today
    BY <1>d, <1>n, <2>1, <2>2 DEF NotYet
  <2>6. loop'.pc = "rest" /\ loop' \in [pc : {"rest", "mail", "mark"}, day : Days \cup {NoDay}]
    BY <2>4 DEF Resting
  <2> QED
    BY <1>0, <1>n, <2>1, <2>2, <2>3, <2>4, <2>5, <2>6 DEF Typed, TypeOK, NotYet, Beacon, Today
<1>8. CASE Restart
  <2>1. loop' = Resting /\ faults' \in 0..MaxFaults
        /\ UNCHANGED <<clock, ledger, marker, sent, stamps, beside, upset>>
    BY <1>0, <1>8, CallTyped DEF Restart, Rests
  <2>2. restless' \subseteq Days
    BY <1>0, <1>d, <1>n, <1>8 DEF Restart, Disturbed, NotYet
  <2>3. beacons' \in [Beacons -> Beacon]
        /\ \A b \in Beacons : beacons'[b].pc = "stamped" => beacons'[b] = beacons[b]
    <3>1. \A b \in Beacons : [beacons[b] EXCEPT !.pc = "gone", !.entry = NoEntry] \in Beacon
      BY <1>0, NoEntryTyped DEF Beacon
    <3>2. beacons' = [b \in Beacons |-> IF b \in InFlight(beacons[b].seat)
                                   THEN [beacons[b] EXCEPT !.pc = "gone", !.entry = NoEntry]
                                   ELSE beacons[b]]
      BY <1>8 DEF Restart
    <3>3. \A b \in Beacons : [beacons[b] EXCEPT !.pc = "gone", !.entry = NoEntry].pc = "gone"
      BY <1>0 DEF Beacon
    <3> QED
      BY <1>0, <3>1, <3>2, <3>3
  <2>4. loop'.pc = "rest" /\ loop' \in [pc : {"rest", "mail", "mark"}, day : Days \cup {NoDay}]
    BY <2>1 DEF Resting
  <2> QED
    BY <1>0, <1>n, <2>1, <2>2, <2>3, <2>4 DEF Typed, TypeOK, NotYet, Beacon, Today
<1>9. CASE UNCHANGED vars
  BY <1>9 DEF vars, ghosts, Typed, TypeOK, NotYet, Today
<1> QED
  BY <1>1, <1>2, <1>3, <1>4, <1>5, <1>6, <1>7, <1>8, <1>9 DEF Next

\* Types hold: what is stored is an entry, and what is marked a day.
THEOREM LedgerTypes == Spec => []TypeOK
<1>1. Typed => TypeOK
  BY DEF Typed
<1> QED
  BY <1>1, InitTyped, NextTyped, PTL DEF Spec

------------------------------------------------------------------------------
(* The digest *)

\* The day that the loop is about is none before the marked one, and has had no digest yet, or one
\* and is to be marked; a day that had one is marked, or to be marked, or over.
OnceEach(d) ==
  /\ sent[d] <= 1
  /\ loop.pc = "mail" /\ loop.day = d => sent[d] = 0
  /\ sent[d] > 0 => marker = d \/ (loop.pc = "mark" /\ loop.day = d) \/ d < Today

DigestInv ==
  /\ loop.pc # "rest" => marker <= loop.day
  /\ loop.pc = "mark" => sent[loop.day] > 0
  /\ MarkedIsSent
  /\ \A d \in Days \ restless : OnceEach(d)

LEMMA InitDigest == Init => DigestInv
  BY DEF Init, DigestInv, Resting, MarkedIsSent, OnceEach, NoDay

LEMMA NextDigest == Typed /\ DigestInv /\ [Next]_vars => DigestInv'
<1> SUFFICES ASSUME Typed, DigestInv, [Next]_vars PROVE DigestInv'
  OBVIOUS
<1>0. /\ clock \in Nat /\ marker \in Days \cup {NoDay} /\ sent \in [Days -> 0..2]
      /\ loop \in [pc : {"rest", "mail", "mark"}, day : Days \cup {NoDay}]
      /\ loop.pc # "rest" => loop.day \in 1..Today /\ loop.day \in Nat /\ loop.day \in Days
      /\ marker <= Today /\ marker \in Nat
      /\ Today \in Nat /\ Days \subseteq Nat /\ Today \in Days /\ 1..Today \subseteq Days
  BY TodayIsADay DEF Typed, TypeOK, NotYet, NoDay
<1>i. /\ loop.pc # "rest" => marker <= loop.day
      /\ loop.pc = "mark" => sent[loop.day] > 0
      /\ marker # NoDay => sent[marker] > 0
      /\ \A d \in Days \ restless : OnceEach(d)
  BY DEF DigestInv, MarkedIsSent
<1>1. CASE UNCHANGED <<clock, marker, loop, sent, restless>>
  BY <1>i, <1>1 DEF DigestInv, MarkedIsSent, OnceEach, Today
<1>2. CASE Tick
  <2>1. clock' = clock + 1 /\ UNCHANGED <<marker, loop, sent, restless>>
    BY <1>2 DEF Tick, ghosts
  <2>2. Today' \in Nat /\ Today <= Today'
    BY <1>0, <2>1, DaysGoOn DEF Today
  <2>3. ASSUME NEW d \in Days \ restless PROVE OnceEach(d)'
    BY <1>0, <1>i, <2>1, <2>2 DEF OnceEach
  <2> QED
    BY <1>i, <2>1, <2>3 DEF DigestInv, MarkedIsSent
<1>3. CASE Look
  <2>1. /\ loop.pc = "rest" /\ loop' = [pc |-> "mail", day |-> Today]
        /\ UNCHANGED <<clock, marker, sent>> /\ Today' = Today
    BY <1>3 DEF Look, Today
  <2>2. restless \subseteq restless' /\ (Today \notin restless' => marker # Today)
    BY <1>3 DEF Look, Disturbed, Due
  <2>3. ASSUME NEW d \in Days \ restless' PROVE OnceEach(d)'
    <3>1. OnceEach(d) /\ d \in Nat /\ sent[d] \in 0..2
      BY <1>0, <1>i, <2>2
    <3>2. d = Today => sent[d] = 0
      BY <1>0, <2>1, <2>2, <3>1 DEF OnceEach
    <3> QED
      BY <2>1, <3>1, <3>2 DEF OnceEach
  <2> QED
    BY <1>0, <1>i, <2>1, <2>3 DEF DigestInv, MarkedIsSent
<1>4. CASE Mail
  <2>1. PICK went, known \in BOOLEAN :
          /\ sent' = IF went /\ sent[loop.day] < 2 THEN [sent EXCEPT ![loop.day] = @ + 1] ELSE sent
          /\ loop' = IF Sent(went, known) THEN [loop EXCEPT !.pc = "mark"] ELSE Resting
          /\ Disturbed(loop.day, went /\ ~ known)
    BY <1>4 DEF Mail
  <2>2. loop.pc = "mail" /\ UNCHANGED <<clock, marker>> /\ Today' = Today
    BY <1>4 DEF Mail, Today
  <2>3. restless \subseteq restless' /\ (went /\ ~ known => loop.day \in restless')
    BY <2>1 DEF Disturbed
  <2>4. Resting.pc = "rest" /\ [loop EXCEPT !.pc = "mark"].pc = "mark"
        /\ [loop EXCEPT !.pc = "mark"].day = loop.day
    BY <1>0 DEF Resting
  <2>5. loop'.pc # "rest" => went /\ loop'.pc = "mark" /\ loop'.day = loop.day
    BY <2>1, <2>4 DEF Sent
  <2>6. /\ \A d \in Days : sent[d] \in 0..2
        /\ \A d \in Days : d # loop.day => sent'[d] = sent[d]
        /\ sent'[loop.day] >= sent[loop.day]
        /\ went => sent'[loop.day] > 0
        /\ sent[loop.day] = 0 => sent'[loop.day] <= 1
        /\ ~ went => sent' = sent
    <3>1. \/ sent' = sent /\ (went => ~ sent[loop.day] < 2)
          \/ went /\ sent' = [sent EXCEPT ![loop.day] = sent[loop.day] + 1]
      BY <2>1
    <3>2. loop.day \in Days /\ sent[loop.day] \in 0..2
      BY <1>0, <2>2
    <3> QED
      BY <1>0, <3>1, <3>2
  <2>7. ASSUME NEW d \in Days \ restless' PROVE OnceEach(d)'
    <3>1. OnceEach(d) /\ d \in Nat
      BY <1>0, <1>i, <2>3
    <3>2. CASE d # loop.day
      BY <2>2, <2>5, <2>6, <3>1, <3>2 DEF OnceEach
    <3>3. CASE d = loop.day
      <4>1. sent[d] = 0
        BY <2>2, <3>1, <3>3 DEF OnceEach
      <4>2. sent'[d] <= 1
        BY <2>6, <3>3, <4>1
      <4>3. went => loop'.pc = "mark" /\ loop'.day = d
        BY <2>1, <2>3, <2>4, <3>3 DEF Sent
      <4>4. ~ (loop'.pc = "mail")
        BY <2>5
      <4>5. sent'[d] > 0 => went
        BY <2>6, <4>1, <3>3
      <4> QED
        BY <4>2, <4>3, <4>4, <4>5 DEF OnceEach
    <3> QED
      BY <3>2, <3>3
  <2>8. marker # NoDay => sent'[marker] > 0
    BY <1>0, <1>i, <2>2, <2>6
  <2> QED
    BY <1>i, <2>2, <2>5, <2>6, <2>7, <2>8 DEF DigestInv, MarkedIsSent
<1>5. CASE Mark
  <2>1. loop.pc = "mark" /\ loop'.pc = "rest" /\ UNCHANGED <<clock, sent>> /\ Today' = Today
    BY <1>5 DEF Mark, Rests, Resting, Today
  <2>2. restless \subseteq restless'
        /\ (marker' = loop.day \/ (marker' = marker /\ loop.day \in restless'))
    BY <1>5 DEF Mark, Disturbed, Date
  <2>3. ASSUME NEW d \in Days \ restless' PROVE OnceEach(d)'
    <3>1. OnceEach(d) /\ d \in Nat
      BY <1>0, <1>i, <2>2
    <3> QED
      BY <1>0, <1>i, <2>1, <2>2, <3>1 DEF OnceEach
  <2> QED
    BY <1>i, <2>1, <2>2, <2>3 DEF DigestInv, MarkedIsSent
<1>6. CASE Restart
  <2>1. loop'.pc = "rest" /\ UNCHANGED <<clock, marker, sent>> /\ Today' = Today
    BY <1>6 DEF Restart, Rests, Resting, Today
  <2>2. restless \subseteq restless' /\ (loop.pc = "mark" => loop.day \in restless')
    BY <1>6 DEF Restart, Disturbed
  <2>3. ASSUME NEW d \in Days \ restless' PROVE OnceEach(d)'
    BY <1>i, <2>1, <2>2 DEF OnceEach
  <2> QED
    BY <1>i, <2>1, <2>3 DEF DigestInv, MarkedIsSent
<1>7. ASSUME NEW b \in Beacons, Load(b) \/ Stamp(b) \/ Store(b)
      PROVE  UNCHANGED <<clock, marker, loop, sent, restless>>
  BY <1>7 DEF Load, Stamp, Store, ghosts
<1>8. UNCHANGED vars => UNCHANGED <<clock, marker, loop, sent, restless>>
  BY DEF vars, ghosts
<1> QED
  BY <1>1, <1>2, <1>3, <1>4, <1>5, <1>6, <1>7, <1>8 DEF Next

\* A day on which the marker, the mail and the loop met no failure has one digest at most, however
\* long the mail takes and whatever day it is by then.
THEOREM DigestOnce == Spec => []OncePerDay
<1>1. DigestInv => OncePerDay
  BY DEF DigestInv, OncePerDay, OnceEach
<1> QED
  BY <1>1, InitTyped, InitDigest, NextTyped, NextDigest, PTL DEF Spec

\* The marker is not written for a day without a digest, whatever fails.
THEOREM MarkedWasSent == Spec => []MarkedIsSent
<1>1. DigestInv => MarkedIsSent
  BY DEF DigestInv
<1> QED
  BY <1>1, InitTyped, InitDigest, NextTyped, NextDigest, PTL DEF Spec

------------------------------------------------------------------------------
(* Views *)

Flies(b) == beacons[b].pc \in {"loaded", "stamped"}

\* Beacons of one seat that are in flight together are on record as that; each has in hand the views
\* that came in before it; and one that is about to store a view of its own has counted it.
ViewsInv ==
  /\ ViewsKept
  /\ \A b, c \in Beacons : b # c /\ Flies(b) /\ Flies(c) /\ beacons[b].seat = beacons[c].seat
                             => b \in beside
  /\ \A h \in Seats \ upset, b \in Beacons : Flies(b) /\ beacons[b].seat = h =>
       Viewed(h) \ beside \subseteq beacons[b].entry.views
  /\ \A b \in Beacons : beacons[b].pc = "stamped" /\ beacons[b].view => b \in beacons[b].entry.views

LEMMA InitViews == Init => ViewsInv
<1> SUFFICES ASSUME Init PROVE ViewsInv
  OBVIOUS
<1>1. \A b \in Beacons : beacons[b].pc = "new"
  BY DEF Init
<1> QED
  BY <1>1 DEF ViewsInv, ViewsKept, Viewed, Flies

LEMMA NextViews == Typed /\ ViewsInv /\ [Next]_vars => ViewsInv'
<1> SUFFICES ASSUME Typed, ViewsInv, [Next]_vars PROVE ViewsInv'
  OBVIOUS
<1>0. beacons \in [Beacons -> Beacon] /\ ledger \in [Seats -> Entries]
  BY DEF Typed, TypeOK, Beacon
<1>i. /\ \A h \in Seats \ upset : Viewed(h) \ beside \subseteq ledger[h].views
      /\ \A b, c \in Beacons : b # c /\ Flies(b) /\ Flies(c) /\ beacons[b].seat = beacons[c].seat
                                 => b \in beside
      /\ \A h \in Seats \ upset, b \in Beacons : Flies(b) /\ beacons[b].seat = h =>
           Viewed(h) \ beside \subseteq beacons[b].entry.views
      /\ \A b \in Beacons : beacons[b].pc = "stamped" /\ beacons[b].view => b \in beacons[b].entry.views
  BY DEF ViewsInv, ViewsKept
<1>1. CASE UNCHANGED <<beacons, ledger, beside, upset>>
  BY <1>i, <1>1 DEF ViewsInv, ViewsKept, Viewed, Flies
<1>2. ASSUME NEW b \in Beacons, Load(b)
      PROVE  ViewsInv'
  <2> DEFINE h == beacons[b].seat
  <2>1. PICK view \in BOOLEAN, ok \in BOOLEAN :
          /\ beacons' = [beacons EXCEPT ![b] = [@ EXCEPT !.pc = "loaded", !.view = view,
                                              !.entry = IF ok THEN ledger[h] ELSE NoEntry]]
          /\ upset' = IF ok THEN upset ELSE upset \cup {h}
    BY <1>2 DEF Load
  <2>2. /\ beacons'[b].pc = "loaded" /\ beacons'[b].seat = h
        /\ h \notin upset' => beacons'[b].entry = ledger[h]
        /\ \A c \in Beacons \ {b} : beacons'[c] = beacons[c]
    BY <1>0, <2>1 DEF Beacon
  <2>3. ledger' = ledger /\ upset \subseteq upset' /\ beacons[b].pc = "new" /\ h \in Seats
    BY <1>0, <1>2, <2>1 DEF Load, Beacon
  <2>4. beside \subseteq beside' /\ (InFlight(h) # {} => InFlight(h) \cup {b} \subseteq beside')
    BY <1>2 DEF Load
  <2>5. \A g \in Seats : Viewed(g)' = Viewed(g)
    BY <2>2, <2>3 DEF Viewed
  <2>6. ViewsKept'
    BY <1>i, <2>3, <2>4, <2>5 DEF ViewsKept
  <2>7. ASSUME NEW c \in Beacons, NEW d \in Beacons, c # d, Flies(c)', Flies(d)',
               beacons'[c].seat = beacons'[d].seat
        PROVE  c \in beside'
    <3>1. CASE c # b /\ d # b
      BY <1>i, <2>2, <2>4, <2>7, <3>1 DEF Flies
    <3>2. CASE c = b
      <4>1. d \in InFlight(h)
        BY <2>2, <2>7, <3>2 DEF Flies, InFlight
      <4> QED
        BY <2>4, <3>2, <4>1
    <3>3. CASE d = b
      <4>1. c \in InFlight(h)
        BY <2>2, <2>7, <3>3 DEF Flies, InFlight
      <4> QED
        BY <2>4, <4>1
    <3> QED
      BY <3>1, <3>2, <3>3
  <2>8. ASSUME NEW g \in Seats \ upset', NEW c \in Beacons, Flies(c)', beacons'[c].seat = g
        PROVE  Viewed(g)' \ beside' \subseteq beacons'[c].entry.views
    <3>1. Viewed(g)' \ beside' \subseteq Viewed(g) \ beside /\ g \notin upset
      BY <2>3, <2>4, <2>5, <2>8
    <3>2. CASE c = b
      BY <1>i, <2>2, <2>8, <3>1, <3>2
    <3>3. CASE c # b
      BY <1>i, <2>2, <2>8, <3>1, <3>3 DEF Flies
    <3> QED
      BY <3>2, <3>3
  <2>9. \A c \in Beacons : beacons'[c].pc = "stamped" => c # b /\ beacons'[c] = beacons[c]
    BY <2>2
  <2> QED
    BY <1>i, <2>6, <2>7, <2>8, <2>9 DEF ViewsInv
<1>3. ASSUME NEW b \in Beacons, Stamp(b)
      PROVE  ViewsInv'
  <2> DEFINE e == Updated(beacons[b].entry, b, beacons[b].view, clock)
  <2>1. beacons' = [beacons EXCEPT ![b] = [@ EXCEPT !.pc = "stamped", !.entry = e]]
        /\ beacons[b].pc = "loaded" /\ UNCHANGED <<ledger, beside, upset>>
    BY <1>3 DEF Stamp, ghosts
  <2>2. beacons[b].entry.views \subseteq e.views /\ (beacons[b].view => b \in e.views)
    BY DEF Updated
  <2> HIDE DEF e
  <2>3. /\ beacons'[b].pc = "stamped" /\ beacons'[b].seat = beacons[b].seat
        /\ beacons'[b].view = beacons[b].view /\ beacons'[b].entry = e
        /\ \A c \in Beacons \ {b} : beacons'[c] = beacons[c]
    BY <1>0, <2>1 DEF Beacon
  <2>4. \A g \in Seats : Viewed(g)' = Viewed(g)
    BY <2>1, <2>3 DEF Viewed
  <2>5. \A c \in Beacons : /\ Flies(c)' <=> Flies(c)
                           /\ beacons'[c].seat = beacons[c].seat /\ beacons[c].seat \in Seats
                           /\ beacons[c].entry.views \subseteq beacons'[c].entry.views
    BY <1>0, <2>1, <2>2, <2>3 DEF Flies, Beacon
  <2>6. \A c \in Beacons : beacons'[c].pc = "stamped" /\ beacons'[c].view =>
          c \in beacons'[c].entry.views
    BY <1>i, <2>2, <2>3
  <2>7. ViewsKept'
    BY <1>i, <2>1, <2>4 DEF ViewsKept
  <2>8. ASSUME NEW g \in Seats \ upset', NEW c \in Beacons, Flies(c)', beacons'[c].seat = g
        PROVE  Viewed(g)' \ beside' \subseteq beacons'[c].entry.views
    BY <1>i, <2>1, <2>4, <2>5, <2>8
  <2> QED
    BY <1>i, <2>1, <2>5, <2>6, <2>7, <2>8 DEF ViewsInv
<1>4. ASSUME NEW b \in Beacons, Store(b)
      PROVE  ViewsInv'
  <2> DEFINE h == beacons[b].seat
  <2>1. beacons' = [beacons EXCEPT ![b] = [@ EXCEPT !.pc = "done", !.entry = NoEntry]]
        /\ beacons[b].pc = "stamped" /\ beside' = beside
    BY <1>4 DEF Store
  <2>2. h \in Seats /\ Flies(b)
    BY <1>0, <2>1 DEF Beacon, Flies
  <2>3. /\ beacons'[b].pc = "done" /\ beacons'[b].seat = h /\ beacons'[b].view = beacons[b].view
        /\ \A c \in Beacons \ {b} : beacons'[c] = beacons[c]
    BY <1>0, <2>1 DEF Beacon
  <2>4. /\ upset \subseteq upset'
        /\ \A g \in Seats \ {h} : ledger'[g] = ledger[g]
        /\ h \notin upset' => ledger'[h] = beacons[b].entry
    BY <1>0, <1>4, <2>2 DEF Store, Stored
  <2>5. \A g \in Seats \ {h} : Viewed(g)' = Viewed(g)
    BY <2>3 DEF Viewed
  <2>6. Viewed(h)' \subseteq Viewed(h) \cup (IF beacons[b].view THEN {b} ELSE {})
    BY <2>3 DEF Viewed
  <2>7. ASSUME NEW g \in Seats \ upset'
        PROVE  Viewed(g)' \ beside' \subseteq ledger'[g].views
    <3>1. CASE g # h
      BY <1>i, <2>1, <2>4, <2>5, <3>1
    <3>2. CASE g = h
      <4>1. Viewed(h) \ beside \subseteq beacons[b].entry.views
        BY <1>i, <2>2, <2>4, <3>2
      <4>2. beacons[b].view => b \in beacons[b].entry.views
        BY <1>i, <2>1
      <4> QED
        BY <2>1, <2>4, <2>6, <3>2, <4>1, <4>2
    <3> QED
      BY <3>1, <3>2
  <2>8. ASSUME NEW g \in Seats \ upset', NEW c \in Beacons, Flies(c)', beacons'[c].seat = g
        PROVE  Viewed(g)' \ beside' \subseteq beacons'[c].entry.views
    <3>1. c # b /\ beacons'[c] = beacons[c] /\ Flies(c)
      BY <2>3, <2>8 DEF Flies
    <3>2. Viewed(g) \ beside \subseteq beacons[c].entry.views
      BY <1>i, <2>4, <2>8, <3>1
    <3>3. CASE g # h
      BY <2>1, <2>5, <3>1, <3>2, <3>3
    <3>4. CASE g = h
      <4>1. b \in beside
        BY <1>i, <2>2, <2>8, <3>1, <3>4
      <4> QED
        BY <2>1, <2>6, <3>1, <3>2, <3>4, <4>1
    <3> QED
      BY <3>3, <3>4
  <2>9. \A c \in Beacons : Flies(c)' => Flies(c) /\ c # b /\ beacons'[c] = beacons[c]
    BY <2>3 DEF Flies
  <2>10. \A c \in Beacons : beacons'[c].pc = "stamped" => c # b /\ beacons'[c] = beacons[c]
    BY <2>3
  <2>11. ViewsKept'
    BY <2>7 DEF ViewsKept
  <2> QED
    BY <1>i, <2>1, <2>8, <2>9, <2>10, <2>11 DEF ViewsInv
<1>5. CASE Restart
  <2>1. beacons' = [b \in Beacons |-> IF b \in InFlight(beacons[b].seat)
                                   THEN [beacons[b] EXCEPT !.pc = "gone", !.entry = NoEntry]
                                   ELSE beacons[b]]
        /\ UNCHANGED <<ledger, beside, upset>>
    BY <1>5 DEF Restart
  <2>2. \A b \in Beacons : [beacons[b] EXCEPT !.pc = "gone", !.entry = NoEntry].pc = "gone"
    BY <1>0 DEF Beacon
  <2>3. \A b \in Beacons : ~ Flies(b)' /\ (beacons'[b].pc = "gone" \/ beacons'[b] = beacons[b])
    BY <2>1, <2>2 DEF Flies, InFlight
  <2>4. \A h \in Seats : Viewed(h)' \subseteq Viewed(h)
    BY <2>3 DEF Viewed
  <2>5. ViewsKept'
    BY <1>i, <2>1, <2>4 DEF ViewsKept
  <2>6. \A b \in Beacons : beacons'[b].pc # "stamped"
    BY <2>3 DEF Flies
  <2> QED
    BY <2>3, <2>5, <2>6 DEF ViewsInv
<1>6. CASE Tick \/ Look \/ Mail \/ Mark \/ UNCHANGED vars
  BY <1>1, <1>6 DEF Tick, Look, Mail, Mark, vars, ghosts
<1> QED
  BY <1>2, <1>3, <1>4, <1>5, <1>6 DEF Next

\* A view is lost only of a beacon that was in flight beside another of its seat, or where a call
\* for the seat failed.
THEOREM ViewsStay == Spec => []ViewsKept
<1>1. ViewsInv => ViewsKept
  BY DEF ViewsInv
<1> QED
  BY <1>1, InitTyped, InitViews, NextTyped, NextViews, PTL DEF Spec

------------------------------------------------------------------------------
(* Time *)

\* The seconds until n that are watched if S are the times of the beacons.
Seen(S, n) == {t \in 1..n : \E s1, s2 \in S : s1 < t /\ t <= s2 /\ s2 - s1 <= GapMax}

\* An entry that counts no more than was watched, until its last beacon.
Earned(e, S) == e.seconds <= Cardinality(Seen(S, e.last))

TimeInv ==
  /\ \A h \in Seats : ledger[h].last \in stamps[h] \cup {0} /\ Earned(ledger[h], stamps[h])
  /\ \A h \in Seats, b \in Beacons : beacons[b].seat = h =>
       /\ beacons[b].pc = "loaded" => /\ beacons[b].entry.last \in stamps[h] \cup {0}
                                      /\ Earned(beacons[b].entry, stamps[h])
       /\ beacons[b].pc = "stamped" =>
            Earned(beacons[b].entry, stamps[h] \cup {beacons[b].entry.last})

LEMMA SeenGrows ==
  ASSUME NEW m \in Nat, NEW n \in Nat, m <= n, NEW S, NEW T, S \subseteq T
  PROVE  /\ IsFiniteSet(Seen(S, m)) /\ Cardinality(Seen(S, m)) \in Nat
         /\ Seen(S, m) \subseteq Seen(T, n)
         /\ Cardinality(Seen(S, m)) <= Cardinality(Seen(T, n))
<1>1. Seen(S, m) \in SUBSET (1..m) /\ Seen(T, n) \in SUBSET (1..n)
  BY DEF Seen
<1>2. IsFiniteSet(Seen(S, m)) /\ IsFiniteSet(Seen(T, n))
  <2>1. IsFiniteSet(1..m) /\ IsFiniteSet(1..n)
    BY FS_Interval
  <2> QED
    BY <1>1, <2>1, FS_Subset
<1>3. Seen(S, m) \subseteq Seen(T, n)
  BY DEF Seen
<1> QED
  BY <1>2, <1>3, FS_Subset, FS_CardinalityType

\* More beacons only add to what is watched.
LEMMA EarnedStays ==
  ASSUME NEW e \in Entries, NEW S, NEW T, S \subseteq T, Earned(e, S)
  PROVE  Earned(e, T)
<1>1. e.last \in Nat /\ e.seconds \in Nat
  BY DEF Entries
<1> QED
  BY <1>1, SeenGrows DEF Earned

LEMMA NothingEarned == ASSUME NEW S PROVE Earned(NoEntry, S)
<1>1. Seen(S, 0) = {}
  BY DEF Seen
<1> QED
  BY <1>1, FS_EmptySet DEF Earned, NoEntry

\* What an entry gains by a beacon is watched by it and the one before.
LEMMA UpdatedEarned ==
  ASSUME NEW now \in Nat \ {0}, NEW S \in SUBSET (1..now), NEW e \in Entries,
         e.last \in S \cup {0}, Earned(e, S), NEW b, NEW view
  PROVE  Earned(Updated(e, b, view, now), S \cup {now})
<1> DEFINE u == Updated(e, b, view, now)
           T == S \cup {now}
<1>1. e.last \in Nat /\ e.seconds \in Nat /\ e.last <= now /\ u.last = now
  BY DEF Entries, Updated
<1>2. CASE ~ Counts(e, now)
  <2>1. u.seconds = e.seconds
    BY <1>2 DEF Updated
  <2>2. Cardinality(Seen(S, e.last)) <= Cardinality(Seen(T, now))
        /\ Cardinality(Seen(S, e.last)) \in Nat /\ Cardinality(Seen(T, now)) \in Nat
    BY <1>1, SeenGrows
  <2> QED
    BY <1>1, <2>1, <2>2 DEF Earned
<1>3. CASE Counts(e, now)
  <2> DEFINE gap == (e.last + 1)..now
             old == Seen(S, e.last)
  <2>1. u.seconds = e.seconds + (now - e.last)
    BY <1>3 DEF Updated
  <2>2. e.last \in S /\ e.last < now /\ now - e.last <= GapMax
    BY <1>1, <1>3 DEF Counts
  <2>3. gap \subseteq Seen(T, now)
    BY <1>1, <2>2 DEF Seen
  <2>4. old \subseteq Seen(T, now) /\ IsFiniteSet(old) /\ Cardinality(old) \in Nat
    BY <1>1, SeenGrows
  <2>5. IsFiniteSet(gap) /\ Cardinality(gap) = now - e.last
    BY <1>1, <2>2, FS_Interval
  <2>6. old \cap gap = {}
    BY <1>1 DEF Seen
  <2>7. Cardinality(old \cup gap) = Cardinality(old) + Cardinality(gap)
    <3>1. Cardinality(old \cap gap) = 0
      BY <2>6, FS_EmptySet
    <3>2. Cardinality(gap) \in Nat
      BY <2>5, FS_CardinalityType
    <3> HIDE DEF old, gap
    <3>3. Cardinality(old \cup gap) = Cardinality(old) + Cardinality(gap) - Cardinality(old \cap gap)
      BY <2>4, <2>5, FS_Union
    <3> QED
      BY <2>4, <3>1, <3>2, <3>3
  <2>8. IsFiniteSet(Seen(T, now))
    BY <1>1, SeenGrows
  <2>9. Cardinality(old \cup gap) <= Cardinality(Seen(T, now))
    <3>1. old \cup gap \in SUBSET Seen(T, now)
      BY <2>3, <2>4
    <3> QED
      BY <2>8, <3>1, FS_Subset
  <2>10. Cardinality(Seen(T, now)) \in Nat
    BY <2>8, FS_CardinalityType
  <2>11. e.seconds <= Cardinality(old)
    BY DEF Earned
  <2>12. Earned(u, T) <=> u.seconds <= Cardinality(Seen(T, now))
    BY <1>1 DEF Earned
  <2>13. u.seconds <= Cardinality(Seen(T, now))
    <3> HIDE DEF old, gap, u, T
    <3> QED
      BY <1>1, <2>1, <2>4, <2>5, <2>7, <2>9, <2>10, <2>11
  <2> QED
    BY <2>12, <2>13
<1> QED
  BY <1>2, <1>3

LEMMA InitTime == Init => TimeInv
<1> SUFFICES ASSUME Init PROVE TimeInv
  OBVIOUS
<1>1. /\ \A h \in Seats : ledger[h] = NoEntry /\ stamps[h] = {}
      /\ \A b \in Beacons : beacons[b].pc = "new"
  BY DEF Init
<1>2. NoEntry.last = 0
  BY DEF NoEntry
<1> QED
  BY <1>1, <1>2, NothingEarned DEF TimeInv

LEMMA NextTime == Typed /\ TimeInv /\ [Next]_vars => TimeInv'
<1> SUFFICES ASSUME Typed, TimeInv, [Next]_vars PROVE TimeInv'
  OBVIOUS
<1>0. /\ beacons \in [Beacons -> Beacon] /\ ledger \in [Seats -> Entries]
      /\ stamps \in [Seats -> SUBSET (1..MaxClock)] /\ clock \in Nat \ {0}
      /\ \A h \in Seats : stamps[h] \subseteq 1..clock
      /\ \A b \in Beacons : beacons[b].entry \in Entries /\ beacons[b].seat \in Seats
  BY ProgressAssumption DEF Typed, TypeOK, NotYet, Beacon
<1>i. /\ \A h \in Seats : ledger[h].last \in stamps[h] \cup {0} /\ Earned(ledger[h], stamps[h])
      /\ \A h \in Seats, b \in Beacons : beacons[b].seat = h =>
           /\ beacons[b].pc = "loaded" => /\ beacons[b].entry.last \in stamps[h] \cup {0}
                                          /\ Earned(beacons[b].entry, stamps[h])
           /\ beacons[b].pc = "stamped" =>
                Earned(beacons[b].entry, stamps[h] \cup {beacons[b].entry.last})
  BY DEF TimeInv
<1>1. CASE UNCHANGED <<beacons, ledger, stamps>>
  BY <1>i, <1>1 DEF TimeInv
<1>2. ASSUME NEW b \in Beacons, Load(b)
      PROVE  TimeInv'
  <2> DEFINE h == beacons[b].seat
  <2>1. PICK view \in BOOLEAN, ok \in BOOLEAN :
          beacons' = [beacons EXCEPT ![b] = [@ EXCEPT !.pc = "loaded", !.view = view,
                                              !.entry = IF ok THEN ledger[h] ELSE NoEntry]]
    BY <1>2 DEF Load
  <2>2. /\ beacons'[b].pc = "loaded" /\ beacons'[b].seat = h
        /\ beacons'[b].entry \in {ledger[h], NoEntry}
        /\ \A c \in Beacons \ {b} : beacons'[c] = beacons[c]
    BY <1>0, <2>1 DEF Beacon
  <2>3. UNCHANGED <<ledger, stamps>> /\ h \in Seats /\ NoEntry.last = 0
    BY <1>0, <1>2 DEF Load, NoEntry
  <2>4. beacons'[b].entry.last \in stamps[h] \cup {0} /\ Earned(beacons'[b].entry, stamps[h])
    BY <1>i, <2>2, <2>3, NothingEarned
  <2> QED
    BY <1>i, <2>2, <2>3, <2>4 DEF TimeInv
<1>3. ASSUME NEW b \in Beacons, Stamp(b)
      PROVE  TimeInv'
  <2> DEFINE h == beacons[b].seat
             e == Updated(beacons[b].entry, b, beacons[b].view, clock)
  <2>1. beacons' = [beacons EXCEPT ![b] = [@ EXCEPT !.pc = "stamped", !.entry = e]]
        /\ beacons[b].pc = "loaded" /\ UNCHANGED <<ledger, stamps>> /\ h \in Seats
    BY <1>0, <1>3 DEF Stamp, ghosts
  <2>2. Earned(e, stamps[h] \cup {clock})
    BY <1>0, <1>i, <2>1, UpdatedEarned
  <2>3. e.last = clock
    BY DEF Updated
  <2> HIDE DEF e
  <2>4. /\ beacons'[b].pc = "stamped" /\ beacons'[b].seat = h /\ beacons'[b].entry = e
        /\ \A c \in Beacons \ {b} : beacons'[c] = beacons[c]
    BY <1>0, <2>1 DEF Beacon
  <2> QED
    BY <1>i, <2>1, <2>2, <2>3, <2>4 DEF TimeInv
<1>4. ASSUME NEW b \in Beacons, Store(b)
      PROVE  TimeInv'
  <2> DEFINE h == beacons[b].seat
             e == beacons[b].entry
  <2>1. beacons' = [beacons EXCEPT ![b] = [@ EXCEPT !.pc = "done", !.entry = NoEntry]]
        /\ beacons[b].pc = "stamped" /\ h \in Seats /\ e \in Entries
    BY <1>0, <1>4 DEF Store
  <2>2. /\ beacons'[b].pc = "done"
        /\ \A c \in Beacons \ {b} : beacons'[c] = beacons[c]
    BY <1>0, <2>1 DEF Beacon
  <2>3. \/ UNCHANGED <<ledger, stamps>>
        \/ /\ ledger' = [ledger EXCEPT ![h] = e]
           /\ stamps' = [stamps EXCEPT ![h] = stamps[h] \cup {e.last}]
    BY <1>4 DEF Store, Stored
  <2>4. CASE UNCHANGED <<ledger, stamps>>
    BY <1>i, <2>2, <2>4 DEF TimeInv
  <2>5. CASE /\ ledger' = [ledger EXCEPT ![h] = e]
             /\ stamps' = [stamps EXCEPT ![h] = stamps[h] \cup {e.last}]
    <3>1. /\ ledger'[h] = e /\ stamps'[h] = stamps[h] \cup {e.last}
          /\ \A g \in Seats \ {h} : ledger'[g] = ledger[g] /\ stamps'[g] = stamps[g]
          /\ \A g \in Seats : stamps[g] \subseteq stamps'[g]
      BY <1>0, <2>1, <2>5
    <3>2. Earned(e, stamps[h] \cup {e.last})
      BY <1>i, <2>1
    <3>3. \A g \in Seats : ledger'[g].last \in stamps'[g] \cup {0} /\ Earned(ledger'[g], stamps'[g])
      BY <1>i, <3>1, <3>2
    <3>4. ASSUME NEW g \in Seats, NEW c \in Beacons, beacons'[c].seat = g, beacons'[c].pc = "loaded"
          PROVE  beacons'[c].entry.last \in stamps'[g] \cup {0} /\ Earned(beacons'[c].entry, stamps'[g])
      <4>1. beacons'[c] = beacons[c]
        BY <2>2, <3>4
      <4>2. beacons[c].entry.last \in stamps[g] \cup {0} /\ Earned(beacons[c].entry, stamps[g])
        BY <1>i, <3>4, <4>1
      <4>3. stamps[g] \subseteq stamps'[g] /\ beacons[c].entry \in Entries
        BY <1>0, <3>1
      <4> QED
        BY <4>1, <4>2, <4>3, EarnedStays
    <3>5. ASSUME NEW g \in Seats, NEW c \in Beacons, beacons'[c].seat = g, beacons'[c].pc = "stamped"
          PROVE  Earned(beacons'[c].entry, stamps'[g] \cup {beacons'[c].entry.last})
      <4>1. beacons'[c] = beacons[c]
        BY <2>2, <3>5
      <4>2. Earned(beacons[c].entry, stamps[g] \cup {beacons[c].entry.last})
        BY <1>i, <3>5, <4>1
      <4>3. stamps[g] \cup {beacons[c].entry.last} \subseteq stamps'[g] \cup {beacons[c].entry.last}
        BY <3>1
      <4> QED
        BY <1>0, <4>1, <4>2, <4>3, EarnedStays
    <3> QED
      BY <3>3, <3>4, <3>5 DEF TimeInv
  <2> QED
    BY <2>3, <2>4, <2>5
<1>5. CASE Restart
  <2>1. beacons' = [b \in Beacons |-> IF b \in InFlight(beacons[b].seat)
                                   THEN [beacons[b] EXCEPT !.pc = "gone", !.entry = NoEntry]
                                   ELSE beacons[b]]
        /\ UNCHANGED <<ledger, stamps>>
    BY <1>5 DEF Restart
  <2>2. \A b \in Beacons : [beacons[b] EXCEPT !.pc = "gone", !.entry = NoEntry].pc = "gone"
    BY <1>0 DEF Beacon
  <2>3. \A b \in Beacons : beacons'[b].pc = "gone" \/ beacons'[b] = beacons[b]
    BY <2>1, <2>2
  <2> QED
    BY <1>i, <2>1, <2>3 DEF TimeInv
<1>6. CASE Tick \/ Look \/ Mail \/ Mark \/ UNCHANGED vars
  BY <1>1, <1>6 DEF Tick, Look, Mail, Mark, vars, ghosts
<1> QED
  BY <1>2, <1>3, <1>4, <1>5, <1>6 DEF Next

\* No second is counted twice, and none without beacons on both sides of it, near enough, whatever
\* overlaps, fails or dies.
THEOREM TimeIsWatched == Spec => []OnlyWatched
<1>1. Typed /\ TimeInv => OnlyWatched
  <2> SUFFICES ASSUME Typed, TimeInv, NEW h \in Seats
               PROVE  ledger[h].seconds <= Cardinality(Watched(h))
    BY DEF OnlyWatched
  <2>1. /\ ledger[h] \in Entries /\ stamps[h] \subseteq 1..MaxClock /\ MaxClock \in Nat
        /\ ledger[h].last \in stamps[h] \cup {0} /\ Earned(ledger[h], stamps[h])
    BY ProgressAssumption DEF Typed, TypeOK, TimeInv
  <2>2. ledger[h].last \in Nat /\ ledger[h].last <= MaxClock /\ ledger[h].seconds \in Nat
    BY <2>1 DEF Entries
  <2>3. Watched(h) = Seen(stamps[h], MaxClock)
    BY DEF Watched, Seen
  <2>4. /\ Cardinality(Seen(stamps[h], ledger[h].last)) <= Cardinality(Seen(stamps[h], MaxClock))
        /\ Cardinality(Seen(stamps[h], ledger[h].last)) \in Nat
        /\ Cardinality(Seen(stamps[h], MaxClock)) \in Nat
    BY <2>1, <2>2, SeenGrows
  <2> QED
    BY <2>1, <2>2, <2>3, <2>4 DEF Earned
<1> QED
  BY <1>1, InitTyped, InitTime, NextTyped, NextTime, PTL DEF Spec
=============================================================================
