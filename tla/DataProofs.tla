----------------------------- MODULE DataProofs -----------------------------
(***************************************************************************)
(* Proofs about what the desk keeps and reads: the audit journal, the      *)
(* cached series of the providers, the paced quotes of the broker and the  *)
(* sources of the context, each for every number of writers, callers and   *)
(* readers, and for whatever the sources answer.                           *)
(***************************************************************************)
EXTENDS AuditJournal, SeriesCache, QuoteFeed, SourceFeeds, WellFoundedInduction, SequenceTheorems, TLAPS

(***************************************************************************)
(* The journal.  An event that was acknowledged is on the file, in a line  *)
(* of its own or not, and the file only grows: so a file that reads back   *)
(* has it in a line of its own.                                            *)
(***************************************************************************)
On(ls, t, e) ==
    \/ \E i \in DOMAIN ls : \E j \in DOMAIN ls[i] : ls[i][j] = e
    \/ \E j \in DOMAIN t : t[j] = e

Events(ls) == [i \in DOMAIN ls |-> ls[i][1]]
Busy(w) == step[w] # "idle"
OthersIdle(w) == \A v \in Writers : v # w => ~Busy(v)

\* What a call in progress has checked, as long as no other overlaps with it.
CallSound(w) ==
    /\ step[w] = "creating" =>
          lines = <<>> /\ VerifyAuditChain(batch[w]) /\ OthersIdle(w)
    /\ step[w] = "appending" =>
          /\ lines # <<>> /\ Len(batch[w]) = 1
          /\ VerifyAuditChain(Events(lines) \o batch[w]) /\ OthersIdle(w)

CalmInv ==
    /\ tail = <<>>
    /\ \A i \in DOMAIN lines : Parses(lines[i])
    /\ VerifyAuditChain(Events(lines))
    /\ \A w \in Writers : CallSound(w)
    /\ exists /\ (\A w \in Writers : step[w] # "creating") => lines # <<>>

JournalInv ==
    /\ JournalTypeOK
    /\ \A w \in Writers : Busy(w) => exists /\ batch[w] # <<>>
    /\ ~exists => lines = <<>> /\ tail = <<>>
    /\ \A e \in acked : On(lines, tail, e)
    /\ calm => CalmInv

-----------------------------------------------------------------------------
LEMMA AppendsEqual ==
    ASSUME NEW S, NEW p \in Seq(S), NEW q \in Seq(S), NEW a \in S, NEW b \in S,
           Append(p, a) = Append(q, b)
    PROVE  p = q /\ a = b
<1>1. PICK long : long = Append(p, a) /\ long = Append(q, b)
  OBVIOUS
<1>2. Len(long) = Len(p) + 1 /\ long[Len(p) + 1] = a /\ \A i \in 1..Len(p) : long[i] = p[i]
  BY <1>1
<1>3. Len(long) = Len(q) + 1 /\ long[Len(q) + 1] = b /\ \A i \in 1..Len(q) : long[i] = q[i]
  BY <1>1
<1>4. Len(p) \in Nat /\ Len(q) \in Nat
  OBVIOUS
<1>5. Len(p) = Len(q) /\ a = b
  BY <1>2, <1>3, <1>4
<1>6. \A i \in 1..Len(p) : p[i] = q[i]
  BY <1>2, <1>3, <1>5
<1> QED
  BY <1>5, <1>6

Joined(p, q, pq) ==
    /\ Len(pq) = Len(p) + Len(q)
    /\ \A i \in 1..Len(p) : i \in 1..Len(pq) /\ pq[i] = p[i]
    /\ \A i \in 1..Len(q) : Len(p) + i \in 1..Len(pq) /\ pq[Len(p) + i] = q[i]

LEMMA ConcatFacts ==
    ASSUME NEW S, NEW p \in Seq(S), NEW q \in Seq(S)
    PROVE  p \o q \in Seq(S) /\ Joined(p, q, p \o q)
<1>1. Len(p) \in Nat /\ Len(q) \in Nat /\ Len(p \o q) = Len(p) + Len(q)
  OBVIOUS
<1>2. ASSUME NEW i \in 1..Len(q)
      PROVE  Len(p) + i \in 1..Len(p \o q) /\ (p \o q)[Len(p) + i] = q[i]
  OBVIOUS
<1>3. ASSUME NEW i \in 1..Len(p)
      PROVE  i \in 1..Len(p \o q) /\ (p \o q)[i] = p[i]
  OBVIOUS
<1>4. p \o q \in Seq(S)
  OBVIOUS
<1> QED
  BY <1>1, <1>2, <1>3, <1>4 DEF Joined

LEMMA EventFacts ==
    ASSUME NEW e \in Event
    PROVE  /\ EventHash(e) \in Seq(Stamp) /\ e.seq # 0
           /\ \A f \in Event : EventHash(e) = EventHash(f) => e = f
<1>1. /\ e = [seq |-> e.seq, at |-> e.at, output |-> e.output, prev |-> e.prev]
      /\ e.seq \in Nat \ {0} /\ e.at \in Nat /\ e.output \in Outputs /\ e.prev \in Seq(Stamp)
  BY DEF Event
<1>2. PICK s : s = [seq |-> e.seq, at |-> e.at, output |-> e.output]
  OBVIOUS
<1>3. EventHash(e) = Append(e.prev, s)
  BY <1>2 DEF EventHash
<1>6. s \in Stamp
  BY <1>1, <1>2 DEF Stamp
<1>4. EventHash(e) \in Seq(Stamp)
  BY <1>1, <1>3, <1>6
<1>5. ASSUME NEW f \in Event, EventHash(e) = EventHash(f) PROVE e = f
  <2>1. /\ f = [seq |-> f.seq, at |-> f.at, output |-> f.output, prev |-> f.prev]
        /\ f.prev \in Seq(Stamp)
    BY DEF Event
  <2>2. PICK r : r = [seq |-> f.seq, at |-> f.at, output |-> f.output]
    OBVIOUS
  <2>3. Append(e.prev, s) = Append(f.prev, r)
    BY <1>3, <1>5, <2>2 DEF EventHash
  <2>6. r \in Stamp
    BY <2>2 DEF Event, Stamp
  <2>4. s = r /\ e.prev = f.prev
    BY <1>1, <1>6, <2>1, <2>3, <2>6, AppendsEqual
  <2>5. s.seq = e.seq /\ s.at = e.at /\ s.output = e.output
        /\ r.seq = f.seq /\ r.at = f.at /\ r.output = f.output
    BY <1>2, <2>2
  <2> QED
    BY <1>1, <2>1, <2>4, <2>5
<1> QED
  BY <1>1, <1>4, <1>5

LEMMA FileLinesFacts ==
    ASSUME JournalTypeOK
    PROVE  /\ FileLines \in Seq(Line)
           /\ \A e : On(lines, tail, e) =>
                 \E i \in DOMAIN FileLines : \E j \in DOMAIN FileLines[i] : FileLines[i][j] = e
<1>1. lines \in Seq(Line) /\ tail \in Line /\ Len(lines) \in Nat
  BY DEF JournalTypeOK
<1>2. FileLines \in Seq(Line)
  BY <1>1 DEF FileLines
<1>3. \A i \in DOMAIN lines : i \in DOMAIN FileLines /\ FileLines[i] = lines[i]
  BY <1>1 DEF FileLines
<1>4. tail # <<>> => Len(lines) + 1 \in DOMAIN FileLines /\ FileLines[Len(lines) + 1] = tail
  BY <1>1 DEF FileLines
<1>5. ASSUME NEW e, On(lines, tail, e)
      PROVE  \E i \in DOMAIN FileLines : \E j \in DOMAIN FileLines[i] : FileLines[i][j] = e
  <2>1. CASE \E i \in DOMAIN lines : \E j \in DOMAIN lines[i] : lines[i][j] = e
    BY <1>3, <2>1
  <2>2. CASE \E j \in DOMAIN tail : tail[j] = e
    <3>1. tail # <<>>
      BY <2>2
    <3> QED
      BY <1>4, <2>2, <3>1
  <2> QED
    BY <1>5, <2>1, <2>2 DEF On
<1> QED
  BY <1>2, <1>5

LEMMA ReadableFacts ==
    ASSUME JournalTypeOK, Readable
    PROVE  /\ Chain \in Seq(Event) /\ Len(Chain) = Len(FileLines) /\ Chain # <<>>
           /\ \A i \in DOMAIN FileLines :
                 Len(FileLines[i]) = 1 /\ FileLines[i][1] = Chain[i] /\ Chain[i].seq = i
           /\ HeadHash(Chain) \in Seq(Stamp)
<1>1. FileLines \in Seq(Line) /\ FileLines # <<>>
  BY FileLinesFacts DEF Readable
<1>2. DOMAIN FileLines = 1..Len(FileLines) /\ Len(FileLines) \in Nat /\ Len(FileLines) > 0
  BY <1>1
<1>3. ASSUME NEW i \in 1..Len(FileLines)
      PROVE  Len(FileLines[i]) = 1 /\ FileLines[i][1] \in Event
  <2>4. FileLines[i] \in Line /\ Parses(FileLines[i])
    BY <1>1, <1>2 DEF Readable
  <2>1. FileLines[i] \in Seq(Piece) /\ Len(FileLines[i]) = 1 /\ FileLines[i][1].seq # 0
    BY <2>4 DEF Line, Parses
  <2>2. FileLines[i][1] \in Piece
    BY <2>1
  <2>3. Torn.seq = 0
    BY DEF Torn
  <2> QED
    BY <2>1, <2>2, <2>3 DEF Piece
<1>4. Chain = [i \in 1..Len(FileLines) |-> FileLines[i][1]]
  BY <1>2 DEF Chain
<1>5. Chain \in Seq(Event) /\ Len(Chain) = Len(FileLines) /\ Chain # <<>>
  BY <1>2, <1>3, <1>4
<1>6. \A i \in 1..Len(FileLines) : Chain[i].seq = i
  BY <1>2, <1>4 DEF Readable, VerifyAuditChain
<1>7. HeadHash(Chain) \in Seq(Stamp)
  <2>1. Chain[Len(Chain)] \in Event
    BY <1>2, <1>5
  <2> QED
    BY <1>5, <2>1, EventFacts DEF HeadHash
<1> QED
  BY <1>2, <1>3, <1>4, <1>5, <1>6, <1>7

\* What has been written is on the file, with all that was there.
LEMMA WrittenKeeps ==
    ASSUME JournalTypeOK, NEW b \in Seq(Event), NEW n \in 0..Len(b), NEW t \in Line,
           n = 0 => \A j \in DOMAIN tail : j \in DOMAIN t /\ t[j] = tail[j]
    PROVE  /\ Written(b, n) \in Seq(Line)
           /\ \A e : On(lines, tail, e) => On(Written(b, n), t, e)
           /\ \A i \in 1..n : On(Written(b, n), t, b[i])
<1>1. /\ lines \in Seq(Line) /\ tail \in Line /\ Len(lines) \in Nat
      /\ n \in Nat /\ Len(b) \in Nat
  BY DEF JournalTypeOK
<1>2. CASE n = 0
  BY <1>1, <1>2 DEF Written, On
<1>3. CASE n # 0
  <2> DEFINE new == [i \in 1..n |-> IF i = 1 THEN tail \o <<b[1]>> ELSE <<b[i]>>]
             w == Written(b, n)
             first == Len(lines) + 1
  <2>1. \A i \in 1..n : b[i] \in Event /\ b[i] \in Piece
    BY <1>1 DEF Piece
  <2>2. \A i \in 1..n : new[i] \in Line
    BY <1>1, <1>3, <2>1 DEF Line
  <2>3. new \in Seq(Line) /\ Len(new) = n
    <3> HIDE DEF new
    <3>1. new \in [1..n -> Line]
      BY <2>2 DEF new
    <3> QED
      BY <1>1, <3>1
  <2>4. w = lines \o new
    BY <1>3 DEF Written
  <2>5. new[1] = tail \o <<b[1]>> /\ \A i \in 2..n : new[i] = <<b[i]>>
    BY <1>1, <1>3
  <2> HIDE DEF new, w
  <2>6. /\ w \in Seq(Line) /\ DOMAIN w = 1..(Len(lines) + n)
        /\ \A i \in DOMAIN lines : i \in DOMAIN w /\ w[i] = lines[i]
        /\ \A i \in 1..n : Len(lines) + i \in DOMAIN w /\ w[Len(lines) + i] = new[i]
    <3>1. /\ w \in Seq(Line) /\ Len(w) = Len(lines) + n
          /\ \A i \in 1..Len(lines) : i \in 1..(Len(lines) + n) /\ w[i] = lines[i]
          /\ \A i \in 1..n : Len(lines) + i \in 1..(Len(lines) + n) /\ w[Len(lines) + i] = new[i]
      <4>1. w \in Seq(Line) /\ Joined(lines, new, w)
        BY <1>1, <2>3, <2>4, ConcatFacts
      <4> QED
        BY <2>3, <4>1 DEF Joined
    <3>2. DOMAIN w = 1..(Len(lines) + n) /\ DOMAIN lines = 1..Len(lines)
      BY <1>1, <3>1
    <3> QED
      BY <3>1, <3>2
  <2>7. first \in DOMAIN w /\ w[first] = tail \o <<b[1]>>
    <3>1. 1 \in 1..n
      BY <1>1, <1>3
    <3> QED
      BY <2>5, <2>6, <3>1
  <2>8. /\ \A j \in DOMAIN tail : j \in DOMAIN w[first] /\ w[first][j] = tail[j]
        /\ Len(tail) + 1 \in DOMAIN w[first] /\ w[first][Len(tail) + 1] = b[1]
    BY <1>1, <2>1, <2>7 DEF Line
  <2>9. ASSUME NEW e, On(lines, tail, e) PROVE On(w, t, e)
    <3>1. CASE \E i \in DOMAIN lines : \E j \in DOMAIN lines[i] : lines[i][j] = e
      BY <2>6, <3>1 DEF On
    <3>2. CASE \E j \in DOMAIN tail : tail[j] = e
      BY <2>7, <2>8, <3>2 DEF On
    <3> QED
      BY <2>9, <3>1, <3>2 DEF On
  <2>10. ASSUME NEW i \in 1..n PROVE On(w, t, b[i])
    <3>1. CASE i = 1
      BY <2>7, <2>8, <3>1 DEF On
    <3>2. CASE i # 1
      <4>3. i \in 2..n
        BY <1>1, <3>2
      <4>1. /\ Len(lines) + i \in DOMAIN w /\ w[Len(lines) + i] = <<b[i]>>
        BY <2>5, <2>6, <4>3
      <4>2. 1 \in DOMAIN w[Len(lines) + i] /\ w[Len(lines) + i][1] = b[i]
        BY <4>1
      <4> QED
        BY <4>1, <4>2 DEF On
    <3> QED
      BY <3>1, <3>2
  <2> QED
    BY <2>6, <2>9, <2>10 DEF w
<1> QED
  BY <1>2, <1>3

\* A step of the callers, which writes nothing.
LEMMA NothingWritten ==
    ASSUME JournalInv, UNCHANGED <<lines, tail>>, JournalTypeOK',
           \A e \in acked' : e \in acked \/ On(lines, tail, e),
           exists' = exists, NEW w \in Writers, step' = step,
           \A v \in Writers : v # w => batch'[v] = batch[v],
           step[w] = "idle", calm' = calm
    PROVE  JournalInv'
<1>1. \A e \in acked' : On(lines, tail, e)'
  BY DEF JournalInv, On
<1>2. ASSUME NEW v \in Writers, Busy(v)' PROVE Busy(v) /\ v # w /\ batch'[v] = batch[v]
  BY <1>2 DEF Busy
<1>3. ASSUME calm' PROVE CalmInv'
  <2>1. CalmInv
    BY <1>3 DEF JournalInv
  <2>2. ASSUME NEW v \in Writers PROVE CallSound(v)'
    <3>1. CASE v = w
      BY <3>1 DEF CallSound
    <3>2. CASE v # w
      <4>1. CallSound(v) /\ batch'[v] = batch[v]
        BY <2>1, <3>2 DEF CalmInv
      <4> QED
        BY <4>1 DEF CallSound, OthersIdle, Busy
    <3> QED
      BY <3>1, <3>2
  <2>3. VerifyAuditChain(Events(lines))' /\ \A i \in DOMAIN lines' : Parses(lines'[i])
    BY <2>1 DEF CalmInv
  <2> QED
    BY <2>1, <2>2, <2>3 DEF CalmInv
<1> QED
  BY <1>1, <1>2, <1>3 DEF JournalInv, Busy

LEMMA BatchInv ==
    ASSUME JournalInv, NEW w \in Writers, BuildEvent(w) \/ RefuseBatch(w)
    PROVE  JournalInv'
<1>1. /\ UNCHANGED <<exists, lines, tail, step, acked, calm>> /\ step[w] = "idle"
  BY DEF BuildEvent, RefuseBatch
<1>2. batch \in [Writers -> Seq(Event)]
  BY DEF JournalInv, JournalTypeOK
<1>3. PICK b \in Seq(Event) : batch' = [batch EXCEPT ![w] = b]
  <2>1. CASE RefuseBatch(w)
    <3>1. <<>> \in Seq(Event)
      OBVIOUS
    <3> QED
      BY <2>1, <3>1 DEF RefuseBatch
  <2>2. CASE BuildEvent(w)
    <3>1. PICK chain \in Seq(Event), at \in Nat, output \in Outputs :
             /\ batch' = [batch EXCEPT ![w] = <<NextEvent(chain, at, output)>>]
                \/ batch' = [batch EXCEPT ![w] = Append(@, NextEvent(chain, at, output))]
      <4>1. PICK at \in 0..MaxTime, output \in Outputs :
              \/ Readable /\ batch' = [batch EXCEPT ![w] = <<NextEvent(Chain, at, output)>>]
              \/ batch' = [batch EXCEPT ![w] = Append(@, NextEvent(@, at, output))]
        BY <2>2 DEF BuildEvent
      <4>2. at \in Nat
        BY JournalAssumption
      <4>3. Readable => Chain \in Seq(Event)
        BY ReadableFacts DEF JournalInv
      <4>4. batch[w] \in Seq(Event)
        BY <1>2
      <4>5. [batch EXCEPT ![w] = Append(@, NextEvent(@, at, output))]
              = [batch EXCEPT ![w] = Append(@, NextEvent(batch[w], at, output))]
        BY <1>2
      <4> QED
        BY <4>1, <4>2, <4>3, <4>4, <4>5
    <3>2. PICK e : e = NextEvent(chain, at, output)
      OBVIOUS
    <3>3. HeadHash(chain) \in Seq(Stamp) /\ Len(chain) \in Nat
      <4>1. chain # <<>> => chain[Len(chain)] \in Event
        OBVIOUS
      <4> QED
        BY <4>1, EventFacts DEF HeadHash, GenesisHash
    <3>4. e \in Event
      BY <3>2, <3>3 DEF NextEvent, Event
    <3>5. <<e>> \in Seq(Event) /\ Append(batch[w], e) \in Seq(Event)
      BY <1>2, <3>4
    <3> QED
      BY <1>2, <3>1, <3>2, <3>5
  <2> QED
    BY <2>1, <2>2
<1>4. /\ batch' \in [Writers -> Seq(Event)]
      /\ \A v \in Writers : v # w => batch'[v] = batch[v]
  BY <1>2, <1>3
<1>5. JournalTypeOK'
  BY <1>1, <1>4 DEF JournalInv, JournalTypeOK
<1> QED
  BY <1>1, <1>4, <1>5, NothingWritten

LEMMA DuplicateInv ==
    ASSUME JournalInv, NEW w \in Writers, SuppressDuplicate(w)
    PROVE  JournalInv'
<1>1. /\ UNCHANGED <<exists, lines, tail, step, calm>> /\ step[w] = "idle" /\ Readable
      /\ batch \in [Writers -> Seq(Event)] /\ batch' = [batch EXCEPT ![w] = <<>>]
      /\ acked \in SUBSET Event /\ Len(batch[w]) = 1 /\ JournalTypeOK
  BY DEF SuppressDuplicate, JournalInv, JournalTypeOK
<1>2. PICK e : e = batch[w][1] /\ e \in Event /\ acked' = acked \cup {e}
               /\ EventHash(e) = HeadHash(Chain)
  <2>2. PICK b \in Seq(Event) : b = batch[w] /\ Len(b) = 1
    BY <1>1
  <2>3. b[1] \in Event
    BY <2>2
  <2>1. batch[w][1] \in Event
    BY <2>2, <2>3
  <2> QED
    BY <2>1 DEF SuppressDuplicate
<1>3. On(lines, tail, e)
  <2>1. /\ Chain \in Seq(Event) /\ Len(Chain) = Len(FileLines) /\ Chain # <<>>
        /\ FileLines \in Seq(Line)
        /\ \A i \in DOMAIN FileLines : Len(FileLines[i]) = 1 /\ FileLines[i][1] = Chain[i]
    BY <1>1, ReadableFacts, FileLinesFacts
  <2>2. PICK n : n = Len(Chain) /\ n \in DOMAIN FileLines /\ Chain[n] \in Event
    BY <2>1
  <2>3. Chain[n] = e
    BY <1>2, <2>1, <2>2, EventFacts DEF HeadHash
  <2>4. FileLines[n] \in Seq(Piece) /\ FileLines[n][1] = e /\ 1 \in DOMAIN FileLines[n]
    BY <2>1, <2>2, <2>3 DEF Line
  <2>5. lines \in Seq(Line) /\ tail \in Line
    BY <1>1 DEF JournalTypeOK
  <2>6. \/ n \in DOMAIN lines /\ FileLines[n] = lines[n]
        \/ FileLines[n] = tail
    BY <2>2, <2>5 DEF FileLines
  <2> QED
    BY <2>4, <2>6 DEF On
<1>4. /\ batch' \in [Writers -> Seq(Event)]
      /\ \A v \in Writers : v # w => batch'[v] = batch[v]
  <2>1. <<>> \in Seq(Event)
    OBVIOUS
  <2> QED
    BY <1>1, <2>1
<1>5. JournalTypeOK'
  BY <1>1, <1>2, <1>4 DEF JournalTypeOK
<1> QED
  BY <1>1, <1>2, <1>3, <1>4, <1>5, NothingWritten

LEMMA CreateInv ==
    ASSUME JournalInv, NEW w \in Writers, CreateFile(w)
    PROVE  JournalInv'
<1>1. /\ UNCHANGED <<lines, tail, batch, acked, calm>> /\ ~exists /\ exists' = TRUE
      /\ step' = [step EXCEPT ![w] = "creating"] /\ batch[w] # <<>> /\ VerifyAuditChain(batch[w])
      /\ JournalTypeOK /\ lines = <<>> /\ tail = <<>>
  BY DEF CreateFile, JournalInv
<1>2. \A v \in Writers : step[v] = "idle"
  BY <1>1 DEF JournalInv, Busy
<1>3. \A v \in Writers : step'[v] = IF v = w THEN "creating" ELSE "idle"
  BY <1>1, <1>2 DEF JournalTypeOK
<1>4. JournalTypeOK'
  BY <1>1 DEF JournalTypeOK
<1>5. ASSUME calm' PROVE CalmInv'
  <2>1. CalmInv
    BY <1>1, <1>5 DEF JournalInv
  <2>2. ASSUME NEW v \in Writers PROVE CallSound(v)'
    BY <1>1, <1>3 DEF CallSound, OthersIdle, Busy
  <2> QED
    BY <1>1, <1>3, <2>1, <2>2 DEF CalmInv
<1>6. \A e \in acked' : On(lines, tail, e)'
  BY <1>1 DEF JournalInv
<1>7. \A v \in Writers : Busy(v)' => exists' /\ batch'[v] # <<>>
  BY <1>1, <1>3 DEF Busy
<1> QED
  BY <1>1, <1>4, <1>5, <1>6, <1>7 DEF JournalInv

LEMMA CheckInv ==
    ASSUME JournalInv, NEW w \in Writers, CheckChain(w)
    PROVE  JournalInv'
<1>1. /\ UNCHANGED <<exists, lines, tail, batch, acked>> /\ Readable /\ exists
      /\ step' = [step EXCEPT ![w] = "appending"] /\ Len(batch[w]) = 1
      /\ VerifyAuditChain(Chain \o batch[w])
      /\ calm' = (calm /\ \A v \in Writers : step[v] = "idle")
      /\ JournalTypeOK
  BY DEF CheckChain, JournalInv, Readable, Follows
<1>2. \A v \in Writers : step'[v] = IF v = w THEN "appending" ELSE step[v]
  BY <1>1 DEF JournalTypeOK
<1>3. JournalTypeOK'
  BY <1>1 DEF JournalTypeOK
<1>4. batch[w] # <<>>
  <2>1. PICK b \in Seq(Event) : b = batch[w] /\ Len(b) = 1
    BY <1>1 DEF JournalTypeOK
  <2>2. Len(<<>>) # 1
    OBVIOUS
  <2> QED
    BY <2>1, <2>2
<1>5. ASSUME calm' PROVE CalmInv'
  <2>1. CalmInv /\ \A v \in Writers : step[v] = "idle"
    BY <1>1, <1>5 DEF JournalInv
  <2>2. tail = <<>> /\ lines # <<>>
    BY <1>1, <2>1 DEF CalmInv
  <2>3. Chain = Events(lines)
    BY <2>2 DEF Chain, Events, FileLines
  <2>4. ASSUME NEW v \in Writers PROVE CallSound(v)'
    BY <1>1, <1>2, <2>1, <2>2, <2>3 DEF CallSound, OthersIdle, Busy
  <2> QED
    BY <1>1, <1>2, <2>1, <2>2, <2>4 DEF CalmInv
<1>6. \A e \in acked' : On(lines, tail, e)'
  BY <1>1 DEF JournalInv
<1>7. \A v \in Writers : Busy(v)' => exists' /\ batch'[v] # <<>>
  BY <1>1, <1>2, <1>4 DEF Busy, JournalInv
<1>8. ~exists' => lines' = <<>> /\ tail' = <<>>
  BY <1>1
<1> QED
  BY <1>3, <1>5, <1>6, <1>7, <1>8 DEF JournalInv

\* What is left of a batch that was written to the end of a readable file.
LEMMA WrittenReads ==
    ASSUME JournalTypeOK, tail = <<>>, \A i \in DOMAIN lines : Parses(lines[i]),
           NEW b \in Seq(Event), b # <<>>
    PROVE  /\ \A i \in DOMAIN Written(b, Len(b)) : Parses(Written(b, Len(b))[i])
           /\ Events(Written(b, Len(b))) = Events(lines) \o b
           /\ Written(b, Len(b)) # <<>>
<1> DEFINE n == Len(b)
           new == [i \in 1..n |-> <<b[i]>>]
           w == Written(b, n)
<1>1. /\ lines \in Seq(Line) /\ n \in Nat /\ n >= 1 /\ Len(lines) \in Nat
      /\ DOMAIN lines = 1..Len(lines)
  BY DEF JournalTypeOK
<1>2. \A i \in 1..n : b[i] \in Event /\ b[i] \in Piece /\ b[i].seq # 0
  BY EventFacts DEF Piece
<1>3. \A i \in 1..n : <<b[i]>> \in Line /\ Parses(<<b[i]>>)
  BY <1>2 DEF Line, Parses
<1>4. new \in Seq(Line) /\ Len(new) = n /\ \A i \in 1..n : new[i] = <<b[i]>>
  <2> HIDE DEF n
  <2>1. new \in [1..n -> Line] /\ \A i \in 1..n : new[i] = <<b[i]>>
    BY <1>3
  <2> HIDE DEF new
  <2> QED
    BY <1>1, <2>1
<1>5. w = lines \o new
  <2>1. w = lines \o [i \in 1..n |-> IF i = 1 THEN tail \o <<b[1]>> ELSE <<b[i]>>]
    BY <1>1 DEF Written
  <2>2. tail \o <<b[1]>> = <<b[1]>>
    BY <1>1, <1>2
  <2> QED
    BY <2>1, <2>2
<1> HIDE DEF n, new, w
<1>6. /\ w \in Seq(Line) /\ Len(w) = Len(lines) + n
      /\ \A i \in 1..Len(lines) : i \in 1..(Len(lines) + n) /\ w[i] = lines[i]
      /\ \A i \in 1..n : Len(lines) + i \in 1..(Len(lines) + n) /\ w[Len(lines) + i] = new[i]
  <2>1. w \in Seq(Line) /\ Joined(lines, new, w)
    BY <1>1, <1>4, <1>5, ConcatFacts
  <2> QED
    BY <1>4, <2>1 DEF Joined
<1>7. DOMAIN w = 1..(Len(lines) + n)
  BY <1>1, <1>6
<1>8. \A i \in DOMAIN w : i \in DOMAIN lines \/ \E j \in 1..n : i = Len(lines) + j
  <2> SUFFICES ASSUME NEW i \in 1..(Len(lines) + n), i \notin 1..Len(lines)
               PROVE  i - Len(lines) \in 1..n /\ i = Len(lines) + (i - Len(lines))
    BY <1>1, <1>7
  <2> QED
    BY <1>1
<1>9. \A i \in DOMAIN w : Parses(w[i])
  <2> SUFFICES ASSUME NEW i \in DOMAIN w PROVE Parses(w[i])
    OBVIOUS
  <2>1. CASE i \in DOMAIN lines
    BY <1>1, <1>6, <2>1
  <2>2. CASE \E j \in 1..n : i = Len(lines) + j
    BY <1>3, <1>4, <1>6, <2>2
  <2> QED
    BY <1>8, <2>1, <2>2
<1>10. Events(w) = Events(lines) \o b
  <2> DEFINE old == Events(lines)
             all == Events(w)
  <2>1. old \in Seq(Event) /\ Len(old) = Len(lines) /\ \A i \in 1..Len(lines) : old[i] = lines[i][1]
    <3>1. ASSUME NEW i \in 1..Len(lines) PROVE lines[i][1] \in Event
      <4>1. lines[i] \in Seq(Piece) /\ Len(lines[i]) = 1 /\ lines[i][1].seq # 0
        <5>1. lines[i] \in Line /\ Parses(lines[i])
          BY <1>1
        <5> QED
          BY <5>1 DEF Line, Parses
      <4>2. lines[i][1] \in Piece
        BY <4>1
      <4> QED
        BY <4>1, <4>2 DEF Piece, Torn
    <3> QED
      BY <1>1, <3>1 DEF Events
  <2>2. all \in [1..(Len(lines) + n) -> Event] /\ \A i \in DOMAIN w : all[i] = w[i][1]
    <3>1. ASSUME NEW i \in DOMAIN w PROVE w[i][1] \in Event
      <4>1. CASE i \in DOMAIN lines
        <5>1. i \in 1..Len(lines) /\ old[i] = w[i][1]
          BY <1>1, <1>6, <2>1, <4>1
        <5>2. old[i] \in Event
          BY <2>1, <5>1
        <5> QED
          BY <5>1, <5>2
      <4>2. CASE \E j \in 1..n : i = Len(lines) + j
        <5>1. PICK j \in 1..n : i = Len(lines) + j
          BY <4>2
        <5>2. w[i] = <<b[j]>> /\ b[j] \in Event
          BY <1>2, <1>4, <1>6, <5>1
        <5> QED
          BY <5>2
      <4> QED
        BY <1>8, <4>1, <4>2
    <3> QED
      BY <1>7, <3>1 DEF Events
  <2> HIDE DEF old, all
  <2>3. all \in Seq(Event) /\ Len(all) = Len(lines) + n
    <3>1. PICK k \in Nat : k = Len(lines) + n
      BY <1>1
    <3>2. all \in [1..k -> Event]
      BY <2>2, <3>1
    <3>3. all \in Seq(Event) /\ Len(all) = k
      BY <3>2
    <3> QED
      BY <3>1, <3>3
  <2>4. PICK cat : cat = old \o b
    OBVIOUS
  <2>5. /\ cat \in Seq(Event) /\ Len(cat) = Len(lines) + n
        /\ \A i \in 1..Len(lines) : cat[i] = old[i]
        /\ \A i \in 1..n : cat[Len(lines) + i] = b[i]
    <3>1. cat \in Seq(Event) /\ Joined(old, b, cat)
      BY <2>1, <2>4, ConcatFacts
    <3> QED
      BY <2>1, <3>1 DEF Joined, n
  <2>6. ASSUME NEW i \in DOMAIN w PROVE all[i] = cat[i]
    <3>1. CASE i \in DOMAIN lines
      <4>1. i \in 1..Len(lines) /\ w[i] = lines[i]
        BY <1>1, <1>6, <3>1
      <4> QED
        BY <2>1, <2>2, <2>5, <4>1
    <3>2. CASE \E j \in 1..n : i = Len(lines) + j
      <4>1. PICK j \in 1..n : i = Len(lines) + j
        BY <3>2
      <4>2. w[i] = <<b[j]>> /\ cat[i] = b[j]
        BY <1>4, <1>6, <2>5, <4>1
      <4> QED
        BY <2>2, <4>2
    <3> QED
      BY <1>8, <3>1, <3>2
  <2>7. all = cat
    BY <1>7, <2>3, <2>5, <2>6
  <2> QED
    BY <2>4, <2>7 DEF old, all
<1>11. w # <<>>
  BY <1>1, <1>6
<1> QED
  BY <1>9, <1>10, <1>11 DEF n, w

LEMMA WriteInv ==
    ASSUME JournalInv, NEW w \in Writers, WriteLines(w)
    PROVE  JournalInv'
<1>1. /\ UNCHANGED <<exists, calm>> /\ step[w] # "idle" /\ tail' = <<>>
      /\ lines' = Written(batch[w], Len(batch[w]))
      /\ acked' = acked \cup {batch[w][i] : i \in DOMAIN batch[w]}
      /\ step' = [step EXCEPT ![w] = "idle"] /\ batch' = [batch EXCEPT ![w] = <<>>]
      /\ JournalTypeOK /\ exists /\ batch[w] # <<>>
  BY DEF WriteLines, JournalInv, Busy
<1>2. PICK b \in Seq(Event) : b = batch[w] /\ b # <<>>
  BY <1>1 DEF JournalTypeOK
<1>3. Len(b) \in Nat /\ Len(b) # 0 /\ DOMAIN b = 1..Len(b) /\ <<>> \in Line /\ <<>> \in Seq(Event)
  BY <1>2 DEF Line
<1>4. /\ lines' \in Seq(Line)
      /\ \A e : On(lines, tail, e) => On(lines', tail', e)
      /\ \A i \in 1..Len(b) : On(lines', tail', b[i])
  BY <1>1, <1>2, <1>3, WrittenKeeps
<1>5. \A e \in acked' : On(lines, tail, e)'
  BY <1>1, <1>2, <1>3, <1>4 DEF JournalInv
<1>6. /\ step' \in [Writers -> {"idle", "creating", "appending"}] /\ batch' \in [Writers -> Seq(Event)]
      /\ \A v \in Writers : v # w => step'[v] = step[v] /\ batch'[v] = batch[v]
      /\ step'[w] = "idle"
  BY <1>1, <1>3 DEF JournalTypeOK
<1>7. JournalTypeOK'
  <2>1. {b[i] : i \in DOMAIN b} \subseteq Event
    BY <1>2, <1>3
  <2> QED
    BY <1>1, <1>2, <1>3, <1>4, <1>6, <2>1 DEF JournalTypeOK
<1>8. ASSUME calm' PROVE CalmInv'
  <2>1. CalmInv /\ CallSound(w)
    BY <1>1, <1>8 DEF JournalInv, CalmInv
  <2>2. /\ \A i \in DOMAIN lines' : Parses(lines'[i])
        /\ Events(lines') = Events(lines) \o b /\ lines' # <<>>
    BY <1>1, <1>2, <2>1, WrittenReads DEF CalmInv
  <2>3. step[w] \in {"creating", "appending"}
    BY <1>1 DEF JournalTypeOK
  <2>4. VerifyAuditChain(Events(lines'))
    <3>1. CASE step[w] = "appending"
      BY <1>2, <2>1, <2>2, <3>1 DEF CallSound
    <3>2. CASE step[w] = "creating"
      <4>1. lines = <<>> /\ VerifyAuditChain(b)
        BY <1>2, <2>1, <3>2 DEF CallSound
      <4>2. Events(lines) = <<>>
        BY <4>1 DEF Events
      <4>3. <<>> \o b = b
        BY <1>2
      <4> QED
        BY <2>2, <4>1, <4>2, <4>3
    <3> QED
      BY <2>3, <3>1, <3>2
  <2>5. \A v \in Writers : step'[v] = "idle"
    BY <1>6, <2>1, <2>3 DEF CallSound, OthersIdle, Busy
  <2>6. \A v \in Writers : CallSound(v)'
    BY <2>5 DEF CallSound
  <2> QED
    BY <1>1, <2>2, <2>4, <2>6 DEF CalmInv
<1>9. \A v \in Writers : Busy(v)' => exists' /\ batch'[v] # <<>>
  BY <1>1, <1>6 DEF JournalInv, Busy
<1> QED
  BY <1>1, <1>5, <1>7, <1>8, <1>9 DEF JournalInv

LEMMA CutInv ==
    ASSUME JournalInv, NEW w \in Writers, WriteLinesCut(w)
    PROVE  JournalInv'
<1>1. /\ UNCHANGED <<exists, batch, acked>> /\ step[w] # "idle" /\ calm' = FALSE
      /\ step' = [step EXCEPT ![w] = "idle"]
      /\ JournalTypeOK /\ exists
  BY DEF WriteLinesCut, JournalInv, Busy
<1>2. PICK b \in Seq(Event) : b = batch[w]
  BY <1>1 DEF JournalTypeOK
<1>13. PICK n \in 0..Len(b) :
          /\ lines' = Written(b, n)
          /\ \E cut \in {<<>>, <<Torn>>} \cup (IF n < Len(b) THEN {<<b[n + 1]>>} ELSE {}) :
               tail' = (IF n = 0 THEN tail ELSE <<>>) \o (IF n < Len(b) THEN cut ELSE <<>>)
  BY <1>2 DEF WriteLinesCut
<1>3. PICK cut \in {<<>>, <<Torn>>} \cup (IF n < Len(b) THEN {<<b[n + 1]>>} ELSE {}) :
        /\ lines' = Written(b, n)
        /\ tail' = (IF n = 0 THEN tail ELSE <<>>) \o (IF n < Len(b) THEN cut ELSE <<>>)
  BY <1>13
<1>4. PICK rest \in Line : rest = IF n < Len(b) THEN cut ELSE <<>>
  <2>1. <<>> \in Line /\ <<Torn>> \in Line
    BY DEF Line, Piece
  <2>2. ASSUME n < Len(b) PROVE <<b[n + 1]>> \in Line
    <3>1. n + 1 \in 1..Len(b)
      BY <2>2
    <3>2. b[n + 1] \in Piece
      BY <3>1 DEF Piece
    <3> QED
      BY <3>2 DEF Line
  <2> QED
    BY <1>3, <2>1, <2>2
<1>5. PICK begun \in Line : begun = IF n = 0 THEN tail ELSE <<>>
  <2>1. <<>> \in Line /\ tail \in Line
    BY <1>1 DEF Line, JournalTypeOK
  <2> QED
    BY <2>1
<1>6. tail' = begun \o rest /\ tail' \in Line
  BY <1>3, <1>4, <1>5 DEF Line
<1>7. n = 0 => \A j \in DOMAIN tail : j \in DOMAIN tail' /\ tail'[j] = tail[j]
  <2> SUFFICES ASSUME NEW j \in DOMAIN begun PROVE j \in DOMAIN (begun \o rest) /\ (begun \o rest)[j] = begun[j]
    BY <1>5, <1>6
  <2> QED
    BY DEF Line
<1>8. /\ lines' \in Seq(Line)
      /\ \A e : On(lines, tail, e) => On(lines', tail', e)
  BY <1>1, <1>3, <1>6, <1>7, WrittenKeeps
<1>9. \A e \in acked' : On(lines, tail, e)'
  BY <1>1, <1>8 DEF JournalInv
<1>10. /\ step' \in [Writers -> {"idle", "creating", "appending"}]
       /\ \A v \in Writers : v # w => step'[v] = step[v]
       /\ step'[w] = "idle"
  BY <1>1 DEF JournalTypeOK
<1>11. JournalTypeOK'
  BY <1>1, <1>6, <1>8, <1>10 DEF JournalTypeOK
<1>12. \A v \in Writers : Busy(v)' => exists' /\ batch'[v] # <<>>
  BY <1>1, <1>10 DEF JournalInv, Busy
<1> QED
  BY <1>1, <1>9, <1>11, <1>12 DEF JournalInv

LEMMA JournalStarts ==
    ASSUME JournalInit
    PROVE  JournalInv
<1>1. /\ exists = FALSE /\ lines = <<>> /\ tail = <<>> /\ acked = {} /\ calm = TRUE
      /\ step = [w \in Writers |-> "idle"] /\ batch = [w \in Writers |-> <<>>]
  BY DEF JournalInit
<1>2. JournalTypeOK
  <2>1. <<>> \in Seq(Line) /\ <<>> \in Line /\ <<>> \in Seq(Event)
    BY DEF Line
  <2> QED
    BY <1>1, <2>1 DEF JournalTypeOK
<1>3. CalmInv
  <2>1. Events(lines) = <<>> /\ DOMAIN lines = {}
    BY <1>1 DEF Events
  <2>2. VerifyAuditChain(<<>>)
    BY DEF VerifyAuditChain
  <2> QED
    BY <1>1, <2>1, <2>2 DEF CalmInv, CallSound
<1> QED
  BY <1>1, <1>2, <1>3 DEF JournalInv, Busy

LEMMA JournalStays ==
    ASSUME JournalInv, UNCHANGED journalVars
    PROVE  JournalInv'
<1>1. UNCHANGED <<exists, lines, tail, step, batch, acked, calm>>
  BY DEF journalVars
<1>2. JournalTypeOK' /\ \A e \in acked' : On(lines, tail, e)'
  BY <1>1 DEF JournalInv, JournalTypeOK
<1>3. CalmInv => CalmInv'
  BY <1>1 DEF CalmInv, CallSound, OthersIdle, Busy
<1> QED
  BY <1>1, <1>2, <1>3 DEF JournalInv, Busy

(* A read of the journal that succeeds returns every event a writer was    *)
(* told is there, at the place its number names, whatever writes were cut  *)
(* or overlapped; and it succeeds where none was and none did              *)
(* (audit_store.py, read_audit_journal and append_audit_journal).          *)
THEOREM JournalTheorem == JournalSpec => []JournalSound
<1>1. JournalInit => JournalInv
  BY JournalStarts
<1>2. JournalInv /\ [JournalNext]_journalVars => JournalInv'
  BY BatchInv, DuplicateInv, CreateInv, CheckInv, WriteInv, CutInv, JournalStays
     DEF JournalNext, WriterStep
<1>3. JournalInv => JournalSound
  <2> SUFFICES ASSUME JournalInv PROVE JournalSound
    OBVIOUS
  <2>1. ASSUME Readable, NEW e \in acked PROVE e.seq \in DOMAIN Chain /\ Chain[e.seq] = e
    <3>1. JournalTypeOK /\ On(lines, tail, e)
      BY DEF JournalInv
    <3>2. PICK i \in DOMAIN FileLines : \E j \in DOMAIN FileLines[i] : FileLines[i][j] = e
      BY <3>1, FileLinesFacts
    <3>3. PICK j \in DOMAIN FileLines[i] : FileLines[i][j] = e
      BY <3>2
    <3>4. /\ Len(FileLines[i]) = 1 /\ FileLines[i][1] = Chain[i] /\ Chain[i].seq = i
          /\ Chain \in Seq(Event) /\ Len(Chain) = Len(FileLines)
          /\ FileLines \in Seq(Line)
      BY <2>1, <3>1, ReadableFacts, FileLinesFacts
    <3>5. FileLines[i] \in Seq(Piece) /\ i \in DOMAIN Chain
      BY <3>4 DEF Line
    <3>6. j = 1
      BY <3>3, <3>4, <3>5
    <3> QED
      BY <3>3, <3>4, <3>5, <3>6
  <2>2. ASSUME calm, exists, \A w \in Writers : step[w] # "creating" PROVE Readable
    <3>1. /\ tail = <<>> /\ lines # <<>> /\ \A i \in DOMAIN lines : Parses(lines[i])
          /\ VerifyAuditChain(Events(lines))
      BY <2>2 DEF JournalInv, CalmInv
    <3>2. FileLines = lines /\ Chain = Events(lines)
      BY <3>1 DEF FileLines, Chain, Events
    <3> QED
      BY <2>2, <3>1, <3>2 DEF Readable
  <2> QED
    BY <2>1, <2>2 DEF JournalSound, ReadsHonest, JournalReadable
<1> QED
  BY <1>1, <1>2, <1>3, PTL DEF JournalSpec

-----------------------------------------------------------------------------
(***************************************************************************)
(* The cached series.  The file a caller writes never leaves the window it *)
(* was created for, and has nothing in it that is a payload but what the   *)
(* provider answered for that window.                                      *)
(***************************************************************************)
CallerStages == {"resting", "looking", "asking", "opening", "writing", "replacing"}
CallerRecord ==
    [at : CallerStages, window : Windows, attempt : Nat, rows : Nat, file : Nat]

\* The files of a window: those its names lead to, and those its callers write.
Held(w) ==
    ({names[w].cache, names[w].tmp}
        \cup {caller[c].file : c \in {d \in Callers : caller[d].at = "writing"
                                                      /\ caller[d].window = w}})
    \ {Missing}

Texts == Nat \cup {Garbled}

SeriesTypes ==
    /\ today \in Windows /\ observed \in Nat
    /\ files \in Seq(Texts)
    /\ names \in [Windows -> [cache : Nat, tmp : Nat]]
    /\ caller \in [Callers -> CallerRecord]
    /\ opening \in [Windows -> Nat]
    /\ fetched \in [Windows -> SUBSET Nat]

FetchesInv ==
    /\ \A w \in Windows : \A r \in fetched[w] : r > 0 /\ r >= opening[w]
    /\ \A w \in Windows : w > today => fetched[w] = {}
    /\ \A w \in Windows : w <= today => opening[w] <= observed

Knows(b) ==
    /\ b.window <= today
    /\ b.at \in {"opening", "writing", "replacing"} => b.rows \in fetched[b.window]

FilesInv ==
    /\ \A w \in Windows : \A f \in Held(w) : f \in 1..Len(files)
    /\ \A w, v \in Windows : \A f \in Held(w) : f \in Held(v) => w = v
    /\ \A w \in Windows : \A f \in Held(w) : files[f] > 0 => files[f] \in fetched[w]

SeriesInv ==
    /\ SeriesTypes
    /\ FetchesInv
    /\ \A c \in Callers : Knows(caller[c])
    /\ FilesInv
    /\ unheard = FALSE /\ outdated = FALSE

-----------------------------------------------------------------------------
LEMMA RestingKnows == SeriesTypes => Resting \in CallerRecord /\ Knows(Resting)
<1> SUFFICES ASSUME SeriesTypes PROVE Resting \in CallerRecord /\ Knows(Resting)
  OBVIOUS
<1>1. 0 \in Windows /\ 0 <= today
  BY SeriesAssumption DEF Windows, SeriesTypes
<1>2. /\ Resting.at = "resting" /\ Resting.window = 0 /\ Resting \in CallerRecord
  BY <1>1 DEF Resting, CallerRecord, CallerStages
<1> QED
  BY <1>1, <1>2 DEF Knows

\* One file of one window at most gets a new text, one that was answered.
LEMMA FilesKept ==
    ASSUME SeriesInv, files' \in Seq(Texts), Len(files') >= Len(files),
           \A w \in Windows : fetched[w] \subseteq fetched'[w],
           NEW W \in Windows, NEW f \in Nat, f = 0 \/ f \in 1..Len(files'),
           f = 0 \/ f \in Held(W) \/ f \notin 1..Len(files),
           \A g \in 1..Len(files) : g # f => files'[g] = files[g],
           f # 0 /\ files'[f] > 0 => files'[f] \in fetched'[W],
           \A w \in Windows : \A g \in Held(w)' : g \in Held(w) \/ (w = W /\ g = f /\ f # 0)
    PROVE  FilesInv'
<1>1. /\ \A w \in Windows : \A g \in Held(w) : g \in 1..Len(files)
      /\ \A w, v \in Windows : \A g \in Held(w) : g \in Held(v) => w = v
      /\ \A w \in Windows : \A g \in Held(w) : files[g] > 0 => files[g] \in fetched[w]
      /\ Len(files) \in Nat /\ Len(files') \in Nat
  <2>1. files \in Seq(Texts) /\ FilesInv
    BY DEF SeriesInv, SeriesTypes
  <2>2. Len(files) \in Nat /\ Len(files') \in Nat
    BY <2>1
  <2> QED
    BY <2>1, <2>2 DEF FilesInv
<1>2. \A w \in Windows : \A g \in Held(w)' : g \in 1..Len(files')
  BY <1>1
<1>3. \A w \in Windows : f \in Held(w) => w = W
  BY <1>1
<1>4. \A w, v \in Windows : \A g \in Held(w)' : g \in Held(v)' => w = v
  BY <1>1, <1>3
<1>5. ASSUME NEW w \in Windows, NEW g \in Held(w)', files'[g] > 0
      PROVE  files'[g] \in fetched'[w]
  <2>1. CASE g = f
    <3>1. f # 0
      BY <1>1, <1>5, <2>1
    <3>2. w = W
      BY <1>3, <1>5, <2>1
    <3> QED
      BY <1>5, <2>1, <3>1, <3>2
  <2>2. CASE g # f
    <3>1. g \in Held(w) /\ g \in 1..Len(files) /\ files'[g] = files[g]
      BY <1>1, <1>5, <2>2
    <3> QED
      BY <1>1, <1>5, <3>1
  <2> QED
    BY <2>1, <2>2
<1> QED
  BY <1>2, <1>4, <1>5 DEF FilesInv

\* A caller moves; the files of no window change but by its own.
LEMMA HeldAfter ==
    ASSUME SeriesTypes, NEW c \in Callers, NEW b \in CallerRecord,
           caller' = [caller EXCEPT ![c] = b], names' = names
    PROVE  \A w \in Windows : \A g \in Held(w)' :
              g \in Held(w) \/ (b.at = "writing" /\ b.window = w /\ g = b.file /\ g # Missing)
<1>1. caller'[c] = b /\ \A d \in Callers : d # c => caller'[d] = caller[d]
  BY DEF SeriesTypes
<1> QED
  BY <1>1 DEF Held

LEMMA CallersKept ==
    ASSUME SeriesInv, today' = today \/ today' = today + 1,
           \A w \in Windows : fetched[w] \subseteq fetched'[w],
           NEW c \in Callers, NEW b \in CallerRecord, caller' = [caller EXCEPT ![c] = b],
           Knows(b)'
    PROVE  caller' \in [Callers -> CallerRecord] /\ \A d \in Callers : Knows(caller[d])'
<1>1. /\ caller' \in [Callers -> CallerRecord] /\ caller'[c] = b
      /\ \A d \in Callers : d # c => caller'[d] = caller[d] /\ caller[d] \in CallerRecord
      /\ today \in Nat
  BY DEF SeriesInv, SeriesTypes, Windows
<1>2. ASSUME NEW d \in Callers PROVE Knows(caller[d])'
  <2>1. CASE d = c
    BY <1>1, <2>1 DEF Knows
  <2>2. CASE d # c
    <3>1. PICK r \in CallerRecord : r = caller[d] /\ r = caller'[d] /\ Knows(r)
      BY <1>1, <2>2 DEF SeriesInv
    <3>2. r.window \in Windows /\ r.window \in Nat
      BY <3>1 DEF CallerRecord, Windows
    <3>3. r.window <= today' /\ (r.at \in {"opening", "writing", "replacing"}
                                    => r.rows \in fetched'[r.window])
      BY <1>1, <3>1, <3>2 DEF Knows
    <3> QED
      BY <3>1, <3>3 DEF Knows
  <2> QED
    BY <2>1, <2>2
<1> QED
  BY <1>1, <1>2

\* A caller returns with rows the provider answered, or with none.
LEMMA EndsKnown ==
    ASSUME SeriesInv, NEW c \in Callers,
           \/ Raise(c)
           \/ \E rows \in fetched[caller[c].window] : Return(c, rows)
    PROVE  /\ caller' = [caller EXCEPT ![c] = Resting]
           /\ unheard' = FALSE /\ outdated' = FALSE
<1>1. caller[c].window \in Windows /\ unheard = FALSE /\ outdated = FALSE
  BY DEF SeriesInv, SeriesTypes, CallerRecord
<1>2. CASE Raise(c)
  BY <1>1, <1>2 DEF Raise
<1>3. ASSUME NEW rows \in fetched[caller[c].window], Return(c, rows)
      PROVE  /\ caller' = [caller EXCEPT ![c] = Resting]
             /\ unheard' = FALSE /\ outdated' = FALSE
  <2>1. PICK w \in Windows : w = caller[c].window
    BY <1>1
  <2>2. rows \in Nat /\ opening[w] \in Nat /\ rows >= opening[w]
    BY <2>1 DEF SeriesInv, SeriesTypes, FetchesInv
  <2>3. ~(rows < opening[w])
    BY <2>2
  <2>4. /\ caller' = [caller EXCEPT ![c] = Resting]
        /\ unheard' = (unheard \/ rows \notin fetched[w])
        /\ outdated' = (outdated \/ rows < opening[w])
    BY <1>3, <2>1 DEF Return
  <2>5. (unheard \/ rows \notin fetched[w]) = FALSE /\ (outdated \/ rows < opening[w]) = FALSE
    BY <1>1, <1>3, <2>1, <2>3
  <2> QED
    BY <2>4, <2>5
<1> QED
  BY <1>2, <1>3

\* A step of one caller that leaves the days and the provider alone.
LEMMA CallerSteps ==
    ASSUME SeriesInv, UNCHANGED <<today, observed, opening>>, unheard' = FALSE, outdated' = FALSE,
           fetched' \in [Windows -> SUBSET Nat],
           \A w \in Windows : fetched[w] \subseteq fetched'[w],
           \A w \in Windows : \A r \in fetched'[w] :
              r \in fetched[w] \/ (r = observed /\ r > 0 /\ w <= today),
           names' \in [Windows -> [cache : Nat, tmp : Nat]], files' \in Seq(Texts),
           NEW c \in Callers, NEW b \in CallerRecord, caller' = [caller EXCEPT ![c] = b],
           Knows(b)', FilesInv'
    PROVE  SeriesInv'
<1>1. caller' \in [Callers -> CallerRecord] /\ \A d \in Callers : Knows(caller[d])'
  BY CallersKept
<1>2. FetchesInv'
  <2>1. /\ today \in Windows /\ observed \in Nat /\ opening \in [Windows -> Nat]
        /\ \A w \in Windows : w \in Nat
    BY DEF SeriesInv, SeriesTypes, Windows
  <2>2. \A w \in Windows : w <= today => opening[w] <= observed
    BY DEF SeriesInv, FetchesInv
  <2>3. ASSUME NEW w \in Windows, NEW r \in fetched'[w] PROVE r > 0 /\ r >= opening[w]
    <3>1. CASE r \in fetched[w]
      BY <3>1 DEF SeriesInv, FetchesInv
    <3>2. CASE r = observed /\ r > 0 /\ w <= today
      BY <2>1, <2>2, <3>2
    <3> QED
      BY <3>1, <3>2
  <2>4. ASSUME NEW w \in Windows, w > today PROVE fetched'[w] = {}
    <3>1. fetched[w] = {} /\ ~(w <= today)
      BY <2>1, <2>4 DEF SeriesInv, FetchesInv, Windows
    <3> QED
      BY <3>1
  <2> QED
    BY <2>2, <2>3, <2>4 DEF FetchesInv
<1>3. SeriesTypes'
  BY <1>1 DEF SeriesInv, SeriesTypes
<1> QED
  BY <1>1, <1>2, <1>3 DEF SeriesInv

\* The steps that touch no file.
LEMMA TalkInv ==
    ASSUME SeriesInv, NEW c \in Callers,
           CallSeries(c) \/ LookInCache(c) \/ AskProvider(c) \/ AskInVain(c)
    PROVE  SeriesInv'
<1>1. /\ UNCHANGED <<today, observed, opening, files, names>>
      /\ SeriesTypes /\ caller[c] \in CallerRecord
  BY DEF CallSeries, LookInCache, AskProvider, AskInVain, SeriesInv, SeriesTypes
<1>2. PICK old \in CallerRecord : old = caller[c]
  BY <1>1
<1>3. old.window \in Windows /\ old.window <= today /\ old.attempt \in Nat
  BY <1>2 DEF CallerRecord, SeriesInv, Knows
<1>4. PICK b \in CallerRecord :
        /\ caller' = [caller EXCEPT ![c] = b] /\ b.at # "writing" /\ Knows(b)'
        /\ fetched' \in [Windows -> SUBSET Nat]
        /\ \A w \in Windows : fetched[w] \subseteq fetched'[w]
        /\ \A w \in Windows : \A r \in fetched'[w] :
              r \in fetched[w] \/ (r = observed /\ r > 0 /\ w <= today)
        /\ unheard' = FALSE /\ outdated' = FALSE
  <2>1. CASE fetched' = fetched /\ Raise(c)
    <3>1. caller' = [caller EXCEPT ![c] = Resting] /\ unheard' = FALSE /\ outdated' = FALSE
      BY <2>1, EndsKnown
    <3>2. Resting \in CallerRecord /\ Resting.at # "writing" /\ Knows(Resting)'
      BY <1>1, <2>1, RestingKnows DEF Knows, Resting
    <3> QED
      BY <1>1, <2>1, <3>1, <3>2 DEF SeriesTypes
  <2>2. CASE CallSeries(c)
    <3>1. PICK b : b = [Resting EXCEPT !.at = "looking", !.window = today]
      OBVIOUS
    <3>2. b \in CallerRecord /\ b.at = "looking" /\ b.window = today
      BY <1>1, <3>1 DEF Resting, CallerRecord, CallerStages, SeriesTypes
    <3>3. caller' = [caller EXCEPT ![c] = b] /\ fetched' = fetched
          /\ unheard' = FALSE /\ outdated' = FALSE
      BY <2>2, <3>1 DEF CallSeries, Go, SeriesInv
    <3>4. Knows(b)'
      BY <1>1, <3>2 DEF Knows, SeriesTypes, Windows
    <3> QED
      BY <1>1, <3>2, <3>3, <3>4 DEF SeriesTypes
  <2>3. CASE LookInCache(c)
    <3>1. fetched' = fetched
      BY <2>3 DEF LookInCache
    <3>2. PICK w, file : w = old.window /\ file = names[w].cache
      OBVIOUS
    <3>3. CASE file # Missing /\ Usable(files[file])
      <4>1. Return(c, files[file])
        BY <1>2, <2>3, <3>2, <3>3 DEF LookInCache
      <4>2. file \in Held(w)
        BY <3>2, <3>3 DEF Held
      <4>3. files[file] \in fetched[w]
        BY <1>3, <3>2, <3>3, <4>2 DEF SeriesInv, FilesInv, Usable
      <4>4. caller' = [caller EXCEPT ![c] = Resting] /\ unheard' = FALSE /\ outdated' = FALSE
        BY <1>2, <3>2, <4>1, <4>3, EndsKnown
      <4>5. Resting \in CallerRecord /\ Resting.at # "writing" /\ Knows(Resting)'
        BY <1>1, <3>1, RestingKnows DEF Knows, Resting
      <4> QED
        BY <1>1, <3>1, <4>4, <4>5 DEF SeriesTypes
    <3>4. CASE ~(file # Missing /\ Usable(files[file]))
      <4>1. PICK b : b = [old EXCEPT !.at = "asking", !.attempt = 1]
        OBVIOUS
      <4>2. b \in CallerRecord /\ b.at = "asking" /\ b.window = old.window
        BY <4>1 DEF CallerRecord, CallerStages
      <4>3. caller' = [caller EXCEPT ![c] = b] /\ unheard' = FALSE /\ outdated' = FALSE
        BY <1>2, <2>3, <3>2, <3>4, <4>1 DEF LookInCache, Go, SeriesInv
      <4>4. Knows(b)'
        BY <1>1, <1>3, <4>2 DEF Knows
      <4> QED
        BY <1>1, <3>1, <4>2, <4>3, <4>4 DEF SeriesTypes
    <3> QED
      BY <3>3, <3>4
  <2>4. CASE /\ observed > 0
             /\ fetched' = [fetched EXCEPT ![caller[c].window] = @ \cup {observed}]
             /\ Go(c, [caller[c] EXCEPT !.at = "opening", !.rows = observed])
    <3>1. /\ observed > 0 /\ fetched' = [fetched EXCEPT ![old.window] = @ \cup {observed}]
          /\ Go(c, [old EXCEPT !.at = "opening", !.rows = observed])
      BY <1>2, <2>4
    <3>2. PICK b : b = [old EXCEPT !.at = "opening", !.rows = observed]
      OBVIOUS
    <3>3. observed \in Nat /\ fetched \in [Windows -> SUBSET Nat]
      BY <1>1 DEF SeriesTypes
    <3>4. b \in CallerRecord /\ b.at = "opening" /\ b.window = old.window /\ b.rows = observed
      BY <3>2, <3>3 DEF CallerRecord, CallerStages
    <3>5. caller' = [caller EXCEPT ![c] = b] /\ unheard' = FALSE /\ outdated' = FALSE
      BY <3>1, <3>2 DEF Go, SeriesInv
    <3>6. /\ fetched' \in [Windows -> SUBSET Nat]
          /\ \A w \in Windows : fetched'[w] = IF w = old.window THEN fetched[w] \cup {observed}
                                              ELSE fetched[w]
      BY <1>3, <3>1, <3>3
    <3>7. Knows(b)'
      BY <1>1, <1>3, <3>4, <3>6 DEF Knows
    <3> QED
      BY <1>3, <3>1, <3>4, <3>5, <3>6, <3>7
  <2>5. CASE /\ caller[c].at = "asking" /\ fetched' = fetched
             /\ Go(c, [caller[c] EXCEPT !.attempt = @ + 1])
    <3>1. PICK b : b = [old EXCEPT !.attempt = @ + 1]
      OBVIOUS
    <3>2. b \in CallerRecord /\ b.at = "asking" /\ b.window = old.window
      <4>1. old.at = "asking"
        BY <1>2, <2>5
      <4> QED
        BY <1>3, <3>1, <4>1 DEF CallerRecord
    <3>3. caller' = [caller EXCEPT ![c] = b] /\ unheard' = FALSE /\ outdated' = FALSE
          /\ fetched' = fetched
      BY <1>2, <2>5, <3>1 DEF Go, SeriesInv
    <3>4. Knows(b)'
      BY <1>1, <1>3, <3>2, <3>3 DEF Knows
    <3> QED
      BY <1>1, <3>2, <3>3, <3>4 DEF SeriesTypes
  <2> QED
    <3>1. CASE AskProvider(c)
      BY <2>1, <2>4, <3>1 DEF AskProvider
    <3>2. CASE AskInVain(c)
      BY <2>1, <2>5, <3>2 DEF AskInVain
    <3> QED
      BY <2>2, <2>3, <3>1, <3>2
<1>5. \A w \in Windows : \A g \in Held(w)' : g \in Held(w)
  BY <1>1, <1>4, HeldAfter
<1>6. FilesInv'
  <2>1. files' \in Seq(Texts) /\ Len(files') >= Len(files) /\ 0 \in Nat
    BY <1>1 DEF SeriesTypes
  <2>2. today \in Windows
    BY <1>1 DEF SeriesTypes
  <2> QED
    BY <1>1, <1>4, <1>5, <2>1, <2>2, FilesKept
<1> QED
  BY <1>1, <1>4, <1>6, CallerSteps DEF SeriesTypes

\* The store, step by step.
LEMMA OpenInv ==
    ASSUME SeriesInv, NEW c \in Callers, OpenTmp(c)
    PROVE  SeriesInv'
<1>1. /\ UNCHANGED <<today, observed, opening, fetched>> /\ caller[c].at = "opening"
      /\ SeriesTypes /\ caller[c] \in CallerRecord /\ Knows(caller[c])
  BY DEF OpenTmp, SeriesInv, SeriesTypes
<1>2. PICK old \in CallerRecord, w \in Windows, tmp \in Nat :
        old = caller[c] /\ w = old.window /\ tmp = names[w].tmp
  <2>1. caller[c].window \in Windows
    BY <1>1 DEF CallerRecord
  <2>2. names[caller[c].window] \in [cache : Nat, tmp : Nat]
    BY <1>1, <2>1 DEF SeriesTypes
  <2> QED
    BY <1>1, <2>1, <2>2
<1>3. /\ files \in Seq(Texts) /\ Len(files) \in Nat /\ DOMAIN files = 1..Len(files)
      /\ names \in [Windows -> [cache : Nat, tmp : Nat]]
      /\ fetched \in [Windows -> SUBSET Nat] /\ unheard = FALSE /\ outdated = FALSE
  <2>1. files \in Seq(Texts)
    BY <1>1 DEF SeriesTypes
  <2> QED
    BY <1>1, <2>1 DEF SeriesTypes, SeriesInv
<1>4. PICK f \in Nat : f = IF tmp # Missing THEN tmp ELSE Len(files) + 1
  BY <1>3
<1>5. PICK b : b = [old EXCEPT !.at = "writing", !.file = f]
  OBVIOUS
<1>6. b \in CallerRecord /\ b.at = "writing" /\ b.window = w /\ b.file = f /\ b.rows = old.rows
  BY <1>2, <1>4, <1>5 DEF CallerRecord, CallerStages
<1>7. /\ caller' = [caller EXCEPT ![c] = b] /\ unheard' = FALSE /\ outdated' = FALSE
  BY <1>2, <1>3, <1>4, <1>5 DEF OpenTmp, Go
<1>8. Knows(b)'
  BY <1>1, <1>2, <1>6 DEF Knows
<1>9. caller'[c] = b /\ \A d \in Callers : d # c => caller'[d] = caller[d]
  BY <1>1, <1>7 DEF SeriesTypes
<1>10. CASE tmp # Missing
  <2>1. files' = [files EXCEPT ![tmp] = Blank] /\ names' = names /\ f = tmp
    BY <1>2, <1>4, <1>10 DEF OpenTmp
  <2>2. f \in Held(w)
    BY <1>2, <1>10, <2>1 DEF Held
  <2>3. f \in 1..Len(files)
    BY <2>2 DEF SeriesInv, FilesInv
  <2>4. /\ files' \in Seq(Texts) /\ Len(files') = Len(files) /\ files'[f] = Blank
        /\ \A g \in 1..Len(files) : g # f => files'[g] = files[g]
    BY <1>3, <2>1, <2>3 DEF Blank, Texts
  <2>5. \A v \in Windows : \A g \in Held(v)' : g \in Held(v) \/ (v = w /\ g = f /\ f # 0)
    <3>1. \A v \in Windows : \A g \in Held(v)' :
             g \in Held(v) \/ (b.at = "writing" /\ b.window = v /\ g = b.file /\ g # Missing)
      BY <1>1, <1>6, <1>7, <2>1, HeldAfter
    <3> QED
      BY <1>6, <3>1 DEF Missing
  <2>6. FilesInv'
    <3>1. /\ \A v \in Windows : fetched[v] \subseteq fetched'[v]
          /\ Len(files') >= Len(files) /\ ~(files'[f] > 0) /\ f \in 1..Len(files')
      BY <1>1, <1>3, <2>3, <2>4 DEF Blank
    <3> QED
      BY <2>2, <2>4, <2>5, <3>1, FilesKept
  <2> QED
    BY <1>1, <1>3, <1>6, <1>7, <1>8, <2>1, <2>4, <2>6, CallerSteps
<1>11. CASE tmp = Missing
  <2>1. /\ files' = Append(files, Blank) /\ names' = [names EXCEPT ![w].tmp = f]
        /\ f = Len(files) + 1
    BY <1>2, <1>4, <1>11 DEF OpenTmp
  <2>2. /\ files' \in Seq(Texts) /\ Len(files') = Len(files) + 1 /\ files'[f] = Blank
        /\ \A g \in 1..Len(files) : files'[g] = files[g]
        /\ f \in 1..Len(files') /\ f \notin 1..Len(files) /\ f # 0
    BY <1>3, <2>1 DEF Blank, Texts
  <2>3. /\ names' \in [Windows -> [cache : Nat, tmp : Nat]]
        /\ \A v \in Windows : v # w => names'[v] = names[v]
        /\ names'[w].cache = names[w].cache /\ names'[w].tmp = f
    BY <1>3, <1>4, <2>1
  <2>4. \A v \in Windows : \A g \in Held(v)' : g \in Held(v) \/ (v = w /\ g = f /\ f # 0)
    <3> SUFFICES ASSUME NEW v \in Windows, NEW g \in Held(v)', g \notin Held(v)
                 PROVE  v = w /\ g = f
      BY <2>2
    <3>1. CASE g \in {names'[v].cache, names'[v].tmp}
      BY <2>3, <3>1 DEF Held
    <3>2. CASE \E d \in Callers : caller'[d].at = "writing" /\ caller'[d].window = v /\ g = caller'[d].file
      BY <1>6, <1>9, <3>2 DEF Held
    <3> QED
      BY <3>1, <3>2 DEF Held
  <2>5. FilesInv'
    <3>1. /\ \A v \in Windows : fetched[v] \subseteq fetched'[v]
          /\ Len(files') >= Len(files) /\ ~(files'[f] > 0) /\ f \in 1..Len(files')
      BY <1>1, <1>3, <2>2 DEF Blank
    <3> QED
      BY <2>2, <2>4, <3>1, FilesKept
  <2> QED
    BY <1>1, <1>3, <1>6, <1>7, <1>8, <2>2, <2>3, <2>5, CallerSteps
<1> QED
  BY <1>10, <1>11

LEMMA WriteTmpInv ==
    ASSUME SeriesInv, NEW c \in Callers, WriteTmp(c)
    PROVE  SeriesInv'
<1>1. /\ UNCHANGED <<today, observed, opening, fetched, names>> /\ caller[c].at = "writing"
      /\ SeriesTypes /\ caller[c] \in CallerRecord /\ Knows(caller[c])
  BY DEF WriteTmp, SeriesInv, SeriesTypes
<1>2. PICK old \in CallerRecord, w \in Windows, f \in Nat :
        old = caller[c] /\ w = old.window /\ f = old.file
  BY <1>1 DEF CallerRecord
<1>3. /\ files \in Seq(Texts) /\ DOMAIN files = 1..Len(files)
      /\ names \in [Windows -> [cache : Nat, tmp : Nat]]
      /\ fetched \in [Windows -> SUBSET Nat] /\ unheard = FALSE /\ outdated = FALSE
  <2>1. files \in Seq(Texts)
    BY <1>1 DEF SeriesTypes
  <2> QED
    BY <1>1, <2>1 DEF SeriesTypes, SeriesInv
<1>4. old.rows \in fetched[w] /\ old.rows \in Nat
  BY <1>1, <1>2 DEF Knows, CallerRecord
<1>5. PICK b : b = [old EXCEPT !.at = "replacing"]
  OBVIOUS
<1>6. b \in CallerRecord /\ b.at = "replacing" /\ b.window = w /\ b.rows = old.rows
  BY <1>2, <1>5 DEF CallerRecord, CallerStages
<1>7. caller' = [caller EXCEPT ![c] = b] /\ unheard' = FALSE /\ outdated' = FALSE
  BY <1>2, <1>3, <1>5 DEF WriteTmp, Go
<1>8. Knows(b)'
  BY <1>1, <1>2, <1>6 DEF Knows
<1>9. PICK text \in Over(files[f], old.rows) : files' = [files EXCEPT ![f] = text]
  BY <1>2 DEF WriteTmp
<1>10. text \in {old.rows, Garbled} \/ files' = files
  <2>1. f # 0 => f \in 1..Len(files)
    <3>1. f # 0 => f \in Held(w)
      BY <1>1, <1>2 DEF Held, Missing
    <3> QED
      BY <3>1 DEF SeriesInv, FilesInv
  <2>2. CASE f = 0
    BY <1>3, <1>9, <2>2
  <2>3. CASE f # 0
    <3>1. PICK was \in Texts : was = files[f]
      BY <1>3, <2>1, <2>3
    <3>2. was \in {Blank} \cup 1..old.rows \/ was > old.rows \/ was = Garbled
      BY <1>4, <3>1 DEF Blank, Texts
    <3> QED
      BY <1>4, <1>9, <3>1, <3>2 DEF Over, Blank, Garbled
  <2> QED
    BY <2>2, <2>3
<1>11. PICK g \in Nat : /\ (g = 0 /\ files' = files) \/ (g = f /\ files'[g] \in {old.rows, Garbled})
                        /\ g = 0 \/ (g \in Held(w) /\ g \in 1..Len(files))
                        /\ files' \in Seq(Texts) /\ Len(files') = Len(files)
                        /\ \A h \in 1..Len(files) : h # g => files'[h] = files[h]
  <2>1. CASE files' = files
    BY <1>3, <2>1
  <2>2. CASE files' # files
    <3>1. f \in 1..Len(files) /\ text \in {old.rows, Garbled} /\ text \in Texts
      BY <1>3, <1>4, <1>9, <1>10, <2>2 DEF Texts
    <3>2. f \in Held(w)
      BY <1>1, <1>2, <3>1 DEF Held, Missing
    <3>3. /\ files' \in Seq(Texts) /\ Len(files') = Len(files) /\ files'[f] = text
          /\ \A h \in 1..Len(files) : h # f => files'[h] = files[h]
      BY <1>3, <1>9, <3>1
    <3> QED
      BY <3>1, <3>2, <3>3
  <2> QED
    BY <2>1, <2>2
<1>12. \A v \in Windows : \A h \in Held(v)' : h \in Held(v)
  BY <1>1, <1>6, <1>7, HeldAfter
<1>13. FilesInv'
  <2>1. /\ \A v \in Windows : fetched[v] \subseteq fetched'[v]
        /\ Len(files') >= Len(files) /\ (g = 0 \/ g \in 1..Len(files'))
        /\ g # 0 /\ files'[g] > 0 => files'[g] \in fetched'[w]
    <3>1. Len(files) \in Nat /\ ~(Garbled > 0)
      BY <1>3 DEF Garbled
    <3> QED
      BY <1>1, <1>4, <1>11, <3>1
  <2> QED
    BY <1>2, <1>11, <1>12, <2>1, FilesKept
<1> QED
  BY <1>1, <1>3, <1>6, <1>7, <1>8, <1>11, <1>13, CallerSteps

\* A call that ends with the rows it was answered, or with none.
LEMMA EndInv ==
    ASSUME SeriesInv, NEW c \in Callers, UNCHANGED <<today, observed, opening, fetched>>,
           \/ Raise(c)
           \/ /\ Return(c, caller[c].rows)
              /\ caller[c].at \in {"opening", "writing", "replacing"},
           names' \in [Windows -> [cache : Nat, tmp : Nat]], files' \in Seq(Texts), FilesInv'
    PROVE  SeriesInv'
<1>1. SeriesTypes /\ Knows(caller[c]) /\ caller[c] \in CallerRecord
  BY DEF SeriesInv, SeriesTypes
<1>2. caller' = [caller EXCEPT ![c] = Resting] /\ unheard' = FALSE /\ outdated' = FALSE
  BY <1>1, EndsKnown DEF Knows
<1>3. Resting \in CallerRecord /\ Knows(Resting)'
  BY <1>1, RestingKnows DEF Knows, Resting
<1> QED
  BY <1>1, <1>2, <1>3, CallerSteps DEF SeriesTypes

LEMMA EndHeld ==
    ASSUME SeriesInv, NEW c \in Callers, names' = names,
           Raise(c) \/ \E rows : Return(c, rows)
    PROVE  \A w \in Windows : \A g \in Held(w)' : g \in Held(w)
<1>1. /\ caller' = [caller EXCEPT ![c] = Resting] /\ SeriesTypes
      /\ Resting \in CallerRecord /\ Resting.at # "writing"
  BY RestingKnows DEF Raise, Return, SeriesInv, Resting
<1> QED
  BY <1>1, HeldAfter

LEMMA ReplaceInv ==
    ASSUME SeriesInv, NEW c \in Callers, ReplaceCache(c)
    PROVE  SeriesInv'
<1>1. /\ UNCHANGED <<today, observed, opening, fetched, files>> /\ caller[c].at = "replacing"
      /\ SeriesTypes /\ caller[c] \in CallerRecord /\ Return(c, caller[c].rows)
  BY DEF ReplaceCache, SeriesInv, SeriesTypes
<1>2. PICK w \in Windows : w = caller[c].window
  BY <1>1 DEF CallerRecord
<1>3. names \in [Windows -> [cache : Nat, tmp : Nat]] /\ files \in Seq(Texts)
  BY <1>1 DEF SeriesTypes
<1>4. PICK pair \in [cache : Nat, tmp : Nat] :
        /\ names' = [names EXCEPT ![w] = pair]
        /\ {pair.cache, pair.tmp} \subseteq {names[w].cache, names[w].tmp, Missing}
  <2>1. CASE names[w].tmp = Missing
    <3>1. names' = [names EXCEPT ![w] = names[w]] /\ names[w] \in [cache : Nat, tmp : Nat]
      BY <1>2, <1>3, <2>1 DEF ReplaceCache
    <3> QED
      BY <3>1
  <2>2. CASE names[w].tmp # Missing
    <3>1. PICK pair : pair = [cache |-> names[w].tmp, tmp |-> Missing]
      OBVIOUS
    <3>2. /\ pair \in [cache : Nat, tmp : Nat] /\ pair.cache = names[w].tmp
          /\ pair.tmp = Missing
      BY <1>3, <3>1 DEF Missing
    <3>3. names' = [names EXCEPT ![w] = pair]
      BY <1>2, <2>2, <3>1 DEF ReplaceCache
    <3> QED
      BY <3>2, <3>3
  <2> QED
    BY <2>1, <2>2
<1>5. /\ names' \in [Windows -> [cache : Nat, tmp : Nat]] /\ names'[w] = pair
      /\ \A v \in Windows : v # w => names'[v] = names[v]
  BY <1>3, <1>4
<1>6. caller'[c].at # "writing" /\ \A d \in Callers : d # c => caller'[d] = caller[d]
  BY <1>1 DEF Return, Resting, SeriesTypes
<1>7. \A v \in Windows : \A g \in Held(v)' : g \in Held(v)
  <2> SUFFICES ASSUME NEW v \in Windows, NEW g \in Held(v)' PROVE g \in Held(v)
    OBVIOUS
  <2>1. CASE g \in {names'[v].cache, names'[v].tmp}
    BY <1>4, <1>5, <2>1 DEF Held
  <2>2. CASE \E d \in Callers : caller'[d].at = "writing" /\ caller'[d].window = v /\ g = caller'[d].file
    BY <1>6, <2>2 DEF Held
  <2> QED
    BY <2>1, <2>2 DEF Held
<1>8. FilesInv'
  <2>1. /\ \A v \in Windows : fetched[v] \subseteq fetched'[v]
        /\ files' \in Seq(Texts) /\ Len(files') >= Len(files) /\ 0 \in Nat
        /\ \A g \in 1..Len(files) : files'[g] = files[g]
    BY <1>1, <1>3
  <2> QED
    BY <1>2, <1>7, <2>1, FilesKept
<1> QED
  BY <1>1, <1>3, <1>5, <1>8, EndInv

\* An OSError in the store and the end of a process leave the names alone.
LEMMA FailInv ==
    ASSUME SeriesInv, NEW c \in Callers, StoreFails(c) \/ Die(c)
    PROVE  SeriesInv'
<1>1. /\ UNCHANGED <<today, observed, opening, fetched, names>>
      /\ SeriesTypes /\ caller[c] \in CallerRecord
      /\ \/ Raise(c)
         \/ /\ Return(c, caller[c].rows)
            /\ caller[c].at \in {"opening", "writing", "replacing"}
      /\ \/ files' = files
         \/ caller[c].at = "writing" /\ files' = [files EXCEPT ![caller[c].file] = Garbled]
  BY DEF StoreFails, Die, SeriesInv, SeriesTypes
<1>2. PICK w \in Windows, f \in Nat : w = caller[c].window /\ f = caller[c].file
  BY <1>1 DEF CallerRecord
<1>3. /\ names \in [Windows -> [cache : Nat, tmp : Nat]] /\ files \in Seq(Texts)
      /\ DOMAIN files = 1..Len(files) /\ Len(files) \in Nat
  <2>1. files \in Seq(Texts)
    BY <1>1 DEF SeriesTypes
  <2> QED
    BY <1>1, <2>1 DEF SeriesTypes
<1>4. \A v \in Windows : \A g \in Held(v)' : g \in Held(v)
  BY <1>1, EndHeld
<1>5. PICK g \in Nat : /\ (g = 0 /\ files' = files) \/ (g = f /\ files'[g] = Garbled)
                       /\ g = 0 \/ (g \in Held(w) /\ g \in 1..Len(files))
                       /\ files' \in Seq(Texts) /\ Len(files') = Len(files)
                       /\ \A h \in 1..Len(files) : h # g => files'[h] = files[h]
  <2>1. CASE files' = files
    BY <1>3, <2>1
  <2>2. CASE files' # files
    <3>1. f \in 1..Len(files) /\ files' = [files EXCEPT ![f] = Garbled] /\ caller[c].at = "writing"
      BY <1>1, <1>2, <1>3, <2>2
    <3>2. f \in Held(w)
      BY <1>2, <3>1 DEF Held, Missing
    <3>3. Garbled \in Texts
      BY DEF Texts
    <3>4. /\ files' \in Seq(Texts) /\ Len(files') = Len(files) /\ files'[f] = Garbled
          /\ \A h \in 1..Len(files) : h # f => files'[h] = files[h]
      BY <1>3, <3>1, <3>3
    <3> QED
      BY <3>1, <3>2, <3>4
  <2> QED
    BY <2>1, <2>2
<1>6. FilesInv'
  <2>1. /\ \A v \in Windows : fetched[v] \subseteq fetched'[v]
        /\ Len(files') >= Len(files) /\ (g = 0 \/ g \in 1..Len(files'))
        /\ g # 0 => ~(files'[g] > 0)
    BY <1>1, <1>3, <1>5 DEF Garbled
  <2> QED
    BY <1>2, <1>4, <1>5, <2>1, FilesKept
<1> QED
  BY <1>1, <1>3, <1>5, <1>6, EndInv

LEMMA TimeInv ==
    ASSUME SeriesInv, ProviderAdds \/ Midnight \/ UNCHANGED seriesVars
    PROVE  SeriesInv'
<1>1. /\ UNCHANGED <<files, names, caller, fetched, unheard, outdated>>
      /\ SeriesTypes
  BY DEF ProviderAdds, Midnight, seriesVars, SeriesInv
<1>2. FilesInv'
  <2>1. \A w \in Windows : Held(w)' = Held(w)
    BY <1>1 DEF Held
  <2> QED
    BY <1>1, <2>1 DEF SeriesInv, FilesInv
<1>3. /\ today \in Nat /\ MaxDay \in Nat /\ observed \in Nat
      /\ opening \in [Windows -> Nat] /\ \A w \in Windows : w \in Nat
      /\ today \in Windows
  BY <1>1, SeriesAssumption DEF SeriesTypes, Windows
<1>4. /\ today' \in Windows /\ today' \in Nat /\ today' >= today /\ observed' \in Nat
      /\ opening' = opening \/ opening' = [opening EXCEPT ![today + 1] = observed]
  <2>1. CASE ProviderAdds
    BY <1>3, <2>1 DEF ProviderAdds
  <2>2. CASE Midnight
    <3>1. today' = today + 1 /\ today < MaxDay /\ observed' = observed
      BY <2>2 DEF Midnight
    <3>2. today' \in Windows /\ today' \in Nat /\ today' >= today
      BY <1>3, <3>1 DEF Windows
    <3> QED
      BY <1>3, <2>2, <3>1, <3>2 DEF Midnight
  <2>3. CASE UNCHANGED seriesVars
    BY <1>3, <2>3 DEF seriesVars
  <2> QED
    BY <2>1, <2>2, <2>3
<1>5. \A c \in Callers : Knows(caller[c])'
  <2> SUFFICES ASSUME NEW c \in Callers PROVE Knows(caller[c])'
    OBVIOUS
  <2>1. PICK r \in CallerRecord : r = caller[c] /\ Knows(r)
    BY <1>1 DEF SeriesInv, SeriesTypes
  <2>3. r.window \in Nat /\ r.window <= today
    BY <1>3, <2>1 DEF Knows, CallerRecord
  <2>2. r.window <= today'
    BY <1>3, <1>4, <2>3
  <2> QED
    BY <1>1, <2>1, <2>2 DEF Knows
<1>6. FetchesInv'
  <2> SUFFICES ASSUME NEW w \in Windows
               PROVE  /\ \A r \in fetched[w] : r > 0 /\ r >= opening'[w]
                      /\ w > today' => fetched[w] = {}
                      /\ w <= today' => opening'[w] <= observed'
    BY <1>1 DEF FetchesInv
  <2>1. /\ \A r \in fetched[w] : r > 0 /\ r >= opening[w]
        /\ w > today => fetched[w] = {}
        /\ w <= today => opening[w] <= observed
        /\ w \in Nat /\ opening[w] \in Nat
    BY <1>3 DEF SeriesInv, FetchesInv
  <2>2. CASE ProviderAdds \/ UNCHANGED seriesVars
    <3>1. opening' = opening /\ today' = today /\ observed' >= observed
      BY <1>3, <2>2 DEF ProviderAdds, seriesVars
    <3> QED
      BY <1>3, <1>4, <2>1, <3>1
  <2>3. CASE Midnight
    <3>1. /\ today' = today + 1 /\ observed' = observed
          /\ opening'[w] = IF w = today + 1 THEN observed ELSE opening[w]
      BY <1>3, <2>3 DEF Midnight
    <3> QED
      BY <1>3, <2>1, <3>1
  <2> QED
    BY <2>2, <2>3
<1>7. SeriesTypes'
  <2>1. opening' \in [Windows -> Nat]
    BY <1>3, <1>4
  <2> QED
    BY <1>1, <1>4, <2>1 DEF SeriesTypes
<1> QED
  BY <1>1, <1>2, <1>5, <1>6, <1>7 DEF SeriesInv

LEMMA SeriesStarts ==
    ASSUME SeriesInit
    PROVE  SeriesInv
<1>1. MaxDay \in Nat /\ 0 \in Windows
  BY SeriesAssumption DEF Windows
<1>2. /\ today = 0 /\ observed \in 0..1 /\ files = <<>> /\ unheard = FALSE /\ outdated = FALSE
      /\ names = [w \in Windows |-> [cache |-> Missing, tmp |-> Missing]]
      /\ caller = [c \in Callers |-> Resting]
      /\ opening = [w \in Windows |-> IF w = 0 THEN observed ELSE 0]
      /\ fetched = [w \in Windows |-> {}]
  BY DEF SeriesInit
<1>3. Resting \in CallerRecord /\ Resting.at = "resting" /\ Resting.window = 0
  BY <1>1 DEF Resting, CallerRecord, CallerStages
<1>4. SeriesTypes
  <2>1. files \in Seq(Texts) /\ today \in Windows /\ observed \in Nat
    BY <1>1, <1>2
  <2>2. names \in [Windows -> [cache : Nat, tmp : Nat]]
    BY <1>2 DEF Missing
  <2>3. /\ caller \in [Callers -> CallerRecord] /\ opening \in [Windows -> Nat]
        /\ fetched \in [Windows -> SUBSET Nat]
    BY <1>2, <1>3, <2>1
  <2> QED
    BY <2>1, <2>2, <2>3 DEF SeriesTypes
<1>5. \A c \in Callers : Knows(caller[c])
  BY <1>2, <1>3 DEF Knows
<1>6. FetchesInv
  BY <1>1, <1>2 DEF FetchesInv, Windows
<1>7. FilesInv
  <2>1. \A w \in Windows : Held(w) = {}
    BY <1>2, <1>3 DEF Held
  <2> QED
    BY <2>1 DEF FilesInv
<1> QED
  BY <1>2, <1>4, <1>5, <1>6, <1>7 DEF SeriesInv

(* Whatever callers overlap and die in the store of the cache, a caller is *)
(* given what the provider answered for its own window, and no less than   *)
(* there was when the window began (rates_desk.py, fred_series_rows).      *)
THEOREM SeriesTheorem == SeriesSpec => []SeriesKept
<1>1. SeriesInit => SeriesInv
  BY SeriesStarts
<1>2. SeriesInv /\ [SeriesNext]_seriesVars => SeriesInv'
  BY TalkInv, OpenInv, WriteTmpInv, ReplaceInv, FailInv, TimeInv DEF SeriesNext
<1>3. SeriesInv => SeriesKept
  BY DEF SeriesInv, SeriesKept
<1> QED
  BY <1>1, <1>2, <1>3, PTL DEF SeriesSpec

-----------------------------------------------------------------------------
(***************************************************************************)
(* The quotes.  The window is the end of the list of all the calls that    *)
(* were let through, and what has left it is RateSpan old.                 *)
(***************************************************************************)
Places == {"idle", "looking", "pacing", "calling", "storing", "read", "unread"}
Purposes == {"quotes", "desks", "scenarios"}
ReadRecord == [at : Places, reads : Purposes, since : Nat, read : Seq(Nat)]

\* What a thread has read is no older than its question.
Timed(b) ==
    /\ b.since <= qnow
    /\ \A i \in DOMAIN b.read : b.since <= b.read[i]

QuoteTypes ==
    /\ qnow \in Nat
    /\ rateWindow \in Seq(Nat) /\ admissions \in Seq(Nat)
    /\ quoteCache \in [deadline : Nat, read : Seq(Nat)]
    /\ reader \in [Readers -> ReadRecord]

Left == Len(admissions) - Len(rateWindow)

WindowInv ==
    /\ Left \in Nat
    /\ \A i \in DOMAIN rateWindow : Left + i \in DOMAIN admissions /\ rateWindow[i] = admissions[Left + i]
    /\ \A i \in DOMAIN admissions : admissions[i] <= qnow
    /\ \A i, j \in DOMAIN admissions : i <= j => admissions[i] <= admissions[j]
    /\ \A i \in 1..Left : qnow - admissions[i] >= RateSpan

CacheInv ==
    \A i \in DOMAIN quoteCache.read : quoteCache.deadline <= quoteCache.read[i] + CacheSeconds

QuoteInv ==
    /\ QuoteTypes
    /\ WindowInv
    /\ CacheInv
    /\ \A r \in Readers : Timed(reader[r])
    /\ PaceKept
    /\ HitsFresh

-----------------------------------------------------------------------------
LEMMA FirstIs ==
    ASSUME NEW S \in SUBSET Nat, S # {}
    PROVE  FirstOf(S) \in S /\ \A j \in S : FirstOf(S) <= j
<1> DEFINE less == OpToRel(<, Nat)
<1>1. less = {p \in Nat \X Nat : p[1] < p[2]}
  BY DEF OpToRel
<1>2. PICK x \in S : \A y \in S : ~(<<y, x>> \in less)
  <2> HIDE DEF less
  <2> QED
    BY NatLessThanWellFounded, WFMin DEF less
<1>3. \A y \in S : x <= y
  <2> SUFFICES ASSUME NEW y \in S, ~(x <= y) PROVE FALSE
    OBVIOUS
  <2>1. <<y, x>> \in Nat \X Nat /\ y < x
    OBVIOUS
  <2>2. <<y, x>> \in {p \in Nat \X Nat : p[1] < p[2]}
    BY <2>1
  <2> QED
    BY <1>1, <1>2, <2>2
<1> QED
  BY <1>2, <1>3 DEF FirstOf

\* What has left the window is a span old, and the rest follows the rest.
LEMMA RecentIs ==
    ASSUME QuoteTypes, WindowInv
    PROVE  /\ Recent \in Seq(Nat) /\ Len(Recent) <= Len(admissions)
           /\ \A i \in 1..Len(Recent) :
                 Recent[i] = admissions[Len(admissions) - Len(Recent) + i]
           /\ \A i \in 1..(Len(admissions) - Len(Recent)) : qnow - admissions[i] >= RateSpan
<1> DEFINE recent == {i \in DOMAIN rateWindow : qnow - rateWindow[i] < RateSpan}
           first == FirstOf(recent)
           n == Len(admissions)
           k == Len(rateWindow)
<1>1. /\ rateWindow \in Seq(Nat) /\ admissions \in Seq(Nat) /\ qnow \in Nat
      /\ n \in Nat /\ k \in Nat /\ DOMAIN rateWindow = 1..k /\ DOMAIN admissions = 1..n
      /\ n - k \in Nat /\ RateSpan \in Nat
  BY QuoteAssumption DEF QuoteTypes, WindowInv, Left
<1>2. /\ \A i \in 1..k : rateWindow[i] = admissions[n - k + i] /\ n - k + i \in 1..n
      /\ \A i \in 1..(n - k) : qnow - admissions[i] >= RateSpan
      /\ \A i \in 1..n : admissions[i] \in Nat
  <2>1. Left = n - k
    BY DEF Left
  <2>2. ASSUME NEW i \in 1..k PROVE rateWindow[i] = admissions[n - k + i] /\ n - k + i \in 1..n
    BY <1>1, <2>1 DEF WindowInv
  <2>3. \A i \in 1..(n - k) : qnow - admissions[i] >= RateSpan
    BY <2>1 DEF WindowInv
  <2>4. \A i \in 1..n : admissions[i] \in Nat
    BY <1>1
  <2> QED
    BY <2>2, <2>3, <2>4
<1>3. CASE recent = {}
  <2>1. Recent = <<>>
    BY <1>3 DEF Recent
  <2>2. ASSUME NEW i \in 1..n PROVE qnow - admissions[i] >= RateSpan
    <3>1. CASE i <= n - k
      BY <1>1, <1>2, <3>1
    <3>2. CASE i > n - k
      <4>1. PICK j : j = i - (n - k)
        OBVIOUS
      <4>2. j \in 1..k /\ n - k + j = i
        BY <1>1, <3>2, <4>1
      <4>3. ~(qnow - rateWindow[j] < RateSpan) /\ rateWindow[j] = admissions[i]
        BY <1>1, <1>2, <1>3, <4>2
      <4> QED
        BY <1>1, <1>2, <4>3
    <3> QED
      BY <1>1, <3>1, <3>2
  <2>3. Len(Recent) = 0 /\ Recent \in Seq(Nat)
    BY <2>1
  <2> QED
    BY <1>1, <2>2, <2>3
<1>4. CASE recent # {}
  <2>1. first \in recent /\ \A j \in recent : first <= j
    <3>1. recent \in SUBSET Nat
      BY <1>1
    <3> HIDE DEF recent
    <3> QED
      BY <1>4, <3>1, FirstIs
  <2>2. first \in 1..k /\ \A j \in 1..k : j < first => qnow - rateWindow[j] >= RateSpan
    <3>1. first \in 1..k
      BY <1>1, <2>1
    <3>2. ASSUME NEW j \in 1..k, j < first PROVE qnow - rateWindow[j] >= RateSpan
      <4>1. ~(first <= j)
        BY <1>1, <3>1, <3>2
      <4>2. j \notin recent
        BY <2>1, <4>1
      <4>3. rateWindow[j] \in Nat /\ ~(qnow - rateWindow[j] < RateSpan)
        BY <1>1, <4>2
      <4> QED
        BY <1>1, <4>3
    <3> QED
      BY <3>1, <3>2
  <2>3. Recent = SubSeq(rateWindow, first, k)
    BY <1>4 DEF Recent
  <2> HIDE DEF first, recent
  <2>5. PICK f \in Nat : f = first /\ f >= 1 /\ f <= k
    BY <1>1, <2>2
  <2>9. Recent = SubSeq(rateWindow, f, k)
    BY <2>3, <2>5
  <2>12. Recent \in Seq(Nat)
    <3>1. f \in Int /\ k \in Int
      BY <1>1, <2>5
    <3>2. \A i \in f..k : rateWindow[i] \in Nat
      BY <1>1, <2>5
    <3>3. SubSeq(rateWindow, f, k) \in Seq(Nat)
      BY <3>1, <3>2, SubSeqProperties
    <3> QED
      BY <2>9, <3>3
  <2>13. Len(Recent) = k - f + 1
    BY <1>1, <2>5, <2>9
  <2>10. Recent \in Seq(Nat) /\ Len(Recent) = k - f + 1
    BY <2>12, <2>13
  <2>11. ASSUME NEW i \in 1..(k - f + 1) PROVE Recent[i] = rateWindow[f + i - 1]
    BY <1>1, <2>5, <2>9
  <2>4. /\ Recent \in Seq(Nat) /\ Len(Recent) = k - first + 1
        /\ \A i \in 1..Len(Recent) : Recent[i] = rateWindow[first + i - 1]
    BY <2>5, <2>10, <2>11
  <2>6. ASSUME NEW i \in 1..Len(Recent) PROVE Recent[i] = admissions[n - Len(Recent) + i]
    <3>1. PICK j : j = f + i - 1
      OBVIOUS
    <3>2. j \in 1..k /\ n - k + j = n - Len(Recent) + i
      BY <1>1, <2>4, <2>5, <3>1
    <3> QED
      BY <1>2, <2>4, <2>5, <3>1, <3>2
  <2>7. ASSUME NEW i \in 1..(n - Len(Recent)) PROVE qnow - admissions[i] >= RateSpan
    <3>1. i \in Nat /\ i >= 1 /\ i <= n - k + f - 1
      BY <1>1, <2>4, <2>5
    <3>2. CASE i <= n - k
      BY <1>1, <1>2, <3>1, <3>2
    <3>3. CASE i > n - k
      <4>0. PICK d \in Nat : d = n - k
        BY <1>1
      <4>1. PICK j : j = i - d
        OBVIOUS
      <4>4. i \in Nat /\ i > d /\ i <= d + f - 1 /\ f \in Nat /\ k \in Nat /\ f <= k
        BY <1>1, <2>5, <3>1, <3>3, <4>0
      <4>5. j \in 1..k /\ j < f /\ d + j = i
        BY ONLY <4>1, <4>4
      <4>2. j \in 1..k /\ j < f /\ n - k + j = i
        BY <4>0, <4>5
      <4>3. qnow - rateWindow[j] >= RateSpan /\ rateWindow[j] = admissions[i]
        BY <1>2, <2>2, <2>5, <4>2
      <4> QED
        BY <4>3
    <3> QED
      BY <1>1, <3>1, <3>2, <3>3
  <2>8. Len(Recent) <= n
    BY <1>1, <2>4, <2>5
  <2> QED
    BY <2>4, <2>6, <2>7, <2>8
<1> QED
  BY <1>3, <1>4

LEMMA PaceInv ==
    ASSUME QuoteInv, NEW r \in Readers, Pace(r)
    PROVE  QuoteInv'
<1>1. /\ Len(Recent) < Rpm /\ rateWindow' = Append(Recent, qnow)
      /\ admissions' = Append(admissions, qnow)
      /\ reader' = [reader EXCEPT ![r].at = "calling"]
      /\ UNCHANGED <<qnow, quoteCache, hit>> /\ QuoteTypes /\ WindowInv
  BY DEF Pace, QuoteInv
<1> DEFINE n == Len(admissions)
           m == Len(Recent)
<1>2. /\ qnow \in Nat /\ admissions \in Seq(Nat) /\ n \in Nat /\ Recent \in Seq(Nat) /\ m \in Nat
      /\ m <= n /\ Rpm \in Nat /\ RateSpan \in Nat /\ Rpm >= 1
      /\ \A i \in 1..m : Recent[i] = admissions[n - m + i]
      /\ \A i \in 1..(n - m) : qnow - admissions[i] >= RateSpan
  BY <1>1, RecentIs, QuoteAssumption DEF QuoteTypes
<1>3. /\ admissions' \in Seq(Nat) /\ Len(admissions') = n + 1 /\ admissions'[n + 1] = qnow
      /\ \A i \in 1..n : admissions'[i] = admissions[i]
      /\ DOMAIN admissions' = 1..(n + 1) /\ DOMAIN admissions = 1..n
  BY <1>1, <1>2
<1>4. /\ rateWindow' \in Seq(Nat) /\ Len(rateWindow') = m + 1 /\ rateWindow'[m + 1] = qnow
      /\ \A i \in 1..m : rateWindow'[i] = Recent[i]
      /\ DOMAIN rateWindow' = 1..(m + 1)
  BY <1>1, <1>2
<1> HIDE DEF n, m
<1>5. Left' = n - m /\ n - m \in Nat
  BY <1>2, <1>3, <1>4 DEF Left
<1>6. WindowInv'
  <2>1. ASSUME NEW i \in 1..(m + 1)
        PROVE  n - m + i \in 1..(n + 1) /\ rateWindow'[i] = admissions'[n - m + i]
    <3>1. CASE i = m + 1
      BY <1>2, <1>3, <1>4, <3>1
    <3>2. CASE i # m + 1
      <4>1. i \in 1..m /\ n - m + i \in 1..n
        BY <1>2, <3>2
      <4> QED
        BY <1>2, <1>3, <1>4, <4>1
    <3> QED
      BY <3>1, <3>2
  <2>2. \A i \in 1..n : admissions[i] <= qnow /\ admissions[i] \in Nat
    BY <1>1, <1>2, <1>3 DEF WindowInv
  <2>3. \A i, j \in 1..n : i <= j => admissions[i] <= admissions[j]
    BY <1>1, <1>3 DEF WindowInv
  <2>4. ASSUME NEW i \in 1..(n + 1) PROVE admissions'[i] <= qnow
    <3>1. i \in 1..n \/ i = n + 1
      BY <1>2
    <3> QED
      BY <1>2, <1>3, <2>2, <3>1
  <2>5. ASSUME NEW i \in 1..(n + 1), NEW j \in 1..(n + 1), i <= j
        PROVE  admissions'[i] <= admissions'[j]
    <3>1. CASE j = n + 1
      BY <1>3, <2>4, <3>1
    <3>2. CASE j # n + 1
      <4>1. i \in 1..n /\ j \in 1..n
        BY <1>2, <2>5, <3>2
      <4> QED
        BY <1>3, <2>3, <2>5, <4>1
    <3> QED
      BY <3>1, <3>2
  <2>6. ASSUME NEW i \in 1..(n - m) PROVE qnow - admissions'[i] >= RateSpan
    <3>1. i \in 1..n
      BY <1>2
    <3> QED
      BY <1>2, <1>3, <3>1
  <2> QED
    BY <1>1, <1>3, <1>4, <1>5, <2>1, <2>4, <2>5, <2>6 DEF WindowInv
<1>7. PaceKept'
  <2> SUFFICES ASSUME NEW i \in 1..(n + 1), i + Rpm \in 1..(n + 1)
               PROVE  admissions'[i + Rpm] - admissions'[i] >= RateSpan
    BY <1>3 DEF PaceKept
  <2>1. i \in Nat /\ i >= 1 /\ i + Rpm <= n + 1
    BY <1>2
  <2>2. CASE i + Rpm = n + 1
    <3>1. i \in 1..(n - m) /\ i \in 1..n
      BY <1>1, <1>2, <2>1, <2>2 DEF m
    <3> QED
      BY <1>2, <1>3, <2>2, <3>1
  <2>3. CASE i + Rpm # n + 1
    <3>1. i \in 1..n /\ i + Rpm \in 1..n
      BY <1>2, <2>1, <2>3
    <3> QED
      BY <1>3, <3>1 DEF QuoteInv, PaceKept
  <2> QED
    BY <2>2, <2>3
<1>8. /\ reader' \in [Readers -> ReadRecord] /\ \A q \in Readers : Timed(reader[q])'
  <2>1. reader \in [Readers -> ReadRecord] /\ \A q \in Readers : Timed(reader[q])
    BY <1>1 DEF QuoteTypes, QuoteInv
  <2>2. \A q \in Readers : reader'[q].since = reader[q].since /\ reader'[q].read = reader[q].read
    BY <1>1, <2>1 DEF ReadRecord, Places, Purposes
  <2>3. reader' \in [Readers -> ReadRecord]
    <3>1. PICK b : b = [reader[r] EXCEPT !.at = "calling"]
      OBVIOUS
    <3>2. b \in ReadRecord
      BY <2>1, <3>1 DEF ReadRecord, Places, Purposes
    <3>3. reader' = [reader EXCEPT ![r] = b]
      BY <1>1, <3>1
    <3> QED
      BY <2>1, <3>2, <3>3
  <2> QED
    BY <1>1, <2>1, <2>2, <2>3 DEF Timed
<1> QED
  BY <1>1, <1>3, <1>4, <1>6, <1>7, <1>8 DEF QuoteInv, QuoteTypes, CacheInv, HitsFresh

-----------------------------------------------------------------------------
\* A reader goes on; no call is let through, and what it is handed is fresh.
LEMMA ReaderGoesOn ==
    ASSUME QuoteInv, UNCHANGED <<qnow, rateWindow, admissions>>, HitsFresh',
           quoteCache' \in [deadline : Nat, read : Seq(Nat)], CacheInv',
           NEW r \in Readers, NEW b \in ReadRecord, reader' = [reader EXCEPT ![r] = b], Timed(b)
    PROVE  QuoteInv'
<1>1. reader' \in [Readers -> ReadRecord] /\ \A q \in Readers : Timed(reader[q])'
  <2>1. /\ reader' \in [Readers -> ReadRecord] /\ reader'[r] = b
        /\ \A q \in Readers : q # r => reader'[q] = reader[q]
    BY DEF QuoteInv, QuoteTypes
  <2>2. ASSUME NEW q \in Readers PROVE Timed(reader[q])'
    <3>1. CASE q = r
      BY <2>1, <3>1 DEF Timed
    <3>2. CASE q # r
      BY <2>1, <3>2 DEF Timed, QuoteInv
    <3> QED
      BY <3>1, <3>2
  <2> QED
    BY <2>1, <2>2
<1>2. WindowInv' /\ PaceKept'
  BY DEF QuoteInv, WindowInv, Left, PaceKept
<1> QED
  BY <1>1, <1>2 DEF QuoteInv, QuoteTypes

LEMMA FreshIs ==
    ASSUME QuoteTypes, NEW b \in ReadRecord, b.read = <<>>, b.since \in {0, qnow}
    PROVE  Timed(b)
<1>1. b.since <= qnow
  BY DEF QuoteTypes
<1>2. DOMAIN b.read = {}
  OBVIOUS
<1> QED
  BY <1>1, <1>2 DEF Timed

LEMMA ReadersAre ==
    ASSUME QuoteInv, NEW r \in Readers
    PROVE  /\ reader \in [Readers -> ReadRecord] /\ reader[r] \in ReadRecord /\ Timed(reader[r])
           /\ reader[r].since \in Nat /\ reader[r].read \in Seq(Nat)
           /\ reader[r].at \in Places /\ reader[r].reads \in Purposes
           /\ quoteCache \in [deadline : Nat, read : Seq(Nat)] /\ CacheInv /\ qnow \in Nat
<1>1. reader \in [Readers -> ReadRecord] /\ reader[r] \in ReadRecord
  BY DEF QuoteInv, QuoteTypes
<1> QED
  BY <1>1 DEF QuoteInv, QuoteTypes, ReadRecord, Places, Purposes

\* The reader starts from nothing read, the cache stays.
LEMMA ReaderStarts ==
    ASSUME QuoteInv, UNCHANGED <<qnow, rateWindow, admissions, quoteCache, hit>>,
           NEW r \in Readers, NEW b \in ReadRecord, b.read = <<>>, b.since \in {0, qnow},
           reader' = [reader EXCEPT ![r] = b]
    PROVE  QuoteInv'
<1>1. quoteCache' \in [deadline : Nat, read : Seq(Nat)] /\ CacheInv' /\ HitsFresh'
  BY ReadersAre DEF CacheInv, QuoteInv, HitsFresh
<1>2. Timed(b)
  BY FreshIs DEF QuoteInv
<1> QED
  BY <1>1, <1>2, ReaderGoesOn

LEMMA UnoccupiedIs ==
    Unoccupied \in ReadRecord /\ Unoccupied.read = <<>> /\ Unoccupied.since = 0
<1>1. <<>> \in Seq(Nat)
  OBVIOUS
<1> QED
  BY <1>1 DEF Unoccupied, ReadRecord, Places, Purposes

LEMMA FetchInv ==
    ASSUME QuoteInv, UNCHANGED <<qnow, rateWindow, admissions, quoteCache, hit>>,
           NEW r \in Readers, NEW what \in Purposes, FetchSnapshot(r, what)
    PROVE  QuoteInv'
<1>1. PICK at \in Places :
         reader' = [reader EXCEPT ![r] = [Unoccupied EXCEPT !.reads = what, !.at = at]]
  BY DEF FetchSnapshot, Places
<1>2. PICK b : b = [Unoccupied EXCEPT !.reads = what, !.at = at]
  OBVIOUS
<1>3. b \in ReadRecord /\ b.read = <<>> /\ b.since = 0
  BY <1>2, UnoccupiedIs DEF ReadRecord
<1>4. reader' = [reader EXCEPT ![r] = b]
  BY <1>1, <1>2
<1> QED
  BY <1>3, <1>4, ReaderStarts

LEMMA LeavesInv ==
    ASSUME QuoteInv, UNCHANGED <<qnow, rateWindow, admissions, quoteCache, hit>>,
           NEW r \in Readers, reader' = [reader EXCEPT ![r] = Unoccupied]
    PROVE  QuoteInv'
  BY UnoccupiedIs, ReaderStarts

LEMMA AskInv ==
    ASSUME QuoteInv, NEW r \in Readers, Ask(r)
    PROVE  QuoteInv'
<1>1. PICK b : b = [Unoccupied EXCEPT !.at = "looking", !.since = qnow]
  OBVIOUS
<1>2. b \in ReadRecord /\ b.read = <<>> /\ b.since = qnow
  <2>1. qnow \in Nat
    BY ReadersAre
  <2> QED
    BY <1>1, <2>1, UnoccupiedIs DEF ReadRecord, Places
<1>3. /\ reader' = [reader EXCEPT ![r] = b]
      /\ UNCHANGED <<qnow, rateWindow, admissions, quoteCache, hit>>
  BY <1>1 DEF Ask
<1> QED
  BY <1>2, <1>3, ReaderStarts

\* The deadline is later than the question, and no more than CacheSeconds
\* later than any of the quotes.
LEMMA HitInv ==
    ASSUME QuoteInv, NEW r \in Readers, ServeHit(r)
    PROVE  QuoteInv'
<1>1. /\ quoteCache \in [deadline : Nat, read : Seq(Nat)] /\ CacheInv
      /\ CacheSeconds \in Nat /\ quoteCache.deadline > reader[r].since /\ reader[r].since \in Nat
      /\ hit' = [since |-> reader[r].since, read |-> quoteCache.read]
      /\ reader' = [reader EXCEPT ![r] = Unoccupied]
      /\ UNCHANGED <<qnow, rateWindow, admissions, quoteCache>>
  BY ReadersAre, QuoteAssumption DEF ServeHit, Cached
<1>2. PICK read \in Seq(Nat), d \in Nat, since \in Nat :
         read = quoteCache.read /\ d = quoteCache.deadline /\ since = reader[r].since
  BY <1>1
<1>3. ASSUME NEW i \in DOMAIN read PROVE since < read[i] + CacheSeconds
  <2>1. read[i] \in Nat
    BY <1>3
  <2>2. since < d /\ d <= read[i] + CacheSeconds
    BY <1>1, <1>2, <1>3 DEF CacheInv
  <2> QED
    BY <1>1, <2>1, <2>2
<1>4. HitsFresh'
  <2>1. hit'.since = since /\ hit'.read = read
    BY <1>1, <1>2
  <2> QED
    BY <1>3, <2>1 DEF HitsFresh
<1>5. quoteCache' \in [deadline : Nat, read : Seq(Nat)] /\ CacheInv'
  BY <1>1 DEF CacheInv
<1>6. Unoccupied \in ReadRecord /\ Timed(Unoccupied)
  BY UnoccupiedIs, FreshIs DEF QuoteInv
<1> QED
  BY <1>1, <1>4, <1>5, <1>6, ReaderGoesOn

LEMMA MissInv ==
    ASSUME QuoteInv, NEW r \in Readers, StartMiss(r)
    PROVE  QuoteInv'
<1>1. /\ quoteCache' = NoEntry /\ UNCHANGED <<qnow, rateWindow, admissions, hit>>
      /\ reader' = [reader EXCEPT ![r].at = "pacing"]
  BY DEF StartMiss
<1>2. quoteCache' \in [deadline : Nat, read : Seq(Nat)] /\ CacheInv'
  <2>1. <<>> \in Seq(Nat)
    OBVIOUS
  <2> QED
    BY <1>1, <2>1 DEF NoEntry, CacheInv
<1>3. PICK b : b = [reader[r] EXCEPT !.at = "pacing"]
  OBVIOUS
<1>4. b \in ReadRecord /\ b.read = reader[r].read /\ b.since = reader[r].since
  BY <1>3, ReadersAre DEF ReadRecord, Places
<1>5. Timed(b)
  BY <1>4, ReadersAre DEF Timed
<1>6. reader' = [reader EXCEPT ![r] = b]
  BY <1>1, <1>3
<1>7. HitsFresh'
  BY <1>1 DEF QuoteInv, HitsFresh
<1> QED
  BY <1>1, <1>2, <1>4, <1>5, <1>6, <1>7, ReaderGoesOn

LEMMA CallFailsInv ==
    ASSUME QuoteInv, NEW r \in Readers, CallFails(r)
    PROVE  QuoteInv'
<1>1. /\ UNCHANGED <<qnow, rateWindow, admissions, quoteCache, hit>>
      /\ reader \in [Readers -> ReadRecord] /\ reader[r] \in ReadRecord /\ Timed(reader[r])
      /\ quoteCache' \in [deadline : Nat, read : Seq(Nat)] /\ CacheInv' /\ HitsFresh'
  BY ReadersAre DEF CallFails, CacheInv, QuoteInv, HitsFresh
<1>2. CASE reader[r].reads = "quotes"
  <2>1. reader' = [reader EXCEPT ![r] = Unoccupied]
    BY <1>1, <1>2 DEF CallFails
  <2> QED
    BY <1>1, <2>1, LeavesInv
<1>3. CASE reader[r].reads # "quotes"
  <2>1. PICK b : b = [reader[r] EXCEPT !.at = "unread", !.read = <<>>]
    OBVIOUS
  <2>2. <<>> \in Seq(Nat)
    OBVIOUS
  <2>3. b \in ReadRecord /\ b.read = <<>> /\ b.since = reader[r].since
    BY <1>1, <2>1, <2>2 DEF ReadRecord, Places, Purposes
  <2>4. Timed(b)
    BY <1>1, <2>3 DEF Timed
  <2>5. reader' = [reader EXCEPT ![r] = b]
    BY <1>1, <1>3, <2>1 DEF CallFails
  <2> QED
    BY <1>1, <2>3, <2>4, <2>5, ReaderGoesOn
<1> QED
  BY <1>2, <1>3

\* What is read now is no older than the question.
LEMMA AnswerInv ==
    ASSUME QuoteInv, NEW r \in Readers, CallAnswers(r)
    PROVE  QuoteInv'
<1>1. /\ UNCHANGED <<qnow, rateWindow, admissions, quoteCache, hit>>
      /\ reader \in [Readers -> ReadRecord] /\ reader[r] \in ReadRecord /\ Timed(reader[r])
      /\ quoteCache' \in [deadline : Nat, read : Seq(Nat)] /\ CacheInv' /\ HitsFresh' /\ qnow \in Nat
      /\ reader[r].since \in Nat /\ reader[r].read \in Seq(Nat)
  BY ReadersAre DEF CallAnswers, CacheInv, QuoteInv, HitsFresh
<1>2. PICK old \in Seq(Nat), since \in Nat : old = reader[r].read /\ since = reader[r].since
  BY <1>1
<1>3. PICK read \in Seq(Nat), at \in Places :
         /\ reader' = [reader EXCEPT ![r].read = read, ![r].at = at]
         /\ read = <<>> \/ read = Append(old, qnow)
  <2>1. Append(old, qnow) \in Seq(Nat) /\ <<>> \in Seq(Nat)
    BY <1>1
  <2> DEFINE appended == Append(reader[r].read, qnow)
             done == Len(appended) = Batches
             report == reader[r].reads # "quotes"
  <2>2. reader' = [reader EXCEPT
              ![r].read = IF done /\ report THEN <<>> ELSE appended,
              ![r].at = IF ~done THEN "pacing" ELSE IF report THEN "read" ELSE "storing"]
    BY DEF CallAnswers
  <2>3. appended = Append(old, qnow)
    BY <1>2
  <2> HIDE DEF appended, done, report
  <2>4. (IF done /\ report THEN <<>> ELSE appended) \in {<<>>, Append(old, qnow)}
    BY <2>3
  <2>5. (IF ~done THEN "pacing" ELSE IF report THEN "read" ELSE "storing") \in Places
    BY DEF Places
  <2> QED
    BY <2>1, <2>2, <2>4, <2>5
<1>4. PICK b : b = [reader[r] EXCEPT !.read = read, !.at = at]
  OBVIOUS
<1>5. b \in ReadRecord /\ b.read = read /\ b.since = since
  BY <1>1, <1>2, <1>4 DEF ReadRecord, Places, Purposes
<1>6. \A i \in DOMAIN read : since <= read[i]
  <2>1. since <= qnow /\ \A i \in DOMAIN old : since <= old[i]
    BY <1>1, <1>2 DEF Timed
  <2>2. CASE read = <<>>
    BY <2>2
  <2>3. CASE read = Append(old, qnow)
    <3>1. /\ DOMAIN read = 1..(Len(old) + 1) /\ DOMAIN old = 1..Len(old) /\ Len(old) \in Nat
          /\ read[Len(old) + 1] = qnow /\ \A i \in 1..Len(old) : read[i] = old[i]
      BY <1>1, <2>3
    <3>2. ASSUME NEW i \in DOMAIN read PROVE since <= read[i]
      <4>1. i \in 1..Len(old) \/ i = Len(old) + 1
        BY <3>1, <3>2
      <4> QED
        BY <2>1, <3>1, <4>1
    <3> QED
      BY <3>2
  <2> QED
    BY <1>3, <2>2, <2>3
<1>7. Timed(b)
  BY <1>1, <1>2, <1>5, <1>6 DEF Timed
<1>8. reader' = [reader EXCEPT ![r] = b]
  BY <1>1, <1>3, <1>4
<1> QED
  BY <1>1, <1>5, <1>7, <1>8, ReaderGoesOn

\* The deadline counts from the question.
LEMMA StoreInv ==
    ASSUME QuoteInv, NEW r \in Readers, StoreQuotes(r)
    PROVE  QuoteInv'
<1>1. /\ UNCHANGED <<qnow, rateWindow, admissions, hit>>
      /\ quoteCache' = IF CacheSeconds = 0 THEN quoteCache
                       ELSE [deadline |-> Deadline(r), read |-> reader[r].read]
      /\ reader' = [reader EXCEPT ![r] = Unoccupied]
      /\ CacheSeconds \in Nat /\ Timed(reader[r]) /\ CacheInv /\ HitsFresh'
      /\ quoteCache \in [deadline : Nat, read : Seq(Nat)]
      /\ reader[r].since \in Nat /\ reader[r].read \in Seq(Nat)
  BY ReadersAre, QuoteAssumption DEF StoreQuotes, QuoteInv, HitsFresh
<1>2. quoteCache' \in [deadline : Nat, read : Seq(Nat)] /\ CacheInv'
  <2>1. CASE CacheSeconds = 0
    BY <1>1, <2>1 DEF CacheInv
  <2>2. CASE CacheSeconds # 0
    <3>1. PICK read \in Seq(Nat), since \in Nat :
             /\ read = reader[r].read /\ since = reader[r].since
             /\ \A i \in DOMAIN read : since <= read[i]
      BY <1>1 DEF Timed
    <3>2. quoteCache' = [deadline |-> since + CacheSeconds, read |-> read]
      BY <1>1, <2>2, <3>1 DEF Deadline
    <3>3. since + CacheSeconds \in Nat
      BY <1>1
    <3>4. ASSUME NEW i \in DOMAIN read PROVE since + CacheSeconds <= read[i] + CacheSeconds
      <4>1. read[i] \in Nat /\ since <= read[i]
        BY <3>1, <3>4
      <4> QED
        BY <1>1, <4>1
    <3>5. quoteCache'.deadline = since + CacheSeconds /\ quoteCache'.read = read
      BY <3>2
    <3> QED
      BY <3>2, <3>3, <3>4, <3>5 DEF CacheInv
  <2> QED
    BY <2>1, <2>2
<1>3. Unoccupied \in ReadRecord /\ Timed(Unoccupied)
  BY UnoccupiedIs, FreshIs DEF QuoteInv
<1> QED
  BY <1>1, <1>2, <1>3, ReaderGoesOn

LEMMA TockInv ==
    ASSUME QuoteInv, Tock
    PROVE  QuoteInv'
<1>1. /\ qnow \in Nat /\ qnow' = qnow + 1 /\ RateSpan \in Nat
      /\ UNCHANGED <<rateWindow, admissions, quoteCache, reader, hit>>
      /\ admissions \in Seq(Nat) /\ WindowInv /\ Left' = Left /\ Left \in Nat
      /\ reader \in [Readers -> ReadRecord]
  BY QuoteAssumption DEF Tock, QuoteInv, QuoteTypes, WindowInv, Left
<1>2. WindowInv'
  <2>1. ASSUME NEW i \in DOMAIN admissions PROVE admissions[i] <= qnow'
    <3>1. admissions[i] \in Nat /\ admissions[i] <= qnow
      BY <1>1, <2>1 DEF WindowInv
    <3> QED
      BY <1>1, <3>1
  <2>2. ASSUME NEW i \in 1..Left PROVE qnow' - admissions[i] >= RateSpan
    <3>1. i \in DOMAIN admissions
      <4>1. Len(rateWindow) \in Nat /\ Len(admissions) \in Nat /\ Left = Len(admissions) - Len(rateWindow)
        BY DEF QuoteInv, QuoteTypes, Left
      <4>2. i \in 1..Len(admissions)
        BY <1>1, <4>1
      <4> QED
        BY <1>1, <4>2
    <3>2. admissions[i] \in Nat /\ qnow - admissions[i] >= RateSpan
      BY <1>1, <3>1 DEF WindowInv
    <3> QED
      BY <1>1, <3>2
  <2> QED
    BY <1>1, <2>1, <2>2 DEF WindowInv
<1>3. ASSUME NEW r \in Readers PROVE Timed(reader[r])'
  <2>1. reader[r].since \in Nat /\ Timed(reader[r])
    BY ReadersAre
  <2>2. reader[r].since <= qnow'
    BY <1>1, <2>1 DEF Timed
  <2> QED
    BY <1>1, <2>1, <2>2 DEF Timed
<1> QED
  BY <1>1, <1>2, <1>3 DEF QuoteInv, QuoteTypes, CacheInv, PaceKept, HitsFresh

LEMMA QuoteStarts == QuoteInit => QuoteInv
<1> SUFFICES ASSUME QuoteInit PROVE QuoteInv
  OBVIOUS
<1>1. /\ qnow = 0 /\ rateWindow = <<>> /\ admissions = <<>> /\ quoteCache = NoEntry
      /\ reader = [r \in Readers |-> Unoccupied] /\ hit = NoHit
  BY DEF QuoteInit
<1>2. <<>> \in Seq(Nat)
  OBVIOUS
<1>3. Unoccupied \in ReadRecord /\ Timed(Unoccupied)
  BY <1>1, <1>2 DEF Unoccupied, ReadRecord, Places, Purposes, Timed
<1>4. QuoteTypes
  BY <1>1, <1>2, <1>3 DEF QuoteTypes, NoEntry
<1>5. WindowInv
  <2>1. Left = 0 /\ DOMAIN rateWindow = {} /\ DOMAIN admissions = {}
    BY <1>1 DEF Left
  <2> QED
    BY <2>1 DEF WindowInv
<1>6. CacheInv /\ PaceKept /\ HitsFresh
  BY <1>1 DEF CacheInv, PaceKept, NoEntry, HitsFresh, NoHit
<1> QED
  BY <1>1, <1>3, <1>4, <1>5, <1>6 DEF QuoteInv

LEMMA QuoteStep == QuoteInv /\ [QuoteNext]_quoteVars => QuoteInv'
<1> SUFFICES ASSUME QuoteInv, [QuoteNext]_quoteVars PROVE QuoteInv'
  OBVIOUS
<1>1. CASE Tock
  BY <1>1, TockInv
<1>2. ASSUME NEW r \in Readers,
             \/ Ask(r) \/ ServeHit(r) \/ StartMiss(r) \/ Pace(r) \/ CallFails(r)
             \/ CallAnswers(r) \/ StoreQuotes(r) \/ StartReport(r) \/ BuildProjects(r) \/ BuildScenarios(r)
      PROVE  QuoteInv'
  <2>1. CASE StartReport(r)
    <3>1. "desks" \in Purposes
      BY DEF Purposes
    <3> QED
      BY <2>1, <3>1, FetchInv DEF StartReport
  <2>2. CASE BuildProjects(r)
    <3>1. UNCHANGED <<qnow, rateWindow, admissions, quoteCache, hit>> /\ "scenarios" \in Purposes
      BY <2>2 DEF BuildProjects, Purposes
    <3>2. FetchSnapshot(r, "scenarios") \/ reader' = [reader EXCEPT ![r] = Unoccupied]
      BY <2>2 DEF BuildProjects
    <3> QED
      BY <3>1, <3>2, FetchInv, LeavesInv
  <2>3. CASE BuildScenarios(r)
    BY <2>3, LeavesInv DEF BuildScenarios
  <2> QED
    BY <1>2, <2>1, <2>2, <2>3, AskInv, HitInv, MissInv, PaceInv, CallFailsInv, AnswerInv, StoreInv
<1>3. CASE UNCHANGED quoteVars
  BY <1>3 DEF quoteVars, QuoteInv, QuoteTypes, WindowInv, Left, CacheInv, Timed, PaceKept, HitsFresh
<1> QED
  BY <1>1, <1>2, <1>3 DEF QuoteNext

(* However long the threads wait, before the lock, for their turn or for an*)
(* answer, and whatever order their answers come in, the broker gets at    *)
(* most Rpm calls in any span, and no hit is CacheSeconds old or older when*)
(* its caller asked.                                                       *)
THEOREM QuoteTheorem == QuoteSpec => []QuotesKept
<1>1. QuoteInv => QuotesKept
  BY DEF QuoteInv, QuotesKept
<1> QED
  BY <1>1, QuoteStarts, QuoteStep, PTL DEF QuoteSpec
(***************************************************************************)
(* The sources.  A tally has a blocked source exactly when one was lost,   *)
(* and an adapter that is not among those that may be empty returns a row  *)
(* of each of its reads.                                                   *)
(***************************************************************************)
ContextSet ==
    { "fred", "nyfed-markets", "treasury-fiscaldata", "treasury-rates", "fdic",
      "world-bank", "bis", "bls", "ecb-fx", "imf", "oecd", "eurostat", "usgs",
      "nasa-eonet", "bank-of-canada", "frankfurter", "nws", "cftc-cot", "bea",
      "usda-nass", "eia-open-data", "finra", "nasdaq-quotes", "nasdaq-earnings",
      "coinbase-exchange" }
Sources == ContextSet \cup ProbedSources \cup {"none"}

TaskRecord ==
    [for : {"nobody", "context", "probe", "summary"}, source : Sources,
     number : Nat, read : Nat, attempt : Nat, rows : Nat]

InPlace(t) ==
    /\ t.for = "context" => t.number \in 1..Len(ContextSources) /\ t.source \in ContextSet
    /\ t.for = "probe" => t.source \in ProbedSources

TallyInv ==
    /\ tally \in [Statuses -> Nat]
    /\ lost \in BOOLEAN /\ (lost = TRUE <=> tally["BLOCKED"] > 0)

SourceInv == task \in TaskRecord /\ InPlace(task) /\ TallyInv /\ ContextHonest

-----------------------------------------------------------------------------
LEMMA ContextSourcesAre ==
    /\ Len(ContextSources) = 25
    /\ \A n \in 1..25 : ContextSources[n] \in ContextSet
<1>1. Len(ContextSources) = 25
  BY DEF ContextSources
<1>2. ASSUME NEW n \in 1..25 PROVE ContextSources[n] \in ContextSet
  <2>1. \/ n = 1 \/ n = 2 \/ n = 3 \/ n = 4 \/ n = 5 \/ n = 6 \/ n = 7 \/ n = 8 \/ n = 9
        \/ n = 10 \/ n = 11 \/ n = 12 \/ n = 13 \/ n = 14 \/ n = 15 \/ n = 16 \/ n = 17
        \/ n = 18 \/ n = 19 \/ n = 20 \/ n = 21 \/ n = 22 \/ n = 23 \/ n = 24 \/ n = 25
    OBVIOUS
  <2> QED
    BY <2>1 DEF ContextSources, ContextSet
<1> QED
  BY <1>1, <1>2

\* What each form of adapter makes of an answer it does not refuse.
LEMMA FormsAre ==
    ASSUME NEW a \in Answers
    PROVE  /\ RowList(a) \in Nat /\ AnyRows(a) \in Nat
           /\ SomeRows(a) \in Nat \ {0} /\ OnlyRows(a) \in Nat \ {0}
           /\ FinraToken(a) \in Nat /\ BlsLatestSeries(a) \in Nat
           /\ NasdaqQuote(a) \in Nat \ {0} /\ SecFilings(a) \in Nat \ {0}
<1>1. a.good \in Nat /\ Refused \in Nat \ {0}
  BY SourceAssumption DEF Answers, Refused
<1> QED
  BY <1>1 DEF RowList, AnyRows, SomeRows, OnlyRows, FinraToken, BlsLatestSeries, NasdaqQuote,
              SecFilings

LEMMA RowsAre ==
    ASSUME NEW source \in ContextSet \cup ProbedSources, NEW read, NEW a \in Answers
    PROVE  /\ RowsOf(source, read, a) \in Nat
           /\ source \notin MayBeEmpty => RowsOf(source, read, a) > 0
<1>1. CASE source \in {"nyfed-markets", "treasury-fiscaldata", "cftc-cot", "eia-open-data", "finra"}
  BY <1>1, FormsAre DEF RowsOf, MayBeEmpty, NyfedReferenceRates, TreasuryLatestAuctions, CftcCot,
       EiaV2, FinraFixedIncome, FinraEquity
<1>2. CASE source \in {"usgs", "nasa-eonet", "nws", "bea", "usda-nass", "nasdaq-earnings", "bls"}
  BY <1>2, FormsAre DEF RowsOf, MayBeEmpty, UsgsEarthquakes, NasaEonetEvents, NwsActiveAlerts,
       BeaNipaTable, UsdaNassCropProgress, NasdaqEarningsCalendar
<1>3. CASE source \in {"fred", "treasury-rates", "fdic", "world-bank", "ecb-fx", "imf", "oecd"}
  BY <1>3, FormsAre DEF RowsOf, FredSeries, TreasuryYieldCurve, FdicFailures, WorldBankIndicator,
       EcbExchangeRates, ImfGdpGrowth, OecdCompositeLeadingIndicator
<1>4. CASE source \in {"eurostat", "bank-of-canada", "frankfurter", "bis", "coinbase-exchange",
                       "nasdaq-quotes", "sec-edgar"}
  BY <1>4, FormsAre DEF RowsOf, EurostatQuarterlyGdp, BankOfCanadaFx, FrankfurterFx,
       BisGlobalLiquidity, CoinbaseProductTrades
<1> QED
  BY <1>1, <1>2, <1>3, <1>4 DEF ContextSet, ProbedSources

LEMMA NothingYet ==
    /\ NoTask \in TaskRecord /\ InPlace(NoTask)
    /\ NoTally \in [Statuses -> Nat] /\ ~(NoTally["BLOCKED"] > 0)
<1>1. NoTask \in TaskRecord /\ InPlace(NoTask)
  BY DEF NoTask, TaskRecord, Sources, InPlace
<1>2. NoTally \in [Statuses -> Nat] /\ ~(NoTally["BLOCKED"] > 0)
  BY DEF NoTally, Statuses
<1> QED
  BY <1>1, <1>2

LEMMA ContextTaskIs ==
    ASSUME NEW n \in 1..Len(ContextSources)
    PROVE  ContextTask(n) \in TaskRecord /\ InPlace(ContextTask(n))
<1>1. n \in Nat /\ ContextSources[n] \in ContextSet
  BY ContextSourcesAre
<1>2. PICK source \in ContextSet : source = ContextSources[n]
  BY <1>1
<1>3. PICK t : t = [NoTask EXCEPT !.for = "context", !.number = n, !.source = source]
  OBVIOUS
<1>4. t \in TaskRecord /\ t.for = "context" /\ t.number = n /\ t.source = source
  BY <1>1, <1>3 DEF NoTask, TaskRecord, Sources
<1>5. ContextTask(n) = t
  BY <1>2, <1>3 DEF ContextTask
<1> QED
  BY <1>1, <1>4, <1>5 DEF InPlace

\* A judgement that is right about its source keeps the tally right.
LEMMA Judged ==
    ASSUME SourceInv, task.for \in {"context", "probe"}, context' = context,
           NEW status \in Statuses, NEW count, Judge(status, count),
           status = "LIVE" /\ count = 0 => task.for = "context" /\ task.source \in MayBeEmpty
    PROVE  SourceInv'
<1>1. mark' = [by |-> task.for, source |-> task.source, status |-> status, count |-> count]
  BY DEF Judge
<1>2. ContextHonest'
  BY <1>1 DEF SourceInv, ContextHonest
<1>3. CASE task.for = "context"
  <2>1. /\ tally' = [tally EXCEPT ![status] = @ + 1]
        /\ lost' = (lost \/ status = "BLOCKED")
        /\ task' = IF task.number < Len(ContextSources) THEN ContextTask(task.number + 1)
                   ELSE [NoTask EXCEPT !.for = "summary"]
    BY <1>3 DEF Judge
  <2>2. TallyInv'
    <3>1. tally \in [Statuses -> Nat] /\ "BLOCKED" \in Statuses
      BY DEF SourceInv, TallyInv, Statuses
    <3>2. tally' \in [Statuses -> Nat] /\ tally["BLOCKED"] \in Nat
      BY <2>1, <3>1
    <3>3. CASE status = "BLOCKED"
      <4>1. tally'["BLOCKED"] = tally["BLOCKED"] + 1
        BY <2>1, <3>1, <3>3
      <4>2. tally'["BLOCKED"] > 0
        BY <3>2, <4>1
      <4>3. lost' = TRUE
        BY <2>1, <3>3
      <4> QED
        BY <3>2, <4>2, <4>3 DEF TallyInv
    <3>4. CASE status # "BLOCKED"
      <4>1. lost' = lost /\ tally'["BLOCKED"] = tally["BLOCKED"]
        BY <2>1, <3>1, <3>4 DEF SourceInv, TallyInv
      <4> QED
        BY <3>2, <4>1 DEF SourceInv, TallyInv
    <3> QED
      BY <3>3, <3>4
  <2>3. task' \in TaskRecord /\ InPlace(task')
    <3>1. task.number \in 1..Len(ContextSources) /\ Len(ContextSources) \in Nat
      BY <1>3, ContextSourcesAre DEF SourceInv, InPlace
    <3>2. CASE task.number < Len(ContextSources)
      <4>1. task.number + 1 \in 1..Len(ContextSources) /\ task' = ContextTask(task.number + 1)
        BY <2>1, <3>1, <3>2
      <4> QED
        BY <4>1, ContextTaskIs
    <3>3. CASE ~(task.number < Len(ContextSources))
      <4>1. task' = [for |-> "summary", source |-> "none", number |-> 0, read |-> 1,
                     attempt |-> 1, rows |-> 0]
        BY <2>1, <3>3 DEF NoTask
      <4> QED
        BY <4>1 DEF TaskRecord, Sources, InPlace
    <3> QED
      BY <3>2, <3>3
  <2> QED
    BY <1>2, <2>2, <2>3 DEF SourceInv, InPlace
<1>4. CASE task.for = "probe"
  <2>1. task' = NoTask /\ UNCHANGED <<tally, lost>>
    BY <1>4 DEF Judge
  <2> QED
    BY <1>2, <2>1 DEF SourceInv, TallyInv, NoTask, TaskRecord, Sources, InPlace
<1> QED
  BY <1>3, <1>4

\* The read goes on, or another is tried.
LEMMA GoesOnReading ==
    ASSUME SourceInv, NEW t \in TaskRecord, t.for = task.for, t.source = task.source,
           t.number = task.number, task' = t, UNCHANGED <<tally, lost, mark, context>>
    PROVE  SourceInv'
BY DEF SourceInv, InPlace, TallyInv, ContextHonest

LEMMA RaisedInv ==
    ASSUME SourceInv, Reading, Raised, context' = context
    PROVE  SourceInv'
<1>1. CASE task.source = "sec-edgar" /\ task.read = 1
  <2>1. task' = [task EXCEPT !.read = 2, !.attempt = 1] /\ UNCHANGED <<tally, lost, mark>>
    BY <1>1 DEF Raised
  <2>2. PICK t : t = [task EXCEPT !.read = 2, !.attempt = 1]
    OBVIOUS
  <2>3. t \in TaskRecord /\ t.for = task.for /\ t.source = task.source /\ t.number = task.number
    BY <2>2 DEF SourceInv, TaskRecord
  <2> QED
    BY <2>1, <2>2, <2>3, GoesOnReading
<1>2. CASE ~(task.source = "sec-edgar" /\ task.read = 1)
  <2>1. Judge("BLOCKED", 0) /\ "BLOCKED" \in Statuses /\ task.for \in {"context", "probe"}
    BY <1>2 DEF Raised, Reading, Statuses
  <2> QED
    BY <2>1, Judged
<1> QED
  BY <1>1, <1>2

LEMMA FailsInv ==
    ASSUME SourceInv, ReadFails
    PROVE  SourceInv'
<1>1. Reading /\ context' = context
  BY DEF ReadFails
<1>2. \/ task' = [task EXCEPT !.attempt = @ + 1] /\ UNCHANGED <<tally, lost, mark>>
      \/ Raised
  BY DEF ReadFails
<1>3. CASE task' = [task EXCEPT !.attempt = @ + 1] /\ UNCHANGED <<tally, lost, mark>>
  <2>1. PICK t : t = [task EXCEPT !.attempt = @ + 1]
    OBVIOUS
  <2>2. t \in TaskRecord /\ t.for = task.for /\ t.source = task.source /\ t.number = task.number
    BY <2>1 DEF SourceInv, TaskRecord
  <2> QED
    BY <1>1, <1>3, <2>1, <2>2, GoesOnReading
<1> QED
  BY <1>1, <1>2, <1>3, RaisedInv

LEMMA AcceptedInv ==
    ASSUME SourceInv, Reading, context' = context, NEW rows \in Nat, Accepted(rows),
           task.source \notin MayBeEmpty => rows > 0
    PROVE  SourceInv'
<1>1. task.for \in {"context", "probe"} /\ "LIVE" \in Statuses /\ "BLOCKED" \in Statuses
  BY DEF Reading, Statuses
<1>2. CASE task.for = "probe" /\ rows = 0
  BY <1>1, <1>2, Judged DEF Accepted
<1>3. CASE ~(task.for = "probe" /\ rows = 0)
  <2>1. Judge("LIVE", rows)
    BY <1>3 DEF Accepted
  <2>2. rows = 0 => task.for = "context" /\ task.source \in MayBeEmpty
    BY <1>1, <1>3
  <2> QED
    BY <1>1, <2>1, <2>2, Judged
<1> QED
  BY <1>2, <1>3

LEMMA AnswersInv ==
    ASSUME SourceInv, ReadAnswers
    PROVE  SourceInv'
<1>1. /\ Reading /\ context' = context /\ task \in TaskRecord /\ task.rows \in Nat
      /\ task.source \in ContextSet \cup ProbedSources
  BY DEF ReadAnswers, SourceInv, InPlace, TaskRecord, Reading
<1>2. PICK a \in Answers :
         LET rows == RowsOf(task.source, task.read, a)
         IN CASE rows = Refused -> Raised
              [] rows # Refused /\ task.read < ReadsOf(task.for, task.source) ->
                    /\ task' = [task EXCEPT !.read = @ + 1, !.attempt = 1, !.rows = @ + rows]
                    /\ UNCHANGED <<tally, lost, mark>>
              [] OTHER -> Accepted(task.rows + rows)
  BY DEF ReadAnswers
<1>3. PICK rows \in Nat :
         rows = RowsOf(task.source, task.read, a) /\ (task.source \notin MayBeEmpty => rows > 0)
  BY <1>1, RowsAre
<1>4. \/ Raised
      \/ /\ task' = [task EXCEPT !.read = @ + 1, !.attempt = 1, !.rows = @ + rows]
         /\ UNCHANGED <<tally, lost, mark>>
      \/ Accepted(task.rows + rows)
  BY <1>2, <1>3
<1>5. CASE /\ task' = [task EXCEPT !.read = @ + 1, !.attempt = 1, !.rows = @ + rows]
           /\ UNCHANGED <<tally, lost, mark>>
  <2>1. PICK t : t = [task EXCEPT !.read = @ + 1, !.attempt = 1, !.rows = @ + rows]
    OBVIOUS
  <2>2. PICK n \in Nat, r \in Nat : n = task.rows + rows /\ r = task.read + 1
    BY <1>1, <1>3 DEF TaskRecord
  <2>3. t = [task EXCEPT !.read = r, !.attempt = 1, !.rows = n]
    BY <2>1, <2>2
  <2>4. t \in TaskRecord /\ t.for = task.for /\ t.source = task.source /\ t.number = task.number
    BY <1>1, <2>3 DEF TaskRecord
  <2> QED
    BY <1>1, <1>5, <2>1, <2>4, GoesOnReading
<1>6. CASE Accepted(task.rows + rows)
  <2>1. task.rows + rows \in Nat /\ (task.source \notin MayBeEmpty => task.rows + rows > 0)
    BY <1>1, <1>3
  <2> QED
    BY <1>1, <1>6, <2>1, AcceptedInv
<1> QED
  BY <1>1, <1>4, <1>5, <1>6, RaisedInv

LEMMA SummaryInv ==
    ASSUME SourceInv, Summarize
    PROVE  SourceInv'
<1>1. /\ context' = [status |-> Overall, live |-> tally["LIVE"], lost |-> lost]
      /\ task' = NoTask /\ tally' = NoTally /\ lost' = FALSE /\ mark' = mark
      /\ tally \in [Statuses -> Nat] /\ (lost = TRUE <=> tally["BLOCKED"] > 0)
      /\ lost \in BOOLEAN
  BY DEF Summarize, SourceInv, TallyInv
<1>2. tally["LIVE"] \in Nat /\ tally["BLOCKED"] \in Nat
  BY <1>1 DEF Statuses
<1>3. /\ Overall = "LIVE" => tally["LIVE"] > 0 /\ tally["BLOCKED"] = 0
      /\ Overall = "DEGRADED" => tally["LIVE"] > 0 /\ tally["BLOCKED"] > 0
  BY <1>2 DEF Overall
<1>4. ContextHonest'
  <2>1. /\ context'.status = "LIVE" => ~context'.lost /\ context'.live > 0
        /\ context'.status = "DEGRADED" => context'.lost /\ context'.live > 0
    BY <1>1, <1>2, <1>3
  <2> QED
    BY <1>1, <2>1 DEF SourceInv, ContextHonest
<1> QED
  <2>1. TallyInv'
    BY <1>1, NothingYet DEF TallyInv
  <2>2. task' \in TaskRecord /\ InPlace(task)'
    BY <1>1, NothingYet DEF InPlace
  <2> QED
    BY <1>4, <2>1, <2>2 DEF SourceInv

LEMMA SourceStarts == SourceInit => SourceInv
<1> SUFFICES ASSUME SourceInit PROVE SourceInv
  OBVIOUS
<1>1. task = NoTask /\ tally = NoTally /\ lost = FALSE
  BY DEF SourceInit
<1>2. ContextHonest
  BY DEF SourceInit, ContextHonest, NoContext
<1> QED
  <2>1. TallyInv
    BY <1>1, NothingYet DEF TallyInv
  <2> QED
    BY <1>1, <1>2, <2>1, NothingYet DEF SourceInv

LEMMA SourceStep == SourceInv /\ [SourceNext]_sourceVars => SourceInv'
<1> SUFFICES ASSUME SourceInv, [SourceNext]_sourceVars PROVE SourceInv'
  OBVIOUS
<1>1. CASE StartContext
  <2>1. /\ task' = ContextTask(1) /\ context' = NoContext /\ UNCHANGED <<tally, lost, mark>>
        /\ 1 \in 1..Len(ContextSources)
    BY <1>1, ContextSourcesAre DEF StartContext
  <2>2. task' \in TaskRecord /\ InPlace(task')
    BY <2>1, ContextTaskIs
  <2> QED
    BY <2>1, <2>2 DEF SourceInv, TallyInv, ContextHonest, NoContext, InPlace
<1>2. ASSUME NEW source \in ProbedSources, StartProbe(source) PROVE SourceInv'
  <2>1. task' = [for |-> "probe", source |-> source, number |-> 0, read |-> 1, attempt |-> 1,
                 rows |-> 0]
    BY <1>2 DEF StartProbe, NoTask
  <2>2. UNCHANGED <<tally, lost, mark, context>>
    BY <1>2 DEF StartProbe
  <2> QED
    BY <2>1, <2>2 DEF SourceInv, TallyInv, ContextHonest, TaskRecord, Sources, InPlace
<1>3. CASE SkipUnconfigured
  <2>1. task.for \in {"context", "probe"} /\ Judge("UNCONFIGURED", 0) /\ context' = context
        /\ "UNCONFIGURED" \in Statuses
    BY <1>3 DEF SkipUnconfigured, Statuses
  <2> QED
    BY <2>1, Judged
<1>4. CASE UNCHANGED sourceVars
  BY <1>4 DEF sourceVars, SourceInv, TallyInv, ContextHonest, InPlace
<1> QED
  BY <1>1, <1>2, <1>3, <1>4, FailsInv, AnswersInv, SummaryInv DEF SourceNext

(* Whatever the providers answer and however often a read is retried: a    *)
(* source called live has a row or an adapter that takes none, and the     *)
(* context says of itself what became of its sources.                      *)
THEOREM ContextTheorem == SourceSpec => []ContextHonest
<1>1. SourceInv => ContextHonest
  BY DEF SourceInv
<1> QED
  BY <1>1, SourceStarts, SourceStep, PTL DEF SourceSpec
=============================================================================
