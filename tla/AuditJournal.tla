---------------------------- MODULE AuditJournal ----------------------------
(***************************************************************************)
(* The evidence chain of hedge_desk/audit.py and the JSON-lines journal    *)
(* that keeps it, hedge_desk/audit_store.py.  A writer reads the journal,  *)
(* builds the next event on what it read, and appends it in two steps: the *)
(* check of the chain, then the write, with no lock between them.  A write *)
(* may be cut anywhere, by a full disk or by the end of the process.       *)
(***************************************************************************)
EXTENDS Naturals, Sequences, FiniteSets

CONSTANTS
    Writers,     \* processes that use the journal
    Outputs,     \* the output hashes an event may carry
    MaxTime,     \* bound: instants an event may carry
    MaxBatch,    \* bound: events the journal is initialized with
    MaxLines     \* bound: lines the file may reach

ASSUME JournalAssumption == /\ MaxTime \in Nat
                            /\ MaxBatch \in Nat \ {0}
                            /\ MaxLines \in Nat

VARIABLES
    exists,      \* the file is there
    lines,       \* its terminated lines
    tail,        \* what follows the last newline
    step,        \* what each writer is doing
    batch,       \* the events each writer wants in the journal
    acked,       \* history: events a writer was told are in the journal
    calm         \* history: no write was cut, no two checked writers overlapped

journalVars == <<exists, lines, tail, step, batch, acked, calm>>

(* An event determines its hash; the hash of an event is written here as   *)
(* the stamps of the events up to it, which no two chains share.           *)
Stamp == [seq : Nat, at : Nat, output : Outputs]
Event == [seq : Nat \ {0}, at : Nat, output : Outputs, prev : Seq(Stamp)]
GenesisHash == <<>>
EventHash(e) ==
    Append(e.prev, [seq |-> e.seq, at |-> e.at, output |-> e.output])

(* A line of the file is the sequence of what was written on it: one event *)
(* when all is well, several when an unterminated line was appended to.    *)
(* A torn piece is no event: no event has sequence 0.                      *)
Torn == [seq |-> 0]
Piece == Event \cup {Torn}
Line == Seq(Piece)

HeadHash(chain) ==
    IF chain = <<>> THEN GenesisHash ELSE EventHash(chain[Len(chain)])

\* verify_audit_chain: sequence, hash of the previous event, order of time.
VerifyAuditChain(chain) ==
    \A i \in DOMAIN chain :
        /\ chain[i].seq = i
        /\ chain[i].prev = HeadHash(SubSeq(chain, 1, i - 1))
        /\ i > 1 => chain[i].at >= chain[i - 1].at

\* append_audit_event: the event that may follow a chain.
NextEvent(chain, at, output) ==
    [seq |-> Len(chain) + 1, at |-> at, output |-> output, prev |-> HeadHash(chain)]
MayFollow(chain, at) ==
    /\ VerifyAuditChain(chain)
    /\ chain # <<>> => at >= chain[Len(chain)].at

-----------------------------------------------------------------------------
\* read_audit_journal
FileLines == IF tail = <<>> THEN lines ELSE Append(lines, tail)

(* Seeded fault: what follows the first event of a line is not noticed.    *)
ParsesFirst(line) == Len(line) >= 1 /\ line[1].seq # 0

Parses(line) == Len(line) = 1 /\ line[1].seq # 0
Chain == [i \in DOMAIN FileLines |-> FileLines[i][1]]
Readable ==
    /\ exists
    /\ FileLines # <<>>
    /\ \A i \in DOMAIN FileLines : Parses(FileLines[i])
    /\ VerifyAuditChain(Chain)

JournalInit ==
    /\ exists = FALSE
    /\ lines = <<>>
    /\ tail = <<>>
    /\ step = [w \in Writers |-> "idle"]
    /\ batch = [w \in Writers |-> <<>>]
    /\ acked = {}
    /\ calm = TRUE

\* A caller builds one event on the journal it reads, or a chain of its own
\* to initialize a journal with, one event after the other.
BuildEvent(w) ==
    /\ step[w] = "idle"
    /\ \E at \in 0..MaxTime, output \in Outputs :
          \/ /\ batch[w] = <<>>
             /\ Readable
             /\ Len(FileLines) < MaxLines
             /\ MayFollow(Chain, at)
             /\ batch' = [batch EXCEPT ![w] = <<NextEvent(Chain, at, output)>>]
          \/ /\ ~exists
             /\ Len(batch[w]) < MaxBatch
             /\ MayFollow(batch[w], at)
             /\ batch' = [batch EXCEPT ![w] = Append(@, NextEvent(@, at, output))]
    /\ UNCHANGED <<exists, lines, tail, step, acked, calm>>

\* initialize_audit_journal up to the exclusive creation of the file; where
\* the file exists the call is refused and the caller gives its chain up.
CreateFile(w) ==
    /\ step[w] = "idle"
    /\ batch[w] # <<>>
    /\ VerifyAuditChain(batch[w])
    /\ ~exists
    /\ exists' = TRUE
    /\ step' = [step EXCEPT ![w] = "creating"]
    /\ UNCHANGED <<lines, tail, batch, acked, calm>>

RefuseBatch(w) ==
    /\ step[w] = "idle"
    /\ batch[w] # <<>>
    /\ exists
    /\ batch' = [batch EXCEPT ![w] = <<>>]
    /\ UNCHANGED <<exists, lines, tail, step, acked, calm>>

\* append_audit_journal up to the write.  A journal that does not read back,
\* or an event that does not follow it, is BLOCKED: see RefuseBatch.
SuppressDuplicate(w) ==
    /\ step[w] = "idle"
    /\ Len(batch[w]) = 1
    /\ Readable
    /\ EventHash(batch[w][1]) = HeadHash(Chain)
    /\ acked' = acked \cup {batch[w][1]}
    /\ batch' = [batch EXCEPT ![w] = <<>>]
    /\ UNCHANGED <<exists, lines, tail, step, calm>>

Follows(b) == VerifyAuditChain(Chain \o b)

CheckChain(w) ==
    /\ step[w] = "idle"
    /\ Len(batch[w]) = 1
    /\ Readable
    /\ EventHash(batch[w][1]) # HeadHash(Chain)
    /\ Follows(batch[w])
    /\ step' = [step EXCEPT ![w] = "appending"]
    /\ calm' = (calm /\ \A v \in Writers : step[v] = "idle")
    /\ UNCHANGED <<exists, lines, tail, batch, acked>>

(* The file after the first n events of a batch were written with their    *)
(* newlines: the first one ends the unterminated line, if there is one.    *)
Written(b, n) ==
    IF n = 0 THEN lines
    ELSE lines \o [i \in 1..n |-> IF i = 1 THEN tail \o <<b[1]>> ELSE <<b[i]>>]

WriteLines(w) ==
    /\ step[w] # "idle"
    /\ lines' = Written(batch[w], Len(batch[w]))
    /\ tail' = <<>>
    /\ acked' = acked \cup {batch[w][i] : i \in DOMAIN batch[w]}
    /\ step' = [step EXCEPT ![w] = "idle"]
    /\ batch' = [batch EXCEPT ![w] = <<>>]
    /\ UNCHANGED <<exists, calm>>

\* The write is cut, by an OSError or a crash: some whole lines, then a part
\* of the next one, or all of it but the newline.  The caller may retry.
WriteLinesCut(w) ==
    /\ step[w] # "idle"
    /\ \E n \in 0..Len(batch[w]) :
          /\ lines' = Written(batch[w], n)
          /\ \E cut \in {<<>>, <<Torn>>}
                        \cup (IF n < Len(batch[w]) THEN {<<batch[w][n + 1]>>} ELSE {}) :
                tail' = (IF n = 0 THEN tail ELSE <<>>)
                        \o (IF n < Len(batch[w]) THEN cut ELSE <<>>)
    /\ step' = [step EXCEPT ![w] = "idle"]
    /\ calm' = FALSE
    /\ UNCHANGED <<exists, batch, acked>>

WriterStep(w) ==
    \/ BuildEvent(w) \/ CreateFile(w) \/ RefuseBatch(w) \/ SuppressDuplicate(w) \/ CheckChain(w)
    \/ WriteLines(w) \/ WriteLinesCut(w)

JournalNext == \E w \in Writers : WriterStep(w)

JournalSpec == JournalInit /\ [][JournalNext]_journalVars

-----------------------------------------------------------------------------
JournalTypeOK ==
    /\ exists \in BOOLEAN
    /\ lines \in Seq(Line)
    /\ tail \in Line
    /\ step \in [Writers -> {"idle", "creating", "appending"}]
    /\ batch \in [Writers -> Seq(Event)]
    /\ acked \in SUBSET Event
    /\ calm \in BOOLEAN

\* audit_store.py is "fail-closed": whatever was cut, and however many writers
\* overlapped, a read that succeeds returns every event a writer was told is
\* in the journal, each at the place its sequence number names.
ReadsHonest ==
    Readable => \A e \in acked : e.seq \in DOMAIN Chain /\ Chain[e.seq] = e

\* As long as no write was cut and the calls of append_audit_journal did not
\* overlap, a journal that was initialized reads back: APPENDED means readable.
JournalReadable ==
    calm /\ exists /\ (\A w \in Writers : step[w] # "creating") => Readable

\* A read never tells less than what was acknowledged, and fails only after a
\* write that was cut or calls that overlapped.
JournalSound == ReadsHonest /\ JournalReadable
=============================================================================
