------------------------------ MODULE EodBatch ------------------------------
(***************************************************************************)
(* The end-of-day batch: a pool of workers fetches the last daily bars of  *)
(* every symbol, from Yahoo and, when Yahoo has none, from Stooq; the      *)
(* results are bound into one batch manifest, and whoever reads the        *)
(* serialized manifest later rebuilds it from its own rows before trusting *)
(* a READY.                                                                *)
(***************************************************************************)
EXTENDS Integers, FiniteSets

CONSTANTS
    Symbols,
    Workers,   \* threads of the pool
    Cutoff,    \* the date of the decision cutoff
    LatestBar  \* a source may even answer with bars past the cutoff

ASSUME EodConstants ==
    Workers \in Nat \ {0} /\ Cutoff \in Nat /\ LatestBar \in Nat

VARIABLES
    fetch,     \* [Symbols -> stage of the fetch, or its result]
    manifest,  \* NoManifest, or the batch manifest
    paper      \* NoManifest, or the serialized manifest as a reader finds it
eodVars == <<fetch, manifest, paper>>

NoManifest == [status |-> "NONE"]
Dates == 0..LatestBar

FetchStage(s) == [stage |-> s]
FetchResult(status, last) == [stage |-> "DONE", status |-> status, last |-> last]
Running == {s \in Symbols : fetch[s].stage \in {"PRIMARY", "FALLBACK"}}

EodInit ==
    /\ fetch = [s \in Symbols |-> FetchStage("QUEUED")]
    /\ manifest = NoManifest /\ paper = NoManifest

StartFetch(s) ==
    /\ fetch[s].stage = "QUEUED" /\ Cardinality(Running) < Workers
    /\ fetch' = [fetch EXCEPT ![s] = FetchStage("PRIMARY")]
    /\ UNCHANGED <<manifest, paper>>

(* Seeded fault: bars after the decision cutoff are taken.                 *)
JudgedAnyDay(last) == FetchResult("PASS", last)

(* Bars were found: they count unless the last is after the cutoff.        *)
Judged(last) ==
    IF last > Cutoff THEN FetchResult("REJECT", -1) ELSE FetchResult("PASS", last)

(* Yahoo answers with bars, with another symbol's bars, or not usefully.   *)
AskYahoo(s) ==
    /\ fetch[s].stage = "PRIMARY"
    /\ \/ \E last \in Dates : fetch' = [fetch EXCEPT ![s] = Judged(last)]
       \/ fetch' = [fetch EXCEPT ![s] = FetchResult("REJECT", -1)]
       \/ fetch' = [fetch EXCEPT ![s] = FetchStage("FALLBACK")]
    /\ UNCHANGED <<manifest, paper>>

AskStooq(s) ==
    /\ fetch[s].stage = "FALLBACK"
    /\ \/ \E last \in Dates : fetch' = [fetch EXCEPT ![s] = Judged(last)]
       \/ fetch' = [fetch EXCEPT ![s] = FetchResult("QUARANTINE", -1)]
    /\ UNCHANGED <<manifest, paper>>

-----------------------------------------------------------------------------
(* What the manifest says of one source.  Only bars have a content hash; a *)
(* quarantined or rejected symbol carries sixty-four zeros.                *)
SourceRow(s) ==
    [ source |-> s, status |-> fetch[s].status,
      hashed |-> fetch[s].status = "PASS",
      reasons |-> fetch[s].status # "PASS" ]

(* The first condition that holds names the batch.                         *)
BatchStatus(required, rows) ==
    LET sources == {r.source : r \in rows}
    IN IF \E r \in rows : ~r.hashed THEN "REJECTED"
       ELSE IF \/ \E r \in rows : r.status = "PASS" /\ r.reasons
               \/ ~(sources \subseteq required)
            THEN "REJECTED"
       ELSE IF \E r \in rows : r.status = "REJECT" THEN "REJECTED"
       ELSE IF \E r \in rows : r.status = "QUARANTINE" THEN "QUARANTINED"
       ELSE IF ~(required \subseteq sources) THEN "INCOMPLETE"
       ELSE "READY_FOR_RESEARCH"

(* The hash covers every other field of the manifest.                      *)
Manifest(required, rows) ==
    LET body == [ status |-> BatchStatus(required, rows),
                  required |-> required, rows |-> rows ]
    IN [ status |-> body.status, required |-> required, rows |-> rows,
         hash |-> body ]

(* The pool has answered for every symbol.                                 *)
BuildManifest ==
    /\ manifest = NoManifest
    /\ \A s \in Symbols : fetch[s].stage = "DONE"
    /\ manifest' = Manifest(Symbols, {SourceRow(s) : s \in Symbols})
    /\ paper' = manifest'
    /\ UNCHANGED fetch

(* A stored manifest comes back with one change: its status, a required    *)
(* source or a row dropped, or a row's status; its hash is left as it was  *)
(* or made to fit.                                                         *)
AlteredManifests(m) ==
    {[m EXCEPT !.status = v] :
        v \in {"READY_FOR_RESEARCH", "INCOMPLETE", "QUARANTINED", "REJECTED"}}
    \cup {[m EXCEPT !.required = @ \ {s}] : s \in Symbols}
    \cup {[m EXCEPT !.rows = @ \ {r}] : r \in m.rows}
    \cup {[m EXCEPT !.rows = (@ \ {r}) \cup {[r EXCEPT !.status = v]}] :
             r \in m.rows, v \in {"PASS", "QUARANTINE"}}

Rehashed(m) ==
    [m EXCEPT !.hash = [status |-> m.status, required |-> m.required,
                        rows |-> m.rows]]

AlterStored ==
    /\ manifest # NoManifest /\ paper = manifest
    /\ \E m \in AlteredManifests(paper) : paper' \in {m, Rehashed(m)}
    /\ UNCHANGED <<fetch, manifest>>

(* The reader rebuilds the manifest from its own required sources and rows *)
(* and wants every field back as it found it.                              *)
AcceptedManifest(m) ==
    /\ m # NoManifest
    /\ m.required # {}
    /\ m = Manifest(m.required, m.rows)

EodNext ==
    \/ \E s \in Symbols : StartFetch(s) \/ AskYahoo(s) \/ AskStooq(s)
    \/ BuildManifest \/ AlterStored

EodSpec == EodInit /\ [][EodNext]_eodVars

-----------------------------------------------------------------------------
(* A batch is READY, and a stored manifest is believed to be READY, only   *)
(* when every symbol of the watchlist was answered with bars of its own up *)
(* to the cutoff, whichever source served it, however the workers finished *)
(* and although the stored manifest's status, one required source, one row *)
(* or one row's status was changed (eod_ingest.py:208-300,                 *)
(* batch.py:71-207).                                                       *)
ReadyIsComplete ==
    (AcceptedManifest(paper) /\ paper.status = "READY_FOR_RESEARCH") =>
        \A s \in Symbols :
            fetch[s].status = "PASS" /\ fetch[s].last <= Cutoff
=============================================================================
