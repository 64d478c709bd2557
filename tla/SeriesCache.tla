----------------------------- MODULE SeriesCache -----------------------------
(***************************************************************************)
(* fred_series_rows of hedge_desk/rates_desk.py: the observations of a     *)
(* series for the window that ends today, from a cache file of that window *)
(* or from the provider.  The nightly batch, the dashboard and the threads *)
(* of the server call it at the same time.  They write one temporary name  *)
(* per window, so that two of them may hold the same file open, and any of *)
(* them may die.  A file is the number of observations in it: a longer     *)
(* text written over a shorter one replaces it, a shorter one over a longer*)
(* leaves the end of the longer.                                           *)
(***************************************************************************)
EXTENDS Integers, Sequences, FiniteSets

CONSTANTS
    Callers,      \* processes and threads
    Attempts,     \* retries + 1
    MaxObserved,  \* bound: observations the provider publishes
    MaxDay,       \* bound: days, each the end of one window
    MaxFiles      \* bound: files created

ASSUME SeriesAssumption ==
    /\ {Attempts, MaxObserved, MaxFiles} \subseteq Nat \ {0}
    /\ MaxDay \in Nat

VARIABLES
    today,      \* date.today()
    observed,   \* external: the observations the provider has published
    files,      \* the files there are, by number, and what is in them
    names,      \* of each window, the files its two names lead to
    caller,     \* what each caller is doing
    opening,    \* history: how many observations each window began with
    fetched,    \* history: what the provider answered for each window
    unheard,    \* history: a caller was given what the provider never answered
    outdated    \* history: a caller was given less than its window began with

seriesVars == <<today, observed, files, names, caller, opening, fetched, unheard, outdated>>

Windows == 0..MaxDay
Missing == 0       \* no file of that name
Blank == 0         \* the content of a file just opened for writing
Garbled == -1      \* a text that is not JSON
Resting == [at |-> "resting", window |-> 0, attempt |-> 0, rows |-> 0, file |-> 0]

SeriesInit ==
    /\ today = 0
    /\ observed \in 0..1
    /\ files = <<>>
    /\ names = [w \in Windows |-> [cache |-> Missing, tmp |-> Missing]]
    /\ caller = [c \in Callers |-> Resting]
    /\ opening = [w \in Windows |-> IF w = 0 THEN observed ELSE 0]
    /\ fetched = [w \in Windows |-> {}]
    /\ unheard = FALSE /\ outdated = FALSE

-----------------------------------------------------------------------------
Return(c, rows) ==
    /\ caller' = [caller EXCEPT ![c] = Resting]
    /\ unheard' = (unheard \/ rows \notin fetched[caller[c].window])
    /\ outdated' = (outdated \/ rows < opening[caller[c].window])
Raise(c) ==
    /\ caller' = [caller EXCEPT ![c] = Resting]
    /\ UNCHANGED <<unheard, outdated>>
Go(c, next) ==
    /\ caller' = [caller EXCEPT ![c] = next]
    /\ UNCHANGED <<unheard, outdated>>

\* _lookback_dates: the window ends today
CallSeries(c) ==
    /\ caller[c].at = "resting"
    /\ Go(c, [Resting EXCEPT !.at = "looking", !.window = today])
    /\ UNCHANGED <<today, observed, files, names, opening, fetched>>

\* Seeded fault: what is in the cache is taken for a payload.
UsableAny(text) == text # Blank

\* json.loads and the fields of the payload
Usable(text) == text > 0

LookInCache(c) ==
    /\ caller[c].at = "looking"
    /\ LET file == names[caller[c].window].cache
       IN IF file # Missing /\ Usable(files[file])
          THEN Return(c, files[file])
          ELSE Go(c, [caller[c] EXCEPT !.at = "asking", !.attempt = 1])
    /\ UNCHANGED <<today, observed, files, names, opening, fetched>>

(* The command line tool of the skill, when it is installed, and then the  *)
(* transport: whatever goes wrong with it is tried again, an answer without*)
(* observations is not.                                                    *)
AskProvider(c) ==
    /\ caller[c].at = "asking"
    /\ \/ /\ observed > 0
          /\ fetched' = [fetched EXCEPT ![caller[c].window] = @ \cup {observed}]
          /\ Go(c, [caller[c] EXCEPT !.at = "opening", !.rows = observed])
       \/ observed = 0 /\ Raise(c) /\ UNCHANGED fetched
    /\ UNCHANGED <<today, observed, files, names, opening>>

AskInVain(c) ==
    /\ caller[c].at = "asking"
    /\ IF caller[c].attempt < Attempts
       THEN Go(c, [caller[c] EXCEPT !.attempt = @ + 1])
       ELSE Raise(c)
    /\ UNCHANGED <<today, observed, files, names, opening, fetched>>

(* The store: open for writing truncates what another caller has written   *)
(* under the name, the text is written when the file is closed, and the    *)
(* replacement takes whatever the name leads to.  An OSError is passed over*)
(* and the observations returned all the same.                             *)
OpenTmp(c) ==
    /\ caller[c].at = "opening"
    /\ LET w == caller[c].window
           tmp == names[w].tmp
       IN IF tmp # Missing
          THEN /\ files' = [files EXCEPT ![tmp] = Blank]
               /\ Go(c, [caller[c] EXCEPT !.at = "writing", !.file = tmp])
               /\ UNCHANGED names
          ELSE /\ Len(files) < MaxFiles
               /\ files' = Append(files, Blank)
               /\ names' = [names EXCEPT ![w].tmp = Len(files) + 1]
               /\ Go(c, [caller[c] EXCEPT !.at = "writing", !.file = Len(files) + 1])
    /\ UNCHANGED <<today, observed, opening, fetched>>

Over(text, rows) ==
    CASE text \in {Blank} \cup 1..rows -> {rows}
      [] text > rows                   -> {Garbled}
      [] text = Garbled                -> {Garbled, rows}

WriteTmp(c) ==
    /\ caller[c].at = "writing"
    /\ \E text \in Over(files[caller[c].file], caller[c].rows) :
          files' = [files EXCEPT ![caller[c].file] = text]
    /\ Go(c, [caller[c] EXCEPT !.at = "replacing"])
    /\ UNCHANGED <<today, observed, names, opening, fetched>>

ReplaceCache(c) ==
    /\ caller[c].at = "replacing"
    /\ LET w == caller[c].window
       IN names' = IF names[w].tmp = Missing THEN names
                   ELSE [names EXCEPT ![w] = [cache |-> names[w].tmp, tmp |-> Missing]]
    /\ Return(c, caller[c].rows)
    /\ UNCHANGED <<today, observed, files, opening, fetched>>

StoreFails(c) ==
    /\ caller[c].at \in {"opening", "writing", "replacing"}
    /\ files' \in {files} \cup (IF caller[c].at = "writing"
                                THEN {[files EXCEPT ![caller[c].file] = Garbled]} ELSE {})
    /\ Return(c, caller[c].rows)
    /\ UNCHANGED <<today, observed, names, opening, fetched>>

\* The process ends, with what it had written in part.
Die(c) ==
    /\ caller[c].at # "resting"
    /\ files' \in {files} \cup (IF caller[c].at = "writing"
                                THEN {[files EXCEPT ![caller[c].file] = Garbled]} ELSE {})
    /\ Raise(c)
    /\ UNCHANGED <<today, observed, names, opening, fetched>>

ProviderAdds ==
    /\ observed < MaxObserved
    /\ observed' = observed + 1
    /\ UNCHANGED <<today, files, names, caller, opening, fetched, unheard, outdated>>

Midnight ==
    /\ today < MaxDay
    /\ today' = today + 1
    /\ opening' = [opening EXCEPT ![today + 1] = observed]
    /\ UNCHANGED <<observed, files, names, caller, fetched, unheard, outdated>>

SeriesNext ==
    \/ ProviderAdds \/ Midnight
    \/ \E c \in Callers :
          \/ CallSeries(c) \/ LookInCache(c) \/ AskProvider(c) \/ AskInVain(c)
          \/ OpenTmp(c) \/ WriteTmp(c) \/ ReplaceCache(c) \/ StoreFails(c) \/ Die(c)

SeriesSpec == SeriesInit /\ [][SeriesNext]_seriesVars

-----------------------------------------------------------------------------
(* Whoever overlaps and dies in the store, a caller is given only what the *)
(* provider answered for its own window, whole ("a stale or missing cache  *)
(* is never silently served"), and never less than there was to know when  *)
(* the last day of the window began.                                       *)
SeriesKept == ~unheard /\ ~outdated
=============================================================================
