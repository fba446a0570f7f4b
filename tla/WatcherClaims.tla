------------------------------ MODULE WatcherClaims ------------------------------
(***************************************************************************)
(* What the file watcher does with the changes of one local path:          *)
(* fileWatcher.ts queues and dispatches them, watcherSuppression.ts claims *)
(* what downloads write, and fileActivityMonitor.ts what the editor saves  *)
(* or renames.  The operating system reports changes late and merged.      *)
(***************************************************************************)
EXTENDS Naturals, FiniteSets

CONSTANTS Download, Edit, None,
  MaxStart  \* bound: watchers and downloads together

VARIABLES
  file,       \* whose content the file has: a download's, an edit's, or none
  watched,    \* whether the path has a watcher, and how many it had
  claim,      \* the download whose claim is in the table
  prior,      \* the claim a download found there
  version,    \* what a claim resolved to: "open" as long as it has not
  stage,      \* what a download does next
  events,     \* changes not yet reported
  queued,     \* the queues of the watcher
  drain,      \* the upload being decided: the claim it awaits and what it read
  held,       \* whether a save, a rename or an open conflict has the path
  sent,       \* the contents the watcher has uploaded
  excused,    \* the edits that a save, a rename or a conflict answers for
  released    \* the downloads whose claims went with a watcher

vars == <<file, watched, claim, prior, version, stage, events, queued, drain, held,
          sent, excused, released>>
commits == <<prior, version, stage>>
queues == <<events, queued, drain>>
marks == <<held, sent, excused, released>>

Contents == Download \union Edit \union {None}
Resting == [at |-> "rest", awaits |-> None, read |-> None]

TypeOK ==
  /\ file \in Contents /\ watched \in [on : BOOLEAN, count : 1..MaxStart]
  /\ claim \in Download \union {None} /\ prior \in [Download -> Download \union {None}]
  /\ version \in [Download -> Download \union {None, "open"}]
  /\ stage \in [Download -> {"new", "wait", "rename", "done"}]
  /\ events \subseteq {"change", "delete"} /\ queued \subseteq {"upload", "delete"}
  /\ drain \in [at : {"rest", "claim", "read", "compare"},
                awaits : Download \union {None}, read : Contents]
  /\ held \in BOOLEAN
  /\ sent \subseteq Download \union Edit /\ excused \subseteq Edit /\ released \subseteq Download

Init ==
  /\ file = None /\ watched = [on |-> TRUE, count |-> 1] /\ claim = None
  /\ prior = [d \in Download |-> None] /\ version = [d \in Download |-> "open"]
  /\ stage = [d \in Download |-> "new"]
  /\ events = {} /\ queued = {} /\ drain = Resting
  /\ held = FALSE /\ sent = {} /\ excused = {} /\ released = {}

\* The watcher leaves the edit that is in the file to somebody else.
Excuse == excused' = excused \union (Edit \intersect {file})
Set(d, s) == stage' = [stage EXCEPT ![d] = s]
MayStart == watched.count + Cardinality({d \in Download : stage[d] # "new"}) < MaxStart

-------------------------------------------------------------------------------
\* commitDownloadVersion: the claim is in the table before the file is there.
Claim(d) ==
  /\ stage[d] = "new" /\ watched.on /\ MayStart
  /\ claim' = d /\ prior' = [prior EXCEPT ![d] = claim] /\ Set(d, "wait")
  /\ UNCHANGED <<file, watched, version, queues, marks>>

\* It waits for the claim it found; then the staged file is fingerprinted.
Turn(d) ==
  /\ stage[d] = "wait" /\ (prior[d] # None => version[prior[d]] # "open")
  /\ Set(d, "rename")
  /\ UNCHANGED <<file, watched, claim, prior, version, queues, marks>>

\* Renamed, the claim resolves to the new content; failed, to what the one before had,
\* and goes if that was nothing.
\* Mutant: it resolves to whatever is in the file.
BeforeOnDisk(d) == file
Before(d) == IF prior[d] = None THEN None ELSE version[prior[d]]
Commit(d) ==
  /\ stage[d] = "rename" /\ Set(d, "done")
  /\ file' = d /\ events' = events \union {"change"}
  /\ version' = [version EXCEPT ![d] = d]
  /\ UNCHANGED <<watched, claim, prior, queued, drain, marks>>

FailCommit(d) ==
  /\ stage[d] = "rename" /\ Set(d, "done")
  /\ version' = [version EXCEPT ![d] = Before(d)]
  /\ claim' = IF Before(d) = None /\ claim = d THEN None ELSE claim
  /\ UNCHANGED <<file, watched, prior, queues, marks>>

\* A download to a path without a watcher claims nothing.
Write(d) ==
  /\ stage[d] = "new" /\ ~watched.on /\ MayStart /\ Set(d, "done")
  /\ file' = d /\ released' = released \union {d}
  /\ UNCHANGED <<watched, claim, prior, version, queues, held, sent, excused>>

\* sweepDownloadedPaths forgets the claim of a file that is gone.
Sweep ==
  /\ claim # None /\ version[claim] # "open" /\ file = None /\ claim' = None
  /\ UNCHANGED <<file, watched, commits, queues, marks>>

-------------------------------------------------------------------------------
\* The user, other programs and the editor.

\* Bound: every edit happens once.
Change(e) ==
  /\ file # e /\ e \notin sent \union excused
  /\ file' = e /\ events' = events \union {"change"}
  /\ excused' = IF watched.on THEN excused ELSE excused \union {e}
  /\ UNCHANGED <<watched, claim, commits, queued, drain, held, sent, released>>

\* suppressWatcherForSave: with uploadOnSave the save uploads the file itself.
Save(e) ==
  /\ file # e /\ e \notin sent \union excused
  /\ file' = e /\ events' = events \union {"change"}
  /\ held' = TRUE /\ excused' = excused \union {e}
  /\ UNCHANGED <<watched, claim, commits, queued, drain, sent, released>>

Delete ==
  /\ file # None /\ file' = None /\ events' = events \union {"delete"}
  /\ UNCHANGED <<watched, claim, commits, queued, drain, marks>>

\* suppressWatcherForRename claims both paths, and time or handleFileRename gives them
\* back; a conflict opens and ends.
Hold == /\ held' = ~held
        /\ UNCHANGED <<file, watched, claim, commits, queues, sent, excused, released>>

\* createWatcher removes the old watcher first; dispose only that.
RemoveWatcher ==
  /\ watched.on /\ watched' = [watched EXCEPT !.on = FALSE]
  /\ claim' = None /\ queued' = {}
  /\ released' = released \union {d \in Download : stage[d] # "new"}
  /\ Excuse
  /\ UNCHANGED <<file, commits, events, drain, held, sent>>
CreateWatcher ==
  /\ ~watched.on /\ MayStart
  /\ watched' = [on |-> TRUE, count |-> watched.count + 1]
  /\ UNCHANGED <<file, claim, commits, queues, marks>>

-------------------------------------------------------------------------------
\* The handlers of the watcher.

\* uploadHandler.
ReportChange ==
  /\ "change" \in events /\ events' = events \ {"change"}
  /\ IF held
       THEN Excuse /\ UNCHANGED queued
       ELSE /\ queued' = IF watched.on THEN queued \union {"upload"} ELSE queued
            /\ UNCHANGED excused
  /\ UNCHANGED <<file, watched, claim, commits, drain, held, sent, released>>

ReportDelete ==
  /\ "delete" \in events /\ events' = events \ {"delete"}
  /\ queued' = IF watched.on /\ ~held THEN queued \union {"delete"} ELSE queued
  /\ UNCHANGED <<file, watched, claim, commits, drain, marks>>

\* drainUploads takes the path out of the queue and looks at it once more.
Take ==
  /\ "upload" \in queued /\ drain = Resting /\ queued' = queued \ {"upload"}
  /\ IF watched.on /\ ~held /\ file # None
       THEN drain' = [Resting EXCEPT !.at = "claim"] /\ UNCHANGED excused
       ELSE Excuse /\ UNCHANGED drain
  /\ UNCHANGED <<file, watched, claim, commits, events, held, sent, released>>

\* The last look before an upload is dispatched.
Dispatch ==
  /\ drain' = Resting
  /\ IF watched.on /\ ~held
       THEN sent' = sent \union ({file} \ {None}) /\ UNCHANGED excused
       ELSE Excuse /\ UNCHANGED sent

\* isDownloadWatcherSuppressed: without a claim the change is the user's.
LookUp ==
  /\ drain.at = "claim"
  /\ IF claim = None THEN Dispatch
       ELSE /\ drain' = [Resting EXCEPT !.at = "read", !.awaits = claim]
            /\ UNCHANGED <<sent, excused>>
  /\ UNCHANGED <<file, watched, claim, commits, events, queued, held, released>>

Read ==
  /\ drain.at = "read" /\ version[drain.awaits] # "open"
  /\ drain' = [drain EXCEPT !.at = "compare", !.read = file]
  /\ UNCHANGED <<file, watched, claim, commits, events, queued, marks>>

\* A claim that was replaced meanwhile starts it over; one that tells the file's
\* content ends it; any other is dropped.
Fresh == claim = drain.awaits
\* Mutant: a claim covers whatever is in the file.
ToldAnyway == Fresh /\ drain.read # None
Told == Fresh /\ drain.read # None /\ version[claim] = drain.read
\* Mutant: nothing is started over.
CompareOnce ==
  /\ drain.at = "compare"
  /\ claim' = IF Fresh /\ ~Told THEN None ELSE claim
  /\ IF Told THEN drain' = Resting /\ UNCHANGED <<sent, excused>> ELSE Dispatch
  /\ UNCHANGED <<file, watched, commits, events, queued, held, released>>
Compare ==
  /\ drain.at = "compare"
  /\ claim' = IF Fresh /\ ~Told THEN None ELSE claim
  /\ CASE Told -> drain' = Resting /\ UNCHANGED <<sent, excused>>
       [] ~Fresh /\ claim # None -> /\ drain' = [Resting EXCEPT !.at = "claim"]
                                    /\ UNCHANGED <<sent, excused>>
       [] OTHER -> Dispatch
  /\ UNCHANGED <<file, watched, commits, events, queued, held, released>>

\* drainDeletes: the claim of a file that is gone goes too, and the remote file is
\* removed.
TakeDelete ==
  /\ "delete" \in queued /\ (claim # None => version[claim] # "open")
  /\ queued' = queued \ {"delete"}
  /\ claim' = IF claim # None /\ version[claim] = file /\ file # None THEN claim ELSE None
  /\ UNCHANGED <<file, watched, commits, events, drain, marks>>

Committing(d) == Claim(d) \/ Turn(d) \/ Commit(d) \/ FailCommit(d) \/ Write(d)
Watching == \/ ReportChange \/ ReportDelete \/ Take \/ LookUp \/ Read \/ Compare
            \/ TakeDelete
Next == \/ \E d \in Download : Committing(d)
        \/ \E e \in Edit : Change(e) \/ Save(e)
        \/ Sweep \/ Delete \/ Hold
        \/ RemoveWatcher \/ CreateWatcher \/ Watching
\* Fairness: the operating system reports changes, the debounce timer fires and the
\* promises of the drain and of a running commit settle; each is at one step at a time.
Fairness == /\ WF_vars(ReportChange) /\ WF_vars(Take) /\ WF_vars(LookUp \/ Read \/ Compare)
            /\ \A d \in Download : WF_vars(Turn(d) \/ Commit(d) \/ FailCommit(d))
Spec == Init /\ [][Next]_vars /\ Fairness

-------------------------------------------------------------------------------
\* What a download wrote is not uploaded again, however late its change is reported and
\* however downloads, edits and decisions interleave, as long as its claim was not
\* released with the watcher.
NoEcho == sent \intersect Download \subseteq released

\* A change by another program is uploaded, unless the file changes again, the watcher
\* goes, or a save, a rename or a conflict has it.
EditUploaded ==
  \A e \in Edit : file = e ~> \/ e \in sent \union excused \/ file # e \/ ~watched.on
===============================================================================
