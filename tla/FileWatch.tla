------------------------------ MODULE FileWatch ------------------------------
(***************************************************************************)
(* fileprovider.File.Events (pkg/discovery/fileprovider/file.go): how a    *)
(* change of the configuration file reaches discovery.Service.Run.         *)
(*                                                                         *)
(* The watcher polls the file's modification time and offers an event to   *)
(* an unbuffered channel without blocking; a FanIn goroutine takes it and  *)
(* holds it until Run is at its select; Run then reads whatever the file   *)
(* contains by that time and installs it.  Time plays no other part than   *)
(* in the modification times: a poll may happen at any moment.             *)
(***************************************************************************)
EXTENDS Integers

CONSTANTS
  Delay,      \* File.Delay, in units of the modification time
  Steps,      \* how far a write may move the modification time
  MaxWrites   \* bound on the changes of the file

ASSUME FileWatchAssumption ==
  /\ Delay \in Nat
  /\ Steps \subseteq Int
  /\ MaxWrites \in Nat

NoTable == 0             \* what is served when nothing, or garbage, was loaded

VARIABLES
  file,       \* the file: exists, mtime, ver (its content) and valid (it parses)
  src,        \* the watcher: "start", "first", "watch" or "changed"
  modif,      \* the modification time it has read
  lastModif,  \* the one it last submitted: a set of one, or of none as long as
              \* it is the zero time, long before any modification
  holding,    \* the FanIn goroutine holds an event
  run,        \* Run: "select", "merge" or "install"
  loaded,     \* what mergeStates has read
  served      \* the version of the installed rules

vars == << file, src, modif, lastModif, holding, run, loaded, served >>

Init ==
  /\ file \in [exists : BOOLEAN, mtime : {0}, ver : {1}, valid : BOOLEAN]
  /\ src = "start"
  /\ modif = 0
  /\ lastModif = {}
  /\ holding = FALSE
  /\ run = "select"
  /\ loaded = NoTable
  /\ served = NoTable

-----------------------------------------------------------------------------
(* The file: written anew (also after it was removed), or removed.  A write  *)
(* that is seen half done is one that does not parse.                        *)

Write(d, valid) ==
  /\ file.ver <= MaxWrites
  /\ file' = [exists |-> TRUE, mtime |-> file.mtime + d, ver |-> file.ver + 1,
              valid |-> valid]
  /\ UNCHANGED << src, modif, lastModif, holding, run, loaded, served >>

Remove ==
  /\ file.exists
  /\ file' = [file EXCEPT !.exists = FALSE]
  /\ UNCHANGED << src, modif, lastModif, holding, run, loaded, served >>

-----------------------------------------------------------------------------
(* The watcher goroutine.                                                    *)

(* "parse for the first time": remember the time, go and send an event. *)
Start ==
  /\ src = "start"
  /\ IF file.exists THEN src' = "first" /\ modif' = file.mtime
                    ELSE src' = "watch" /\ modif' = modif
  /\ UNCHANGED << file, lastModif, holding, run, loaded, served >>

(* The first event is sent with a blocking send. *)
FirstSend ==
  /\ src = "first"
  /\ ~holding
  /\ holding' = TRUE
  /\ lastModif' = {modif}
  /\ src' = "watch"
  /\ UNCHANGED << file, modif, run, loaded, served >>

\* Mutant: a change that is exactly Delay away is taken for no change.
ChangedBeyond(m) == \A t \in lastModif : m # t /\ m - t > Delay

(* Which modification time counts as a change. *)
Changed(m) == \A t \in lastModif : m # t /\ m - t >= Delay

(* A tick on which the file is there and has changed; other ticks leave only *)
(* a `modif` that the next one overwrites.                                   *)
Poll ==
  /\ src = "watch"
  /\ file.exists
  /\ Changed(file.mtime)
  /\ modif' = file.mtime
  /\ src' = "changed"
  /\ UNCHANGED << file, lastModif, holding, run, loaded, served >>

\* Mutant: the modification time is not remembered.
SubmitForgetting ==
  /\ src = "changed"
  /\ ~holding
  /\ src' = "watch"
  /\ holding' = TRUE
  /\ UNCHANGED << file, modif, lastModif, run, loaded, served >>

(* trySubmit: the event is taken if the FanIn goroutine is receiving... *)
Submit ==
  /\ src = "changed"
  /\ ~holding
  /\ src' = "watch"
  /\ holding' = TRUE
  /\ lastModif' = {modif}
  /\ UNCHANGED << file, modif, run, loaded, served >>

\* Mutant: the modification time is remembered all the same.
SubmitMissedLossy ==
  /\ src = "changed"
  /\ src' = "watch"
  /\ lastModif' = {modif}
  /\ UNCHANGED << file, modif, holding, run, loaded, served >>

(* ...else, when that goroutine holds an event or is not back at its receive *)
(* yet, the change is left to a later tick.                                  *)
SubmitMissed ==
  /\ src = "changed"
  /\ src' = "watch"
  /\ UNCHANGED << file, modif, lastModif, holding, run, loaded, served >>

-----------------------------------------------------------------------------
(* Service.Run, as far as one file provider and no StopOnError go.           *)

TakeEvent ==
  /\ run = "select"
  /\ holding
  /\ holding' = FALSE
  /\ run' = "merge"
  /\ UNCHANGED << file, src, modif, lastModif, loaded, served >>

(* What File.State makes of the file: a failure is logged and leaves the     *)
(* merged rules empty.                                                       *)
Content == IF file.exists /\ file.valid THEN file.ver ELSE NoTable

Load ==
  /\ run = "merge"
  /\ loaded' = Content
  /\ run' = "install"
  /\ UNCHANGED << file, src, modif, lastModif, holding, served >>

Install ==
  /\ run = "install"
  /\ served' = loaded
  /\ run' = "select"
  /\ UNCHANGED << file, src, modif, lastModif, holding, loaded >>

Watcher == Start \/ FirstSend \/ Poll \/ Submit \/ SubmitMissed
Run == TakeEvent \/ Load \/ Install

Next ==
  \/ \E d \in Steps, valid \in BOOLEAN : Write(d, valid)
  \/ Remove
  \/ Watcher
  \/ Run

Spec == Init /\ [][Next]_vars

(* The ticker keeps ticking and the goroutines run; nobody has to write.     *)
(* Strong fairness: a FanIn goroutine that has handed over its event soon    *)
(* receives again, long before as many ticks have found it too early.        *)
Fairness == WF_vars(Watcher) /\ WF_vars(Run) /\ SF_vars(Submit)

FairSpec == Spec /\ Fairness

-----------------------------------------------------------------------------
TypeOK ==
  /\ file \in [exists : BOOLEAN, mtime : Int, ver : Nat \ {0}, valid : BOOLEAN]
  /\ src \in {"start", "first", "watch", "changed"}
  /\ modif \in Int
  /\ lastModif \subseteq Int /\ \A t, u \in lastModif : t = u
  /\ holding \in BOOLEAN
  /\ run \in {"select", "merge", "install"}
  /\ loaded \in Nat /\ served \in Nat

(* When nothing is under way and the watcher takes the file for unchanged,   *)
(* the rules in use are those of the file as it is now (file.go 77-89).      *)
AtRest == src = "watch" /\ ~holding /\ run = "select"
UnchangedMeansServed ==
  (AtRest /\ file.exists /\ file.mtime \in lastModif) => served = Content

(* "The server will reload the configuration file if it changes"             *)
(* (README.md:169): a content that stays is served in the end.               *)
CatchesUp ==
  \A v \in 1..(MaxWrites + 1) :
    (file.exists /\ file.ver = v) ~>
      (served = Content \/ ~file.exists \/ file.ver # v)

(* A file that is no longer touched is not loaded for ever: every load dials *)
(* the upstreams anew and aborts the calls on the old ones.                  *)
ReloadsCease == <>[](~holding /\ run = "select")
=============================================================================
