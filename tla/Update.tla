------------------------------- MODULE Update -------------------------------
(***************************************************************************)
(* A station that updates itself (update.rs install, restart.rs,           *)
(* web/software.rs, update_cli.rs).  The update panel of `wcr web` or a    *)
(* `wcr update` in a terminal moves the installed program aside, puts the  *)
(* new one in place and leaves a note; the running process restarts on it  *)
(* once the radio is idle.  As it starts, the new version reads the note:  *)
(* it is on probation, and puts the old one back if it keeps dying.  One   *)
(* program file stands for those of a release.                             *)
(***************************************************************************)
EXTENDS Naturals

CONSTANTS
  Last,       \* versions 1..Last; 1 is installed at first
  Broken,     \* versions that cannot even say their version here
  Bad,        \* versions that die, or whose station dies, within PROBATION
  MaxStarts,  \* MAX_STARTS
  MaxFault,   \* power cuts during an update, and file operations that fail
  Patient     \* one updates only while a good version runs, and no update is
              \* under way, pending or on probation

ASSUME UpdateAssumption ==
  /\ Last \in Nat \ {0} /\ MaxStarts \in Nat \ {0} /\ MaxFault \in Nat
  /\ Broken \cup Bad \subseteq 2..Last /\ Patient \in BOOLEAN

Version == 1..Last
None == 0
Actor == {"web", "cli"}

VARIABLES
  wcr, bak,   \* the installed program and its backup: a version, or None
  latest,     \* the newest release
  marker,     \* wcr-update.json
  process,    \* `wcr web`: the version it runs, None while down, and whether
              \* it watches its probation
  job,        \* each actor's install or restart: its step, from and to
  proven,     \* versions that stayed up, or were kept by an operator's restart
  started,    \* starts of unproven versions since the last note, ghost
  torn,       \* program, backup and note were left not to go together, ghost
  faults

vars == <<wcr, bak, latest, marker, process, job, proven, started, torn, faults>>
files == <<wcr, bak>>

NoJob == [at |-> "idle", from |-> None, to |-> None]
NoNote == [phase |-> "none", from |-> None, to |-> None, starts |-> 0]
Down == [runs |-> None, watch |-> FALSE]

Note == [phase : {"none", "pending", "done", "rolled_back"},
         from : 0..Last, to : 0..Last, starts : Nat]
Process == [runs : 0..Last, watch : BOOLEAN]
Job == [at : {"idle", "move", "put", "try", "note", "quiet", "stop"}, from : 0..Last, to : 0..Last]

UpdateTypeOK ==
  /\ {wcr, bak} \subseteq Version \cup {None} /\ latest \in Version
  /\ marker \in Note /\ process \in Process /\ job \in [Actor -> Job]
  /\ proven \subseteq Version /\ started \in 0..MaxStarts + 2
  /\ marker.starts <= MaxStarts + 1 + faults /\ torn \in BOOLEAN /\ faults \in 0..MaxFault

UpdateInit ==
  /\ wcr = 1 /\ bak = None /\ latest = 1 /\ marker = NoNote
  /\ process = [runs |-> 1, watch |-> FALSE]
  /\ job = [a \in Actor |-> NoJob] /\ proven = {1}
  /\ started = 0 /\ torn = FALSE /\ faults = 0

Step(a, at) == job' = [job EXCEPT ![a].at = at]
Ends(a) == job' = [job EXCEPT ![a] = NoJob]
Fault == faults < MaxFault /\ faults' = faults + 1
Pending == marker.phase = "pending"

\* A note that cannot be written stays as it was, or is lost (Marker::save).
Unsaved(old) == Fault /\ marker' \in {old, NoNote}
Save(new) == (marker' = new /\ UNCHANGED faults) \/ Unsaved(marker)

-----------------------------------------------------------------------------
Release ==
  /\ latest < Last /\ latest' = latest + 1
  /\ UNCHANGED <<files, marker, process, job, proven, started, torn, faults>>

AllIdle == \A a \in Actor : job[a].at = "idle"
Calm == Patient => ~Pending /\ AllIdle /\ process.runs \in Version \ Bad /\ ~process.watch

\* install, for a release newer than the program that asks: the running one,
\* or in a terminal the installed one.
Press(a) ==
  LET current == IF a = "web" THEN process.runs ELSE wcr IN
  /\ job[a].at = "idle" /\ current \in Version \ Broken /\ latest > current /\ Calm
  /\ job' = [job EXCEPT ![a] = [at |-> "move", from |-> current, to |-> latest]]
  /\ UNCHANGED <<files, latest, marker, process, proven, started, torn, faults>>

\* install_binary: the program becomes the backup, if there is one.
\* Mutant: an older backup is kept.
KeepBackup == bak' = IF bak = None THEN wcr ELSE bak
MakeBackup == bak' = IF wcr = None THEN bak ELSE wcr

\* What fails to move is overwritten.
MoveAside(a) ==
  /\ job[a].at = "move" /\ Step(a, "put")
  /\ \/ MakeBackup /\ wcr' = None /\ UNCHANGED <<torn, faults>>
     \/ wcr # None /\ Fault /\ torn' = TRUE /\ UNCHANGED files
  /\ UNCHANGED <<latest, marker, process, proven, started>>

\* A copy that fails ends the install; nothing is put back.
PutNew(a) ==
  /\ job[a].at = "put"
  /\ \/ wcr' = job[a].to /\ Step(a, "try") /\ UNCHANGED faults
     \/ Fault /\ wcr' \in {wcr, None} /\ Ends(a)
  /\ UNCHANGED <<bak, latest, marker, process, proven, started, torn>>

\* restore_files: the backup is put back; without one nothing is.
PutBack ==
  IF bak = None THEN UNCHANGED files ELSE wcr' = bak /\ bak' = None

\* new_binary_starts.  Mutant: the new program is not tried.
TakesAll(v) == TRUE
Starts(v) == v \notin Broken

TryNew(a) ==
  /\ job[a].at = "try"
  /\ \/ Starts(wcr) /\ Step(a, "note") /\ UNCHANGED <<files, torn, faults>>
     \/ ~Starts(wcr) /\ Ends(a) /\ PutBack /\ UNCHANGED <<torn, faults>>
     \/ ~Starts(wcr) /\ Ends(a) /\ Fault /\ torn' = TRUE /\ UNCHANGED files
  /\ UNCHANGED <<latest, marker, process, proven, started>>

\* Without its note the new version will have no probation.
WriteNote(a) ==
  /\ job[a].at = "note"
  /\ \/ /\ marker' = [phase |-> "pending", from |-> job[a].from, to |-> job[a].to, starts |-> 0]
        /\ Step(a, "quiet") /\ started' = 0 /\ UNCHANGED <<torn, faults>>
     \/ Unsaved(marker) /\ Ends(a) /\ torn' = TRUE /\ UNCHANGED started
  /\ UNCHANGED <<files, latest, process, proven>>

\* A terminal's restart is asked of the web process, which ignores it while
\* its panel is busy.
HangUp ==
  /\ job["cli"].at = "quiet"
  /\ job' = [job EXCEPT !["cli"] = NoJob,
       !["web"] = IF @.at = "idle" /\ process.runs # None THEN [NoJob EXCEPT !.at = "quiet"] ELSE @]
  /\ UNCHANGED <<files, latest, marker, process, proven, started, torn, faults>>

\* Restart to finish, `wcr restart`.
RestartNow ==
  /\ process.runs # None /\ job["web"].at = "idle" /\ (Patient => AllIdle)
  /\ Step("web", "quiet")
  /\ UNCHANGED <<files, latest, marker, process, proven, started, torn, faults>>

-----------------------------------------------------------------------------
\* A program starts (on_start), counting the start while on probation.
\* Mutant: the count is not kept.
CountsNone(n) == n
CountStart(n) == n + 1
\* Mutant: one start more than MAX_STARTS.
OneMore(n) == n > MaxStarts + 1
TooMany(n) == n > MaxStarts

Runs(v, watch) == process' = [runs |-> v, watch |-> watch] /\ UNCHANGED files

\* roll_back, on the note m: the old files are put back and run, unless that
\* fails, or there is no note to say which.
RollBack(v, m) ==
  LET rolled == [m EXCEPT !.phase = "rolled_back"] IN
  \/ /\ m.phase # "none" /\ PutBack /\ process' = Down
     /\ \/ marker' = rolled /\ UNCHANGED <<torn, faults>>
        \/ Unsaved(m) /\ torn' = TRUE
  \/ m.phase # "none" /\ Fault /\ marker' = rolled /\ Runs(v, FALSE) /\ UNCHANGED torn
  \/ m.phase = "none" /\ marker' = m /\ Runs(v, FALSE) /\ UNCHANGED <<torn, faults>>

\* Version v starts and finds the note.
StartOn(v) ==
  LET counted == [marker EXCEPT !.starts = CountStart(@)]
      mine == Pending /\ marker.to = v
  IN
  /\ started' = IF v \in proven \/ started > MaxStarts + 1 THEN started ELSE started + 1
  /\ \/ /\ mine /\ TooMany(counted.starts)
        /\ \/ RollBack(v, counted)
           \/ Fault /\ marker' = NoNote /\ Runs(v, FALSE) /\ UNCHANGED torn
     \/ mine /\ ~TooMany(counted.starts) /\ Save(counted) /\ Runs(v, TRUE) /\ UNCHANGED torn
     \/ ~mine /\ Runs(v, FALSE) /\ UNCHANGED <<marker, torn, faults>>

\* systemd, launchd or the operator starts what is installed.
Boot ==
  /\ process.runs = None /\ wcr \in Version \ Broken
  /\ UNCHANGED <<latest, job, proven>> /\ StartOn(wcr)

\* A bad version dies, and the panel's job with it.
Dies ==
  /\ process.runs \in Bad /\ process' = Down
  /\ job' = [job EXCEPT !["web"] = NoJob]
  /\ UNCHANGED <<files, latest, marker, proven, started, torn, faults>>

\* watch_probation: the version is kept, or its station did not stay up.
\* Mutant: it is kept whatever became of its station.
KeepsAny(v) == TRUE
StayedUp(v) == v \notin Bad

Keep ==
  /\ process.watch /\ StayedUp(process.runs)
  /\ IF Pending THEN Save([marker EXCEPT !.phase = "done"]) ELSE UNCHANGED <<marker, faults>>
  /\ process' = [process EXCEPT !.watch = FALSE]
  /\ proven' = proven \cup ({process.runs} \ Bad)
  /\ UNCHANGED <<files, latest, job, started, torn>>

\* The panel's job goes on where nothing could be put back.
GiveWay ==
  /\ process.watch /\ ~StayedUp(process.runs)
  /\ RollBack(process.runs, marker)
  /\ job' = IF process' = Down THEN [job EXCEPT !["web"] = NoJob] ELSE job
  /\ UNCHANGED <<latest, proven, started>>

\* Mutant: whatever the note is about is kept.
KeepsPending == Pending
\* confirm_before_deliberate_restart
KeepsRunning == Pending /\ marker.to = process.runs

\* safe_restart: the radio went quiet; the operator's restart keeps a version
\* on probation, and stops the station.
GoesQuiet ==
  /\ job["web"].at = "quiet" /\ Step("web", "stop")
  /\ IF KeepsRunning
     THEN Save([marker EXCEPT !.phase = "done"]) /\ proven' = proven \cup {process.runs}
     ELSE UNCHANGED <<marker, proven, faults>>
  /\ UNCHANGED <<files, latest, process, started, torn>>

\* The process becomes the installed program, if there is one.
Restart ==
  /\ job["web"].at = "stop" /\ Ends("web")
  /\ \/ wcr = None /\ UNCHANGED <<files, marker, process, started, torn, faults>>
     \/ wcr \in Broken /\ process' = Down /\ UNCHANGED <<files, marker, started, torn, faults>>
     \/ wcr \in Version \ Broken /\ StartOn(wcr)
  /\ UNCHANGED <<latest, proven>>

\* The radio stayed busy for IDLE_CAP.
GivesUp ==
  /\ job["web"].at = "quiet" /\ Ends("web")
  /\ UNCHANGED <<files, latest, marker, process, proven, started, torn, faults>>

\* The machine goes down in the middle of an update.
PowerCut ==
  /\ \E a \in Actor : job[a].at \in {"put", "try", "note"}
  /\ Fault /\ process' = Down /\ job' = [a \in Actor |-> NoJob]
  /\ UNCHANGED <<files, latest, marker, proven, started, torn>>

Installing(a) == MoveAside(a) \/ PutNew(a) \/ TryNew(a) \/ WriteNote(a)

UpdateNext ==
  \/ Release \/ RestartNow \/ HangUp \/ GivesUp \/ PowerCut
  \/ Boot \/ Dies \/ Keep \/ GiveWay \/ GoesQuiet \/ Restart
  \/ \E a \in Actor : Press(a) \/ Installing(a)

UpdateSpec == UpdateInit /\ [][UpdateNext]_vars

\* Installs, restarts and probations come to their end; what is down is started.
UpdateFairness ==
  /\ \A a \in Actor : WF_vars(Installing(a))
  /\ WF_vars(HangUp) /\ WF_vars(Boot) /\ WF_vars(Keep \/ GiveWay)
  /\ WF_vars(GoesQuiet \/ GivesUp) /\ WF_vars(Restart)
UpdateFairSpec == UpdateSpec /\ UpdateFairness
-----------------------------------------------------------------------------
\* What the note says was kept did stay up, or was kept by the operator: "one
\* that stays up for PROBATION is confirmed" (restart.rs).
KeptHasStayedUp == marker.phase = "done" => marker.to \in proven

\* A rollback that misses no file puts back what ran before, through power cuts,
\* failed copies and lost counts: it "puts the previous files back" (restart.rs).
\* Not once a backup could not be made or put back, or a note not be written.
RollbackIsPrevious ==
  [][marker'.phase = "rolled_back" /\ marker.phase # "rolled_back" /\ UNCHANGED faults =>
     wcr' = marker.from \/ torn]_vars

\* A version on probation is not started for ever (MAX_STARTS).
StartsAreBounded == started <= MaxStarts + 1 \/ faults > 0

\* A bad version gives way to one that stays up, unless the operator kept it or
\* the update was cut short.
BadGivesWay ==
  process.runs \in Bad \ proven ~> process.runs \in (Version \ Bad) \cup proven \/ faults > 0

\* And the station comes up again: whatever was installed or put back and what-
\* ever failed, unless a failure left no program that starts (new_binary_starts).
StationComesBack ==
  process.runs = None ~>
    process.runs # None \/ (faults > 0 /\ wcr \notin Version \ Broken)
=============================================================================
