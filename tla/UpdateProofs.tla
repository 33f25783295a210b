---------------------------- MODULE UpdateProofs ----------------------------
(***************************************************************************)
(* Theorems about Update, for any releases, limits and faults.  What a     *)
(* note says is sound only while one updates one thing at a time.          *)
(***************************************************************************)
EXTENDS Update, TLAPS

Working(a) == job[a].at \in {"move", "put", "try", "note"}

\* One job at a time, and none at work while a note is pending or a version on
\* probation.
OneJob ==
  /\ \A a, b \in Actor : a # b => job[a].at = "idle" \/ job[b].at = "idle"
  /\ Pending \/ process.watch => \A a \in Actor : ~Working(a)
  /\ \A a \in Actor : Working(a) => process.runs \in Version \ Bad /\ job[a].to \in Version

\* Who watches its probation is who the note is about.
OnProbation == process.watch /\ marker.phase \in {"pending", "done"}
Watched == OnProbation => process.runs = marker.to

\* What a job at work has done so far, on a station that stays up.
JobIsSound(a) ==
  Working(a) =>
    /\ job[a].from = process.runs
    /\ job[a].at = "move" => wcr = job[a].from \/ (wcr = None /\ bak = job[a].from)
    /\ job[a].at # "move" => bak = job[a].from
    /\ job[a].at = "put" => wcr = None
    /\ job[a].at \in {"try", "note"} => wcr = job[a].to

\* A note that is pending, or on probation, is about the two files.
NoteIsSound ==
  Pending \/ OnProbation => /\ wcr = marker.to /\ wcr \in Version
                            /\ bak = marker.from /\ bak \in Version

\* Between jobs what runs is what is installed, or was before a copy failed.
RunsInstalled ==
  process.runs # None /\ ~Pending /\ (\A a \in Actor : ~Working(a)) =>
    wcr = process.runs \/ (wcr = None /\ bak = process.runs)

GoTogether == (\A a \in Actor : JobIsSound(a)) /\ NoteIsSound /\ RunsInstalled
Sound == OneJob /\ Watched /\ KeptHasStayedUp /\ (torn = FALSE => GoTogether)

-----------------------------------------------------------------------------
LEMMA Versions ==
  /\ Version \cup {None} = 0..Last /\ None \notin Version /\ Version \subseteq 0..Last
  /\ 1 \in Version /\ MaxStarts \in Nat /\ MaxStarts >= 1 /\ MaxFault \in Nat
  /\ Bad \subseteq Version /\ 1 \notin Bad
BY UpdateAssumption DEF UpdateAssumption, Version, None

LEMMA NoteFacts ==
  /\ NoNote \in Note /\ NoNote.phase = "none" /\ NoNote.starts = 0
  /\ \A m \in Note :
       LET c == [m EXCEPT !.starts = CountStart(@)]
       IN  c \in Note /\ c.phase = m.phase /\ c.to = m.to /\ c.from = m.from
           /\ c.starts = m.starts + 1
  /\ \A m \in Note : \A p \in {"done", "rolled_back"} :
       LET c == [m EXCEPT !.phase = p]
       IN  c \in Note /\ c.phase = p /\ c.to = m.to /\ c.from = m.from /\ c.starts = m.starts
  /\ \A m \in Note : m.starts \in Nat
BY Versions, UpdateAssumption DEF UpdateAssumption, Note, NoNote, CountStart, None

LEMMA ProcessFacts ==
  /\ Down \in Process /\ Down.watch = FALSE /\ Down.runs = None
  /\ \A v \in 0..Last : \A w \in BOOLEAN :
       LET p == [runs |-> v, watch |-> w] IN p \in Process /\ p.runs = v /\ p.watch = w
BY Versions, UpdateAssumption DEF UpdateAssumption, Process, Down, None

\* The note and the faults: a count past MAX_STARTS stays only where it could
\* not be followed by the note of a rollback.
Counts ==
  /\ marker \in Note /\ faults \in 0..MaxFault
  /\ marker.starts <= MaxStarts + 1 + faults
  /\ Pending => marker.starts <= MaxStarts + faults

LEMMA Faults ==
  ASSUME Counts, Fault
  PROVE  faults' = faults + 1 /\ faults' \in 0..MaxFault /\ faults \in Nat
BY Versions DEF Counts, Fault

\* A note that could not be written.
LEMMA NotSaved ==
  ASSUME Counts, NEW m \in Note, m.starts <= MaxStarts + 1 + faults, Unsaved(m)
  PROVE  Counts' /\ faults' # faults /\ (marker' = m \/ marker' = NoNote)
<1>1. Fault /\ (marker' = m \/ marker' = NoNote)
  BY DEF Unsaved
<1>2. faults' = faults + 1 /\ faults' \in 0..MaxFault /\ faults \in Nat
  BY <1>1, Faults
<1>3. m.starts \in Nat /\ NoNote \in Note /\ NoNote.starts = 0
  BY NoteFacts
<1>4. marker'.starts <= MaxStarts + faults'
  BY <1>1, <1>2, <1>3, Versions
<1>5. marker' \in Note /\ marker'.starts \in Nat
  BY <1>1, <1>3
<1> QED BY <1>1, <1>2, <1>4, <1>5, Versions DEF Counts

\* A rollback puts the files of before back, tears what goes together, or has
\* done nothing but write its note.
Back == PutBack /\ process' = Down /\ UNCHANGED <<torn, faults>>
Tears == torn' = TRUE /\ PutBack /\ process' = Down /\ faults' # faults
GoesOn(v) == process' = [runs |-> v, watch |-> FALSE] /\ UNCHANGED <<files, torn>>

LEMMA RollsBack ==
  ASSUME Counts, NEW v, NEW m \in Note, m.starts <= MaxStarts + 1 + faults, RollBack(v, m)
  PROVE  /\ Counts'
         /\ \/ Back /\ marker'.phase = "rolled_back" /\ m.phase # "none"
            \/ Tears /\ (marker' = m \/ marker' = NoNote)
            \/ GoesOn(v) /\ marker'.phase = "rolled_back" /\ faults' # faults
            \/ GoesOn(v) /\ marker' = m /\ m.phase = "none" /\ UNCHANGED faults
<1> DEFINE rolled == [m EXCEPT !.phase = "rolled_back"]
<1>1. rolled \in Note /\ rolled.phase = "rolled_back" /\ rolled.starts = m.starts
      /\ m.starts \in Nat
  BY NoteFacts
<1>2. \/ /\ m.phase # "none" /\ PutBack /\ process' = Down
         /\ \/ marker' = rolled /\ UNCHANGED <<torn, faults>>
            \/ Unsaved(m) /\ torn' = TRUE
      \/ m.phase # "none" /\ Fault /\ marker' = rolled /\ Runs(v, FALSE) /\ UNCHANGED torn
      \/ m.phase = "none" /\ marker' = m /\ Runs(v, FALSE) /\ UNCHANGED <<torn, faults>>
  BY DEF RollBack
<1> HIDE DEF rolled
<1>3. CASE m.phase # "none" /\ PutBack /\ process' = Down /\ marker' = rolled
           /\ UNCHANGED <<torn, faults>>
  BY <1>1, <1>3 DEF Counts, Pending, Back
<1>4. CASE PutBack /\ process' = Down /\ Unsaved(m) /\ torn' = TRUE
  BY <1>4, NotSaved DEF Tears
<1>5. CASE Fault /\ marker' = rolled /\ Runs(v, FALSE) /\ UNCHANGED torn
  <2>1. faults' = faults + 1 /\ faults' \in 0..MaxFault /\ faults \in Nat
    BY <1>5, Faults
  <2> QED BY <1>1, <1>5, <2>1, Versions DEF Counts, Pending, GoesOn, Runs
<1>6. CASE m.phase = "none" /\ marker' = m /\ Runs(v, FALSE) /\ UNCHANGED <<torn, faults>>
  BY <1>6 DEF Counts, Pending, GoesOn, Runs
<1> QED BY <1>2, <1>3, <1>4, <1>5, <1>6

\* What a start leaves, whatever it finds: a version kept counting, on
\* probation or not, or gone for the files of before.
Mine(v) == Pending /\ marker.to = v
Tried(v) ==
  /\ Mine(v) /\ process' = [runs |-> v, watch |-> TRUE] /\ UNCHANGED <<files, torn>>
  /\ \/ /\ UNCHANGED faults /\ marker' = [marker EXCEPT !.starts = CountStart(@)]
        /\ marker'.starts <= MaxStarts
     \/ faults' # faults /\ marker' \in {marker, NoNote}
Plain(v) == ~Mine(v) /\ GoesOn(v) /\ UNCHANGED <<marker, faults>>
Settled(v) ==
  /\ Mine(v)
  /\ \/ Back /\ marker'.phase = "rolled_back"
     \/ Tears /\ marker'.phase # "done"
     \/ GoesOn(v) /\ marker'.phase \in {"rolled_back", "none"} /\ faults' # faults

LEMMA Starting ==
  ASSUME Counts, NEW v \in Version, StartOn(v)
  PROVE  Counts' /\ (Tried(v) \/ Plain(v) \/ Settled(v))
<1> DEFINE c == [marker EXCEPT !.starts = CountStart(@)]
<1>0. marker \in Note /\ marker.starts \in Nat /\ faults \in Nat
  BY NoteFacts, Versions DEF Counts
<1>1. /\ c \in Note /\ c.phase = marker.phase /\ c.to = marker.to /\ c.from = marker.from
      /\ c.starts = marker.starts + 1
  BY <1>0, NoteFacts
<1>2. /\ Mine(v) \/ (~Mine(v) /\ Runs(v, FALSE) /\ UNCHANGED <<marker, torn, faults>>)
      /\ Mine(v) => \/ TooMany(c.starts) /\ RollBack(v, c)
                    \/ TooMany(c.starts) /\ Fault /\ marker' = NoNote /\ Runs(v, FALSE) /\ UNCHANGED torn
                    \/ ~TooMany(c.starts) /\ Save(c) /\ Runs(v, TRUE) /\ UNCHANGED torn
  BY DEF StartOn, Mine
<1> HIDE DEF c
<1>3. CASE ~Mine(v)
  BY <1>2, <1>3 DEF Counts, Pending, Plain, GoesOn, Runs
<1>4. Mine(v) => Pending /\ c.starts <= MaxStarts + 1 + faults
  BY <1>0, <1>1, Versions DEF Mine, Counts
<1>5. CASE Mine(v) /\ RollBack(v, c)
  <2>1. /\ Counts'
        /\ \/ Back /\ marker'.phase = "rolled_back"
           \/ Tears /\ (marker' = c \/ marker' = NoNote)
           \/ GoesOn(v) /\ marker'.phase = "rolled_back" /\ faults' # faults
           \/ c.phase = "none"
    BY <1>1, <1>4, <1>5, RollsBack
  <2>2. c.phase = "pending" /\ NoNote.phase = "none"
    BY <1>1, <1>4, <1>5, NoteFacts DEF Pending
  <2> QED BY <1>5, <2>1, <2>2 DEF Settled
<1>6. CASE Mine(v) /\ Fault /\ marker' = NoNote /\ Runs(v, FALSE) /\ UNCHANGED torn
  <2>1. faults' = faults + 1 /\ faults' \in 0..MaxFault
    BY <1>6, Faults
  <2>2. Counts'
    BY <1>0, <1>6, <2>1, NoteFacts, Versions DEF Counts, Pending
  <2> QED BY <1>0, <1>6, <2>1, <2>2, NoteFacts DEF Settled, GoesOn, Runs
<1>7. CASE Mine(v) /\ ~TooMany(c.starts) /\ Save(c) /\ Runs(v, TRUE) /\ UNCHANGED torn
  <2>1. c.starts <= MaxStarts
    BY <1>0, <1>1, <1>7, Versions DEF TooMany
  <2>2. CASE marker' = c /\ UNCHANGED faults
    <3>1. Counts'
      BY <1>0, <1>1, <2>1, <2>2, Versions DEF Counts
    <3> QED BY <1>7, <2>1, <2>2, <3>1 DEF Tried, Runs, c
  <2>3. CASE Unsaved(marker)
    <3>1. Counts' /\ faults' # faults /\ (marker' = marker \/ marker' = NoNote)
      BY <1>0, <2>3, NotSaved DEF Counts
    <3> QED BY <1>7, <3>1 DEF Tried, Runs
  <2> QED BY <1>7, <2>2, <2>3 DEF Save
<1> QED BY <1>2, <1>3, <1>5, <1>6, <1>7

LEMMA JobFacts ==
  ASSUME job \in [Actor -> Job]
  PROVE  /\ \A a \in Actor : job[a] \in Job /\ job[a].to \in 0..Last /\ job[a].from \in 0..Last
         /\ \A a \in Actor : \A at \in {"put", "try", "note", "quiet", "stop"} : Step(a, at) =>
              /\ job' \in [Actor -> Job] /\ job'[a].at = at
              /\ job'[a].from = job[a].from /\ job'[a].to = job[a].to
              /\ \A b \in Actor \ {a} : job'[b] = job[b]
         /\ \A a \in Actor : Ends(a) \/ job' = [job EXCEPT ![a] = NoJob] =>
              /\ job' \in [Actor -> Job] /\ job'[a].at = "idle"
              /\ \A b \in Actor \ {a} : job'[b] = job[b]
<1>1. NoJob \in Job /\ NoJob.at = "idle"
  BY Versions, UpdateAssumption DEF UpdateAssumption, NoJob, Job, None
<1>2. \A a \in Actor : job[a] \in Job /\ job[a].to \in 0..Last /\ job[a].from \in 0..Last
  BY DEF Job
<1>3. ASSUME NEW a \in Actor, NEW at \in {"put", "try", "note", "quiet", "stop"}, Step(a, at)
      PROVE  /\ job' \in [Actor -> Job] /\ job'[a].at = at
             /\ job'[a].from = job[a].from /\ job'[a].to = job[a].to
             /\ \A b \in Actor \ {a} : job'[b] = job[b]
  <2>1. job' = [job EXCEPT ![a] = [@ EXCEPT !.at = at]]
    BY <1>3 DEF Step
  <2> DEFINE j == [job[a] EXCEPT !.at = at]
  <2>2. job[a] \in Job
    BY <1>2
  <2>3. j \in Job
    BY <2>2 DEF Job
  <2>4. j.at = at /\ j.from = job[a].from /\ j.to = job[a].to
    BY <2>2 DEF Job
  <2>5. job' = [job EXCEPT ![a] = j]
    BY <2>1
  <2> HIDE DEF j
  <2> QED BY <2>3, <2>4, <2>5
<1>4. ASSUME NEW a \in Actor, Ends(a) \/ job' = [job EXCEPT ![a] = NoJob]
      PROVE  /\ job' \in [Actor -> Job] /\ job'[a].at = "idle"
             /\ \A b \in Actor \ {a} : job'[b] = job[b]
  BY <1>1, <1>4 DEF Ends
<1> QED BY <1>2, <1>3, <1>4

LEMMA Actors == "web" \in Actor /\ "cli" \in Actor /\ \A a \in Actor : a = "web" \/ a = "cli"
BY DEF Actor

-----------------------------------------------------------------------------
\* Types, whoever does what when.
TInv ==
  /\ UpdateTypeOK /\ Counts
  /\ process.watch \/ job["web"].at # "idle" => process.runs # None

LEMMA InitTyped == UpdateInit => TInv
<1> SUFFICES ASSUME UpdateInit PROVE TInv
  OBVIOUS
<1> USE Versions, UpdateAssumption DEF UpdateInit, UpdateAssumption, None
<1>1. marker \in Note /\ marker.phase = "none" /\ marker.starts = 0
  BY NoteFacts
<1>2. process \in Process
  BY DEF Process
<1>3. job \in [Actor -> Job]
  BY DEF NoJob, Job
<1>4. latest \in Version /\ {wcr, bak} \subseteq Version \cup {None} /\ proven \subseteq Version
  OBVIOUS
<1>5. started \in 0..MaxStarts + 2 /\ faults \in 0..MaxFault /\ torn \in BOOLEAN
  <2>1. started \in 0..MaxStarts + 2 /\ faults \in 0..MaxFault
    OBVIOUS
  <2>2. torn = FALSE
    OBVIOUS
  <2> QED BY <2>1, <2>2
<1>6. ~process.watch /\ job["web"].at = "idle"
  BY Actors DEF NoJob
<1>7. marker.starts <= MaxStarts + 1 + faults
  BY <1>1
<1>8. Counts
  BY <1>1, <1>5, <1>7 DEF Counts, Pending
<1> QED BY <1>1, <1>2, <1>3, <1>4, <1>5, <1>6, <1>7, <1>8 DEF TInv, UpdateTypeOK

\* Typed as soon as each part is, the note and the faults together.
LEMMA Assembled ==
  ASSUME TInv, Counts', {wcr', bak'} \subseteq Version \cup {None}, latest' \in Version,
         process' \in Process, job' \in [Actor -> Job], proven' \subseteq Version,
         started' \in 0..MaxStarts + 2, torn' \in BOOLEAN,
         process'.watch \/ job'["web"].at # "idle" => process'.runs # None
  PROVE  TInv'
BY DEF TInv, UpdateTypeOK, Counts

LEMMA CountsStay ==
  ASSUME Counts, UNCHANGED marker, UNCHANGED faults \/ Fault
  PROVE  Counts'
<1>1. CASE UNCHANGED faults
  BY <1>1 DEF Counts, Pending
<1>2. CASE Fault
  <2>1. faults' = faults + 1 /\ faults' \in 0..MaxFault /\ faults \in Nat /\ marker.starts \in Nat
    BY <1>2, Faults, NoteFacts DEF Counts
  <2> QED BY <2>1, Versions DEF Counts, Pending
<1> QED BY <1>1, <1>2

LEMMA FilesStay ==
  ASSUME TInv, UNCHANGED files \/ PutBack
  PROVE  {wcr', bak'} \subseteq Version \cup {None}
BY DEF TInv, UpdateTypeOK, files, PutBack

\* The steps of an install.
LEMMA InstallTyped ==
  ASSUME TInv, NEW a \in Actor, Press(a) \/ Installing(a)
  PROVE  TInv'
<1>0. /\ {wcr, bak} \subseteq Version \cup {None} /\ latest \in Version /\ process \in Process
      /\ job \in [Actor -> Job] /\ proven \subseteq Version /\ started \in 0..MaxStarts + 2
      /\ torn \in BOOLEAN /\ Counts
      /\ process.watch \/ job["web"].at # "idle" => process.runs # None
  BY DEF TInv, UpdateTypeOK
<1>1. CASE Press(a)
  <2>1. PICK c \in 0..Last : job' = [job EXCEPT ![a] = [at |-> "move", from |-> c, to |-> latest]]
    BY <1>0, <1>1, Versions DEF Press, Process
  <2>2. [at |-> "move", from |-> c, to |-> latest] \in Job
    BY <1>0, Versions DEF Job
  <2>3. job' \in [Actor -> Job]
    BY <1>0, <2>1, <2>2
  <2>4. job'["web"].at # "idle" => process.runs # None
    BY <1>0, <1>1, <2>1, Actors, Versions DEF Press
  <2>5. UNCHANGED <<files, latest, marker, process, proven, started, torn, faults>>
    BY <1>1 DEF Press
  <2>6. Counts'
    BY <1>0, <2>5, CountsStay
  <2> QED BY <1>0, <2>3, <2>4, <2>5, <2>6, Assembled DEF files
<1>2. ASSUME Installing(a)
      PROVE  /\ job' \in [Actor -> Job] /\ (job'["web"].at # "idle" => job["web"].at # "idle")
             /\ UNCHANGED <<latest, process, proven>> /\ torn' \in BOOLEAN
  <2>1. \/ \E at \in {"put", "try", "note", "quiet", "stop"} : Step(a, at) /\ job[a].at # "idle"
        \/ Ends(a)
    BY <1>2 DEF Installing, MoveAside, PutNew, TryNew, WriteNote
  <2>2. job' \in [Actor -> Job] /\ (job'["web"].at # "idle" => job["web"].at # "idle")
    <3>1. CASE Ends(a)
      BY <1>0, <3>1, JobFacts, Actors
    <3>2. CASE \E at \in {"put", "try", "note", "quiet", "stop"} : Step(a, at) /\ job[a].at # "idle"
      BY <1>0, <3>2, JobFacts, Actors
    <3> QED BY <2>1, <3>1, <3>2
  <2>3. UNCHANGED <<latest, process, proven>> /\ torn' \in {torn, TRUE}
    BY <1>2 DEF Installing, MoveAside, PutNew, TryNew, WriteNote
  <2> QED BY <1>0, <2>2, <2>3
<1>3. ASSUME Installing(a), Counts', {wcr', bak'} \subseteq Version \cup {None},
             started' \in 0..MaxStarts + 2
      PROVE  TInv'
  BY <1>0, <1>2, <1>3, Assembled
<1>4. CASE MoveAside(a) \/ PutNew(a) \/ TryNew(a)
  <2>1. UNCHANGED <<marker, started>> /\ (UNCHANGED faults \/ Fault)
    BY <1>4 DEF MoveAside, PutNew, TryNew
  <2>2. Counts'
    BY <1>0, <2>1, CountsStay
  <2>3. {wcr', bak'} \subseteq Version \cup {None}
    <3>1. CASE MoveAside(a)
      BY <1>0, <3>1 DEF MoveAside, MakeBackup, files
    <3>2. CASE PutNew(a)
      BY <1>0, <3>2, JobFacts, Versions DEF PutNew
    <3>3. CASE TryNew(a)
      BY <3>3, FilesStay DEF TryNew
    <3> QED BY <1>4, <3>1, <3>2, <3>3
  <2> QED BY <1>0, <1>3, <1>4, <2>1, <2>2, <2>3 DEF Installing
<1>5. CASE WriteNote(a)
  <2>1. UNCHANGED files /\ started' \in {0, started}
    BY <1>5 DEF WriteNote
  <2>2. {wcr', bak'} \subseteq Version \cup {None} /\ started' \in 0..MaxStarts + 2
    BY <1>0, <2>1, Versions DEF files
  <2>3. Counts'
    <3> DEFINE n == [phase |-> "pending", from |-> job[a].from, to |-> job[a].to, starts |-> 0]
    <3>1. n \in Note /\ n.starts = 0
      BY <1>0, JobFacts DEF Note
    <3>2. CASE marker' = n /\ UNCHANGED faults
      BY <1>0, <3>1, <3>2, Versions DEF Counts
    <3>3. CASE Unsaved(marker)
      BY <1>0, <3>3, NotSaved DEF Counts
    <3> QED BY <1>5, <3>2, <3>3 DEF WriteNote
  <2> QED BY <1>3, <1>5, <2>2, <2>3 DEF Installing
<1> QED BY <1>1, <1>4, <1>5 DEF Installing

\* What a start of the installed program keeps.
LEMMA StartTyped ==
  ASSUME TInv, wcr \in Version, StartOn(wcr), UNCHANGED latest, proven' \subseteq Version,
         job' \in [Actor -> Job], job'["web"].at = "idle"
  PROVE  TInv'
<1>1. Counts' /\ (Tried(wcr) \/ Plain(wcr) \/ Settled(wcr))
  BY Starting DEF TInv
<1>2. UNCHANGED files \/ PutBack
  BY <1>1 DEF Tried, Plain, Settled, Back, Tears, GoesOn
<1>3. process' = Down \/ \E w \in BOOLEAN : process' = [runs |-> wcr, watch |-> w]
  BY <1>1 DEF Tried, Plain, Settled, Back, Tears, GoesOn
<1>4. process' \in Process /\ (process'.watch => process'.runs # None)
  BY <1>3, ProcessFacts, Versions
<1>5. torn' \in BOOLEAN
  <2>1. torn \in BOOLEAN
    BY DEF TInv, UpdateTypeOK
  <2>2. torn' = torn \/ torn' = TRUE
    BY <1>1 DEF Tried, Plain, Settled, Back, Tears, GoesOn
  <2> QED BY <2>1, <2>2
<1>6. started' \in 0..MaxStarts + 2
  BY Versions DEF StartOn, TInv, UpdateTypeOK
<1>7. {wcr', bak'} \subseteq Version \cup {None} /\ latest' \in Version
  BY <1>2, FilesStay DEF TInv, UpdateTypeOK
<1> QED BY <1>1, <1>4, <1>5, <1>6, <1>7, Assembled

\* A rollback of what the process runs.
LEMMA RollBackTyped ==
  ASSUME TInv, RollBack(process.runs, marker),
         job' = IF process' = Down THEN [job EXCEPT !["web"] = NoJob] ELSE job,
         UNCHANGED <<latest, proven, started>>
  PROVE  TInv'
<1>0. job \in [Actor -> Job] /\ marker \in Note /\ process \in Process /\ torn \in BOOLEAN /\ Counts
  BY DEF TInv, UpdateTypeOK
<1>1. /\ Counts'
      /\ \/ Back \/ Tears \/ GoesOn(process.runs)
  BY <1>0, RollsBack DEF Counts
<1>2. (UNCHANGED files \/ PutBack) /\ (torn' = torn \/ torn' = TRUE)
  BY <1>1 DEF Back, Tears, GoesOn
<1>3. process' = Down \/ (process' = [runs |-> process.runs, watch |-> FALSE] /\ process' # Down)
  BY <1>1 DEF Back, Tears, GoesOn
<1>4. CASE process' = Down
  <2>1. job' \in [Actor -> Job] /\ job'["web"].at = "idle"
    BY <1>0, <1>4, JobFacts, Actors
  <2>2. process' \in Process /\ ~process'.watch
    BY <1>4, ProcessFacts
  <2> QED BY <1>0, <1>1, <1>2, <2>1, <2>2, FilesStay, Assembled DEF TInv, UpdateTypeOK
<1>5. CASE process' = [runs |-> process.runs, watch |-> FALSE] /\ process' # Down
  <2>1. process.runs \in 0..Last
    BY <1>0 DEF Process
  <2>2. process' \in Process /\ ~process'.watch /\ process'.runs = process.runs
    BY <1>5, <2>1, ProcessFacts
  <2>3. job' = job
    BY <1>5
  <2> QED BY <1>0, <1>1, <1>2, <2>2, <2>3, FilesStay, Assembled DEF TInv, UpdateTypeOK
<1> QED BY <1>3, <1>4, <1>5

\* A version is kept, or is not for want of its note.
LEMMA Kept ==
  ASSUME Counts, Save([marker EXCEPT !.phase = "done"])
  PROVE  /\ Counts'
         /\ \/ /\ marker'.phase = "done" /\ marker'.to = marker.to /\ marker'.from = marker.from
               /\ UNCHANGED faults
            \/ faults' # faults /\ (marker' = marker \/ marker' = NoNote)
<1> DEFINE d == [marker EXCEPT !.phase = "done"]
<1>1. /\ d \in Note /\ d.phase = "done" /\ d.to = marker.to /\ d.from = marker.from
      /\ d.starts = marker.starts /\ marker \in Note
  BY NoteFacts DEF Counts
<1>2. (marker' = d /\ UNCHANGED faults) \/ Unsaved(marker)
  BY DEF Save
<1> HIDE DEF d
<1>3. CASE marker' = d /\ UNCHANGED faults
  BY <1>1, <1>3 DEF Counts, Pending
<1>4. CASE Unsaved(marker)
  BY <1>1, <1>4, NotSaved DEF Counts
<1> QED BY <1>2, <1>3, <1>4

\* The panel's jobs, faults and the ends of a process.
LEMMA RestTyped ==
  ASSUME TInv,
         Release \/ RestartNow \/ HangUp \/ GivesUp \/ PowerCut \/ Dies \/ Keep \/ GoesQuiet
  PROVE  TInv'
<1>0. /\ {wcr, bak} \subseteq Version \cup {None} /\ latest \in Version /\ process \in Process
      /\ job \in [Actor -> Job] /\ proven \subseteq Version /\ started \in 0..MaxStarts + 2
      /\ torn \in BOOLEAN /\ Counts
      /\ process.watch \/ job["web"].at # "idle" => process.runs # None
  BY DEF TInv, UpdateTypeOK
<1>a. UNCHANGED <<files, started, torn>>
  BY DEF Release, RestartNow, HangUp, GivesUp, PowerCut, Dies, Keep, GoesQuiet
<1>b. ASSUME latest' \in Version, process' \in Process, job' \in [Actor -> Job],
             proven' \subseteq Version, Counts',
             process'.watch \/ job'["web"].at # "idle" => process'.runs # None
      PROVE  TInv'
  BY <1>0, <1>a, <1>b, Assembled DEF files
<1>1. CASE Release
  <2>1. latest' \in Version
    BY <1>0, <1>1, UpdateAssumption DEF Release, Version, UpdateAssumption
  <2> QED BY <1>0, <1>1, <1>b, <2>1, CountsStay DEF Release
<1>2. CASE RestartNow
  <2>1. job' \in [Actor -> Job] /\ process.runs # None
    BY <1>0, <1>2, JobFacts, Actors DEF RestartNow
  <2> QED BY <1>0, <1>2, <1>b, <2>1, CountsStay DEF RestartNow
<1>3. CASE HangUp
  <2>1. NoJob \in Job /\ [NoJob EXCEPT !.at = "quiet"] \in Job
    BY Versions, UpdateAssumption DEF UpdateAssumption, NoJob, Job, None
  <2>2. PICK j \in Job :
          /\ job' = [job EXCEPT !["cli"] = NoJob, !["web"] = j]
          /\ j = job["web"] \/ process.runs # None
    BY <1>0, <1>3, <2>1, Actors DEF HangUp
  <2>3. job' \in [Actor -> Job] /\ job'["web"] = j
    BY <1>0, <2>1, <2>2, Actors
  <2> QED BY <1>0, <1>3, <1>b, <2>2, <2>3, CountsStay DEF HangUp
<1>4. CASE GivesUp
  <2>1. job' \in [Actor -> Job] /\ job'["web"].at = "idle"
    BY <1>0, <1>4, JobFacts, Actors DEF GivesUp
  <2> QED BY <1>0, <1>4, <1>b, <2>1, CountsStay DEF GivesUp
<1>5. CASE PowerCut
  <2>1. NoJob \in Job /\ NoJob.at = "idle"
    BY Versions, UpdateAssumption DEF UpdateAssumption, NoJob, Job, None
  <2>2. job' \in [Actor -> Job] /\ job'["web"].at = "idle"
    BY <1>5, <2>1, Actors DEF PowerCut
  <2>3. process' \in Process /\ ~process'.watch
    BY <1>5, ProcessFacts DEF PowerCut
  <2> QED BY <1>0, <1>5, <1>b, <2>2, <2>3, CountsStay DEF PowerCut
<1>6. CASE Dies
  <2>1. job' \in [Actor -> Job] /\ job'["web"].at = "idle"
    BY <1>0, <1>6, JobFacts, Actors DEF Dies
  <2>2. process' \in Process /\ ~process'.watch
    BY <1>6, ProcessFacts DEF Dies
  <2> QED BY <1>0, <1>6, <1>b, <2>1, <2>2, CountsStay DEF Dies
<1>7. CASE Keep
  <2>1. Counts'
    BY <1>0, <1>7, Kept, CountsStay DEF Keep
  <2>2. process' \in Process /\ process'.runs = process.runs
    BY <1>0, <1>7 DEF Keep, Process
  <2>3. process.runs \in Version
    BY <1>0, <1>7, Versions DEF Keep, Process
  <2> QED BY <1>0, <1>7, <1>b, <2>1, <2>2, <2>3 DEF Keep
<1>8. CASE GoesQuiet
  <2>1. Counts'
    BY <1>0, <1>8, Kept, CountsStay DEF GoesQuiet
  <2>2. job' \in [Actor -> Job] /\ process.runs \in Version
    BY <1>0, <1>8, JobFacts, Actors, Versions DEF GoesQuiet, Process
  <2> QED BY <1>0, <1>8, <1>b, <2>1, <2>2, Versions DEF GoesQuiet
<1> QED BY <1>1, <1>2, <1>3, <1>4, <1>5, <1>6, <1>7, <1>8

LEMMA TypesStep == TInv /\ [UpdateNext]_vars => TInv'
<1> SUFFICES ASSUME TInv, [UpdateNext]_vars PROVE TInv'
  OBVIOUS
<1>0. marker \in Note /\ job \in [Actor -> Job] /\ proven \subseteq Version
  BY DEF TInv, UpdateTypeOK
<1>1. CASE UNCHANGED vars
  BY <1>1 DEF vars, files, TInv, UpdateTypeOK, Counts, Pending
<1>2. ASSUME NEW a \in Actor, Press(a) \/ Installing(a) PROVE TInv'
  BY <1>2, InstallTyped
<1>3. CASE Release \/ RestartNow \/ HangUp \/ GivesUp \/ PowerCut \/ Dies \/ Keep \/ GoesQuiet
  BY <1>3, RestTyped
<1>4. CASE Boot
  <2>1. wcr \in Version /\ job["web"].at = "idle"
    BY <1>4 DEF Boot, TInv
  <2> QED BY <1>0, <1>4, <2>1, StartTyped DEF Boot
<1>5. CASE GiveWay
  BY <1>5, RollBackTyped DEF GiveWay
<1>6. CASE Restart
  <2>1. job' \in [Actor -> Job] /\ job'["web"].at = "idle"
    BY <1>0, <1>6, JobFacts, Actors DEF Restart
  <2>2. CASE wcr \in Version /\ StartOn(wcr)
    BY <1>0, <1>6, <2>1, <2>2, StartTyped DEF Restart
  <2>3. CASE (process' = Down \/ UNCHANGED process)
             /\ UNCHANGED <<files, marker, started, torn, faults>>
    <3>1. process' \in Process /\ (process'.watch => process'.runs # None)
      BY <2>3, ProcessFacts DEF TInv, UpdateTypeOK
    <3>2. Counts' /\ UNCHANGED <<latest, proven>>
      BY <1>6, <2>3, CountsStay DEF Restart, TInv
    <3> QED BY <2>1, <2>3, <3>1, <3>2, Assembled DEF TInv, UpdateTypeOK, files
  <2> QED BY <1>6, <2>2, <2>3 DEF Restart
<1> QED BY <1>1, <1>2, <1>3, <1>4, <1>5, <1>6 DEF UpdateNext

LEMMA TypesHold == UpdateSpec => []TInv
<1>1. TInv /\ [UpdateNext]_vars => TInv'
  BY TypesStep
<1> QED BY <1>1, InitTyped, PTL DEF UpdateSpec

\* What an update and its restarts leave on disk, running and noted is always
\* of its kind, whoever installs and whatever fails; a note's count passes
\* MAX_STARTS by one, and one for each file operation that failed.
THEOREM UpdateTypes == UpdateSpec => []UpdateTypeOK
<1>1. TInv => UpdateTypeOK
  BY DEF TInv
<1> QED BY <1>1, TypesHold, PTL

-----------------------------------------------------------------------------
\* One updates one thing at a time.

\* What putting the old files back keeps of a note's promise.
BringsBack ==
  marker'.phase = "rolled_back" /\ marker.phase # "rolled_back" /\ UNCHANGED faults =>
    wcr' = marker.from \/ torn

LEMMA Restored ==
  ASSUME Pending \/ OnProbation, NoteIsSound, PutBack
  PROVE  wcr' = marker.from
BY Versions DEF NoteIsSound, PutBack

\* No job at work, and none of two waiting.
AtRest ==
  /\ \A a, b \in Actor : a # b => job[a].at = "idle" \/ job[b].at = "idle"
  /\ \A a \in Actor : ~Working(a)

LEMMA Resting ==
  ASSUME AtRest'
  PROVE  OneJob' /\ \A a \in Actor : JobIsSound(a)'
BY DEF AtRest, OneJob, JobIsSound

\* Between jobs the installed program starts.
LEMMA StartSound ==
  ASSUME TInv, Sound, wcr \in Version, StartOn(wcr), AtRest', proven \subseteq proven'
  PROVE  Sound' /\ BringsBack
<1>1. Tried(wcr) \/ Plain(wcr) \/ Settled(wcr)
  BY Starting DEF TInv
<1>2. OneJob' /\ \A a \in Actor : JobIsSound(a)'
  BY Resting
<1>3. CASE Tried(wcr)
  <2>1. /\ process'.runs = wcr /\ process'.watch = TRUE /\ UNCHANGED <<files, torn>>
        /\ Pending /\ marker.to = wcr
        /\ \/ /\ marker'.phase = "pending" /\ marker'.to = marker.to
              /\ marker'.from = marker.from
           \/ marker'.phase = "none"
    <3>1. marker \in Note /\ wcr \in 0..Last
      BY Versions DEF TInv, UpdateTypeOK
    <3>2. process'.runs = wcr /\ process'.watch = TRUE
      BY <1>3, <3>1, ProcessFacts DEF Tried
    <3>3. Pending /\ marker.to = wcr /\ UNCHANGED <<files, torn>>
      BY <1>3 DEF Tried, Mine
    <3>4. CASE marker' = [marker EXCEPT !.starts = CountStart(@)]
      BY <3>1, <3>2, <3>3, <3>4, NoteFacts DEF Pending
    <3>5. CASE marker' = marker
      BY <3>2, <3>3, <3>5 DEF Pending
    <3>6. CASE marker' = NoNote
      BY <3>2, <3>3, <3>6, NoteFacts
    <3> QED BY <1>3, <3>4, <3>5, <3>6 DEF Tried
  <2>2. Watched' /\ KeptHasStayedUp'
    BY <2>1 DEF Watched, OnProbation, KeptHasStayedUp
  <2>3. torn = FALSE => NoteIsSound' /\ RunsInstalled'
    BY <2>1 DEF Sound, GoTogether, NoteIsSound, RunsInstalled, Pending, OnProbation, files
  <2>4. BringsBack
    BY <2>1 DEF BringsBack
  <2> QED BY <1>2, <2>1, <2>2, <2>3, <2>4 DEF Sound, GoTogether
<1>4. CASE Plain(wcr)
  <2>1. /\ process'.runs = wcr /\ ~process'.watch /\ UNCHANGED <<files, torn, marker>>
        /\ ~(Pending /\ marker.to = wcr)
    BY <1>4 DEF Plain, GoesOn, Mine
  <2>2. Watched' /\ KeptHasStayedUp'
    BY <2>1 DEF Watched, OnProbation, KeptHasStayedUp, Sound
  <2>3. torn = FALSE => NoteIsSound' /\ RunsInstalled'
    BY <2>1 DEF Sound, GoTogether, NoteIsSound, RunsInstalled, Pending, OnProbation, files
  <2>4. BringsBack
    BY <2>1 DEF BringsBack
  <2> QED BY <1>2, <2>1, <2>2, <2>3, <2>4 DEF Sound, GoTogether
<1>5. CASE Settled(wcr)
  <2>1. /\ Pending /\ marker.to = wcr /\ process'.watch = FALSE /\ marker'.phase # "done"
        /\ \/ Back /\ marker'.phase = "rolled_back"
           \/ torn' = TRUE /\ faults' # faults
           \/ GoesOn(wcr) /\ marker'.phase # "pending" /\ faults' # faults
    BY <1>5, ProcessFacts DEF Settled, Mine, Back, Tears, GoesOn
  <2>2. Watched' /\ KeptHasStayedUp'
    BY <2>1 DEF Watched, OnProbation, KeptHasStayedUp
  <2>3. torn' = FALSE => torn = FALSE /\ NoteIsSound' /\ RunsInstalled'
    BY <2>1, ProcessFacts
       DEF Back, GoesOn, NoteIsSound, RunsInstalled, Pending, OnProbation, files
  <2>4. BringsBack
    <3>1. Back => (torn = FALSE => wcr' = marker.from)
      BY <2>1, Restored DEF Back, Sound, GoTogether
    <3> QED BY <2>1, <3>1 DEF BringsBack, TInv, UpdateTypeOK
  <2> QED BY <1>2, <2>2, <2>3, <2>4 DEF Sound, GoTogether
<1> QED BY <1>1, <1>3, <1>4, <1>5

\* The steps of the one install.
LEMMA InstallSound ==
  ASSUME TInv, Sound, Patient = TRUE, NEW a \in Actor, Press(a) \/ Installing(a)
  PROVE  Sound' /\ BringsBack
<1>0. job \in [Actor -> Job] /\ latest \in Version /\ {wcr, bak} \subseteq Version \cup {None}
  BY DEF TInv, UpdateTypeOK
<1>1. CASE Press(a)
  <2>1. ~Pending /\ AllIdle /\ process.runs \in Version \ Bad /\ ~process.watch
    BY <1>1 DEF Press, Calm
  <2>2. PICK c : /\ job' = [job EXCEPT ![a] = [at |-> "move", from |-> c, to |-> latest]]
                 /\ c \in {process.runs, wcr} /\ c \in Version
    BY <1>1 DEF Press
  <2>3. /\ job'[a].at = "move" /\ job'[a].from = c /\ job'[a].to = latest
        /\ \A b \in Actor \ {a} : job'[b] = job[b]
    BY <1>0, <2>2
  <2>4. UNCHANGED <<files, marker, process, proven, torn, faults>>
    BY <1>1 DEF Press
  <2>5. OneJob'
    BY <1>0, <2>1, <2>3, <2>4 DEF AllIdle, OneJob, Working, Pending
  <2>6. Watched' /\ KeptHasStayedUp' /\ BringsBack
    BY <2>1, <2>4 DEF Watched, OnProbation, Sound, KeptHasStayedUp, BringsBack
  <2>7. \E b \in Actor : Working(b)'
    BY <2>3 DEF Working
  <2>8. ASSUME torn = FALSE PROVE GoTogether'
    <3>1. wcr = process.runs \/ (wcr = None /\ bak = process.runs)
      BY <2>1, <2>8, Versions DEF AllIdle, Working, Sound, GoTogether, RunsInstalled
    <3>2. c = process.runs
      BY <2>2, <3>1, Versions
    <3>3. \A b \in Actor : JobIsSound(b)'
      BY <2>1, <2>3, <2>4, <3>1, <3>2 DEF AllIdle, JobIsSound, Working, files
    <3>4. NoteIsSound' /\ RunsInstalled'
      BY <2>1, <2>4, <2>7 DEF NoteIsSound, RunsInstalled, OnProbation, Pending
    <3> QED BY <3>3, <3>4 DEF GoTogether
  <2> QED BY <2>4, <2>5, <2>6, <2>8 DEF Sound
<1>2. ASSUME Installing(a)
      PROVE  /\ Working(a) /\ ~Pending /\ ~process.watch /\ UNCHANGED <<process, proven>>
             /\ process.runs \in Version \ Bad /\ job[a].to \in Version
             /\ \A b \in Actor \ {a} : job[b].at = "idle"
             /\ torn = FALSE => JobIsSound(a)
  <2>1. Working(a) /\ UNCHANGED <<process, proven>>
    BY <1>2 DEF Installing, MoveAside, PutNew, TryNew, WriteNote, Working
  <2> QED BY <2>1 DEF Sound, OneJob, Working, GoTogether
<1>3. ASSUME Installing(a), UNCHANGED marker PROVE Watched' /\ KeptHasStayedUp' /\ BringsBack
  BY <1>2, <1>3 DEF Watched, OnProbation, Sound, KeptHasStayedUp, BringsBack
\* The job goes on.
<1>4. ASSUME NEW at \in {"put", "try", "note"}, Installing(a), Step(a, at), UNCHANGED marker,
             torn' = FALSE =>
               /\ torn = FALSE /\ bak' = process.runs
               /\ at = "put" => wcr' = None
               /\ at \in {"try", "note"} => wcr' = job[a].to
      PROVE  Sound' /\ BringsBack
  <2>1. /\ job'[a].at = at /\ job'[a].from = job[a].from /\ job'[a].to = job[a].to
        /\ \A b \in Actor \ {a} : job'[b] = job[b]
    BY <1>0, <1>4, JobFacts
  <2>2. OneJob'
    BY <1>2, <1>4, <2>1 DEF OneJob, Working, Pending
  <2>3. Working(a)'
    BY <2>1 DEF Working
  <2>4. ASSUME torn' = FALSE PROVE GoTogether'
    <3>1. job[a].from = process.runs
      BY <1>2, <1>4, <2>4 DEF JobIsSound
    <3>2. \A b \in Actor : JobIsSound(b)'
      BY <1>2, <1>4, <2>1, <2>4, <3>1 DEF JobIsSound, Working
    <3> QED BY <1>2, <1>4, <2>3, <3>2 DEF GoTogether, NoteIsSound, OnProbation, RunsInstalled, Pending
  <2> QED BY <1>3, <1>4, <2>2, <2>4 DEF Sound
\* The job ends, or waits for the radio.
<1>5. ASSUME Installing(a), \A b \in Actor \ {a} : job'[b] = job[b], job'[a].at \in {"idle", "quiet"}
      PROVE  AtRest'
  BY <1>2, <1>5 DEF AtRest, Working
<1>6. ASSUME Installing(a), Ends(a), UNCHANGED marker,
             torn' = FALSE => wcr' = process.runs \/ (wcr' = None /\ bak' = process.runs)
      PROVE  Sound' /\ BringsBack
  <2>1. AtRest'
    BY <1>0, <1>5, <1>6, JobFacts
  <2>2. torn' = FALSE => NoteIsSound' /\ RunsInstalled'
    BY <1>2, <1>6 DEF NoteIsSound, OnProbation, RunsInstalled, Pending
  <2> QED BY <1>3, <1>6, <2>1, <2>2, Resting DEF Sound, GoTogether
<1>7. CASE MoveAside(a)
  <2>1. Installing(a) /\ job[a].at = "move" /\ Step(a, "put") /\ UNCHANGED marker
    BY <1>7 DEF Installing, MoveAside
  <2>2. ASSUME torn' = FALSE PROVE torn = FALSE /\ bak' = process.runs /\ wcr' = None
    <3>1. torn = FALSE /\ MakeBackup /\ wcr' = None
      BY <1>7, <2>2 DEF MoveAside
    <3>2. wcr = process.runs \/ (wcr = None /\ bak = process.runs)
      BY <1>2, <2>1, <3>1 DEF JobIsSound
    <3> QED BY <1>2, <2>1, <3>1, <3>2, Versions DEF MakeBackup
  <2> QED BY <1>4, <2>1, <2>2
<1>8. CASE PutNew(a)
  <2>1. Installing(a) /\ job[a].at = "put" /\ UNCHANGED <<marker, torn, bak>>
    BY <1>8 DEF Installing, PutNew
  <2>2. torn = FALSE => bak = process.runs
    BY <1>2, <2>1 DEF JobIsSound
  <2>3. CASE wcr' = job[a].to /\ Step(a, "try")
    BY <1>4, <2>1, <2>2, <2>3
  <2>4. CASE wcr' = None /\ Ends(a)
    BY <1>6, <2>1, <2>2, <2>4
  <2>5. CASE wcr' = wcr /\ Ends(a)
    <3>1. torn = FALSE => wcr = None
      BY <1>2, <2>1 DEF JobIsSound
    <3> QED BY <1>6, <2>1, <2>2, <2>5, <3>1
  <2> QED BY <1>8, <2>3, <2>4, <2>5 DEF PutNew
<1>9. CASE TryNew(a)
  <2>1. Installing(a) /\ job[a].at = "try" /\ UNCHANGED marker
    BY <1>9 DEF Installing, TryNew
  <2>2. torn = FALSE => bak = process.runs /\ wcr = job[a].to
    BY <1>2, <2>1 DEF JobIsSound
  <2>3. CASE Step(a, "note") /\ UNCHANGED <<files, torn>>
    BY <1>4, <2>1, <2>2, <2>3 DEF files
  <2>4. CASE Ends(a) /\ PutBack /\ UNCHANGED torn
    <3>1. torn = FALSE => wcr' = process.runs
      BY <1>2, <2>1, <2>2, <2>4, Versions DEF PutBack
    <3> QED BY <1>6, <2>1, <2>4, <3>1
  <2>5. CASE Ends(a) /\ torn' = TRUE
    BY <1>6, <2>1, <2>5
  <2> QED BY <1>9, <2>3, <2>4, <2>5 DEF TryNew
<1>10. CASE WriteNote(a)
  <2>1. Installing(a) /\ job[a].at = "note" /\ UNCHANGED <<files, process, proven>>
    BY <1>10 DEF Installing, WriteNote
  <2>2. CASE /\ marker' = [phase |-> "pending", from |-> job[a].from, to |-> job[a].to, starts |-> 0]
             /\ Step(a, "quiet") /\ UNCHANGED <<torn, faults>>
    <3>1. marker'.phase = "pending" /\ marker'.from = job[a].from /\ marker'.to = job[a].to
      BY <2>2
    <3>2. AtRest'
      BY <1>0, <1>5, <2>1, <2>2, JobFacts
    <3>3. Watched' /\ KeptHasStayedUp' /\ BringsBack
      BY <1>2, <2>1, <3>1 DEF Watched, OnProbation, KeptHasStayedUp, BringsBack
    <3>4. ASSUME torn = FALSE PROVE NoteIsSound' /\ RunsInstalled'
      <4>1. wcr = job[a].to /\ bak = job[a].from /\ job[a].from = process.runs
        BY <1>2, <2>1, <3>4 DEF JobIsSound
      <4> QED BY <1>2, <2>1, <3>1, <4>1 DEF NoteIsSound, RunsInstalled, Pending, files
    <3> QED BY <2>2, <3>2, <3>3, <3>4, Resting DEF Sound, GoTogether
  <2>3. CASE Unsaved(marker) /\ Ends(a) /\ torn' = TRUE
    <3>1. marker' = marker \/ marker'.phase = "none"
      BY <2>3, NoteFacts DEF Unsaved
    <3>2. AtRest'
      BY <1>0, <1>5, <2>1, <2>3, JobFacts
    <3>3. Watched' /\ KeptHasStayedUp' /\ BringsBack
      BY <1>2, <2>1, <3>1 DEF Watched, OnProbation, Sound, KeptHasStayedUp, BringsBack
    <3> QED BY <2>3, <3>2, <3>3, Resting DEF Sound
  <2> QED BY <1>10, <2>2, <2>3 DEF WriteNote
<1> QED BY <1>1, <1>7, <1>8, <1>9, <1>10 DEF Installing

\* What neither installs nor starts anything.
LEMMA RestSound ==
  ASSUME TInv, Sound, Patient = TRUE,
         Release \/ RestartNow \/ HangUp \/ GivesUp \/ PowerCut \/ Dies \/ Keep \/ GoesQuiet
  PROVE  Sound' /\ BringsBack
<1>0. job \in [Actor -> Job] /\ marker \in Note /\ process \in Process /\ Counts
  BY DEF TInv, UpdateTypeOK
<1>a. UNCHANGED <<files, torn>>
  BY DEF Release, RestartNow, HangUp, GivesUp, PowerCut, Dies, Keep, GoesQuiet
<1>1. ASSUME \A a, b \in Actor : a # b => job'[a].at = "idle" \/ job'[b].at = "idle",
             \A a \in Actor : Working(a)' => job'[a] = job[a],
             (\A a \in Actor : ~Working(a)') => (\A a \in Actor : ~Working(a)),
             UNCHANGED <<marker, process, proven>>
      PROVE  Sound' /\ BringsBack
  <2>1. OneJob'
    BY <1>1 DEF Sound, OneJob, Working, Pending
  <2>2. Watched' /\ KeptHasStayedUp' /\ BringsBack
    BY <1>1 DEF Sound, Watched, OnProbation, KeptHasStayedUp, BringsBack
  <2>3. torn' = FALSE => GoTogether'
    BY <1>1, <1>a
       DEF Sound, GoTogether, JobIsSound, NoteIsSound, OnProbation, RunsInstalled, Working, Pending, files
  <2> QED BY <2>1, <2>2, <2>3 DEF Sound
<1>2. CASE Release
  BY <1>1, <1>2 DEF Release, Sound, OneJob, Working
<1>3. CASE RestartNow
  <2>1. AllIdle /\ job'["web"].at = "quiet" /\ \A b \in Actor \ {"web"} : job'[b] = job[b]
    BY <1>0, <1>3, JobFacts, Actors DEF RestartNow
  <2> QED BY <1>1, <1>3, <2>1 DEF RestartNow, AllIdle, Working
<1>4. CASE HangUp
  <2>1. job["cli"].at = "quiet" /\ job["web"].at = "idle"
    BY <1>4, Actors DEF HangUp, Sound, OneJob
  <2>2. job'["cli"].at = "idle" /\ job'["web"].at \in {"idle", "quiet"}
    BY <1>0, <1>4, <2>1, Actors DEF HangUp, NoJob
  <2> QED BY <1>1, <1>4, <2>1, <2>2, Actors DEF HangUp, Working
<1>5. CASE GivesUp
  <2>1. job'["web"].at = "idle" /\ \A b \in Actor \ {"web"} : job'[b] = job[b]
    BY <1>0, <1>5, JobFacts, Actors DEF GivesUp
  <2> QED BY <1>1, <1>5, <2>1, Actors DEF GivesUp, Working
\* The process goes down.
<1>6. ASSUME AtRest', process' = Down, UNCHANGED <<marker, proven>>
      PROVE  Sound' /\ BringsBack
  <2>1. Watched' /\ KeptHasStayedUp' /\ BringsBack
    BY <1>6, ProcessFacts DEF Watched, OnProbation, Sound, KeptHasStayedUp, BringsBack
  <2>2. torn' = FALSE => NoteIsSound' /\ RunsInstalled'
    BY <1>6, <1>a, ProcessFacts
       DEF Sound, GoTogether, NoteIsSound, OnProbation, RunsInstalled, Pending, files
  <2> QED BY <1>6, <2>1, <2>2, Resting DEF Sound, GoTogether
<1>7. CASE PowerCut
  <2>1. AtRest'
    BY <1>7 DEF PowerCut, NoJob, AtRest, Working
  <2> QED BY <1>6, <1>7, <2>1 DEF PowerCut
<1>8. CASE Dies
  <2>1. \A a \in Actor : ~Working(a)
    BY <1>8 DEF Dies, Sound, OneJob
  <2>2. job'["web"].at = "idle" /\ \A b \in Actor \ {"web"} : job'[b] = job[b]
    BY <1>0, <1>8, JobFacts, Actors DEF Dies
  <2>3. AtRest'
    BY <2>1, <2>2, Actors DEF AtRest, Working
  <2> QED BY <1>6, <1>8, <2>3 DEF Dies
\* A version is kept.
<1>9. ASSUME AtRest', \A a \in Actor : ~Working(a),
             Pending => process.runs = marker.to, process'.runs = process.runs,
             proven \subseteq proven',
             \/ UNCHANGED <<marker, process>>
             \/ ~process'.watch /\ UNCHANGED marker
             \/ Pending /\ marker'.phase = "none"
             \/ Pending /\ marker'.phase = "done" /\ marker'.to = marker.to
                /\ marker'.from = marker.from /\ marker.to \in proven'
      PROVE  Sound' /\ BringsBack
  <2>1. Watched' /\ KeptHasStayedUp' /\ BringsBack
    BY <1>9 DEF Watched, OnProbation, Sound, KeptHasStayedUp, BringsBack, Pending
  <2>2. torn' = FALSE => NoteIsSound' /\ RunsInstalled'
    <3> SUFFICES ASSUME torn = FALSE PROVE NoteIsSound' /\ RunsInstalled'
      BY <1>a
    <3>1. NoteIsSound /\ RunsInstalled /\ wcr' = wcr /\ bak' = bak
      BY <1>a DEF Sound, GoTogether, files
    <3> QED BY <1>9, <3>1 DEF NoteIsSound, OnProbation, RunsInstalled, Pending
  <2> QED BY <1>9, <2>1, <2>2, Resting DEF Sound, GoTogether
<1>10. CASE Keep
  <2>1. \A a \in Actor : ~Working(a)
    BY <1>10 DEF Keep, Sound, OneJob
  <2>2. AtRest'
    BY <1>10, <2>1 DEF Keep, AtRest, Sound, OneJob, Working
  <2>3. process'.runs = process.runs /\ ~process'.watch
    BY <1>0, <1>10 DEF Keep, Process
  <2>4. Pending => process.runs = marker.to /\ marker.to \in proven'
    BY <1>10 DEF Keep, StayedUp, Sound, Watched, OnProbation, Pending
  <2>5. CASE Pending
    <3>1. \/ marker'.phase = "done" /\ marker'.to = marker.to /\ marker'.from = marker.from
          \/ marker' = marker \/ marker' = NoNote
      BY <1>0, <1>10, <2>5, Kept DEF Keep
    <3> QED BY <1>9, <1>10, <2>1, <2>2, <2>3, <2>4, <2>5, <3>1, NoteFacts DEF Keep
  <2>6. CASE ~Pending
    BY <1>9, <1>10, <2>1, <2>2, <2>3, <2>4, <2>6 DEF Keep
  <2> QED BY <2>5, <2>6
<1>11. CASE GoesQuiet
  <2>1. job'["web"].at = "stop" /\ \A b \in Actor \ {"web"} : job'[b] = job[b]
    BY <1>0, <1>11, JobFacts, Actors DEF GoesQuiet
  <2>2. \A b \in Actor \ {"web"} : job[b].at = "idle"
    BY <1>11, Actors DEF GoesQuiet, Sound, OneJob
  <2>3. AtRest' /\ \A a \in Actor : ~Working(a)
    BY <1>11, <2>1, <2>2 DEF GoesQuiet, AtRest, Working
  <2>4. CASE KeepsRunning
    <3>1. \/ marker'.phase = "done" /\ marker'.to = marker.to /\ marker'.from = marker.from
          \/ marker' = marker \/ marker' = NoNote
      BY <1>0, <1>11, <2>4, Kept DEF GoesQuiet
    <3> QED BY <1>9, <1>11, <2>3, <2>4, <3>1, NoteFacts DEF GoesQuiet, KeepsRunning
  <2>5. CASE ~KeepsRunning
    <3>1. OneJob'
      BY <2>3 DEF AtRest, OneJob
    <3>2. UNCHANGED <<marker, process, proven>>
      BY <1>11, <2>5 DEF GoesQuiet
    <3> QED BY <1>1, <2>3, <3>1, <3>2 DEF AtRest
  <2> QED BY <2>4, <2>5
<1> QED BY <1>2, <1>3, <1>4, <1>5, <1>7, <1>8, <1>10, <1>11

\* A version on probation did not stay up.
LEMMA GiveWaySound ==
  ASSUME TInv, Sound, GiveWay
  PROVE  Sound' /\ BringsBack
<1>0. job \in [Actor -> Job] /\ marker \in Note /\ process \in Process /\ Counts
      /\ torn \in BOOLEAN
  BY DEF TInv, UpdateTypeOK
<1>1. \A a \in Actor : ~Working(a)
  BY DEF GiveWay, Sound, OneJob
<1>2. job' = job \/ (job'["web"].at = "idle" /\ \A b \in Actor \ {"web"} : job'[b] = job[b])
  BY <1>0, JobFacts, Actors DEF GiveWay
<1>3. AtRest'
  BY <1>1, <1>2, Actors DEF Sound, OneJob, AtRest, Working
<1>4. \/ Back /\ marker'.phase = "rolled_back" /\ marker.phase # "none"
      \/ Tears /\ (marker' = marker \/ marker' = NoNote)
      \/ GoesOn(process.runs) /\ marker'.phase = "rolled_back" /\ faults' # faults
      \/ GoesOn(process.runs) /\ marker' = marker /\ marker.phase = "none" /\ UNCHANGED faults
  BY <1>0, RollsBack DEF GiveWay, Counts
<1>5. ~process'.watch /\ (process'.runs = None \/ (process'.runs = process.runs /\ UNCHANGED files))
  BY <1>0, <1>4, ProcessFacts DEF Back, Tears, GoesOn, Process
<1>6. Watched' /\ KeptHasStayedUp'
  BY <1>4, <1>5, NoteFacts DEF Watched, OnProbation, Sound, KeptHasStayedUp, GiveWay
<1>7. torn' = FALSE => torn = FALSE /\ marker'.phase \in {"rolled_back", "none"}
  BY <1>4 DEF Back, Tears, GoesOn
<1>8. torn = FALSE /\ process.runs # None => wcr = process.runs \/ (wcr = None /\ bak = process.runs)
  BY <1>1 DEF GiveWay, Sound, GoTogether, RunsInstalled, NoteIsSound, Watched, OnProbation, Pending
<1>9. torn' = FALSE => NoteIsSound' /\ RunsInstalled'
  BY <1>5, <1>7, <1>8 DEF NoteIsSound, RunsInstalled, OnProbation, Pending, files
<1>10. BringsBack
  <2> SUFFICES ASSUME marker'.phase = "rolled_back", marker.phase # "rolled_back",
                      UNCHANGED faults, torn = FALSE
               PROVE  wcr' = marker.from
    BY <1>0 DEF BringsBack
  <2>1. Back /\ marker.phase # "none"
    BY <1>4, NoteFacts DEF Tears
  <2>2. Pending \/ OnProbation
    BY <1>0, <2>1 DEF GiveWay, OnProbation, Pending, Note
  <2> QED BY <2>1, <2>2, Restored DEF Back, Sound, GoTogether
<1> QED BY <1>3, <1>6, <1>9, <1>10, Resting DEF Sound, GoTogether

\* What is installed is started, or nothing is.
LEMMA RestartSound ==
  ASSUME TInv, Sound, Boot \/ Restart
  PROVE  Sound' /\ BringsBack
<1>0. job \in [Actor -> Job] /\ marker \in Note
  BY DEF TInv, UpdateTypeOK
<1>1. AtRest' /\ (\A a \in Actor : ~Working(a)) /\ proven' = proven
  <2>1. CASE Boot
    BY <2>1, Versions DEF Boot, AtRest, Sound, OneJob, Working
  <2>2. CASE Restart
    <3>1. job["web"].at = "stop" /\ job'["web"].at = "idle"
          /\ \A b \in Actor \ {"web"} : job'[b] = job[b]
      BY <1>0, <2>2, JobFacts, Actors DEF Restart
    <3> QED BY <2>2, <3>1, Actors DEF Restart, AtRest, Sound, OneJob, Working
  <2> QED BY <2>1, <2>2
<1>2. \/ wcr \in Version /\ StartOn(wcr)
      \/ UNCHANGED <<files, marker, torn, faults>> /\ (process' = process \/ process' = Down)
  BY DEF Boot, Restart
<1>3. CASE wcr \in Version /\ StartOn(wcr)
  BY <1>1, <1>3, StartSound
<1>4. CASE UNCHANGED <<files, marker, torn, faults>> /\ (process' = process \/ process' = Down)
  <2>1. process' = process \/ (process'.runs = None /\ ~process'.watch)
    BY <1>4, ProcessFacts
  <2>2. Watched' /\ KeptHasStayedUp' /\ BringsBack
    BY <1>1, <1>4, <2>1 DEF Watched, OnProbation, Sound, KeptHasStayedUp, BringsBack
  <2>3. torn' = FALSE => NoteIsSound' /\ RunsInstalled'
    BY <1>1, <1>4, <2>1
       DEF Sound, GoTogether, NoteIsSound, OnProbation, RunsInstalled, Pending, files
  <2> QED BY <1>1, <2>2, <2>3, Resting DEF Sound, GoTogether
<1> QED BY <1>2, <1>3, <1>4

LEMMA SoundStep ==
  TInv /\ Sound /\ Patient = TRUE /\ [UpdateNext]_vars => Sound' /\ BringsBack
<1> SUFFICES ASSUME TInv, Sound, Patient = TRUE, [UpdateNext]_vars PROVE Sound' /\ BringsBack
  OBVIOUS
<1>1. CASE UNCHANGED vars
  <2>1. OneJob' /\ Watched' /\ KeptHasStayedUp' /\ BringsBack
    BY <1>1 DEF vars, Sound, OneJob, Working, Watched, OnProbation, KeptHasStayedUp, Pending,
                BringsBack
  <2>2. torn' = FALSE => GoTogether'
    BY <1>1 DEF vars, files, Sound, GoTogether, JobIsSound, NoteIsSound, OnProbation,
                RunsInstalled, Working, Pending
  <2> QED BY <2>1, <2>2 DEF Sound
<1>2. ASSUME NEW a \in Actor, Press(a) \/ Installing(a) PROVE Sound' /\ BringsBack
  BY <1>2, InstallSound
<1>3. CASE Release \/ RestartNow \/ HangUp \/ GivesUp \/ PowerCut \/ Dies \/ Keep \/ GoesQuiet
  BY <1>3, RestSound
<1>4. CASE Boot \/ Restart
  BY <1>4, RestartSound
<1>5. CASE GiveWay
  BY <1>5, GiveWaySound
<1> QED BY <1>1, <1>2, <1>3, <1>4, <1>5 DEF UpdateNext

LEMMA SoundInit == UpdateInit => Sound
<1> SUFFICES ASSUME UpdateInit PROVE Sound
  OBVIOUS
<1>1. \A a \in Actor : job[a].at = "idle"
  BY DEF UpdateInit, NoJob
<1>2. marker.phase = "none" /\ ~process.watch /\ process.runs = 1 /\ wcr = 1
  BY DEF UpdateInit, NoNote
<1> QED BY <1>1, <1>2
        DEF Sound, OneJob, Watched, OnProbation, GoTogether, JobIsSound, NoteIsSound, RunsInstalled,
            KeptHasStayedUp, Working, Pending

LEMMA SoundHolds == ASSUME Patient = TRUE PROVE UpdateSpec => [](TInv /\ Sound)
<1>1. TInv /\ Sound /\ [UpdateNext]_vars => (TInv /\ Sound)'
  BY SoundStep, TypesStep
<1> QED BY <1>1, InitTyped, SoundInit, PTL DEF UpdateSpec

\* One update at a time: a version the note says was kept did stay up, or was
\* kept by the operator's restart, whatever dies, fails or is cut short.
THEOREM KeptStayedUp == ASSUME Patient = TRUE PROVE UpdateSpec => []KeptHasStayedUp
<1>1. Sound => KeptHasStayedUp
  BY DEF Sound
<1> QED BY <1>1, SoundHolds, PTL

\* One update at a time: a rollback that misses no file puts back what ran
\* before, unless a backup could not be made or put back, or a note not be
\* written, earlier (roll_back, Marker::save in restart.rs).
THEOREM RollbackPrevious == ASSUME Patient = TRUE PROVE UpdateSpec => RollbackIsPrevious
<1>1. TInv /\ Sound /\ [UpdateNext]_vars =>
        [marker'.phase = "rolled_back" /\ marker.phase # "rolled_back" /\ UNCHANGED faults =>
           wcr' = marker.from \/ torn]_vars
  BY SoundStep DEF BringsBack
<1> QED BY <1>1, SoundHolds, PTL DEF UpdateSpec, RollbackIsPrevious

-----------------------------------------------------------------------------
\* Where nothing fails, what is installed between updates stayed up or was
\* kept, and so did what an update would bring back; the note counts the starts.
AtWork == \E a \in Actor : Working(a)
Trusted ==
  /\ torn = FALSE
  /\ AtWork => process.runs \in proven
  /\ process.watch => OnProbation
  /\ Pending \/ OnProbation => bak \in proven
  /\ Pending => started <= marker.starts
  /\ ~Pending /\ ~AtWork => wcr \in proven
  /\ started <= MaxStarts + 1
Bounded == faults = 0 => Trusted

LEMMA NoFaultBefore ==
  ASSUME TInv, [UpdateNext]_vars, faults' = 0
  PROVE  faults = 0 /\ faults' = faults
<1>0. marker \in Note /\ Counts /\ faults \in Nat /\ torn \in BOOLEAN
  BY Versions DEF TInv, UpdateTypeOK
<1>1. UNCHANGED faults \/ faults' = faults + 1 => faults = 0 /\ faults' = faults
  BY <1>0
<1>2. ASSUME NEW m, Save(m) \/ Unsaved(m) PROVE UNCHANGED faults \/ faults' = faults + 1
  BY <1>2 DEF Save, Unsaved, Fault
<1>3. ASSUME NEW v, NEW m, RollBack(v, m) PROVE UNCHANGED faults \/ faults' = faults + 1
  BY <1>2, <1>3 DEF RollBack, Fault
<1>4. ASSUME NEW v, StartOn(v) PROVE UNCHANGED faults \/ faults' = faults + 1
  BY <1>2, <1>3, <1>4 DEF StartOn, Fault
<1>5. ASSUME NEW a \in Actor, Press(a) \/ Installing(a)
      PROVE  UNCHANGED faults \/ faults' = faults + 1
  BY <1>2, <1>5 DEF Press, Installing, MoveAside, PutNew, TryNew, WriteNote, Fault
<1>6. CASE Release \/ RestartNow \/ HangUp \/ GivesUp \/ PowerCut \/ Dies
  BY <1>1, <1>6 DEF Release, RestartNow, HangUp, GivesUp, PowerCut, Dies, Fault
<1>7. CASE Keep \/ GoesQuiet
  BY <1>1, <1>2, <1>7 DEF Keep, GoesQuiet
<1>8. CASE Boot \/ Restart \/ GiveWay
  BY <1>1, <1>3, <1>4, <1>8 DEF Boot, Restart, GiveWay
<1>9. CASE UNCHANGED vars
  BY <1>1, <1>9 DEF vars
<1> QED BY <1>1, <1>5, <1>6, <1>7, <1>8, <1>9 DEF UpdateNext

LEMMA NoneAtWork ==
  ASSUME AtRest' PROVE ~AtWork'
BY DEF AtRest, AtWork

\* A start counts in the note as it counts: while on probation a version starts
\* once more than MAX_STARTS at most, and then what was before it is back.
LEMMA StartBounded ==
  ASSUME TInv, Sound, Trusted, faults = 0, faults' = faults, wcr \in Version, StartOn(wcr),
         ~AtWork, ~AtWork', proven' = proven
  PROVE  Trusted'
<1>0. /\ started \in Nat /\ started <= MaxStarts + 1 /\ MaxStarts \in Nat
      /\ started' \in {started, started + 1}
      /\ wcr \in proven => started' = started
      /\ marker \in Note /\ marker.starts \in Nat /\ bak \in Version \cup {None}
  <2>1. started \in Nat /\ marker \in Note /\ MaxStarts \in Nat /\ bak \in Version \cup {None}
    BY Versions DEF TInv, UpdateTypeOK
  <2>2. marker.starts \in Nat
    BY <2>1, NoteFacts
  <2> QED BY <2>1, <2>2 DEF StartOn, Trusted
<1>1. Tried(wcr) \/ Plain(wcr) \/ Settled(wcr)
  BY Starting DEF TInv
<1>2. CASE Tried(wcr)
  <2>1. /\ Pending /\ process'.runs = wcr /\ UNCHANGED <<files, torn>>
        /\ marker' = [marker EXCEPT !.starts = CountStart(@)] /\ marker'.starts <= MaxStarts
    BY <1>2, ProcessFacts, Versions DEF Tried, Mine
  <2>2. marker'.phase = "pending" /\ marker'.starts = marker.starts + 1
    BY <1>0, <2>1, NoteFacts DEF Pending
  <2>3. started' <= marker'.starts /\ started' <= MaxStarts + 1
    BY <1>0, <2>1, <2>2 DEF Trusted
  <2>4. bak' \in proven' /\ torn' = FALSE
    BY <2>1 DEF Trusted, files
  <2> QED BY <2>2, <2>3, <2>4 DEF Trusted, Pending, OnProbation
<1>3. CASE Plain(wcr)
  <2>1. /\ ~process'.watch /\ UNCHANGED <<files, torn, marker>> /\ ~Mine(wcr)
    BY <1>3, ProcessFacts, Versions DEF Plain, GoesOn
  <2>2. ~Pending
    BY <2>1 DEF Sound, GoTogether, NoteIsSound, Trusted, Mine
  <2>3. wcr \in proven
    BY <2>2 DEF Trusted
  <2>4. ~Pending' /\ ~OnProbation' /\ ~process'.watch /\ wcr' \in proven' /\ torn' = FALSE
    BY <2>1, <2>2, <2>3 DEF Pending, OnProbation, files, Trusted
  <2> QED BY <1>0, <2>3, <2>4 DEF Trusted
<1>4. CASE Settled(wcr)
  <2>1. Mine(wcr) /\ Back /\ marker'.phase = "rolled_back"
    BY <1>4 DEF Settled, Tears
  <2>2. Pending /\ bak \in proven /\ started <= marker.starts
        /\ marker.starts <= MaxStarts
    BY <1>0, <2>1, Versions DEF Mine, Trusted, TInv, Counts
  <2>3. bak \in Version
    BY <2>2 DEF TInv, UpdateTypeOK
  <2>4. wcr' \in proven' /\ torn' = FALSE
    BY <2>1, <2>2, <2>3, Versions DEF Back, PutBack, Trusted
  <2>5. ~Pending' /\ ~OnProbation' /\ ~process'.watch
    BY <2>1, ProcessFacts DEF Back, Pending, OnProbation
  <2>6. started' <= MaxStarts + 1
    BY <1>0, <2>2
  <2> QED BY <2>4, <2>5, <2>6 DEF Trusted
<1> QED BY <1>1, <1>2, <1>3, <1>4

LEMMA InstallBounded ==
  ASSUME TInv, Sound, Trusted, faults = 0, faults' = faults, Patient = TRUE,
         NEW a \in Actor, Press(a) \/ Installing(a)
  PROVE  Trusted'
<1>0. job \in [Actor -> Job] /\ proven' = proven /\ process' = process
  BY DEF TInv, UpdateTypeOK, Press, Installing, MoveAside, PutNew, TryNew, WriteNote
<1>1. torn = FALSE /\ GoTogether /\ proven \subseteq Version /\ bak \in Version \cup {None}
  BY DEF Trusted, Sound, TInv, UpdateTypeOK
<1>2. CASE Press(a)
  <2>1. ~Pending /\ AllIdle /\ process.runs \in Version \ Bad /\ ~process.watch
    BY <1>2 DEF Press, Calm
  <2>2. ~AtWork
    BY <2>1 DEF AllIdle, AtWork, Working
  <2>3. wcr \in proven /\ process.runs # None
    BY <2>1, <2>2, Versions DEF Trusted
  <2>4. process.runs \in proven
    BY <1>1, <2>1, <2>2, <2>3, Versions DEF GoTogether, RunsInstalled, AtWork
  <2>5. AtWork'
    <3>1. job'[a].at = "move"
      BY <1>0, <1>2 DEF Press
    <3> QED BY <3>1 DEF AtWork, Working
  <2>6. UNCHANGED <<files, marker, started, torn>>
    BY <1>2 DEF Press
  <2> QED BY <1>0, <2>1, <2>4, <2>5, <2>6 DEF Trusted, Pending, OnProbation, files
<1>3. ASSUME Installing(a)
      PROVE  /\ Working(a) /\ AtWork /\ ~Pending /\ ~process.watch /\ process.runs \in proven
             /\ \A b \in Actor \ {a} : job[b].at = "idle"
  <2>1. Working(a)
    BY <1>3 DEF Installing, MoveAside, PutNew, TryNew, WriteNote, Working
  <2>2. AtWork
    BY <2>1 DEF AtWork
  <2> QED BY <2>1, <2>2 DEF Sound, OneJob, Working, Trusted
<1>4. ASSUME Installing(a), UNCHANGED <<marker, started, torn>>, AtWork' \/ (~AtWork' /\ wcr' \in proven)
      PROVE  Trusted'
  <2>1. ~Pending' /\ ~OnProbation'
    BY <1>0, <1>3, <1>4 DEF Pending, OnProbation
  <2> QED BY <1>0, <1>3, <1>4, <2>1 DEF Trusted
<1>5. CASE MoveAside(a) \/ PutNew(a) \/ (TryNew(a) /\ Step(a, "note"))
  <2>1. Installing(a) /\ UNCHANGED <<marker, started, torn>>
    BY <1>5 DEF Installing, MoveAside, PutNew, TryNew, Fault
  <2>2. job'[a].at \in {"put", "try", "note"}
    <3>1. Step(a, "put") \/ Step(a, "try") \/ Step(a, "note")
      BY <1>5 DEF MoveAside, PutNew, Fault
    <3> QED BY <1>0, <3>1, JobFacts
  <2>3. AtWork'
    BY <2>2 DEF AtWork, Working
  <2> QED BY <1>4, <2>1, <2>3
<1>6. CASE TryNew(a) /\ ~Step(a, "note")
  <2>1. Installing(a) /\ Ends(a) /\ PutBack /\ UNCHANGED <<marker, started, torn>>
    BY <1>6 DEF Installing, TryNew, Fault
  <2>2. bak = process.runs
    BY <1>1, <1>3, <1>6, <2>1 DEF TryNew, GoTogether, JobIsSound
  <2>3. wcr' \in proven
    BY <1>1, <1>3, <2>1, <2>2, Versions DEF PutBack
  <2>4. ~AtWork'
    <3>1. \A b \in Actor : job'[b].at = "idle"
      BY <1>0, <1>3, <1>6, <2>1, JobFacts
    <3> QED BY <3>1 DEF AtWork, Working
  <2> QED BY <1>4, <2>1, <2>3, <2>4
<1>7. CASE WriteNote(a)
  <2>1. Installing(a) /\ Step(a, "quiet") /\ UNCHANGED <<files, torn>> /\ started' = 0
        /\ marker' = [phase |-> "pending", from |-> job[a].from, to |-> job[a].to, starts |-> 0]
    BY <1>7 DEF Installing, WriteNote, Unsaved, Fault
  <2>2. bak' \in proven
    BY <1>1, <1>3, <1>7, <2>1 DEF WriteNote, GoTogether, JobIsSound, files
  <2>3. marker'.phase = "pending" /\ marker'.starts = 0
    BY <2>1
  <2>4. ~AtWork'
    <3>1. job'[a].at = "quiet" /\ \A b \in Actor \ {a} : job'[b].at = "idle"
      BY <1>0, <1>3, <2>1, JobFacts
    <3> QED BY <3>1 DEF AtWork, Working
  <2> QED BY <1>0, <1>1, <2>1, <2>2, <2>3, <2>4, Versions
          DEF Trusted, Pending, OnProbation
<1> QED BY <1>2, <1>5, <1>6, <1>7 DEF Installing, TryNew

LEMMA RestBounded ==
  ASSUME TInv, Sound, Trusted, faults = 0, faults' = faults, Patient = TRUE,
         Release \/ RestartNow \/ HangUp \/ GivesUp \/ PowerCut \/ Dies \/ Keep \/ GoesQuiet
  PROVE  Trusted'
<1>0. job \in [Actor -> Job] /\ marker \in Note /\ process \in Process /\ Counts
      /\ torn = FALSE /\ GoTogether
  BY DEF TInv, UpdateTypeOK, Sound, Trusted
<1>1. ASSUME UNCHANGED <<files, torn, marker, proven, started>>, AtWork' <=> AtWork,
             process' = process \/ (process' = Down /\ ~AtWork)
      PROVE  Trusted'
  <2>1. (OnProbation' => OnProbation) /\ (process'.watch => OnProbation')
    BY <1>1, ProcessFacts DEF Trusted, OnProbation
  <2> QED BY <1>1, <2>1 DEF Trusted, Pending, files
<1>2. CASE Release
  BY <1>1, <1>2 DEF Release, AtWork, Working
<1>3. CASE RestartNow
  <2>1. AllIdle /\ job'["web"].at = "quiet" /\ \A b \in Actor \ {"web"} : job'[b] = job[b]
    BY <1>0, <1>3, JobFacts, Actors DEF RestartNow
  <2> QED BY <1>1, <1>3, <2>1 DEF RestartNow, AllIdle, AtWork, Working
<1>4. CASE HangUp
  <2>1. job["cli"].at = "quiet" /\ job["web"].at = "idle"
    BY <1>4, Actors DEF HangUp, Sound, OneJob
  <2>2. job'["cli"].at = "idle" /\ job'["web"].at \in {"idle", "quiet"}
    BY <1>0, <1>4, <2>1, Actors DEF HangUp, NoJob
  <2> QED BY <1>1, <1>4, <2>1, <2>2, Actors DEF HangUp, AtWork, Working
<1>5. CASE GivesUp
  <2>1. job["web"].at = "quiet" /\ job'["web"].at = "idle"
        /\ \A b \in Actor \ {"web"} : job'[b] = job[b]
    BY <1>0, <1>5, JobFacts, Actors DEF GivesUp
  <2> QED BY <1>1, <1>5, <2>1, Actors DEF GivesUp, AtWork, Working
<1>6. CASE PowerCut
  BY <1>6 DEF PowerCut, Fault
<1>7. CASE Dies
  <2>1. ~AtWork
    BY <1>7 DEF Dies, Sound, OneJob, AtWork
  <2>2. job'["web"].at = "idle" /\ \A b \in Actor \ {"web"} : job'[b] = job[b]
    BY <1>0, <1>7, JobFacts, Actors DEF Dies
  <2> QED BY <1>1, <1>7, <2>1, <2>2, Actors DEF Dies, AtWork, Working
\* A version is kept.
<1>8. ASSUME UNCHANGED <<files, torn, started>>, ~AtWork, ~AtWork', Pending,
             marker'.phase = "done", proven \subseteq proven', wcr \in proven'
      PROVE  Trusted'
  BY <1>8 DEF Trusted, Pending, OnProbation, files
<1>9. ASSUME UNCHANGED <<files, torn, started, marker>>, ~AtWork, ~AtWork', ~Pending,
             process'.watch => process.watch, proven \subseteq proven'
      PROVE  Trusted'
  BY <1>9 DEF Trusted, Pending, OnProbation, files
<1>10. CASE Keep
  <2>1. ~AtWork /\ ~AtWork'
    BY <1>10 DEF Keep, Sound, OneJob, AtWork, Working
  <2>2. CASE Pending
    <3>1. marker'.phase = "done"
      BY <1>0, <1>10, <2>2, Kept DEF Keep
    <3>2. wcr = process.runs
      BY <1>0, <1>10, <2>2 DEF Keep, Sound, Watched, OnProbation, Pending, GoTogether, NoteIsSound
    <3> QED BY <1>8, <1>10, <2>1, <2>2, <3>1, <3>2 DEF Keep, StayedUp
  <2>3. CASE ~Pending
    <3>1. process'.watch => process.watch
      BY <1>10 DEF Keep
    <3> QED BY <1>9, <1>10, <2>1, <2>3, <3>1 DEF Keep
  <2> QED BY <2>2, <2>3
<1>11. CASE GoesQuiet
  <2>1. job'["web"].at = "stop" /\ \A b \in Actor \ {"web"} : job'[b] = job[b]
    BY <1>0, <1>11, JobFacts, Actors DEF GoesQuiet
  <2>2. ~AtWork /\ ~AtWork'
    BY <1>11, <2>1, Actors DEF GoesQuiet, AtWork, Working, Sound, OneJob
  <2>3. CASE KeepsRunning
    <3>1. marker'.phase = "done"
      BY <1>0, <1>11, <2>3, Kept DEF GoesQuiet
    <3>2. wcr = process.runs
      BY <1>0, <2>3 DEF KeepsRunning, GoTogether, NoteIsSound
    <3> QED BY <1>8, <1>11, <2>2, <2>3, <3>1, <3>2 DEF GoesQuiet, KeepsRunning
  <2>4. CASE ~KeepsRunning
    BY <1>1, <1>11, <2>2, <2>4 DEF GoesQuiet
  <2> QED BY <2>3, <2>4
<1> QED BY <1>2, <1>3, <1>4, <1>5, <1>6, <1>7, <1>10, <1>11

LEMMA GiveWayBounded ==
  ASSUME TInv, Sound, Trusted, faults = 0, faults' = faults, GiveWay
  PROVE  Trusted'
<1>0. job \in [Actor -> Job] /\ marker \in Note /\ process \in Process /\ Counts
      /\ torn = FALSE /\ GoTogether
  BY DEF TInv, UpdateTypeOK, Sound, Trusted
<1>1. \A a \in Actor : ~Working(a)
  BY DEF GiveWay, Sound, OneJob
<1>2. job' = job \/ (job'["web"].at = "idle" /\ \A b \in Actor \ {"web"} : job'[b] = job[b])
  BY <1>0, JobFacts, Actors DEF GiveWay
<1>3. ~AtWork /\ ~AtWork'
  BY <1>1, <1>2, Actors DEF AtWork, Working
<1>4. \/ Back /\ marker'.phase = "rolled_back" /\ marker.phase # "none"
      \/ GoesOn(process.runs) /\ marker' = marker /\ marker.phase = "none"
  <2>1. \/ Back /\ marker'.phase = "rolled_back" /\ marker.phase # "none"
        \/ Tears
        \/ faults' # faults
        \/ GoesOn(process.runs) /\ marker' = marker /\ marker.phase = "none"
    BY <1>0, RollsBack DEF GiveWay, Counts
  <2> QED BY <2>1 DEF Tears
<1>5. ~Pending' /\ ~OnProbation' /\ ~process'.watch
  <2>1. process.runs \in 0..Last
    BY <1>0 DEF Process
  <2> QED BY <1>4, <2>1, ProcessFacts DEF Back, GoesOn, Pending, OnProbation
<1>6. torn' = FALSE /\ proven' = proven /\ started' = started
  BY <1>0, <1>4 DEF Back, GoesOn, GiveWay
<1>7. wcr' \in proven
  <2>1. OnProbation
    BY DEF GiveWay, Trusted
  <2>2. Back
    BY <1>4, <2>1 DEF OnProbation
  <2>3. bak \in proven /\ bak # None
    BY <1>0, <2>1, Versions DEF Trusted, GoTogether, NoteIsSound
  <2> QED BY <2>2, <2>3 DEF Back, PutBack
<1> QED BY <1>3, <1>5, <1>6, <1>7 DEF Trusted

LEMMA BoundedStep ==
  TInv /\ Sound /\ Bounded /\ Patient = TRUE /\ [UpdateNext]_vars => Bounded'
<1> SUFFICES ASSUME TInv, Sound, Bounded, Patient = TRUE, [UpdateNext]_vars, faults' = 0
             PROVE  Trusted'
  BY DEF Bounded
<1>0. job \in [Actor -> Job] /\ faults = 0 /\ faults' = faults /\ Trusted
  BY NoFaultBefore DEF TInv, UpdateTypeOK, Bounded
<1>1. CASE UNCHANGED vars
  BY <1>0, <1>1 DEF vars, files, Trusted, AtWork, Working, Pending, OnProbation
<1>2. ASSUME NEW a \in Actor, Press(a) \/ Installing(a) PROVE Trusted'
  BY <1>0, <1>2, InstallBounded
<1>3. CASE Release \/ RestartNow \/ HangUp \/ GivesUp \/ PowerCut \/ Dies \/ Keep \/ GoesQuiet
  BY <1>0, <1>3, RestBounded
<1>4. CASE Boot
  <2>1. ~AtWork
    BY <1>4, Versions DEF Boot, Sound, OneJob, AtWork
  <2>2. ~AtWork'
    BY <1>4, <2>1 DEF Boot, AtWork, Working
  <2> QED BY <1>0, <1>4, <2>1, <2>2, StartBounded DEF Boot
<1>5. CASE GiveWay
  BY <1>0, <1>5, GiveWayBounded
<1>6. CASE Restart
  <2>1. job["web"].at = "stop" /\ job'["web"].at = "idle"
        /\ \A b \in Actor \ {"web"} : job'[b] = job[b]
    BY <1>0, <1>6, JobFacts, Actors DEF Restart
  <2>2. ~AtWork /\ ~AtWork'
    BY <2>1, Actors DEF AtWork, Working, Sound, OneJob
  <2>3. CASE wcr \in Version \ Broken /\ StartOn(wcr)
    BY <1>0, <1>6, <2>2, <2>3, StartBounded DEF Restart
  <2>4. CASE UNCHANGED <<files, marker, started, torn>> /\ (process' = process \/ process' = Down)
    <3>1. (OnProbation' => OnProbation) /\ (process'.watch => OnProbation')
      BY <1>0, <1>6, <2>4, ProcessFacts DEF Restart, Trusted, OnProbation
    <3> QED BY <1>0, <1>6, <2>2, <2>4, <3>1 DEF Restart, Trusted, Pending, files
  <2> QED BY <1>6, <2>3, <2>4 DEF Restart
<1> QED BY <1>1, <1>2, <1>3, <1>4, <1>5, <1>6 DEF UpdateNext

\* One update at a time: where nothing fails, versions that have not stayed up
\* are started at most once more than MAX_STARTS before one that did is back
\* (on_start, roll_back in restart.rs).
THEOREM StartsBounded == ASSUME Patient = TRUE PROVE UpdateSpec => []StartsAreBounded
<1>1. UpdateInit => Bounded
  <2> SUFFICES ASSUME UpdateInit PROVE Trusted
    BY DEF Bounded
  <2>1. ~AtWork /\ ~Pending /\ ~OnProbation
    BY DEF UpdateInit, NoJob, NoNote, AtWork, Working, Pending, OnProbation
  <2> QED BY <2>1, Versions DEF UpdateInit, Trusted
<1>2. TInv /\ Sound /\ Bounded => StartsAreBounded
  BY Versions DEF TInv, UpdateTypeOK, Bounded, Trusted, StartsAreBounded
<1>3. TInv /\ Sound /\ Bounded /\ [UpdateNext]_vars => Bounded'
  BY BoundedStep
<1> QED BY <1>1, <1>2, <1>3, SoundHolds, PTL DEF UpdateSpec
=============================================================================
