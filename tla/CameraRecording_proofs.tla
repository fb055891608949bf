------------------------ MODULE CameraRecording_proofs ------------------------
(***************************************************************************)
(* Proofs about CameraRecording, for any bounds: the processes stay under  *)
(* control, the rows of a recording in order and finished media unharmed.  *)
(***************************************************************************)
EXTENDS CameraRecording, SequenceTheorems, TLAPS

Media    == [name : File, whole : BOOLEAN]
Process  == [pid : Pid, file : File, begun : BOOLEAN, told : BOOLEAN]
MediaRow == [type : {"snapshot", "record_start", "record"}, file : File \cup {NoFile},
             content : {"whole", "part", "null"}]
Seconds  == SUBSET (0..MaxClock)

Types ==
  /\ streaming_ \in BOOLEAN /\ recording_ \in BOOLEAN
  /\ current_record_file_ \in File \cup {NoFile} /\ media_sequence_ \in 0..MaxMedia
  /\ clock \in 0..MaxClock /\ seconds \in [now : Seconds, before : Seconds, twice : Seconds]
  /\ started \in 0..MaxStarts
  /\ ffmpeg \subseteq Process /\ files \subseteq Media
  /\ media_files \in Seq(MediaRow)

(***************************************************************************)
(* The inductive invariant.  seconds has the clock among those of this run *)
(* and what it has in common with earlier runs among those lived twice     *)
(* (TimeKnown).  Every name in use was given out (Used): in a second of an *)
(* earlier run, or in one of this run with a number up to the present one. *)
(* So a new name is fresh unless two runs have lived through the second:   *)
(* no two recorders write one file, and a recorder that has not begun its  *)
(* file finds none (Unbegun).  A name that is being recorded has no final  *)
(* row yet (NotFinal).                                                     *)
(***************************************************************************)
Lived(name) == name.time \in seconds.twice

TimeKnown == clock \in seconds.now /\ seconds.now \cap seconds.before \subseteq seconds.twice

Old(name) == \/ name.time \in seconds.before
             \/ name.time \in seconds.now /\ name.seq <= media_sequence_

Used ==
  /\ \A p \in ffmpeg : Old(p.file)
  /\ \A f \in files : Old(f.name)
  /\ \A i \in 1..Len(media_files) :
       media_files[i].file # NoFile => Old(media_files[i].file)
  /\ current_record_file_ # NoFile => Old(current_record_file_)

Unbegun == \A p \in ffmpeg, f \in files : f.name = p.file => p.begun \/ Lived(p.file)

NotFinal ==
  /\ ~recording_ => current_record_file_ = NoFile
  /\ \A i \in 1..Len(media_files) :
       (/\ media_files[i].type # "record_start" /\ media_files[i].file # NoFile
        /\ ~Lived(media_files[i].file))
         => media_files[i].file # current_record_file_

CameraInv ==
  Types /\ TimeKnown /\ Used /\ Unbegun /\ NotFinal /\ ProcessesOwned /\ RowsInOrder

USE DEF flags, pids, streams, time, vars
-----------------------------------------------------------------------------
LEMMA StepCases ==
  ASSUME [Next]_vars
  PROVE  \/ StartStream \/ StopStream \/ Snapshot \/ StartRecord \/ StartRecordFails
         \/ StopRecord \/ GstWrites \/ Tick \/ SetBack \/ Restart \/ Crash
         \/ \E p \in gst : GstEnds(p)
         \/ \E p \in ffmpeg : FfmpegWrites(p)
         \/ \E p \in ffmpeg : FfmpegEnds(p)
         \/ UNCHANGED vars
BY DEF Next

LEMMA BoundsAreNat == MaxClock \in Nat /\ MaxMedia \in Nat /\ MaxStarts \in Nat
BY BoundAssumption

\* The next name is a name, and not an old one unless its second was lived twice.
LEMMA NextName ==
  ASSUME clock \in 0..MaxClock, media_sequence_ \in 0..MaxMedia,
         media_sequence_ < MaxMedia, NEW prefix \in {"snapshot", "record"}
  PROVE  /\ MakeMediaName(prefix) \in File
         /\ MakeMediaName(prefix) # NoFile
         /\ TimeKnown => Lived(MakeMediaName(prefix)) \/ ~Old(MakeMediaName(prefix))
<1>1. MakeMediaName(prefix) \in File
  BY BoundsAreNat DEF MakeMediaName, File
<1>. DEFINE name == MakeMediaName(prefix)
<1>2. ASSUME TimeKnown, Old(name), ~Lived(name) PROVE FALSE
  <2>1. name.time = clock /\ name.seq = media_sequence_ + 1
    BY DEF MakeMediaName
  <2>2. clock \notin seconds.before
    BY <1>2, <2>1 DEF TimeKnown, Lived
  <2>3. name.seq <= media_sequence_
    BY <1>2, <2>1, <2>2 DEF Old
  <2>. QED
    BY <2>1, <2>3, BoundsAreNat
<1>. QED
  BY <1>1, <1>2, NullAssumption

\* A step that takes the next name uses its number up.
NumberGiven ==
  UNCHANGED time /\ media_sequence_ < MaxMedia /\ media_sequence_' = media_sequence_ + 1

\* What a step does to the numbers that names are made of.
ClockShows ==
  /\ clock' \in 0..MaxClock /\ media_sequence_' = media_sequence_
  /\ seconds' = [seconds EXCEPT !.now = @ \cup {clock'},
                                !.twice = @ \cup ({clock'} \cap seconds.before)]

RunBegins ==
  /\ clock' = clock /\ media_sequence_' = 0
  /\ seconds' = [now |-> {clock}, before |-> seconds.before \cup seconds.now,
                 twice |-> seconds.twice \cup {clock}]

TimePasses ==
  (UNCHANGED time /\ media_sequence_' = media_sequence_) \/ NumberGiven \/ ClockShows \/ RunBegins

LEMMA TimeStep ==
  ASSUME Types, [Next]_vars
  PROVE  TimePasses
<1>1. CASE \/ StartStream \/ StopStream \/ StopRecord \/ GstWrites
           \/ \E p \in gst : GstEnds(p)
           \/ \E p \in ffmpeg : FfmpegWrites(p)
           \/ \E p \in ffmpeg : FfmpegEnds(p)
           \/ UNCHANGED vars
  BY <1>1 DEF StartStream, StopStream, StopRecord, GstWrites, GstEnds, FfmpegWrites,
              FfmpegEnds, TimePasses
<1>2. CASE Snapshot
  BY <1>2 DEF Snapshot, TimePasses, NumberGiven
<1>3. CASE StartRecord
  BY <1>3 DEF StartRecord, TimePasses, NumberGiven
<1>4. CASE StartRecordFails
  BY <1>4 DEF StartRecordFails, TimePasses, NumberGiven
<1>5. CASE Restart \/ Crash
  BY <1>5 DEF Restart, Crash, Begins, TimePasses, RunBegins
<1>6. CASE Tick
  <2>1. clock + 1 \in 0..MaxClock
    BY <1>6, BoundsAreNat DEF Tick, Types
  <2>. QED
    BY <1>6, <2>1 DEF Tick, Shows, TimePasses, ClockShows
<1>7. CASE SetBack
  BY <1>7 DEF SetBack, Shows, TimePasses, ClockShows
<1>. QED
  BY <1>1, <1>2, <1>3, <1>4, <1>5, <1>6, <1>7, StepCases

LEMMA SecondsStep ==
  ASSUME Types, TimeKnown, TimePasses
  PROVE  /\ clock' \in 0..MaxClock /\ media_sequence_' \in 0..MaxMedia
         /\ seconds' \in [now : Seconds, before : Seconds, twice : Seconds]
         /\ TimeKnown' /\ seconds.twice \subseteq seconds'.twice
<1>1. CASE UNCHANGED time /\ media_sequence_' = media_sequence_
  BY <1>1 DEF Types, TimeKnown
<1>2. CASE NumberGiven
  BY <1>2, BoundsAreNat DEF NumberGiven, Types, TimeKnown
<1>3. CASE ClockShows
  <2>1. /\ seconds'.now = seconds.now \cup {clock'} /\ seconds'.before = seconds.before
        /\ seconds'.twice = seconds.twice \cup ({clock'} \cap seconds.before)
        /\ seconds' \in [now : Seconds, before : Seconds, twice : Seconds]
    BY <1>3 DEF ClockShows, Types, Seconds
  <2>. QED
    BY <1>3, <2>1 DEF ClockShows, Types, TimeKnown
<1>4. CASE RunBegins
  BY <1>4, BoundsAreNat DEF RunBegins, Types, TimeKnown, Seconds
<1>. QED
  BY <1>1, <1>2, <1>3, <1>4 DEF TimePasses

\* An old name stays old, a second lived twice too.
LEMMA OldStays ==
  ASSUME Types, TimeKnown, TimePasses, NEW name \in File, Old(name)
  PROVE  Old(name)'
<1>1. name.seq \in 1..MaxMedia
  BY DEF File
<1>2. CASE UNCHANGED time /\ media_sequence_' = media_sequence_
  BY <1>2 DEF Old
<1>3. CASE NumberGiven
  BY <1>1, <1>3, BoundsAreNat DEF NumberGiven, Types, Old
<1>4. CASE ClockShows
  BY <1>4 DEF ClockShows, Types, Old
<1>5. CASE RunBegins
  BY <1>5 DEF RunBegins, Old
<1>. QED
  BY <1>2, <1>3, <1>4, <1>5 DEF TimePasses

LEMMA LivedStays ==
  ASSUME Types, TimeKnown, [Next]_vars, NEW name, Lived(name)
  PROVE  Lived(name)'
BY TimeStep, SecondsStep DEF Lived

\* The next name is old once its number is given out.
LEMMA NextNameAges ==
  ASSUME Types, TimeKnown, NumberGiven,
         NEW prefix \in {"snapshot", "record"}, NEW name, name = MakeMediaName(prefix)
  PROVE  Old(name)'
BY BoundsAreNat DEF NumberGiven, Types, TimeKnown, MakeMediaName, Old
-----------------------------------------------------------------------------
\* The types.
LEMMA RowType ==
  /\ \A file \in File \cup {NoFile}, content \in {"whole", "part", "null"} :
       /\ Row("record_start", file, content) \in MediaRow
       /\ Row("record", file, content) \in MediaRow
       /\ Row("snapshot", file, content) \in MediaRow
  /\ \A file, dir : Content(file, dir) \in {"whole", "part", "null"}
<1>1. \A file, dir : Content(file, dir) \in {"whole", "part", "null"}
  BY DEF Content
<1>. QED
  BY <1>1 DEF Row, MediaRow

\* A step leaves the rows alone and may forget the recording, or it adds a row:
\* for the current recording, a new one, a snapshot, or the end of a recording.
KeptRows ==
  /\ UNCHANGED media_files
  /\ UNCHANGED <<recording_, current_record_file_>> \/ current_record_file_' = NoFile

StartAgain(r) ==
  /\ r.type = "record_start" /\ r.file = current_record_file_ /\ recording_
  /\ UNCHANGED <<recording_, current_record_file_>>
StartNew(r) ==
  /\ r.type = "record_start" /\ r.file = MakeMediaName("record") /\ NumberGiven
  /\ current_record_file_' = r.file /\ recording_'
SnapshotTaken(r) ==
  /\ r.type = "snapshot" /\ r.file = MakeMediaName("snapshot") /\ NumberGiven
  /\ UNCHANGED <<recording_, current_record_file_>>
Stopped(r) ==
  /\ r.type = "record" /\ r.file = current_record_file_ /\ ~recording_'
  /\ IF recording_ THEN current_record_file_' = NoFile
                   ELSE UNCHANGED current_record_file_

NewRow(r) == StartAgain(r) \/ StartNew(r) \/ SnapshotTaken(r) \/ Stopped(r)

LEMMA RowsStep ==
  ASSUME Types, [Next]_vars
  PROVE  \/ KeptRows
         \/ \E r \in MediaRow : media_files' \in {media_files, Append(media_files, r)} /\ NewRow(r)
<1>1. CASE Snapshot
  <2>. DEFINE name == MakeMediaName("snapshot")
              content == Content(name, files')
              r == Row("snapshot", name, content)
  <2>1. CASE UNCHANGED <<files, media_files>>
    BY <1>1, <2>1 DEF Snapshot, KeptRows
  <2>2. CASE Recorded("snapshot", name, content)
    <3>1. name \in File
      BY <1>1, NextName DEF Snapshot, Types
    <3>2. r \in MediaRow
      BY <3>1, RowType
    <3>3. r.type = "snapshot" /\ r.file = name
      BY DEF Row
    <3>4. NewRow(r)
      BY <1>1, <3>3 DEF Snapshot, NewRow, SnapshotTaken, NumberGiven
    <3>. QED
      BY <2>2, <3>2, <3>4 DEF Recorded
  <2>. QED
    BY <1>1, <2>1, <2>2 DEF Snapshot
<1>2. CASE StartRecord /\ recording_
  <2>. DEFINE r == Row("record_start", current_record_file_, "null")
  <2>1. r \in MediaRow
    BY RowType DEF Types
  <2>2. r.type = "record_start" /\ r.file = current_record_file_
    BY DEF Row
  <2>3. NewRow(r) /\ media_files' \in {media_files, Append(media_files, r)}
    BY <1>2, <2>2 DEF StartRecord, Recorded, NewRow, StartAgain
  <2>. QED
    BY <2>1, <2>3
<1>3. CASE StartRecord /\ ~recording_
  <2>. DEFINE name == MakeMediaName("record")
              r == Row("record_start", name, "null")
  <2>1. name \in File
    BY <1>3, NextName DEF StartRecord, Types
  <2>2. r \in MediaRow
    BY <2>1, RowType
  <2>3. r.type = "record_start" /\ r.file = name
    BY DEF Row
  <2>4. NewRow(r) /\ media_files' \in {media_files, Append(media_files, r)}
    BY <1>3, <2>3 DEF StartRecord, Recorded, NewRow, StartNew, NumberGiven
  <2>. QED
    BY <2>2, <2>4
<1>4. CASE StopRecord
  <2>. DEFINE content == Content(current_record_file_, files)
              r == Row("record", current_record_file_, content)
  <2>1. r \in MediaRow
    BY RowType DEF Types
  <2>2. r.type = "record" /\ r.file = current_record_file_
    BY DEF Row
  <2>3. NewRow(r) /\ media_files' \in {media_files, Append(media_files, r)}
    BY <1>4, <2>2 DEF StopRecord, Recorded, NewRow, Stopped
  <2>. QED
    BY <2>1, <2>3
<1>5. CASE \/ StartStream \/ StopStream \/ StartRecordFails \/ GstWrites \/ Tick \/ SetBack
           \/ Restart \/ Crash \/ UNCHANGED vars
           \/ \E p \in gst : GstEnds(p)
           \/ \E p \in ffmpeg : FfmpegWrites(p)
           \/ \E p \in ffmpeg : FfmpegEnds(p)
  BY <1>5 DEF StartStream, StopStream, StartRecordFails, GstWrites, Tick, SetBack, Shows,
              Restart, Crash, Begins, GstEnds, FfmpegWrites, FfmpegEnds, KeptRows
<1>. QED
  BY <1>1, <1>2, <1>3, <1>4, <1>5, StepCases

\* A step keeps the files of the recorders or starts one with the next name.
NewRecorder(p) ==
  /\ p = Recorder(started', MakeMediaName("record")) /\ NumberGiven
  /\ started < MaxStarts /\ started' = started + 1

LEMMA NewRecorderType ==
  ASSUME Types, NEW p, NewRecorder(p)
  PROVE  p \in Process /\ p.file = MakeMediaName("record") /\ ~p.begun
<1>1. MakeMediaName("record") \in File
  BY NextName DEF NewRecorder, NumberGiven, Types
<1>2. started' \in Pid
  BY BoundsAreNat DEF NewRecorder, Types, Pid
<1>. QED
  BY <1>1, <1>2 DEF NewRecorder, Recorder, Process

LEMMA ToldType ==
  ASSUME NEW ps \in SUBSET Process, NEW pid, NEW p \in Told(ps, pid)
  PROVE  \E q \in ps : /\ p \in Process /\ p.file = q.file /\ p.begun = q.begun /\ p.pid = q.pid
                       /\ p.told = (q.told \/ q.pid = pid)
<1>1. PICK q \in ps : p = [q EXCEPT !.told = q.told \/ q.pid = pid]
  BY DEF Told
<1>2. q \in Process /\ (q.told \/ q.pid = pid) \in BOOLEAN
  BY DEF Process
<1>3. /\ p \in Process /\ p.file = q.file /\ p.begun = q.begun /\ p.pid = q.pid
      /\ p.told = (q.told \/ q.pid = pid)
  BY <1>1, <1>2 DEF Process
<1>. QED
  BY <1>3

LEMMA BegunType ==
  ASSUME NEW q \in Process, NEW p, p = [q EXCEPT !.begun = TRUE]
  PROVE  p \in Process /\ p.file = q.file /\ p.begun /\ p.pid = q.pid /\ p.told = q.told
BY DEF Process

LEMMA RecorderStep ==
  ASSUME Types, [Next]_vars, NEW p \in ffmpeg'
  PROVE  /\ p \in Process
         /\ \/ NewRecorder(p)
            \/ \E q \in ffmpeg : q.file = p.file /\ (q.begun => p.begun)
<1>1. CASE p \in ffmpeg
  BY <1>1 DEF Types
<1>2. CASE StartRecord \/ StartRecordFails
  <2>1. p \in ffmpeg \/ NewRecorder(p)
    BY <1>2 DEF StartRecord, StartRecordFails, NewRecorder, NumberGiven
  <2>. QED
    BY <1>1, <2>1, NewRecorderType
<1>3. CASE StopRecord
  <2>1. p \in ffmpeg \/ p \in Told(ffmpeg, record_pid)
    BY <1>3 DEF StopRecord
  <2>2. ffmpeg \in SUBSET Process
    BY DEF Types
  <2>. QED
    BY <1>1, <2>1, <2>2, ToldType
<1>4. ASSUME NEW x \in ffmpeg, FfmpegWrites(x)
      PROVE  /\ p \in Process
             /\ \E q \in ffmpeg : q.file = p.file /\ (q.begun => p.begun)
  <2>1. p \in ffmpeg \/ p = [x EXCEPT !.begun = TRUE]
    BY <1>4 DEF FfmpegWrites
  <2>2. x \in Process
    BY DEF Types
  <2>. QED
    BY <1>1, <2>1, <2>2, BegunType
<1>5. CASE \/ StartStream \/ StopStream \/ Snapshot \/ GstWrites \/ Tick \/ SetBack
           \/ Restart \/ Crash \/ UNCHANGED vars
           \/ \E x \in gst : GstEnds(x)
           \/ \E x \in ffmpeg : FfmpegEnds(x)
  <2>1. p \in ffmpeg
    BY <1>5 DEF StartStream, StopStream, Snapshot, GstWrites, Tick, SetBack, Shows, Restart,
                Crash, Begins, GstEnds, FfmpegEnds
  <2>. QED
    BY <1>1, <2>1
<1>. QED
  BY <1>2, <1>3, <1>4, <1>5, StepCases

\* A file of the directory was there, is a snapshot with the next name, or is
\* what a recorder writes: only when that recorder ends is it whole.
NewSnapshot(f) ==
  f = [name |-> MakeMediaName("snapshot"), whole |-> TRUE] /\ NumberGiven

LEMMA EndedType ==
  ASSUME NEW f \in Media, NEW file, NEW g,
         g = [f EXCEPT !.whole = f.whole \/ f.name = file]
  PROVE  g \in Media /\ g.name = f.name /\ (f.whole \/ f.name # file => g = f)
<1>1. f.whole \in BOOLEAN /\ (f.whole \/ f.name = file) \in BOOLEAN
  BY DEF Media
<1>2. g \in Media /\ g.name = f.name /\ g.whole = (f.whole \/ f.name = file)
  BY <1>1 DEF Media
<1>3. ASSUME f.whole \/ f.name # file PROVE g.whole = f.whole
  BY <1>1, <1>2, <1>3
<1>4. g.whole = f.whole => g = f
  BY <1>2 DEF Media
<1>. QED
  BY <1>2, <1>3, <1>4

LEMMA MediaStep ==
  ASSUME Types, [Next]_vars, NEW f \in files'
  PROVE  /\ f \in Media
         /\ \/ f \in files
            \/ NewSnapshot(f)
            \/ \E p \in ffmpeg : f.name = p.file /\ (FfmpegWrites(p) \/ (p.begun /\ FfmpegEnds(p)))
<1>1. CASE f \in files
  BY <1>1 DEF Types
<1>2. CASE Snapshot
  <2>1. f \in files \/ NewSnapshot(f)
    BY <1>2 DEF Snapshot, NewSnapshot, NumberGiven
  <2>2. NewSnapshot(f) => f \in Media
    BY NextName DEF NewSnapshot, NumberGiven, Media, Types
  <2>. QED
    BY <1>1, <2>1, <2>2
<1>3. ASSUME NEW p \in ffmpeg, FfmpegWrites(p)
      PROVE  /\ f \in Media
             /\ f \in files \/ f.name = p.file
  <2>1. f \in files \/ f = [name |-> p.file, whole |-> FALSE]
    BY <1>3 DEF FfmpegWrites
  <2>2. p.file \in File
    BY DEF Types, Process
  <2>3. ASSUME f = [name |-> p.file, whole |-> FALSE]
        PROVE  f \in Media /\ f.name = p.file
    <3>1. f \in Media
      BY <2>2, <2>3 DEF Media
    <3>. QED
      BY <2>3, <3>1
  <2>. QED
    BY <1>1, <2>1, <2>3
<1>4. ASSUME NEW p \in ffmpeg, FfmpegEnds(p)
      PROVE  /\ f \in Media
             /\ f \in files \/ (f.name = p.file /\ p.begun)
  <2>1. CASE f \in files
    BY <1>1, <2>1
  <2>2. CASE f \notin files
    <3>1. PICK g \in files : p.begun /\ f = [g EXCEPT !.whole = g.whole \/ g.name = p.file]
      BY <1>4, <2>2 DEF FfmpegEnds
    <3>2. g \in Media
      BY DEF Types
    <3>3. f \in Media /\ f.name = g.name /\ (g.name # p.file => f = g)
      BY <3>1, <3>2, EndedType
    <3>. QED
      BY <2>2, <3>1, <3>3
  <2>. QED
    BY <2>1, <2>2
<1>5. CASE \/ StartStream \/ StopStream \/ StartRecord \/ StartRecordFails \/ StopRecord
           \/ GstWrites \/ Tick \/ SetBack \/ Restart \/ Crash \/ UNCHANGED vars
           \/ \E x \in gst : GstEnds(x)
  <2>1. f \in files
    BY <1>5 DEF StartStream, StopStream, StartRecord, StartRecordFails, StopRecord,
                GstWrites, Tick, SetBack, Shows, Restart, Crash, Begins, GstEnds
  <2>. QED
    BY <1>1, <2>1
<1>. QED
  BY <1>2, <1>3, <1>4, <1>5, StepCases

LEMMA FlagsStep ==
  ASSUME Types, [Next]_vars
  PROVE  /\ streaming_' \in BOOLEAN /\ recording_' \in BOOLEAN
         /\ current_record_file_' \in File \cup {NoFile}
<1>1. CASE StartRecord /\ ~recording_
  <2>1. MakeMediaName("record") \in File
    BY <1>1, NextName DEF StartRecord, Types
  <2>. QED
    BY <1>1, <2>1 DEF StartRecord, Types
<1>2. CASE StartRecord /\ recording_
  BY <1>2 DEF StartRecord, Types
<1>3. CASE StartStream \/ StopStream
  BY <1>3 DEF StartStream, StopStream, StreamFilesRemoved, Types
<1>4. CASE StopRecord
  BY <1>4 DEF StopRecord, Types
<1>5. CASE Restart
  BY <1>5 DEF Restart, Begins, StreamFilesRemoved, Types
<1>6. CASE \/ Snapshot \/ StartRecordFails \/ GstWrites \/ Tick \/ SetBack
           \/ Crash \/ UNCHANGED vars
           \/ \E p \in gst : GstEnds(p)
           \/ \E p \in ffmpeg : FfmpegWrites(p)
           \/ \E p \in ffmpeg : FfmpegEnds(p)
  BY <1>6 DEF Snapshot, StartRecordFails, GstWrites, Tick, SetBack, Shows, Crash, Begins,
              GstEnds, FfmpegWrites, FfmpegEnds, Types
<1>. QED
  BY <1>1, <1>2, <1>3, <1>4, <1>5, <1>6, StepCases

LEMMA StartedStep ==
  ASSUME Types, [Next]_vars
  PROVE  started' \in 0..MaxStarts
<1>1. CASE StartStream \/ StartRecord \/ StartRecordFails
  <2>1. started' = started \/ (started < MaxStarts /\ started' = started + 1)
    BY <1>1 DEF StartStream, StartRecord, StartRecordFails
  <2>. QED
    BY <2>1, BoundsAreNat DEF Types
<1>2. CASE \/ StopStream \/ Snapshot \/ StopRecord \/ GstWrites \/ Tick \/ SetBack
           \/ Restart \/ Crash \/ UNCHANGED vars
           \/ \E p \in gst : GstEnds(p)
           \/ \E p \in ffmpeg : FfmpegWrites(p)
           \/ \E p \in ffmpeg : FfmpegEnds(p)
  <2>1. started' = started
    BY <1>2 DEF StopStream, Snapshot, StopRecord, GstWrites, Tick, SetBack, Shows, Restart,
                Crash, Begins, GstEnds, FfmpegWrites, FfmpegEnds
  <2>. QED
    BY <2>1 DEF Types
<1>. QED
  BY <1>1, <1>2, StepCases

LEMMA TypesStep ==
  ASSUME Types, TimeKnown, [Next]_vars
  PROVE  Types' /\ TimeKnown'
<1>1. /\ clock' \in 0..MaxClock /\ media_sequence_' \in 0..MaxMedia /\ TimeKnown'
      /\ seconds' \in [now : Seconds, before : Seconds, twice : Seconds]
  BY TimeStep, SecondsStep
<1>2. ffmpeg' \subseteq Process /\ files' \subseteq Media
  BY RecorderStep, MediaStep
<1>3. media_files' \in Seq(MediaRow)
  BY RowsStep, AppendProperties DEF KeptRows, Types
<1>. QED
  BY <1>1, <1>2, <1>3, FlagsStep, StartedStep DEF Types
-----------------------------------------------------------------------------
\* What a new row is like: the ones before it, and itself.
LEMMA RowAdded ==
  ASSUME Types, NEW r \in MediaRow, media_files' = Append(media_files, r)
  PROVE  /\ Len(media_files) \in Nat /\ Len(media_files)' = Len(media_files) + 1
         /\ \A i \in 1..Len(media_files)' :
              \/ i \in 1..Len(media_files) /\ media_files'[i] = media_files[i]
              \/ i = Len(media_files) + 1 /\ media_files'[i] = r
BY AppendProperties, LenProperties DEF Types

\* Used: a name that a step brings into use has had its number given out.
LEMMA CurrentStep ==
  ASSUME Types, TimeKnown, Used, [Next]_vars, current_record_file_' # NoFile
  PROVE  Old(current_record_file_)'
<1>1. CASE current_record_file_' = current_record_file_
  BY <1>1, OldStays, TimeStep DEF Types, Used
<1>2. CASE ~ UNCHANGED current_record_file_
  <2>1. PICK r \in MediaRow : StartNew(r)
    BY <1>2, RowsStep DEF KeptRows, NewRow, StartAgain, SnapshotTaken, Stopped
  <2>. QED
    BY <2>1, NextNameAges DEF StartNew
<1>. QED
  BY <1>1, <1>2

LEMMA UsedStep ==
  ASSUME Types, TimeKnown, Used, [Next]_vars
  PROVE  Used'
<1>1. ASSUME NEW name \in File, Old(name) PROVE Old(name)'
  BY <1>1, OldStays, TimeStep
<1>2. ASSUME NEW p \in ffmpeg' PROVE Old(p.file)'
  <2>1. CASE NewRecorder(p)
    BY <2>1, NewRecorderType, NextNameAges DEF NewRecorder
  <2>2. ASSUME NEW q \in ffmpeg, q.file = p.file PROVE Old(p.file)'
    BY <1>1, <2>2 DEF Types, Process, Used
  <2>. QED
    BY <2>1, <2>2, RecorderStep
<1>3. ASSUME NEW f \in files' PROVE Old(f.name)'
  <2>1. CASE NewSnapshot(f)
    BY <2>1, NextNameAges DEF NewSnapshot
  <2>2. CASE f \in files
    BY <1>1, <2>2 DEF Types, Media, Used
  <2>3. ASSUME NEW p \in ffmpeg, f.name = p.file PROVE Old(f.name)'
    BY <1>1, <2>3 DEF Types, Process, Used
  <2>. QED
    BY <2>1, <2>2, <2>3, MediaStep
<1>4. ASSUME NEW i \in 1..Len(media_files)', NEW file, file = media_files'[i].file,
             file # NoFile
      PROVE  Old(file)'
  <2>1. ASSUME NEW j \in 1..Len(media_files), media_files[j].file = file
        PROVE  Old(file)'
    <3>1. media_files[j] \in MediaRow
      BY ElementOfSeq DEF Types
    <3>2. file \in File /\ Old(file)
      BY <1>4, <2>1, <3>1 DEF Used, MediaRow
    <3>. QED
      BY <1>1, <3>2
  <2>2. CASE KeptRows
    BY <1>4, <2>1, <2>2 DEF KeptRows
  <2>3. CASE media_files' = media_files
    BY <1>4, <2>1, <2>3
  <2>4. ASSUME NEW r \in MediaRow, media_files' = Append(media_files, r), NewRow(r)
        PROVE  Old(file)'
    <3>1. CASE i \in 1..Len(media_files) /\ media_files'[i] = media_files[i]
      BY <1>4, <2>1, <3>1
    <3>2. CASE media_files'[i] = r
      <4>1. CASE StartNew(r) \/ SnapshotTaken(r)
        BY <1>4, <3>2, <4>1, NextNameAges DEF StartNew, SnapshotTaken
      <4>2. CASE StartAgain(r) \/ Stopped(r)
        <5>1. file = current_record_file_
          BY <1>4, <3>2, <4>2 DEF StartAgain, Stopped
        <5>. QED
          BY <1>1, <1>4, <5>1 DEF Types, Used
      <4>. QED
        BY <2>4, <4>1, <4>2 DEF NewRow
    <3>. QED
      BY <2>4, <3>1, <3>2, RowAdded
  <2>. QED
    BY <2>2, <2>3, <2>4, RowsStep
<1>. QED
  BY <1>2, <1>3, <1>4, CurrentStep DEF Used

-----------------------------------------------------------------------------
\* A new name is no name in use, unless two runs have lived through its second.
LEMMA FreshName ==
  ASSUME Types, TimeKnown, Used, NumberGiven, NEW prefix \in {"snapshot", "record"}
  PROVE  /\ MakeMediaName(prefix) # NoFile
         /\ Lived(MakeMediaName(prefix))
            \/ /\ current_record_file_ # MakeMediaName(prefix)
               /\ \A p \in ffmpeg : p.file # MakeMediaName(prefix)
               /\ \A f \in files : f.name # MakeMediaName(prefix)
               /\ \A i \in 1..Len(media_files) : media_files[i].file # MakeMediaName(prefix)
BY NextName DEF Types, Used, NumberGiven

LEMMA SnapshotIsNoRecord == MakeMediaName("snapshot") # MakeMediaName("record")
<1>1. MakeMediaName("snapshot").prefix = "snapshot"
  BY DEF MakeMediaName
<1>2. MakeMediaName("record").prefix = "record"
  BY DEF MakeMediaName
<1>. QED
  BY <1>1, <1>2

LEMMA UnbegunStep ==
  ASSUME Types, TimeKnown, Used, Unbegun, ProcessesOwned, [Next]_vars
  PROVE  Unbegun'
<1>. SUFFICES ASSUME NEW p \in ffmpeg', NEW f \in files', f.name = p.file, ~p.begun,
                     ~Lived(p.file)
              PROVE  FALSE
  BY LivedStays DEF Unbegun
<1>1. CASE NewRecorder(p)
  <2>1. NumberGiven /\ f.name = MakeMediaName("record")
    BY <1>1, NewRecorderType DEF NewRecorder
  <2>2. f \notin files /\ \A q \in ffmpeg : f.name # q.file
    BY <2>1, FreshName
  <2>3. ~NewSnapshot(f)
    BY <2>1, SnapshotIsNoRecord DEF NewSnapshot
  <2>. QED
    BY <2>2, <2>3, MediaStep
<1>2. ASSUME NEW q \in ffmpeg, q.file = p.file, q.begun => p.begun
      PROVE  FALSE
  <2>1. f \notin files
    BY <1>2 DEF Unbegun
  <2>2. ~NewSnapshot(f)
    BY <1>2, FreshName DEF NewSnapshot
  <2>3. PICK x \in ffmpeg :
          f.name = x.file /\ (FfmpegWrites(x) \/ (x.begun /\ FfmpegEnds(x)))
    BY <2>1, <2>2, MediaStep
  <2>4. \A y, z \in ffmpeg : y.file = p.file /\ z.file = p.file => y = z
    BY DEF ProcessesOwned, Lived
  <2>5. x = q /\ ~x.begun /\ FfmpegWrites(x)
    BY <1>2, <2>3, <2>4
  <2>6. p \in ffmpeg \/ p = [x EXCEPT !.begun = TRUE]
    BY <2>5 DEF FfmpegWrites
  <2>7. p # [x EXCEPT !.begun = TRUE]
    <3>1. x \in Process
      BY DEF Types
    <3>. QED
      BY <3>1, BegunType
  <2>8. p = x
    BY <1>2, <2>4, <2>5, <2>6, <2>7
  <2>. QED
    BY <2>5, <2>7, <2>8 DEF FfmpegWrites
<1>. QED
  BY <1>1, <1>2, RecorderStep

LEMMA NotFinalStep ==
  ASSUME Types, TimeKnown, Used, NotFinal, [Next]_vars
  PROVE  NotFinal'
<1>0. \A name : name.time \notin seconds'.twice => ~Lived(name)
  BY TimeStep, SecondsStep DEF Lived
<1>1. CASE KeptRows
  BY <1>0, <1>1, NullAssumption DEF KeptRows, NotFinal, Lived
<1>2. ASSUME NEW r \in MediaRow, NewRow(r)
      PROVE  /\ ~recording_' => current_record_file_' = NoFile
             /\ (r.type # "record_start" /\ r.file # NoFile /\ ~Lived(r.file))
                  => r.file # current_record_file_'
             /\ \A i \in 1..Len(media_files) :
                  (/\ media_files[i].type # "record_start" /\ media_files[i].file # NoFile
                   /\ ~Lived(media_files[i].file))
                    => media_files[i].file # current_record_file_'
  <2>1. ~recording_' => current_record_file_' = NoFile
    BY <1>2 DEF NewRow, StartAgain, StartNew, SnapshotTaken, Stopped, NotFinal
  <2>2. ASSUME r.type # "record_start", r.file # NoFile, ~Lived(r.file)
        PROVE  r.file # current_record_file_'
    <3>1. CASE SnapshotTaken(r)
      BY <2>2, <3>1, FreshName DEF SnapshotTaken
    <3>2. CASE Stopped(r)
      BY <2>1, <2>2, <3>2 DEF Stopped
    <3>. QED
      BY <1>2, <2>2, <3>1, <3>2 DEF NewRow, StartAgain, StartNew
  <2>3. ASSUME NEW i \in 1..Len(media_files), media_files[i].type # "record_start",
               media_files[i].file # NoFile, ~Lived(media_files[i].file)
        PROVE  media_files[i].file # current_record_file_'
    <3>1. CASE StartNew(r)
      <4>1. Lived(MakeMediaName("record")) \/ media_files[i].file # MakeMediaName("record")
        BY <3>1, FreshName DEF StartNew
      <4>. QED
        BY <2>3, <3>1, <4>1 DEF StartNew
    <3>2. CASE StartAgain(r) \/ SnapshotTaken(r) \/ Stopped(r)
      BY <2>3, <3>2 DEF StartAgain, SnapshotTaken, Stopped, NotFinal
    <3>. QED
      BY <1>2, <3>1, <3>2 DEF NewRow
  <2>. QED
    BY <2>1, <2>2, <2>3
<1>3. ASSUME NEW r \in MediaRow, NewRow(r), media_files' = media_files PROVE NotFinal'
  BY <1>0, <1>2, <1>3 DEF NotFinal, Lived
<1>4. ASSUME NEW r \in MediaRow, NewRow(r), media_files' = Append(media_files, r)
      PROVE  NotFinal'
  <2>1. r.file.time \notin seconds'.twice => ~Lived(r.file)
    BY <1>0
  <2>2. ASSUME NEW i \in 1..Len(media_files)', media_files'[i].type # "record_start",
               media_files'[i].file # NoFile, media_files'[i].file.time \notin seconds'.twice
        PROVE  media_files'[i].file # current_record_file_'
    <3>1. CASE i \in 1..Len(media_files) /\ media_files'[i] = media_files[i]
      BY <1>0, <1>2, <1>4, <2>2, <3>1
    <3>2. CASE media_files'[i] = r
      BY <1>2, <1>4, <2>1, <2>2, <3>2
    <3>. QED
      BY <1>4, <3>1, <3>2, RowAdded
  <2>. QED
    BY <1>2, <1>4, <2>2 DEF NotFinal, Lived
<1>. QED
  BY <1>1, <1>3, <1>4, RowsStep

LEMMA RowsInOrderStep ==
  ASSUME Types, TimeKnown, Used, NotFinal, RowsInOrder, [Next]_vars
  PROVE  RowsInOrder'
<1>0. \A name : name.time \notin seconds'.twice => ~Lived(name)
  BY TimeStep, SecondsStep DEF Lived
<1>1. /\ DOMAIN media_files = 1..Len(media_files)
      /\ DOMAIN media_files' = 1..Len(media_files)'
  BY TypesStep, LenProperties DEF Types
<1>2. CASE media_files' = media_files
  BY <1>0, <1>1, <1>2 DEF RowsInOrder, Lived
<1>3. ASSUME NEW r \in MediaRow, media_files' = Append(media_files, r), NewRow(r)
      PROVE  RowsInOrder'
  <2>2. ASSUME NEW i \in 1..Len(media_files), media_files[i].type # "record_start",
               media_files[i].file # NoFile, ~Lived(media_files[i].file)
        PROVE  r.file # media_files[i].file
    <3>1. CASE StartNew(r) \/ SnapshotTaken(r)
      <4>1. PICK prefix \in {"snapshot", "record"} :
              NumberGiven /\ r.file = MakeMediaName(prefix)
        BY <3>1 DEF StartNew, SnapshotTaken
      <4>. QED
        BY <2>2, <4>1, FreshName
    <3>2. CASE StartAgain(r) \/ Stopped(r)
      BY <2>2, <3>2 DEF StartAgain, Stopped, NotFinal
    <3>. QED
      BY <1>3, <3>1, <3>2 DEF NewRow
  <2>3. ASSUME NEW i \in 1..Len(media_files)', NEW j \in 1..Len(media_files)', i < j,
               media_files'[i].type # "record_start", media_files'[i].file # NoFile,
               media_files'[i].file.time \notin seconds'.twice
        PROVE  media_files'[j].file # media_files'[i].file
    <3>1. /\ i \in 1..Len(media_files) /\ media_files'[i] = media_files[i]
          /\ \/ j \in 1..Len(media_files) /\ media_files'[j] = media_files[j]
             \/ media_files'[j] = r
      BY <1>3, <2>3, RowAdded
    <3>2. ~Lived(media_files[i].file)
      BY <1>0, <2>3, <3>1 DEF Lived
    <3>3. CASE j \in 1..Len(media_files) /\ media_files'[j] = media_files[j]
      BY <1>1, <2>3, <3>1, <3>2, <3>3 DEF RowsInOrder, Lived
    <3>4. CASE media_files'[j] = r
      BY <2>2, <2>3, <3>1, <3>2, <3>4
    <3>. QED
      BY <3>1, <3>3, <3>4
  <2>. QED
    BY <1>1, <2>3 DEF RowsInOrder
<1>. QED
  BY <1>2, <1>3, RowsStep DEF KeptRows

-----------------------------------------------------------------------------
\* The processes, one part of ProcessesOwned at a time.
OneWriter == \A p, q \in ffmpeg : p.file = q.file /\ ~Lived(p.file) => p = q
StreamsOwned == \A p \in gst \ stray : streaming_ /\ p = stream_pid
RecordersOwned ==
  \A p \in ffmpeg : ~p.told /\ p.pid \notin stray =>
    recording_ /\ p.pid = record_pid /\ p.file = current_record_file_

LEMMA OwnedParts == ProcessesOwned <=> OneWriter /\ StreamsOwned /\ RecordersOwned
BY DEF ProcessesOwned, OneWriter, StreamsOwned, RecordersOwned, Lived

LEMMA OneWriterStep ==
  ASSUME Types, TimeKnown, Used, OneWriter, [Next]_vars
  PROVE  OneWriter'
<1>. SUFFICES ASSUME NEW p \in ffmpeg', NEW q \in ffmpeg', p.file = q.file, ~Lived(p.file)
              PROVE  p = q
  BY LivedStays DEF OneWriter
<1>1. CASE StartRecord \/ StartRecordFails
  <2>1. ASSUME NEW x \in ffmpeg' PROVE x \in ffmpeg \/ NewRecorder(x)
    BY <1>1 DEF StartRecord, StartRecordFails, NewRecorder, NumberGiven
  <2>2. ASSUME NEW x \in ffmpeg, NEW y, NewRecorder(y), x.file = y.file PROVE Lived(x.file)
    <3>1. y.file = MakeMediaName("record") /\ NumberGiven
      BY <2>2, NewRecorderType DEF NewRecorder
    <3>. QED
      BY <2>2, <3>1, FreshName
  <2>3. NewRecorder(p) /\ NewRecorder(q) => p = q
    BY DEF NewRecorder
  <2>. QED
    BY <2>1, <2>2, <2>3 DEF OneWriter
<1>2. CASE StopRecord /\ ffmpeg' = Told(ffmpeg, record_pid)
  <2>1. PICK x \in ffmpeg : p = [x EXCEPT !.told = x.told \/ x.pid = record_pid]
    BY <1>2 DEF Told
  <2>2. PICK y \in ffmpeg : q = [y EXCEPT !.told = y.told \/ y.pid = record_pid]
    BY <1>2 DEF Told
  <2>3. p.file = x.file /\ q.file = y.file
    BY <2>1, <2>2 DEF Types, Process
  <2>4. x = y
    BY <2>3 DEF OneWriter
  <2>. QED
    BY <2>1, <2>2, <2>4
<1>3. ASSUME NEW x \in ffmpeg, FfmpegWrites(x) PROVE p = q
  <2>. DEFINE begun == [x EXCEPT !.begun = TRUE]
  <2>1. /\ p \in ffmpeg \ {x} \/ p = begun
        /\ q \in ffmpeg \ {x} \/ q = begun
    BY <1>3 DEF FfmpegWrites
  <2>2. begun.file = x.file
    <3>1. x \in Process
      BY DEF Types
    <3>. QED
      BY <3>1, BegunType
  <2>. HIDE DEF begun
  <2>. QED
    BY <2>1, <2>2 DEF OneWriter
<1>4. CASE \/ StartStream \/ StopStream \/ Snapshot \/ GstWrites \/ Tick \/ SetBack
           \/ Restart \/ Crash \/ UNCHANGED vars
           \/ \E x \in gst : GstEnds(x)
           \/ \E x \in ffmpeg : FfmpegEnds(x)
           \/ StopRecord /\ ffmpeg' = ffmpeg
  <2>1. ffmpeg' \subseteq ffmpeg
    BY <1>4 DEF StartStream, StopStream, Snapshot, GstWrites, Tick, SetBack, Shows, Restart,
                Crash, Begins, GstEnds, FfmpegEnds
  <2>. QED
    BY <2>1 DEF OneWriter
<1>. QED
  BY <1>1, <1>2, <1>3, <1>4, StepCases DEF StopRecord

LEMMA StreamsOwnedStep ==
  ASSUME Types, StreamsOwned, [Next]_vars
  PROVE  StreamsOwned'
<1>1. CASE StartStream
  <2>1. gst \subseteq stray /\ gst' = gst \cup {started'}
    BY <1>1 DEF StartStream, StreamsOwned
  <2>. QED
    BY <1>1, <2>1 DEF StartStream, StreamsOwned
<1>2. CASE StopStream
  BY <1>2 DEF StopStream, StreamsOwned
<1>3. CASE Restart \/ Crash
  BY <1>3 DEF Restart, Crash, Begins, StreamsOwned
<1>4. CASE \/ Snapshot \/ StartRecord \/ StartRecordFails \/ StopRecord \/ GstWrites
           \/ Tick \/ SetBack \/ UNCHANGED vars
           \/ \E p \in gst : GstEnds(p)
           \/ \E p \in ffmpeg : FfmpegWrites(p)
           \/ \E p \in ffmpeg : FfmpegEnds(p)
  <2>1. gst' \subseteq gst /\ stray \subseteq stray' /\ UNCHANGED <<streaming_, stream_pid>>
    BY <1>4 DEF Snapshot, StartRecord, StartRecordFails, StopRecord, GstWrites, Tick, SetBack,
                Shows, GstEnds, FfmpegWrites, FfmpegEnds
  <2>. QED
    BY <2>1 DEF StreamsOwned
<1>. QED
  BY <1>1, <1>2, <1>3, <1>4, StepCases

LEMMA RecordersOwnedStep ==
  ASSUME Types, RecordersOwned, [Next]_vars
  PROVE  RecordersOwned'
<1>1. CASE StartRecord
  <2>1. CASE recording_
    BY <1>1, <2>1 DEF StartRecord, RecordersOwned
  <2>2. CASE ~recording_
    BY <1>1, <2>2 DEF StartRecord, RecordersOwned, Recorder
  <2>. QED
    BY <2>1, <2>2
<1>2. CASE StartRecordFails
  BY <1>2 DEF StartRecordFails, RecordersOwned, Recorder
<1>3. CASE StopRecord
  <2>1. CASE ~recording_
    BY <1>3, <2>1 DEF StopRecord, RecordersOwned
  <2>2. CASE recording_
    <3>1. ASSUME NEW p \in ffmpeg', ~p.told PROVE p.pid \in stray'
      <4>1. p \in Told(ffmpeg, record_pid) /\ ffmpeg \in SUBSET Process /\ stray' = stray
        BY <1>3, <2>2 DEF StopRecord, Types
      <4>2. PICK q \in ffmpeg : p.pid = q.pid /\ p.told = (q.told \/ q.pid = record_pid)
        BY <4>1, ToldType
      <4>. QED
        BY <3>1, <4>1, <4>2 DEF RecordersOwned
    <3>. QED
      BY <3>1 DEF RecordersOwned
  <2>. QED
    BY <2>1, <2>2
<1>4. CASE Restart \/ Crash
  BY <1>4 DEF Restart, Crash, Begins, RecordersOwned
<1>5. ASSUME NEW x \in ffmpeg, FfmpegWrites(x) PROVE RecordersOwned'
  <2>1. x \in Process
    BY DEF Types
  <2>2. ASSUME NEW p \in ffmpeg' PROVE \E q \in ffmpeg : q.pid = p.pid /\ q.told = p.told
                                                        /\ q.file = p.file
    BY <1>5, <2>1, BegunType DEF FfmpegWrites
  <2>3. UNCHANGED <<stray, recording_, record_pid, current_record_file_>>
    BY <1>5 DEF FfmpegWrites
  <2>. QED
    BY <2>2, <2>3 DEF RecordersOwned
<1>6. CASE \/ StartStream \/ StopStream \/ Snapshot \/ GstWrites \/ Tick \/ SetBack
           \/ UNCHANGED vars
           \/ \E p \in gst : GstEnds(p)
           \/ \E p \in ffmpeg : FfmpegEnds(p)
  <2>1. /\ ffmpeg' \subseteq ffmpeg /\ stray \subseteq stray'
        /\ UNCHANGED <<recording_, record_pid, current_record_file_>>
    BY <1>6 DEF StartStream, StopStream, StreamFilesRemoved, Snapshot, GstWrites, Tick, SetBack,
                Shows, GstEnds, FfmpegEnds
  <2>. QED
    BY <2>1 DEF RecordersOwned
<1>. QED
  BY <1>1, <1>2, <1>3, <1>4, <1>5, <1>6, StepCases

-----------------------------------------------------------------------------
LEMMA CameraInvHolds == Spec => []CameraInv
<1>1. Init => CameraInv
  <2>1. <<>> \in Seq(MediaRow) /\ Len(<<>>) = 0
    BY EmptySeq
  <2>2. ASSUME Init PROVE Types /\ TimeKnown
    <3>1. /\ clock \in 0..MaxClock /\ media_sequence_ \in 0..MaxMedia
          /\ started \in 0..MaxStarts
      BY <2>2, BoundsAreNat DEF Init
    <3>2. /\ seconds \in [now : Seconds, before : Seconds, twice : Seconds]
          /\ TimeKnown
      BY <2>2, BoundsAreNat DEF Init, Seconds, TimeKnown
    <3>3. ffmpeg \subseteq Process /\ files \subseteq Media /\ media_files \in Seq(MediaRow)
      BY <2>1, <2>2 DEF Init
    <3>. QED
      BY <2>2, <3>1, <3>2, <3>3 DEF Init, Types
  <2>3. ASSUME Init PROVE Used /\ Unbegun /\ NotFinal
    BY <2>1, <2>3 DEF Init, Used, Unbegun, NotFinal
  <2>4. ASSUME Init PROVE ProcessesOwned /\ RowsInOrder
    BY <2>1, <2>4 DEF Init, ProcessesOwned, RowsInOrder
  <2>. QED
    BY <2>2, <2>3, <2>4 DEF CameraInv
<1>2. CameraInv /\ [Next]_vars => CameraInv'
  <2>. SUFFICES ASSUME CameraInv, [Next]_vars PROVE CameraInv'
    OBVIOUS
  <2>1. Types' /\ TimeKnown' /\ Used'
    BY TypesStep, UsedStep DEF CameraInv
  <2>2. Unbegun' /\ NotFinal' /\ RowsInOrder'
    BY UnbegunStep, NotFinalStep, RowsInOrderStep DEF CameraInv
  <2>3. OneWriter' /\ StreamsOwned' /\ RecordersOwned'
    BY OwnedParts, OneWriterStep, StreamsOwnedStep, RecordersOwnedStep DEF CameraInv
  <2>4. ProcessesOwned'
    BY <2>3 DEF ProcessesOwned, OneWriter, StreamsOwned, RecordersOwned, Lived
  <2>. QED
    BY <2>1, <2>2, <2>4 DEF CameraInv
<1>. QED
  BY <1>1, <1>2, PTL DEF Spec

\* Every process that this run of the gateway started with success is one it
\* would stop, and no two recorders write one file but in a second lived twice,
\* however often it is restarted or crashes, whatever ends by itself, whichever
\* pid file could not be written and however the clock is set back.
THEOREM ProcessesStayOwned == Spec => []ProcessesOwned
BY CameraInvHolds, PTL DEF CameraInv

\* The rows of one recording are in order, and no two snapshots share a file,
\* except for names of a second that two runs of the gateway have lived through.
THEOREM RowsStayInOrder == Spec => []RowsInOrder
BY CameraInvHolds, PTL DEF CameraInv

\* A finished file stays as it is: a snapshot's name is new, a recorder that
\* begins finds no file, and an end makes only the recorder's own file whole.
LEMMA MediaKeptStep ==
  ASSUME CameraInv, [Next]_vars, NEW f \in files, f.whole, ~Lived(f.name)
  PROVE  f \in files'
<1>1. f \in Media
  BY DEF CameraInv, Types
<1>2. CASE Snapshot
  <2>1. CASE UNCHANGED files
    BY <2>1
  <2>2. CASE ~ UNCHANGED files
    <3>1. NumberGiven
      BY <1>2 DEF Snapshot, NumberGiven
    <3>2. f.name # MakeMediaName("snapshot")
      BY <3>1, FreshName DEF CameraInv
    <3>. QED
      BY <1>2, <2>2, <3>2 DEF Snapshot
  <2>. QED
    BY <2>1, <2>2
<1>3. ASSUME NEW p \in ffmpeg, FfmpegWrites(p) PROVE f \in files'
  <2>1. f.name # p.file
    BY <1>3 DEF CameraInv, Unbegun, FfmpegWrites
  <2>. QED
    BY <1>3, <2>1 DEF FfmpegWrites
<1>4. ASSUME NEW p \in ffmpeg, FfmpegEnds(p) PROVE f \in files'
  <2>1. [f EXCEPT !.whole = f.whole \/ f.name = p.file] = f
    BY <1>1, EndedType
  <2>. QED
    BY <1>4, <2>1 DEF FfmpegEnds
<1>5. CASE \/ StartStream \/ StopStream \/ StartRecord \/ StartRecordFails \/ StopRecord
           \/ GstWrites \/ Tick \/ SetBack \/ Restart \/ Crash \/ UNCHANGED vars
           \/ \E x \in gst : GstEnds(x)
  BY <1>5 DEF StartStream, StopStream, StartRecord, StartRecordFails, StopRecord,
              GstWrites, Tick, SetBack, Shows, Restart, Crash, Begins, GstEnds
<1>. QED
  BY <1>2, <1>3, <1>4, <1>5, StepCases

\* No finished media file is ever written over or lost, although the number in the
\* names starts again with the process and ffmpeg is run with -y, unless its name
\* is of a second that two runs of the gateway have lived through.
THEOREM FinishedMediaIsKept == Spec => MediaIsKept
<1>. DEFINE Kept == \A f \in files : f.whole /\ f.name.time \notin seconds.twice => f \in files'
<1>1. CameraInv /\ [Next]_vars => [Kept]_vars
  BY MediaKeptStep DEF Lived
<1>. QED
  BY <1>1, CameraInvHolds, PTL DEF Spec, MediaIsKept
=============================================================================
