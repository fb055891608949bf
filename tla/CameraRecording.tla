--------------------------- MODULE CameraRecording ---------------------------
(***************************************************************************)
(* The camera (camera_manager.cpp), its HTTP handlers (camera_api.cpp) and *)
(* the media_files rows they write (database_service.cpp).                 *)
(*                                                                         *)
(* The manager starts gst-launch and ffmpeg through a shell and knows them *)
(* by flags and pid files only: a process may end at any time, and a       *)
(* signal asks it to end, without waiting.  The gateway ends cleanly, by a *)
(* signal, or crashes, and starts again at once; the killall of the init   *)
(* script is one of the ways the processes end at any time.  Names are     *)
(* made of the local time, which may be set back, and of a number that     *)
(* starts again with the gateway.                                          *)
(*                                                                         *)
(* A start whose Init fails returns before it changes anything.            *)
(***************************************************************************)
EXTENDS Integers, Sequences, SequencesExt

CONSTANTS
  NoFile,       \* the empty file name
  NoPid,        \* no pid file
  MaxClock,     \* bound: seconds
  MaxStarts,    \* bound: processes ever started
  MaxMedia,     \* bound: media_sequence_
  MaxRows       \* bound: media_files rows

File == [prefix : {"snapshot", "record"}, time : 0..MaxClock, seq : 1..MaxMedia]
Pid  == 1..MaxStarts

ASSUME BoundAssumption == {MaxClock, MaxStarts, MaxMedia, MaxRows} \subseteq Nat
ASSUME NullAssumption == NoFile \notin File /\ NoPid \notin Pid

VARIABLES
  streaming_, recording_, current_record_file_, media_sequence_,
  stream_pid,   \* StreamPidPath: the gst-launch process it names
  record_pid,   \* RecordPidPath: the ffmpeg process it names
  playlist,     \* StreamPlaylistPath exists
  gst,          \* gst-launch processes running
  started,      \* processes ever started
  ffmpeg,       \* ffmpeg processes recording
  files,        \* the media directory: each file, whole or still being written
  media_files,  \* the rows
  clock,        \* the local time, in seconds
  seconds,      \* history: those of this run, of earlier runs, and of two runs
  stray         \* history: processes that an earlier run of the gateway left, or
                \* a start that failed

flags   == <<streaming_, recording_, current_record_file_, media_sequence_>>
pids    == <<stream_pid, record_pid>>
streams == <<playlist, gst, started>>
time    == <<clock, seconds>>
vars    == <<flags, pids, streams, ffmpeg, files, media_files, time, stray>>

Init ==
  /\ streaming_ = FALSE /\ recording_ = FALSE /\ current_record_file_ = NoFile
  /\ media_sequence_ = 0 /\ stream_pid = NoPid /\ record_pid = NoPid
  /\ playlist = FALSE /\ gst = {} /\ started = 0 /\ ffmpeg = {} /\ files = {}
  /\ media_files = <<>> /\ clock = 0
  /\ seconds = [now |-> {0}, before |-> {}, twice |-> {}] /\ stray = {}
-----------------------------------------------------------------------------
\* RecordMedia and RecordMediaFile: the row, with what the file holds right now,
\* is inserted, or is not, and nobody is told.  (A name with a suffix is the
\* code with a slip, kept to test the properties.)
Content(file, dir) ==
  IF \E f \in dir : f.name = file
    THEN IF (CHOOSE f \in dir : f.name = file).whole THEN "whole" ELSE "part"
    ELSE "null"

Row(type, file, content) == [type |-> type, file |-> file, content |-> content]

Recorded(type, file, content) ==
  media_files' \in {media_files, Append(media_files, Row(type, file, content))}

\* MakeMediaName: seconds, and a number that starts again with the process.
MakeMediaName_NoSequence(prefix) == [prefix |-> prefix, time |-> clock, seq |-> 1]

MakeMediaName(prefix) == [prefix |-> prefix, time |-> clock, seq |-> media_sequence_ + 1]

StreamFilesRemoved == stream_pid' = NoPid /\ playlist' = FALSE /\ streaming_' = FALSE

\* POST /api/camera/start_stream, not yet streaming.  The shell launches gst and
\* then fails or not to write the pid file: the start has failed, gst runs.
StartStream_Again ==
  /\ started < MaxStarts
  /\ playlist' = FALSE /\ started' = started + 1
  /\ gst' = gst \cup {started'}
  /\ \/ streaming_' = TRUE /\ stream_pid' = started' /\ UNCHANGED stray
     \/ UNCHANGED <<streaming_, stream_pid>> /\ stray' = stray \cup {started'}
  /\ UNCHANGED <<recording_, current_record_file_, media_sequence_, record_pid,
                 ffmpeg, files, media_files, time>>

StartStream ==
  /\ ~streaming_ /\ started < MaxStarts
  /\ playlist' = FALSE /\ started' = started + 1
  /\ gst' = gst \cup {started'}
  /\ \/ streaming_' = TRUE /\ stream_pid' = started' /\ UNCHANGED stray
     \/ UNCHANGED <<streaming_, stream_pid>> /\ stray' = stray \cup {started'}
  /\ UNCHANGED <<recording_, current_record_file_, media_sequence_, record_pid,
                 ffmpeg, files, media_files, time>>

\* POST /api/camera/stop_stream, streaming: SIGINT, a second, SIGTERM, and the
\* files are removed.  A recording is left as it is.
StopStream ==
  /\ streaming_ /\ gst' = gst \ {stream_pid} /\ StreamFilesRemoved
  /\ UNCHANGED <<recording_, current_record_file_, media_sequence_, record_pid,
                 started, ffmpeg, files, media_files, time, stray>>

\* POST /api/camera/snapshot: ffmpeg in the foreground; the number is used up
\* even when it fails.
Snapshot ==
  /\ streaming_ /\ Len(media_files) < MaxRows /\ media_sequence_ < MaxMedia
  /\ media_sequence_' = media_sequence_ + 1
  /\ \/ /\ playlist
        /\ files' = {f \in files : f.name # MakeMediaName("snapshot")}
                      \cup {[name |-> MakeMediaName("snapshot"), whole |-> TRUE]}
        /\ Recorded("snapshot", MakeMediaName("snapshot"),
                    Content(MakeMediaName("snapshot"), files'))
     \/ UNCHANGED <<files, media_files>>
  /\ UNCHANGED <<streaming_, recording_, current_record_file_, pids, streams,
                 ffmpeg, time, stray>>

\* POST /api/camera/start_record: a row even when a recording is on.
Recorder(pid, file) == [pid |-> pid, file |-> file, begun |-> FALSE, told |-> FALSE]

StartRecord ==
  /\ streaming_ /\ Len(media_files) < MaxRows
  /\ IF recording_
       THEN /\ Recorded("record_start", current_record_file_, "null")
            /\ UNCHANGED <<flags, record_pid, started, ffmpeg>>
       ELSE LET name == MakeMediaName("record") IN
            /\ media_sequence_ < MaxMedia /\ started < MaxStarts
            /\ media_sequence_' = media_sequence_ + 1 /\ started' = started + 1
            /\ recording_' = TRUE /\ current_record_file_' = name /\ record_pid' = started'
            /\ ffmpeg' = ffmpeg \cup {Recorder(started', name)}
            /\ Recorded("record_start", name, "null")
            /\ UNCHANGED streaming_
  /\ UNCHANGED <<stream_pid, playlist, gst, files, time, stray>>

\* The shell could not write the pid file, and ffmpeg runs all the same.
StartRecordFails ==
  /\ streaming_ /\ ~recording_ /\ media_sequence_ < MaxMedia /\ started < MaxStarts
  /\ media_sequence_' = media_sequence_ + 1 /\ started' = started + 1
  /\ current_record_file_' = NoFile /\ record_pid' \in {record_pid, NoPid}
  /\ ffmpeg' = ffmpeg \cup {Recorder(started', MakeMediaName("record"))}
  /\ stray' = stray \cup {started'}
  /\ UNCHANGED <<streaming_, recording_, stream_pid, playlist, gst, files, media_files, time>>

\* POST /api/camera/stop_record: asks ffmpeg to end and reads the file at once.
\* A row even when nothing is recorded.
Told(ps, pid) == {[p EXCEPT !.told = p.told \/ p.pid = pid] : p \in ps}

StopRecord_KeepsFile ==
  /\ Len(media_files) < MaxRows
  /\ Recorded("record", current_record_file_, Content(current_record_file_, files))
  /\ IF recording_
       THEN /\ ffmpeg' = Told(ffmpeg, record_pid)
            /\ record_pid' = NoPid /\ recording_' = FALSE
       ELSE UNCHANGED <<ffmpeg, record_pid, recording_>>
  /\ UNCHANGED <<current_record_file_, streaming_, media_sequence_, stream_pid,
                 streams, files, time, stray>>

StopRecord ==
  /\ Len(media_files) < MaxRows
  /\ Recorded("record", current_record_file_, Content(current_record_file_, files))
  /\ IF recording_
       THEN /\ ffmpeg' = Told(ffmpeg, record_pid)
            /\ record_pid' = NoPid /\ recording_' = FALSE
            /\ current_record_file_' = NoFile
       ELSE UNCHANGED <<ffmpeg, record_pid, recording_, current_record_file_>>
  /\ UNCHANGED <<streaming_, media_sequence_, stream_pid, streams, files, time, stray>>
-----------------------------------------------------------------------------
\* gst-launch writes the playlist, or ends.
GstWrites ==
  /\ gst # {} /\ ~playlist /\ playlist' = TRUE
  /\ UNCHANGED <<flags, pids, gst, started, ffmpeg, files, media_files, time, stray>>

GstEnds(p) ==
  /\ p \in gst /\ gst' = gst \ {p}
  /\ UNCHANGED <<flags, pids, playlist, started, ffmpeg, files, media_files, time, stray>>

\* ffmpeg begins its file (-y: over an older one), and ends, told or not: the
\* file is whole, or stays as it is.
FfmpegWrites(p) ==
  /\ p \in ffmpeg /\ ~p.begun /\ playlist
  /\ ffmpeg' = (ffmpeg \ {p}) \cup {[p EXCEPT !.begun = TRUE]}
  /\ files' = {f \in files : f.name # p.file} \cup {[name |-> p.file, whole |-> FALSE]}
  /\ UNCHANGED <<flags, pids, streams, media_files, time, stray>>

FfmpegEnds(p) ==
  /\ p \in ffmpeg /\ ffmpeg' = ffmpeg \ {p}
  /\ \/ /\ p.begun
        /\ files' = {[f EXCEPT !.whole = f.whole \/ f.name = p.file] : f \in files}
     \/ UNCHANGED files
  /\ UNCHANGED <<flags, pids, streams, media_files, time, stray>>

\* The clock goes on, or is set to an earlier time: by hand, by NTP, at the end
\* of summer time, or by a boot without a battery.  seconds keeps those that
\* two runs of the gateway have lived through.
Shows(c) ==
  /\ clock' = c
  /\ seconds' = [seconds EXCEPT !.now = @ \cup {c}, !.twice = @ \cup ({c} \cap seconds.before)]
  /\ UNCHANGED <<flags, pids, streams, ffmpeg, files, media_files, stray>>

Tick == clock < MaxClock /\ Shows(clock + 1)

SetBack == \E c \in 0..MaxClock : c < clock /\ Shows(c)

\* The gateway starts again: members with their initial values, and what still
\* runs was left by an earlier run.
Begins ==
  /\ recording_' = FALSE /\ current_record_file_' = NoFile /\ media_sequence_' = 0
  /\ stray' = gst' \cup {p.pid : p \in ffmpeg}
  /\ seconds' = [now |-> {clock}, before |-> seconds.before \cup seconds.now,
                 twice |-> seconds.twice \cup {clock}]
  /\ UNCHANGED <<record_pid, started, ffmpeg, files, media_files, clock>>

\* After a clean end the destructor has stopped the stream, not the recording.
Restart ==
  /\ IF streaming_
       THEN gst' = gst \ {stream_pid} /\ StreamFilesRemoved
       ELSE UNCHANGED <<streaming_, stream_pid, playlist, gst>>
  /\ Begins

\* A crash stops neither.
Crash == streaming_' = FALSE /\ UNCHANGED <<stream_pid, playlist, gst>> /\ Begins

Next ==
  \/ StartStream \/ StopStream \/ Snapshot \/ StartRecord \/ StartRecordFails \/ StopRecord
  \/ GstWrites \/ Tick \/ SetBack \/ Restart \/ Crash
  \/ \E p \in gst : GstEnds(p)
  \/ \E p \in ffmpeg : FfmpegWrites(p) \/ FfmpegEnds(p)

Spec == Init /\ [][Next]_vars
-----------------------------------------------------------------------------
\* Every process that this run of the gateway started with success is under its
\* control: the stream's while streaming_ and by its pid file, a recorder that
\* was not told to end while recording_, by its pid file and under the current
\* name.  So only a failed start and the end of a run leave the camera or the
\* disk busy with a process nothing will stop: a crash both, a clean end the
\* recorder.  No two recorders write one file but in a second that two runs of
\* the gateway have lived through.
ProcessesOwned ==
  /\ \A p, q \in ffmpeg :
       p.file = q.file /\ p.file.time \notin seconds.twice => p = q
  /\ \A p \in gst \ stray : streaming_ /\ p = stream_pid
  /\ \A p \in ffmpeg : ~p.told /\ p.pid \notin stray =>
       recording_ /\ p.pid = record_pid /\ p.file = current_record_file_

\* The rows of one recording are in order: its "record_start" rows, then at most
\* one "record" row, whatever the clients press and however often; and no two
\* snapshots share a file.  This holds across restarts and with the clock set
\* back, except for names of a second that two runs have lived through: the
\* number in the names sees to it within a run, and the time across runs.
RowsInOrder ==
  \A i, j \in DOMAIN media_files :
    (/\ i < j /\ media_files[i].type # "record_start" /\ media_files[i].file # NoFile
     /\ media_files[i].file.time \notin seconds.twice)
      => media_files[j].file # media_files[i].file

\* No finished media file is written over, although the number in the names
\* starts again with the process and ffmpeg is run with -y, except for one with
\* a name of a second that two runs have lived through.
MediaIsKept ==
  [][ \A f \in files : f.whole /\ f.name.time \notin seconds.twice => f \in files' ]_vars

\* The database holds what a recording's file holds (sqlite-database-usage.md):
\* a "record" row never holds part of a file.  It does: the row is written at
\* once, before ffmpeg had the time to finish the file.
RecordingsAreStored ==
  \A i \in DOMAIN media_files :
    media_files[i].type = "record" => media_files[i].content # "part"
=============================================================================
