------------------------------ MODULE Session ------------------------------
(***************************************************************************)
(* api/QgisUntwine on unix: a client starts the program, polls its         *)
(* progress through a pipe it reads without blocking, asks whether it      *)
(* runs, and stops it.  One action is one system call of a side, so the    *)
(* two sides meet at every place of a message.                             *)
(*                                                                         *)
(* The pipe is a sequence of half words.  A number is two of them; the     *)
(* text has a length that is no multiple of a word and is one, so that a   *)
(* reader that has lost its place stays between words.                     *)
(***************************************************************************)
EXTENDS Program

CONSTANTS
    PipeSize,       \* what the pipe holds
    Busy            \* the Places with which the client has another child
ASSUME SessionAssumption == PipeSize >= 2 /\ Busy \subseteq Places

VARIABLES
    pipe,
    at,             \* what readPipe() reads next: "id", "percent", "size", "text"; "idle"
    m_percent, m_running,
    m_pid,          \* "child", or "zero" after stop()
    reaped,         \* no program is left to wait for
    other,          \* the client's other child: "alive", "ended" or "none"
    gone,           \* the client has sent itself a signal
    reported,       \* history: the percentages the program has sent
    shown           \* history: the last of them the client has read, or zero

client == <<m_running, m_pid, reaped, other, gone>>
reader == <<at, m_percent, shown>>
vars   == <<progVars, pipe, reader, client, reported>>

SInit ==
    /\ Init
    /\ pipe = <<>> /\ at = "idle" /\ m_percent = 0 /\ m_running = FALSE /\ m_pid = "zero"
    /\ reaped = TRUE /\ other = (IF place \in Busy THEN "alive" ELSE "none") /\ gone = FALSE
    /\ reported = {} /\ shown = 0

HalfWords(w) == IF w[1] = "text" THEN <<w>> ELSE <<w, w>>

\* One write() of the program, which blocks while the pipe has no room.
WriteWord ==
    /\ pc \notin Ended /\ say # <<>>
    /\ Len(pipe) + Len(HalfWords(Head(say))) <= PipeSize
    /\ pipe' = pipe \o HalfWords(Head(say))
    /\ say' = Tail(say)
    /\ reported' = IF Head(say)[1] = "percent" THEN reported \cup {Head(say)[2]} ELSE reported
    /\ UNCHANGED <<pc, input, left, temp, output, status, progress, counts, history, reader, client>>

-----------------------------------------------------------------------------
(* The calls of the client.                                                *)

\* Fault: what an earlier program has sent is still in the pipe.
OldPipe == UNCHANGED pipe
\* pipe(); the read end of an earlier one is not used again.
NewPipe == pipe' = <<>>

\* start(): a new pipe and a new process, of which execv() may fail.  What was
\* read of an earlier program stays in m_percent.
Start(in) ==
    /\ ~gone /\ at = "idle" /\ ~m_running
    /\ \/ Begin(in)
       \/ /\ faults < MaxFaults /\ runs < MaxRuns
          /\ faults' = faults + 1 /\ runs' = runs + 1
          /\ pc' = "killed" /\ say' = <<>>
          /\ UNCHANGED <<input, left, temp, output, status, progress, history>>
    /\ NewPipe /\ reported' = {} /\ shown' = 0
    /\ m_running' = TRUE /\ m_pid' = "child" /\ reaped' = FALSE
    /\ UNCHANGED <<at, m_percent, other, gone>>

\* stop().  With m_pid zero the signal goes to the client's own group.
Stop ==
    /\ ~gone /\ at = "idle" /\ m_running /\ UNCHANGED faults
    /\ \/ /\ m_pid = "child"
          /\ reaped' = TRUE /\ m_pid' = "zero" /\ UNCHANGED gone
          /\ \/ Die
             \/ /\ pc \in Ended
                /\ UNCHANGED <<pc, input, left, temp, output, status, progress, say, runs, history>>
       \/ /\ m_pid = "zero" /\ gone' = TRUE /\ UNCHANGED <<reaped, m_pid>>
          /\ UNCHANGED <<pc, input, left, temp, output, status, progress, say, runs, history>>
    /\ UNCHANGED <<pipe, reader, m_running, other, reported>>

\* Fault: a result of zero is a stopped child.
WaitedAny == TRUE
\* Fault: a failed waitpid() is no stopped child.
WaitedChild == \/ m_pid = "child" /\ pc \in Ended
               \/ m_pid = "zero" /\ other = "ended"

\* waitpid() does not return zero; with m_pid zero it looks at any child.
Waited == \/ m_pid = "child" /\ pc \in Ended
          \/ m_pid = "zero" /\ other # "alive"

\* running(), when it sees the end.  Otherwise it changes nothing.
Running ==
    /\ ~gone /\ at = "idle" /\ m_running /\ Waited
    /\ m_running' = FALSE
    /\ IF m_pid = "child" THEN reaped' = TRUE /\ UNCHANGED other
                          ELSE other' = "none" /\ UNCHANGED reaped
    /\ UNCHANGED <<progVars, pipe, reader, m_pid, gone, reported>>

OtherEnds ==
    /\ other = "alive" /\ other' = "ended"
    /\ UNCHANGED <<progVars, pipe, reader, m_running, m_pid, reaped, gone, reported>>

-----------------------------------------------------------------------------
(* readPipe() and readString(): each step is one read().                   *)

\* read() of four bytes takes what there is.
ReadWord == pipe' = SubSeq(pipe, 3, Len(pipe))
Whole    == Len(pipe) >= 2

Poll ==
    /\ ~gone /\ at = "idle" /\ runs > 0 /\ at' = "id"
    /\ UNCHANGED <<progVars, pipe, m_percent, shown, client, reported>>

\* Fault: whatever is read begins a message.
AnyId(id) == Whole /\ id = "id"
\* The four bytes are the number of a message.
IsId(id) == Whole /\ pipe[1] = pipe[2] /\ pipe[1][1] = id

ReadId ==
    /\ at = "id" /\ ReadWord
    /\ at' = IF IsId("id") THEN "percent" ELSE IF IsId("error") THEN "size" ELSE "idle"
    /\ UNCHANGED <<progVars, m_percent, shown, client, reported>>
ReadPercent ==
    /\ at = "percent" /\ ReadWord
    /\ IF Whole THEN at' = "size" /\ m_percent' = pipe[1][2] /\ shown' = m_percent'
                ELSE at' = "idle" /\ UNCHANGED <<m_percent, shown>>
    /\ UNCHANGED <<progVars, client, reported>>
\* An empty pipe and a closed one both end the call: the test of EAGAIN is inverted.
ReadSize ==
    /\ at = "size" /\ ReadWord
    /\ at' = IF Whole THEN "text" ELSE "idle"
    /\ UNCHANGED <<progVars, m_percent, shown, client, reported>>
\* Here an empty pipe is read again until the text comes or the program has ended.
ReadText ==
    /\ at = "text"
    /\ \/ pipe # <<>> /\ pipe' = Tail(pipe) /\ at' = "id"
       \/ pipe = <<>> /\ pc \in Ended /\ UNCHANGED pipe /\ at' = "idle"
    /\ UNCHANGED <<progVars, m_percent, shown, client, reported>>

Read == ReadId \/ ReadPercent \/ ReadSize \/ ReadText

-----------------------------------------------------------------------------
Quiet == UNCHANGED <<pipe, reader, client, reported>>
Next ==
    \/ ProgramStep /\ Quiet
    \/ (Throw \/ Hang \/ Kill) /\ Quiet
    \/ WriteWord \/ Stop \/ Running \/ OtherEnds \/ Poll \/ Read
    \/ \E in \in Inputs : Start(in)

Spec == SInit /\ [][Next]_vars

\* The program's threads and system calls go on.  The client goes on in a call,
\* and keeps calling progressPercent() and running() in turn.  Nothing is assumed of a
\* program that hangs.
FairSpec ==
    /\ Spec
    /\ WF_vars(ProgramStep /\ Quiet) /\ WF_vars(WriteWord) /\ WF_vars(Read)
    /\ SF_vars(Poll) /\ SF_vars(Running)

-----------------------------------------------------------------------------
(* Properties.                                                             *)

\* Success means an output with this run's points and no others: no phase may
\* lose a point or an error.  (For every run, also with files left by others.)
SuccessIsExact == pc = "done" /\ status = 0 => output = AllPoints(runs, input)

\* The same when no temporary file was there at the beginning, as after a run
\* that made the directory and was not killed.
ExactUnlessLeftover == swept => SuccessIsExact

\* A directory that was at temp_dir when the run began survives it, and one the
\* run made does not, whether it succeeds or fails; unless the run is killed, or
\* fails before createDirs() knows what was there (Untwine.cpp:222).
PlaceRestored == pc = "done" /\ dirs = "made" => place = before

\* While the client believes that nothing runs, nothing does, and no zombie is
\* left: a second program on the same temporary directory is never started.
OneProgram == ~m_running => pc \in Ended /\ reaped

\* While a program runs its percentage never goes back, and neither does the one
\* the client reads: the clicks of update() stay below the next phase's first
\* percentage, whatever the number of points, and messages keep their order
\* though each is written and read in pieces.
PercentGrows ==
    [][runs' = runs => progress'.percent >= progress.percent /\ shown' >= shown]_vars

\* The client's percentage only changes to one that the running program has
\* sent, however messages are cut by the reads.
PercentIsReported == [][m_percent' # m_percent => m_percent' \in reported]_vars

\* The program goes on and does not end: a pass of tiling hangs, or update() was
\* called with a point increment of zero.
Stuck == pc = "hung" \/ (pc = "update" /\ NumPoints(input) = 0)

\* A client that polls, and has no other child, comes to see the end of every
\* program but one that is stuck; of that one too, after stop().
EndIsSeen == (m_running /\ other = "none") ~> (~m_running \/ gone \/ Stuck)
=============================================================================
