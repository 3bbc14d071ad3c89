----------------------------- MODULE ServerFiles -----------------------------
(***************************************************************************)
(* The files the server's API works on: uploads and downloads of one name  *)
(* (servercontroll/server_upload.go, and the file server of                *)
(* all_servers.go), and /tmp/z.log with the request c-log.                 *)
(*                                                                         *)
(* An upload is written to a temporary file, which is then given its name; *)
(* a file is known by the upload that made it and has two pieces, if all   *)
(* of it was written.  The log is written by ErrToFile, which appends a    *)
(* line, and by what the processes print, at the offset of the descriptor  *)
(* Daemon created for each, which truncates the log.  A line is its        *)
(* number, and Hole stands for what a write past the end leaves.  z-log    *)
(* copies the log as c-log does, and changes nothing.                      *)
(***************************************************************************)
EXTENDS Integers, Sequences, SequencesExt

CONSTANTS
    Uploads, Downloads, \* bounds: the requests of each kind
    Clears,             \* bound: the c-log requests
    Daemons,            \* bound: the processes Daemon starts
    MaxLines,           \* bound: the lines written to the log
    NoFile              \* nothing has the name, nothing is open

Hole == 0

ASSUME ServerFilesAssumption ==
    /\ MaxLines \in Nat
    /\ NoFile \notin Uploads

VARIABLES
    (* uploads: step, the pieces in the temporary file; the file that has   *)
    (* the name                                                            *)
    up, file, named,
    (* downloads: step, the file opened, the pieces received               *)
    down, open, body,
    (* the log, the processes started and the offsets of their descriptors, *)
    (* lines written so far                                                *)
    log, started, offset, lines,
    (* c-log: step, what was copied to the client                           *)
    step, copied,
    (* history: lines the output covered, lines a new daemon truncated; of  *)
    (* a c-log, the lines written when it began, whether its copy broke,    *)
    (* and the lines it found in the log it emptied                         *)
    covered, truncated, begun, broken, dropped

files == <<up, file, named, down, open, body>>
logs  == <<log, started, offset, lines, step, copied, covered, truncated, begun, broken, dropped>>
fvars == <<files, logs>>

(* The file an upload writes to.  (Mutant: the one that has the name.)     *)
TheNamed(u) == IF named = NoFile THEN u ELSE named
TheTemp(u)  == u

(* The copy is at the end of the log.  (Mutant: one line short of it.)     *)
AtEndEarly(l) == Len(copied[l]) + 1 >= Len(log)
AtEnd(l)      == Len(copied[l]) >= Len(log)

FilesInit ==
    /\ up = [u \in Uploads |-> "begin"] /\ file = [u \in Uploads |-> <<>>]
    /\ named = NoFile
    /\ down = [d \in Downloads |-> "begin"] /\ open = [d \in Downloads |-> NoFile]
    /\ body = [d \in Downloads |-> <<>>]
    /\ log = <<>> /\ started = {} /\ offset = [p \in Daemons |-> 0] /\ lines = 0
    /\ step = [l \in Clears |-> "begin"] /\ copied = [l \in Clears |-> <<>>]
    /\ covered = {} /\ truncated = {}
    /\ begun = [l \in Clears |-> 0] /\ broken = [l \in Clears |-> FALSE]
    /\ dropped = [l \in Clears |-> {}]

-----------------------------------------------------------------------------
(* Uploads and downloads. *)

(* The form is parsed and a temporary file made; without the one or the    *)
(* other the handler panics, a name with ".." or "/" is refused, and       *)
(* nothing is stored.                                                      *)
Receive(u) ==
    /\ up[u] = "begin"
    /\ \E next \in {"write", "failed"} : up' = [up EXCEPT ![u] = next]
    /\ UNCHANGED <<file, named, down, open, body, logs>>

Fill(u) ==
    /\ up[u] = "write"
    /\ LET f == TheTemp(u)
           n == IF <<u, 1>> \in ToSet(file[f]) THEN 2 ELSE 1
       IN /\ file' = [file EXCEPT ![f] = Append(@, <<u, n>>)]
          /\ up' = [up EXCEPT ![u] = IF n = 2 THEN "rename" ELSE "write"]
    /\ UNCHANGED <<named, down, open, body, logs>>

(* ReadAll fails, which is printed, or Write does, whose result nobody     *)
(* looks at: the handler goes on with what was written.                    *)
FallShort(u) ==
    /\ up[u] = "write"
    /\ up' = [up EXCEPT ![u] = "rename"]
    /\ UNCHANGED <<file, named, down, open, body, logs>>

(* The name is given, whoever had it before, and success is answered; it   *)
(* fails from one file system to another, and the temporary file stays.    *)
Rename(u) ==
    /\ up[u] = "rename"
    /\ \/ named' = TheTemp(u) /\ up' = [up EXCEPT ![u] = "stored"]
       \/ UNCHANGED named /\ up' = [up EXCEPT ![u] = "failed"]
    /\ UNCHANGED <<file, down, open, body, logs>>

(* The file server opens what has the name by now, or answers 404.         *)
Open(d) ==
    /\ down[d] = "begin"
    /\ open' = [open EXCEPT ![d] = named]
    /\ down' = [down EXCEPT ![d] = IF named = NoFile THEN "missing" ELSE "read"]
    /\ UNCHANGED <<up, file, named, body, logs>>

ReadPiece(d) ==
    /\ down[d] = "read"
    /\ IF Len(body[d]) < Len(file[open[d]])
       THEN /\ body' = [body EXCEPT ![d] = Append(@, file[open[d]][Len(@) + 1])]
            /\ UNCHANGED down
       ELSE down' = [down EXCEPT ![d] = "sent"] /\ UNCHANGED body
    /\ UNCHANGED <<up, file, named, open, logs>>

-----------------------------------------------------------------------------
(* The writers of the log. *)

(* Daemon creates the log anew for the process it starts.  The process     *)
(* that called it may go on for a while, with its own descriptor.          *)
Daemon(p) ==
    /\ p \notin started
    /\ started' = started \cup {p}
    /\ log' = <<>> /\ truncated' = truncated \cup ToSet(log)
    /\ UNCHANGED <<files, offset, lines, step, copied, covered, begun, broken, dropped>>

(* ErrToFile: a line after the last.                                       *)
ErrToFile ==
    /\ lines < MaxLines
    /\ lines' = lines + 1
    /\ log' = Append(log, lines + 1)
    /\ UNCHANGED <<files, started, offset, step, copied, covered, truncated, begun, broken, dropped>>

(* Something a process prints, at its descriptor's offset: over a line     *)
(* that is there, or past the end of a log that was emptied.               *)
PrintLine(p) ==
    LET at == offset[p] + 1 IN
    /\ p \in started /\ lines < MaxLines
    /\ lines' = lines + 1
    /\ offset' = [offset EXCEPT ![p] = at]
    /\ log' = [i \in 1..(IF Len(log) < at THEN at ELSE Len(log)) |->
                  IF i = at THEN lines + 1 ELSE IF i <= Len(log) THEN log[i] ELSE Hole]
    /\ covered' = covered \cup (IF Len(log) < at THEN {} ELSE {log[at]})
    /\ UNCHANGED <<files, started, step, copied, truncated, begun, broken, dropped>>

-----------------------------------------------------------------------------
(* c-log. *)

GoesTo(l, next) == step' = [step EXCEPT ![l] = next]

(* The log exists: whatever becomes of it, it will be emptied at the end.  *)
Defer(l) ==
    /\ step[l] = "begin"
    /\ begun' = [begun EXCEPT ![l] = lines]
    /\ GoesTo(l, "copy")
    /\ UNCHANGED <<files, log, started, offset, lines, copied, covered, truncated, broken, dropped>>

(* io.Copy, a line at a time: others write, or empty, the log meanwhile.   *)
CopyLog(l) ==
    /\ step[l] = "copy"
    /\ IF AtEnd(l) THEN GoesTo(l, "empty") /\ UNCHANGED copied
       ELSE copied' = [copied EXCEPT ![l] = Append(@, log[Len(@) + 1])] /\ UNCHANGED step
    /\ UNCHANGED <<files, log, started, offset, lines, covered, truncated, begun, broken, dropped>>

(* The log cannot be opened, or the client takes no more.                  *)
BreakOff(l) ==
    /\ step[l] = "copy"
    /\ broken' = [broken EXCEPT ![l] = TRUE]
    /\ GoesTo(l, "empty")
    /\ UNCHANGED <<files, log, started, offset, lines, copied, covered, truncated, begun, dropped>>

(* The deferred call, after a copy that broke too; its result is dropped.  *)
EmptyLog(l) ==
    /\ step[l] = "empty"
    /\ \/ log' = <<>> /\ dropped' = [dropped EXCEPT ![l] = ToSet(log)]
       \/ UNCHANGED <<log, dropped>>
    /\ GoesTo(l, "end")
    /\ UNCHANGED <<files, started, offset, lines, copied, covered, truncated, begun, broken>>

FilesNext ==
    \/ \E u \in Uploads : Receive(u) \/ Fill(u) \/ FallShort(u) \/ Rename(u)
    \/ \E d \in Downloads : Open(d) \/ ReadPiece(d)
    \/ ErrToFile \/ \E p \in Daemons : Daemon(p) \/ PrintLine(p)
    \/ \E l \in Clears : Defer(l) \/ CopyLog(l) \/ BreakOff(l) \/ EmptyLog(l)

FilesSpec == FilesInit /\ [][FilesNext]_fvars
-----------------------------------------------------------------------------
(* What is downloaded is what one upload stored, all of it and in order,   *)
(* whatever uploads of the name are stored while it is sent: never pieces  *)
(* of two.                                                                 *)
DownloadOne ==
    \A d \in Downloads : down[d] = "sent" =>
        \E u \in Uploads :
            /\ up[u] = "stored" /\ body[d] = file[u]
            /\ \A i \in DOMAIN body[d] : body[d][i] = <<u, i>>

(* An upload whose handler said "Successfully Uploaded File" was stored    *)
(* whole (server_upload.go:60-75 reads all of it and writes that).         *)
StoredWhole == \A u \in Uploads : up[u] = "stored" => file[u] = <<<<u, 1>>, <<u, 2>>>>

(* A line is lost with the log a c-log emptied only if that request had    *)
(* copied it, or its copy broke, or the line was written after it began.   *)
LostBy(i, l) == i \in dropped[l] /\ (i \in ToSet(copied[l]) \/ broken[l] \/ i > begun[l])

(* No line vanishes otherwise, however many requests copy and empty the    *)
(* log at once: it is in the log, a process printed over it, a new daemon  *)
(* truncated it, or a c-log lost it for one of these reasons.              *)
LogLost ==
    \A i \in 1..lines : i \in ToSet(log) \cup covered \cup truncated \/ \E l \in Clears : LostBy(i, l)
=============================================================================
