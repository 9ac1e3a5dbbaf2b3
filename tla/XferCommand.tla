---------------------------- MODULE XferCommand ----------------------------
(***************************************************************************)
(* Fetching a file with the program XferCommand names (src/dulge/conf.c,   *)
(* download_with_xfercommand and systemvp): one child process, the working *)
(* directory and the signal handlers changed around it, and a partial file *)
(* that becomes the file when the program reports success.                 *)
(*                                                                         *)
(* A file is <<>> if it does not exist, else <<n>>: -1 for an old one, n   *)
(* pieces of the new one, which is complete with Pieces of them.           *)
(***************************************************************************)
EXTENDS Integers, Sequences

CONSTANTS
    XferJobs,   \* [force, usepart, dest, part, sandboxed, fault]: the call, and what is there before
    Pieces

Contents == {<<>>} \cup {<<n>> : n \in -1..Pieces}
XferJob == [force : BOOLEAN, usepart : BOOLEAN, dest : Contents, part : Contents, sandboxed : BOOLEAN,
            fault : STRING]
ASSUME XferAssumption == Pieces \in Nat /\ XferJobs \subseteq XferJob

VARIABLES
    xfer,       \* the job, never changes
    xpc,        \* where download_with_xfercommand is
    dest,       \* the file, in the download directory
    part,       \* and its .part
    cwd,        \* "home" or "download"
    handlers,   \* "own" or "ignored": SIGINT and SIGQUIT in the parent
    program,    \* the child: "none", "started", "running", "failed" or "succeeded"
    errpipe,    \* execvp's error, as the child wrote it to the pipe
    status,     \* what systemvp returns: -1, 0, or a status 1 that is not 0
    xresult     \* what download_with_xfercommand returns

xvars == <<xfer, xpc, dest, part, cwd, handlers, program, errpipe, status, xresult>>

Alive == program \in {"started", "running"}
Return(value) == xresult' = value /\ xpc' = "cleanup"

\* The file name, the forced removal, the arguments.  Without memory for the
\* arguments the call ends with the value its result was declared with.
Begin ==
    /\ xpc = "begin"
    /\ IF xfer.fault = "noname" THEN Return(-1) /\ UNCHANGED <<dest, part>>
       ELSE /\ dest' = IF xfer.force THEN <<>> ELSE dest
            /\ part' = IF xfer.force THEN <<>> ELSE part
            /\ IF xfer.fault = "nomem" THEN Return(0) ELSE xpc' = "chdir" /\ UNCHANGED xresult
    /\ UNCHANGED <<xfer, cwd, handlers, program, errpipe, status>>

ChangeDir ==
    /\ xpc = "chdir"
    /\ IF xfer.fault = "chdir" THEN Return(-1) /\ UNCHANGED cwd
       ELSE cwd' = "download" /\ xpc' = "systemvp" /\ UNCHANGED xresult
    /\ UNCHANGED <<xfer, dest, part, handlers, program, errpipe, status>>

\* systemvp: the error pipe, and the signals ignored.
SystemVP ==
    /\ xpc = "systemvp"
    /\ IF xfer.fault = "pipe" THEN xpc' = "returned" /\ status' = -1 /\ UNCHANGED handlers
       ELSE xpc' = "fork" /\ handlers' = "ignored" /\ UNCHANGED status
    /\ UNCHANGED <<xfer, dest, part, cwd, program, errpipe, xresult>>

Fork ==
    /\ xpc = "fork"
    /\ IF xfer.fault = "fork"
       THEN xpc' = "returned" /\ status' = -1 /\ handlers' = "own" /\ UNCHANGED program
       ELSE xpc' = "wait" /\ program' = "started" /\ UNCHANGED <<status, handlers>>
    /\ UNCHANGED <<xfer, dest, part, cwd, errpipe, xresult>>

\* The child: the sandbox, then the program.
Exec ==
    /\ program = "started"
    /\ \/ xfer.sandboxed /\ xfer.fault = "sandbox" /\ program' = "failed" /\ UNCHANGED errpipe
       \/ xfer.fault = "exec" /\ program' = "failed" /\ errpipe' = TRUE
       \/ xfer.fault # "exec" /\ (xfer.sandboxed => xfer.fault # "sandbox") /\ program' = "running" /\ UNCHANGED errpipe
    /\ UNCHANGED <<xfer, xpc, dest, part, cwd, handlers, status, xresult>>

\* One more piece; a program that does not know of the .part writes the file itself.
More(file) == IF file = <<>> THEN <<0>> ELSE <<file[1] + 1>>
Write ==
    /\ program = "running"
    /\ IF xfer.usepart THEN part # <<Pieces>> /\ part' = More(part) /\ UNCHANGED dest
       ELSE dest # <<Pieces>> /\ dest' = More(dest) /\ UNCHANGED part
    /\ UNCHANGED <<xfer, xpc, cwd, handlers, program, errpipe, status, xresult>>

\* The program reports success only of a complete file.
Exit ==
    /\ program = "running"
    /\ \/ program' = "failed"
       \/ (IF xfer.usepart THEN part ELSE dest) = <<Pieces>> /\ program' = "succeeded"
    /\ UNCHANGED <<xfer, xpc, dest, part, cwd, handlers, errpipe, status, xresult>>

\* waitpid, the error pipe, and the handlers restored.
WaitProgram ==
    /\ xpc = "wait" /\ program \in {"failed", "succeeded"}
    /\ status' = IF errpipe THEN -1 ELSE IF program = "failed" THEN 1 ELSE 0
    /\ handlers' = "own" /\ xpc' = "returned"
    /\ UNCHANGED <<xfer, dest, part, cwd, program, errpipe, xresult>>

\* Mutant: only a program that could not be run counts as a failure.
FinishAny ==
    /\ xpc = "returned"
    /\ Return(IF status = -1 THEN -1 ELSE 0)
    /\ UNCHANGED <<xfer, dest, part, cwd, handlers, program, errpipe, status>>

Finish ==
    /\ xpc = "returned"
    /\ IF status # 0 THEN Return(-1) /\ UNCHANGED <<dest, part>>
       ELSE IF ~xfer.usepart THEN Return(0) /\ UNCHANGED <<dest, part>>
       ELSE IF xfer.fault = "rename" THEN Return(-1) /\ UNCHANGED <<dest, part>>
       ELSE Return(0) /\ dest' = part /\ part' = <<>>
    /\ UNCHANGED <<xfer, cwd, handlers, program, errpipe, status>>

\* cleanup: back to the directory it came from, if that could be opened.
Cleanup ==
    /\ xpc = "cleanup" /\ xpc' = "done"
    /\ cwd' = IF xfer.fault = "nocwd" THEN cwd ELSE "home"
    /\ UNCHANGED <<xfer, dest, part, handlers, program, errpipe, status, xresult>>

\* The terminal's SIGINT: it ends a program that does not ignore it, and the parent
\* through its own handler unless that is out of the way.
Interrupt ==
    /\ xpc \notin {"off", "done", "killed"}
    /\ xpc' = IF handlers = "own" THEN "killed" ELSE xpc
    /\ program' \in {program} \cup (IF Alive THEN {"failed"} ELSE {})
    /\ UNCHANGED <<xfer, dest, part, cwd, handlers, errpipe, status, xresult>>

XferInit ==
    /\ xfer \in XferJobs /\ xpc = "begin" /\ dest = xfer.dest /\ part = xfer.part
    /\ cwd = "home" /\ handlers = "own" /\ program = "none" /\ errpipe = FALSE /\ status = 0 /\ xresult = 0
XferOff ==
    /\ xfer = [fault |-> "none", usepart |-> FALSE, dest |-> <<>>] /\ xpc = "off" /\ dest = <<>> /\ part = <<>>
    /\ cwd = "home" /\ handlers = "own" /\ program = "none" /\ errpipe = FALSE /\ status = 0 /\ xresult = 0
XferNext ==
    \/ Begin \/ ChangeDir \/ SystemVP \/ Fork \/ Exec \/ Write \/ Exit \/ WaitProgram \/ Finish \/ Cleanup
    \/ Interrupt
XferSpec == XferInit /\ [][XferNext]_xvars
-----------------------------------------------------------------------------
XferTypeOK ==
    /\ dest \in Contents /\ part \in Contents
    /\ xpc \in {"off", "begin", "chdir", "systemvp", "fork", "wait", "returned", "cleanup", "done", "killed"}
    /\ cwd \in {"home", "download"} /\ handlers \in {"own", "ignored"} /\ errpipe \in BOOLEAN
    /\ program \in {"none", "started", "running", "failed", "succeeded"}
    /\ status \in {-1, 0, 1} /\ xresult \in {-1, 0}

\* When the program is given the name of the partial file, the file itself is at
\* every moment absent, the one that was there or the whole new one, however the
\* program fails and whenever the parent dies (the rename only after status 0).
DestIsWhole == xfer.usepart => dest \in {<<>>, xfer.dest, <<Pieces>>}

\* download_with_xfercommand reports success only when the program ran and
\* reported it and the file is complete; the one exception is the missing memory
\* for the arguments, where the result is still the 0 it was declared with.
ZeroIsSuccess ==
    xpc = "done" /\ xresult = 0 /\ xfer.fault # "nomem" => program = "succeeded" /\ dest = <<Pieces>>

\* The parent never dies of an interrupt while its child is at work: the signals
\* are ignored from before the fork until the child has been waited for.
NoOrphan == xpc = "killed" => ~Alive

\* Whatever failed, the caller gets its signal handlers back, and its working
\* directory if that could be opened.
CallerRestored ==
    xpc = "done" => handlers = "own" /\ (cwd = "home" \/ xfer.fault = "nocwd")
=============================================================================
