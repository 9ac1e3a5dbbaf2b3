---------------------------- MODULE SandboxPipe ----------------------------
(***************************************************************************)
(* curl_download_internal_sandboxed (dload.c) and sandbox.c: the download  *)
(* runs in a child of another user.  What it logs and reports goes through *)
(* a pipe, as records of several separate writes, to the parent, which     *)
(* calls the front end for it; its result is its exit status.  The child   *)
(* has the default signal handlers, so an interrupt from the terminal      *)
(* kills it between any two writes; the parent ignores it.                 *)
(***************************************************************************)
EXTENDS Integers, Sequences

CONSTANTS
    Downloads,      \* what the child does: its records, its status and what fails
    PipeSize        \* what the pipe holds at most; external

ASSUME PipeAssumption == PipeSize \in Nat \ {0}

VARIABLES
    sjob,       \* the job; never changes
    schild,     \* "none", "runs", "exited", "killed"
    sent,       \* how many fields of its records the child has written
    pipe,       \* the fields in the pipe
    record,     \* the fields of the record that the parent is reading
    called,     \* the records for which the parent has called the front end
    termed,     \* had_error: the parent has sent SIGTERM
    childsig, sret, spc

svars == <<sjob, schild, sent, pipe, record, called, termed, childsig, sret, spc>>

\* _alpm_sandbox_cb_dl, _alpm_sandbox_cb_log: the fields of a record, a string longer than
\* one write being two.
Fields(kind) ==
    IF kind = "download" THEN <<"download", "event", "data", "length", "name", "name">>
                         ELSE <<"log", "level", "length", "string", "string">>

\* Everything that the child writes.  When it cannot enter the directory or give up its
\* rights it logs that and downloads nothing.
Records == IF sjob.fault = "setup" THEN <<"log">> ELSE sjob.records
Stream ==
    LET join[n \in 0..Len(Records)] ==
          IF n = 0 THEN <<>> ELSE join[n - 1] \o Fields(Records[n])
    IN join[Len(Records)]
ExitStatus == IF sjob.fault = "setup" THEN 2
              ELSE CASE sjob.result = 0 -> 0 [] sjob.result = 1 -> 1 [] OTHER -> 2

PipeTypeOK ==
    /\ schild \in {"none", "runs", "exited", "killed"}
    /\ sent \in Nat /\ Len(pipe) <= PipeSize
    /\ {termed, childsig} \subseteq BOOLEAN
    /\ sret \in {-1, 0, 1} /\ spc \in {"start", "read", "wait", "done", "off"}

PipeState(j, where) ==
    /\ sjob = j /\ schild = "none" /\ sent = 0 /\ pipe = <<>> /\ record = <<>>
    /\ called = <<>> /\ termed = FALSE /\ childsig = FALSE /\ sret = -1 /\ spc = where

PipeInit == \E j \in Downloads : PipeState(j, "start")
PipeOff == PipeState([records |-> <<>>, result |-> 0, fault |-> "none"], "off")

\* pipe and fork; without them there is no download.
ForkSandbox ==
    /\ spc = "start"
    /\ \/ sjob.fault = "fork" /\ spc' = "done" /\ UNCHANGED schild
       \/ sjob.fault # "fork" /\ spc' = "read" /\ schild' = "runs"
    /\ UNCHANGED <<sjob, sent, pipe, record, called, termed, childsig, sret>>
-----------------------------------------------------------------------------
(* The child.                                                              *)

\* write_to_pipe, which waits while the pipe is full.
SandboxWrites ==
    /\ schild = "runs" /\ sent < Len(Stream) /\ Len(pipe) < PipeSize
    /\ pipe' = Append(pipe, Stream[sent + 1]) /\ sent' = sent + 1
    /\ UNCHANGED <<sjob, schild, record, called, termed, childsig, sret, spc>>

\* _Exit closes the pipe; from then on a signal does not change the status.
SandboxExits ==
    /\ schild = "runs" /\ sent = Len(Stream) /\ schild' = "exited"
    /\ UNCHANGED <<sjob, sent, pipe, record, called, termed, childsig, sret, spc>>

\* An interrupt from the terminal, or the SIGTERM of the parent.
SandboxDies ==
    /\ schild = "runs" /\ (sjob.fault = "interrupt" \/ termed)
    /\ schild' = "killed"
    /\ UNCHANGED <<sjob, sent, pipe, record, called, termed, childsig, sret, spc>>
-----------------------------------------------------------------------------
(* The parent.                                                             *)

\* The loop of the parent with _alpm_sandbox_process_cb_log and _download: the fields of
\* a record are read one by one and the front end is called after the last.
ParentReads ==
    /\ spc = "read" /\ pipe # <<>>
    /\ pipe' = Tail(pipe)
    /\ LET r == Append(record, Head(pipe))
       IN IF r = Fields(Head(r))
          THEN record' = <<>> /\ called' = Append(called, Head(r))
          ELSE record' = r /\ UNCHANGED called
    /\ UNCHANGED <<sjob, schild, sent, termed, childsig, sret, spc>>

\* The end of the pipe, between two records or within one, is an error in any case.
ParentEnd ==
    /\ spc = "read" /\ pipe = <<>> /\ schild \in {"exited", "killed"}
    /\ termed' = TRUE /\ record' = <<>> /\ spc' = "wait"
    /\ UNCHANGED <<sjob, schild, sent, pipe, called, childsig, sret>>

\* Mutant: a child that was sent SIGTERM has failed.
ParentWaitsFails ==
    /\ spc = "wait" /\ schild \in {"exited", "killed"}
    /\ childsig' = (schild = "killed")
    /\ sret' = IF termed \/ ExitStatus = 2 THEN -1 ELSE ExitStatus
    /\ spc' = "done"
    /\ UNCHANGED <<sjob, schild, sent, pipe, record, called, termed>>

ParentWaits ==
    /\ spc = "wait" /\ schild \in {"exited", "killed"}
    /\ childsig' = (schild = "killed")
    /\ sret' = IF schild = "killed" \/ ExitStatus = 2 THEN -1 ELSE ExitStatus
    /\ spc' = "done"
    /\ UNCHANGED <<sjob, schild, sent, pipe, record, called, termed>>

Sandbox == SandboxWrites \/ SandboxExits \/ SandboxDies
Parent == ForkSandbox \/ ParentReads \/ ParentEnd \/ ParentWaits
PipeNext == Sandbox \/ Parent

PipeFairness == WF_svars(Sandbox) /\ WF_svars(Parent)
-----------------------------------------------------------------------------
(* Properties.                                                             *)

\* The front end is called for the records of the child in their order, each at most once,
\* and never for one that the child did not finish writing.
WholeRecordsOnly ==
    /\ Len(called) <= Len(Records) /\ called = SubSeq(Records, 1, Len(called))
    /\ LET complete[n \in 0..Len(called)] ==
             IF n = 0 THEN 0 ELSE complete[n - 1] + Len(Fields(called[n]))
       IN complete[Len(called)] + Len(record) + Len(pipe) <= sent

\* Unless the user interrupted it, the result is the one of the download: although the
\* parent sends SIGTERM whenever the pipe ends, that signal comes too late to matter, and
\* everything that the child reported was passed on.
ResultIsChilds ==
    spc = "done" /\ sjob.fault = "none" =>
       sret = sjob.result /\ ~childsig /\ called = sjob.records

\* The parent gets to the end: it does not wait for a child that waits for the pipe.
SandboxEnds == spc = "start" ~> spc = "done"

\* What the parent reports of the download child, its records and its result, is what the
\* child did; and the variables have their types.
ReportsAreChilds == PipeTypeOK /\ WholeRecordsOnly /\ ResultIsChilds
=============================================================================
