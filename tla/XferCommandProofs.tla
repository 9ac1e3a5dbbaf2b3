-------------------------- MODULE XferCommandProofs --------------------------
(***************************************************************************)
(* The promises of XferCommand for every set of calls, every fault and any *)
(* number of signals: one inductive invariant, preserved by each action.   *)
(***************************************************************************)
EXTENDS XferCommand, TLAPS

\* The file that the program writes.
Written == IF xfer.usepart THEN part ELSE dest

\* Where the call is tells what is in force: the signals are ignored between the
\* fork and the wait, a child is only at work then, a status 0 comes from a program
\* that succeeded and left a complete file.
XferInv ==
    /\ xfer \in XferJob /\ XferTypeOK
    /\ handlers = "ignored" <=> xpc \in {"fork", "wait"}
    /\ Alive => xpc = "wait"
    /\ xpc \in {"begin", "chdir", "systemvp", "fork"} => program = "none"
    /\ xpc = "done" => cwd = "home" \/ xfer.fault = "nocwd"
    /\ DestIsWhole
    /\ xpc \in {"wait", "returned"} /\ program = "succeeded" => Written = <<Pieces>>
    /\ xpc = "returned" /\ status = 0 => program = "succeeded"
    /\ xpc \in {"cleanup", "done"} /\ xresult = 0 /\ xfer.fault # "nomem"
          => program = "succeeded" /\ dest = <<Pieces>>

\* The invariant holds when the call begins.
LEMMA XferInitially == XferInit => XferInv
  BY XferAssumption DEF XferInit, XferInv, XferJob, XferTypeOK, Contents, Alive, DestIsWhole, Written

\* One more piece is a content unless the file was complete.
LEMMA MoreIsContent ==
  ASSUME NEW file \in Contents, file # <<Pieces>>
  PROVE  More(file) \in Contents
  BY XferAssumption DEF More, Contents

\* Every step of the parent, of the child and of the terminal preserves it.
LEMMA XferStep == XferInv /\ [XferNext]_xvars => XferInv'
<1> SUFFICES ASSUME XferInv, [XferNext]_xvars PROVE XferInv'
  OBVIOUS
<1> USE XferAssumption DEF XferInv, XferTypeOK, Alive, DestIsWhole, Written
<1>1. CASE Begin
  BY <1>1 DEF Begin, Return, Contents, XferJob
<1>2. CASE ChangeDir
  BY <1>2 DEF ChangeDir, Return
<1>3. CASE SystemVP
  BY <1>3 DEF SystemVP
<1>4. CASE Fork
  BY <1>4 DEF Fork
<1>5. CASE Exec
  BY <1>5 DEF Exec
<1>6. CASE Write
  <2>1. CASE xfer.usepart
    BY <1>6, <2>1, MoreIsContent DEF Write
  <2>2. CASE ~xfer.usepart
    BY <1>6, <2>2, MoreIsContent DEF Write
  <2> QED
    BY <2>1, <2>2
<1>7. CASE Exit
  BY <1>7 DEF Exit
<1>8. CASE WaitProgram
  BY <1>8 DEF WaitProgram
<1>9. CASE Finish
  <2>1. <<>> \in Contents
    BY DEF Contents
  <2>2. CASE status # 0
    BY <1>9, <2>2 DEF Finish, Return
  <2>3. CASE status = 0 /\ (~xfer.usepart \/ xfer.fault = "rename")
    BY <1>9, <2>3 DEF Finish, Return
  <2>4. CASE status = 0 /\ xfer.usepart /\ xfer.fault # "rename"
    BY <1>9, <2>1, <2>4 DEF Finish, Return
  <2> QED
    BY <2>2, <2>3, <2>4
<1>10. CASE Cleanup
  BY <1>10 DEF Cleanup
<1>11. CASE Interrupt
  BY <1>11 DEF Interrupt
<1>12. CASE UNCHANGED xvars
  BY <1>12 DEF xvars
<1> QED
  BY <1>1, <1>2, <1>3, <1>4, <1>5, <1>6, <1>7, <1>8, <1>9, <1>10, <1>11, <1>12 DEF XferNext

LEMMA XferInvariant == XferSpec => []XferInv
  BY XferInitially, XferStep, PTL DEF XferSpec

\* With a .part the downloaded file is never seen incomplete, whatever fails and
\* whenever the process is killed (download_with_xfercommand renames after status 0).
THEOREM WholeFiles == XferSpec => []DestIsWhole
<1>1. XferInv => DestIsWhole
  BY DEF XferInv
<1> QED
  BY <1>1, XferInvariant, PTL

\* Success is reported of complete files only, but for the missing memory.
THEOREM SuccessIsTrue == XferSpec => []ZeroIsSuccess
<1>1. XferInv => ZeroIsSuccess
  BY DEF XferInv, ZeroIsSuccess
<1> QED
  BY <1>1, XferInvariant, PTL

\* No signal ends the parent while systemvp's child is at work.
THEOREM NeverOrphaned == XferSpec => []NoOrphan
<1>1. XferInv => NoOrphan
  BY DEF XferInv, NoOrphan
<1> QED
  BY <1>1, XferInvariant, PTL

\* systemvp and download_with_xfercommand undo what they changed of the process.
THEOREM Restored == XferSpec => []CallerRestored
<1>1. XferInv => CallerRestored
  BY DEF XferInv, XferTypeOK, CallerRestored
<1> QED
  BY <1>1, XferInvariant, PTL
=============================================================================
