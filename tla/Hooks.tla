------------------------------- MODULE Hooks -------------------------------
(***************************************************************************)
(* hook.c: _alpm_hook_run reads the hooks of all hook directories, decides *)
(* which of them the transaction triggers and runs these one by one.       *)
(*                                                                         *)
(* Names of hooks, of packages and of files are numbers: what matters is   *)
(* their order.  A hook file is the sequence of what parse_ini passes to   *)
(* the callback.  The command of a hook is RunChroot's subject; here it    *)
(* gets its input and succeeds or fails.                                   *)
(***************************************************************************)
EXTENDS Patterns
LOCAL INSTANCE SequencesExt
LOCAL INSTANCE TLC

CONSTANTS
    HookJobs,       \* the directories, the transaction, the phase and which commands fail
    FeedSize        \* how much the callback is asked for at once

VARIABLES
    hjob,       \* the job; never changes
    dir,        \* the hook directory that is being read; they are read from the last
    entries,    \* the entries of it that readdir has still to return
    hooks,      \* the hooks that were read
    triggered,  \* the triggered hooks that have still to run, in order
    ran,        \* what has run: the hook and what it got on its standard input
    hret, hpc

hvars == <<hjob, dir, entries, hooks, triggered, ran, hret, hpc>>

HookTypeOK ==
    /\ dir \in 1..(Len(hjob.dirs) + 1)
    /\ \A h \in hooks : h.when \in {"none", "pre", "post"} /\ h.dir \in DOMAIN hjob.dirs
    /\ hret \in {-1, 0} /\ hpc \in {"scan", "match", "run", "done", "off"}
-----------------------------------------------------------------------------
(* Reading a hook.                                                         *)

NewHook == [triggers |-> <<>>, when |-> "none", abort |-> FALSE, needs |-> FALSE,
            depends |-> {}, cmd |-> FALSE, error |-> FALSE]
NewTrigger == [ops |-> {}, type |-> "none", targets |-> <<>>]

\* _alpm_hook_parse_cb.  Options may be repeated: operations, targets and dependencies
\* accumulate, the others overwrite.  The first error ends the reading.
ParseCb(hook, d) ==
    LET n == Len(hook.triggers)
        failed == [hook EXCEPT !.error = TRUE]
    IN CASE hook.error -> hook
         [] d.section = "none" -> failed
         [] d.key = "none" /\ d.section = "Trigger" ->
              [hook EXCEPT !.triggers = Append(@, NewTrigger)]
         [] d.key = "none" /\ d.section = "Action" -> hook
         [] d.section = "Trigger" /\ d.key = "Operation"
                                  /\ d.value \in {"Install", "Upgrade", "Remove"} ->
              [hook EXCEPT !.triggers[n].ops = @ \cup {d.value}]
         [] d.section = "Trigger" /\ d.key = "Type" /\ d.value \in {"Package", "Path"} ->
              [hook EXCEPT !.triggers[n].type = d.value]
         [] d.section = "Trigger" /\ d.key = "Target" ->
              [hook EXCEPT !.triggers[n].targets = Append(@, d.value)]
         [] d.section = "Action" /\ d.key = "When" /\ d.value \in {"pre", "post"} ->
              [hook EXCEPT !.when = d.value]
         [] d.section = "Action" /\ d.key = "Depends" ->
              [hook EXCEPT !.depends = @ \cup {d.value}]
         [] d.section = "Action" /\ d.key = "AbortOnFail" -> [hook EXCEPT !.abort = TRUE]
         [] d.section = "Action" /\ d.key = "NeedsTargets" -> [hook EXCEPT !.needs = TRUE]
         [] d.section = "Action" /\ d.key = "Exec" /\ d.value # "unbalanced" ->
              [hook EXCEPT !.cmd = TRUE]
         [] d.section = "Action" /\ d.key = "Description" -> hook
         [] OTHER -> failed

Parse(lines) == FoldLeft(ParseCb, NewHook, lines)

\* _alpm_trigger_validate, _alpm_hook_validate; a hook without triggers is a mask.
ValidTrigger(t) == t.targets # <<>> /\ t.type # "none" /\ t.ops # {}
ValidHook(h) ==
    \/ h.triggers = <<>>
    \/ (\A i \in DOMAIN h.triggers : ValidTrigger(h.triggers[i])) /\ h.cmd /\ h.when # "none"

Fails == hret' = -1 /\ UNCHANGED hooks

\* find_hook.
Known(name) == \E h \in hooks : h.name = name

\* One directory entry: a name that is known already is masked, and so is everything that
\* is no hook; a file that cannot be read or is no valid hook is an error.
ReadEntry ==
    /\ hpc = "scan"
    /\ \E f \in entries :
         /\ entries' = entries \ {f}
         /\ \/ /\ f.kind = "other" \/ Known(f.name) \/ f.kind = "dir"
               /\ UNCHANGED <<hooks, hret>>
            \/ /\ f.kind = "nostat" /\ ~Known(f.name)
               /\ Fails
            \/ /\ f.kind = "file" /\ ~Known(f.name)
               /\ LET h == Parse(f.lines)
                  IN IF h.error \/ ~ValidHook(h) THEN Fails
                     ELSE /\ hooks' = hooks \cup
                                {[triggers |-> h.triggers, when |-> h.when, abort |-> h.abort,
                                  needs |-> h.needs, depends |-> h.depends,
                                  name |-> f.name, dir |-> dir]}
                          /\ UNCHANGED hret
    /\ UNCHANGED <<hjob, dir, triggered, ran, hpc>>

\* The end of a directory, which may be an error, and the next one, which may be missing
\* (no error) or not be readable.  After the last one a failure ends it before a transaction.
Listing(d) == IF hjob.dirs[d].state \in {"ok", "torn"} THEN hjob.dirs[d].files ELSE {}
Unreadable(d) == hjob.dirs[d].state = "unreadable"

NextDirectory ==
    /\ hpc = "scan" /\ entries = {}
    /\ hret' = IF (dir <= Len(hjob.dirs) /\ hjob.dirs[dir].state = "torn")
                  \/ (dir > 1 /\ Unreadable(dir - 1)) THEN -1 ELSE hret
    /\ \/ /\ dir > 1
          /\ dir' = dir - 1 /\ entries' = Listing(dir - 1) /\ UNCHANGED hpc
       \/ /\ dir = 1
          /\ hpc' = IF hret' # 0 /\ hjob.when = "pre" THEN "done" ELSE "match"
          /\ UNCHANGED <<dir, entries>>
    /\ UNCHANGED <<hjob, hooks, triggered, ran>>
-----------------------------------------------------------------------------
(* Which hooks are triggered.                                              *)

Sorted(s) == SortSeq(s, LAMBDA a, b : a < b)
Files(pkgs) == FlattenSeq([i \in DOMAIN pkgs |-> Sorted(SetToSeq(pkgs[i].files))])
Selected(t, names) == SelectSeq(names, LAMBDA n : FnmatchPatterns(t.targets, n) = 0)
Upgraded == SelectSeq(hjob.add, LAMBDA p : p.old # <<>>)

\* Mutant: a path that several packages have is taken out once.
MergeOnce(install, remove) ==
    LET merge[i \in 1..(Len(install) + 1), j \in 1..(Len(remove) + 1)] ==
          IF i > Len(install) \/ j > Len(remove)
          THEN [Install |-> SubSeq(install, i, Len(install)), Upgrade |-> <<>>,
                Remove |-> SubSeq(remove, j, Len(remove))]
          ELSE IF install[i] > remove[j]
          THEN [merge[i, j + 1] EXCEPT !.Remove = <<remove[j]>> \o @]
          ELSE IF install[i] = remove[j]
          THEN [merge[i + 1, j + 1] EXCEPT !.Upgrade = <<install[i]>> \o @]
          ELSE [merge[i + 1, j] EXCEPT !.Install = <<install[i]>> \o @]
    IN merge[1, 1]

\* The merge of the sorted lists of installed and of removed paths: a path of both is
\* taken out of both, with all its repetitions, and is an upgrade.
Merge(install, remove) ==
    LET after(s, i) == CHOOSE k \in (i + 1)..(Len(s) + 1) :
                          /\ k > Len(s) \/ s[k] # s[i]
                          /\ \A m \in i..(k - 1) : s[m] = s[i]
        merge[i \in 1..(Len(install) + 1), j \in 1..(Len(remove) + 1)] ==
          IF i > Len(install) \/ j > Len(remove)
          THEN [Install |-> SubSeq(install, i, Len(install)), Upgrade |-> <<>>,
                Remove |-> SubSeq(remove, j, Len(remove))]
          ELSE IF install[i] > remove[j]
          THEN [merge[i, j + 1] EXCEPT !.Remove = <<remove[j]>> \o @]
          ELSE IF install[i] = remove[j]
          THEN [merge[after(install, i), after(remove, j)] EXCEPT !.Upgrade = <<install[i]>> \o @]
          ELSE [merge[i + 1, j] EXCEPT !.Install = <<install[i]>> \o @]
    IN merge[1, 1]

\* _alpm_hook_trigger_match_file: paths that the transaction installs, those under
\* NoExtract excepted, against the paths of replaced and of removed packages.
MatchFile(t) ==
    LET extracted == SelectSeq(Files(hjob.add), LAMBDA f : FnmatchPatterns(hjob.noextract, f) # 0)
        old == Files([i \in DOMAIN Upgraded |-> Upgraded[i].old[1]])
    IN Merge(Sorted(Selected(t, extracted)), Sorted(Selected(t, old \o Files(hjob.remove))))

\* _alpm_hook_trigger_match_pkg: packages, where one that is removed and also added is
\* not counted as removed.
MatchPkg(t) ==
    LET names(pkgs) == Selected(t, [i \in DOMAIN pkgs |-> pkgs[i].name])
        added == {hjob.add[i].name : i \in DOMAIN hjob.add}
    IN [Install |-> names(SelectSeq(hjob.add, LAMBDA p : p.old = <<>>)),
        Upgrade |-> names(Upgraded),
        Remove |-> names(SelectSeq(hjob.remove, LAMBDA p : p.name \notin added))]

\* _alpm_hook_trigger_match, _alpm_hook_triggered: the matches of all triggers.
TriggerMatches(t) ==
    LET m == IF t.type = "Package" THEN MatchPkg(t) ELSE MatchFile(t)
        of(op) == IF op \in t.ops THEN m[op] ELSE <<>>
    IN of("Install") \o of("Upgrade") \o of("Remove")
Matches(h) == FlattenSeq([i \in DOMAIN h.triggers |-> TriggerMatches(h.triggers[i])])

\* _alpm_hook_cmp.
ByName(g, h) == g.name < h.name

\* The hooks of this phase that are triggered, sorted by name.
Trigger ==
    /\ hpc = "match"
    /\ triggered' = SetToSortSeq({h \in hooks : h.when = hjob.when /\ Matches(h) # <<>>}, ByName)
    /\ hpc' = "run"
    /\ UNCHANGED <<hjob, dir, entries, hooks, ran, hret>>
-----------------------------------------------------------------------------
(* Running a hook.                                                         *)

\* _alpm_strlist_dedup of a sorted list.
Dedup(s) == LET keep == {i \in DOMAIN s : i = 1 \/ s[i] # s[i - 1]}
                nth == SetToSortSeq(keep, LAMBDA a, b : a < b)
            IN [i \in DOMAIN nth |-> s[nth[i]]]

\* A target as the bytes that are written for it: the name n has n bytes.
Bytes(n) == [k \in 1..n |-> n]

\* _alpm_hook_feed_targets: as many whole targets with their newline as fit, and the
\* beginning of the next one, which the next call continues.
FeedTargets(pos, needed) ==
    LET feed[p \in {SubSeq(pos, i, Len(pos)) : i \in 1..(Len(pos) + 1)}, remaining \in 0..needed] ==
          IF p # <<>> /\ Len(Head(p)) + 1 <= remaining
          THEN LET f == feed[Tail(p), remaining - Len(Head(p)) - 1]
               IN [f EXCEPT !.buf = Head(p) \o <<"nl">> \o @]
          ELSE IF p # <<>> /\ remaining > 0
          THEN [buf |-> SubSeq(Head(p), 1, remaining),
                pos |-> <<SubSeq(Head(p), remaining + 1, Len(Head(p)))>> \o Tail(p)]
          ELSE [buf |-> <<>>, pos |-> p]
    IN feed[pos, needed]

\* The parent asks until the callback returns nothing.
RECURSIVE Feed(_)
Feed(pos) == LET f == FeedTargets(pos, FeedSize)
             IN IF f.buf = <<>> THEN <<>> ELSE f.buf \o Feed(f.pos)

Stdin(h) == LET targets == Dedup(Sorted(Matches(h)))
            IN IF h.needs THEN Feed([i \in DOMAIN targets |-> Bytes(targets[i])]) ELSE <<>>


\* _alpm_hook_run_hook and the loop around it.  Only before a transaction does the failure
\* of a hook that says so keep the others from running.
RunHook ==
    /\ hpc = "run" /\ triggered # <<>>
    /\ LET h == Head(triggered)
           runs == h.depends \subseteq hjob.installed
           failed == ~runs \/ <<h.dir, h.name>> \in hjob.fails
       IN /\ ran' = IF runs THEN Append(ran, [hook |-> h, stdin |-> Stdin(h)]) ELSE ran
          /\ hret' = IF failed /\ h.abort THEN -1 ELSE hret
    /\ triggered' = IF hret' # 0 /\ hjob.when = "pre" THEN <<>> ELSE Tail(triggered)
    /\ UNCHANGED <<hjob, dir, entries, hooks, hpc>>

HooksDone ==
    /\ hpc = "run" /\ triggered = <<>> /\ hpc' = "done"
    /\ UNCHANGED <<hjob, dir, entries, hooks, triggered, ran, hret>>

HookState(j, where) ==
    /\ hjob = j /\ dir = Len(j.dirs) + 1 /\ entries = {} /\ hooks = {} /\ triggered = <<>>
    /\ ran = <<>> /\ hret = 0 /\ hpc = where
HooksInit == \E j \in HookJobs : HookState(j, "scan")
HooksOff == HookState([dirs |-> <<>>, when |-> "pre", add |-> <<>>, remove |-> <<>>,
                       noextract |-> <<>>, installed |-> {}, fails |-> {}], "off")
HooksNext == ReadEntry \/ NextDirectory \/ Trigger \/ RunHook \/ HooksDone
-----------------------------------------------------------------------------
(* Properties.                                                             *)

\* What the directories say: the hook of a name is the valid one of the last directory.
Valid(f) == f.kind = "file" /\ ~Parse(f.lines).error /\ ValidHook(Parse(f.lines))
Holds(d, n) == \E f \in Listing(d) : f.name = n /\ Valid(f)
Names == UNION {{f.name : f \in Listing(d)} : d \in DOMAIN hjob.dirs}
Wins(d, n) == Holds(d, n) /\ \A e \in DOMAIN hjob.dirs : e > d => ~Holds(e, n)

\* A hook masks the hooks of its name in the directories before its own, in whatever order
\* the entries are returned: what runs is never a masked one, and a mask never runs.
MaskedNeverRun ==
    \A i \in DOMAIN ran : /\ Wins(ran[i].hook.dir, ran[i].hook.name)
                          /\ ran[i].hook.triggers # <<>>

\* What the transaction does to a path, from the sets of the files before and after it.
Before == UNION ({hjob.remove[i].files : i \in DOMAIN hjob.remove}
                 \cup {Upgraded[i].old[1].files : i \in DOMAIN Upgraded})
After == {f \in UNION {hjob.add[i].files : i \in DOMAIN hjob.add} :
             FnmatchPatterns(hjob.noextract, f) # 0}
PathOp(f) == IF f \in After THEN (IF f \in Before THEN "Upgrade" ELSE "Install") ELSE "Remove"
Concerned(t) ==
    {f \in Before \cup After : FnmatchPatterns(t.targets, f) = 0 /\ PathOp(f) \in t.ops}

\* A hook for paths runs only if a path that it names is installed, upgraded or removed,
\* as its operations say, and one that needs its targets gets them, each once, in order,
\* although the lists are merged, joined and passed on in pieces of limited size.
TargetsExact ==
    \A i \in DOMAIN ran :
       LET h == ran[i].hook
           paths == UNION {Concerned(h.triggers[k]) : k \in DOMAIN h.triggers}
           text == SetToSortSeq(paths, LAMBDA a, b : a < b)
       IN (\A k \in DOMAIN h.triggers : h.triggers[k].type = "Path") =>
             /\ paths # {}
             /\ ran[i].stdin = IF h.needs
                               THEN FlattenSeq([k \in DOMAIN text |-> Append(Bytes(text[k]), "nl")])
                               ELSE <<>>

\* The hooks run in the order of their names, none twice.
HooksInOrder == \A i, j \in DOMAIN ran : i < j => ran[i].hook.name < ran[j].hook.name

\* Before a transaction nothing runs if any hook cannot be read, and nothing runs after
\* a hook whose failure is to stop the transaction; the caller learns of it.
AbortStops ==
    hjob.when = "pre" =>
       /\ \A i \in DOMAIN ran : ran[i].hook.abort /\ <<ran[i].hook.dir, ran[i].hook.name>> \in hjob.fails
                                  => i = Len(ran) /\ hret = -1
       /\ ran # <<>> => \A d \in DOMAIN hjob.dirs : hjob.dirs[d].state \in {"ok", "missing"}

\* After a transaction every hook that it triggers runs, even if others fail or cannot be
\* read; before it as well, if all is well.
NoneForgotten ==
    hpc = "done" /\ (hjob.when = "post" \/ hret = 0) =>
       /\ \A d \in DOMAIN hjob.dirs, n \in Names :
             Wins(d, n) => \E h \in hooks : h.name = n /\ h.dir = d
       /\ \A h \in hooks : /\ h.when = hjob.when /\ Matches(h) # <<>>
                           /\ h.depends \subseteq hjob.installed
                           => \E i \in DOMAIN ran : ran[i].hook = h

=============================================================================
