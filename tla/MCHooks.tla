------------------------------ MODULE MCHooks ------------------------------
(***************************************************************************)
(* The configuration and the child processes on small instances: the       *)
(* configuration files, the hooks, the exchange with a command, the pipe   *)
(* of the download child, the external download program.  The five do not  *)
(* share state; one of them is chosen at the start.                        *)
(***************************************************************************)
EXTENDS Hooks, RunChroot, SandboxPipe, Config, XferCommand

Section(s) == [section |-> s, key |-> "none", value |-> "none"]
Option(s, k, v) == [section |-> s, key |-> k, value |-> v]
Names3(inverted, S) == [inverted |-> inverted, names |-> S]

TriggerOf(type, ops, targets) ==
    <<Section("Trigger")>>
    \o (IF type = "none" THEN <<>> ELSE <<Option("Trigger", "Type", type)>>)
    \o [i \in DOMAIN ops |-> Option("Trigger", "Operation", ops[i])]
    \o [i \in DOMAIN targets |-> Option("Trigger", "Target", targets[i])]
ActionOf(when, options) ==
    <<Section("Action"), Option("Action", "When", when), Option("Action", "Exec", "cmd")>>
    \o [i \in DOMAIN options |-> Option("Action", options[i], "Q")]

All == Names3(FALSE, 1..4)
Path == TriggerOf("Path", <<"Install", "Upgrade", "Remove">>, <<All>>)
New == TriggerOf("Path", <<"Install">>, <<All, Names3(TRUE, {2})>>)
Old == TriggerOf("Path", <<"Upgrade">>, <<Names3(FALSE, {1, 2, 3})>>)
Gone == TriggerOf("Path", <<"Remove">>, <<Names3(FALSE, {1, 2, 3})>>)
Pkg == TriggerOf("Package", <<"Install", "Remove">>, <<Names3(FALSE, {1})>>)
           \o TriggerOf("Package", <<"Upgrade">>, <<Names3(FALSE, {2})>>)

File(name, lines) == [name |-> name, kind |-> "file", lines |-> lines]
Entry(name, kind) == [name |-> name, kind |-> kind, lines |-> <<>>]
Dir(files) == [state |-> "ok", files |-> files]

Trans(add, remove) == [add |-> add, remove |-> remove]
P(n, files) == [name |-> n, files |-> files]
A(n, files, old) == [name |-> n, files |-> files, old |-> old]

\* What is installed and removed: all ways to distribute the paths over new, old and
\* removed files, with a path that two packages have.
FileTransactions ==
    {Trans(<<A(1, n \ {4}, <<P(1, o)>>), A(2, n \cap {1, 4}, <<>>)>>, <<P(3, r)>>) :
        n \in SUBSET (1..4), o \in {{}, {1, 2}, {1, 3}}, r \in {{}, {1, 4}, {2, 3}}}
Small == {Trans(<<A(1, {1, 2}, <<>>), A(2, {3}, <<P(2, {2, 3})>>)>>, <<P(1, {1}), P(3, {4})>>),
          Trans(<<>>, <<P(1, {1})>>)}

Job(dirs, when, t, noextract, installed, fails) ==
    [dirs |-> dirs, when |-> when, add |-> t.add, remove |-> t.remove,
     noextract |-> noextract, installed |-> installed, fails |-> fails]

MatchJobs ==
    {Job(<<Dir({File(1, trigger \o ActionOf("post", o))})>>, "post", t, nx, {}, {}) :
        trigger \in {New, Old, Gone, New \o Gone, Path}, o \in {<<>>, <<"NeedsTargets">>},
        t \in FileTransactions, nx \in {<<>>, <<Names3(FALSE, {1})>>}}

\* Hooks that mask, that are no hooks, that are wrong in every way the parser knows.
WrongHooks == {<<Option("none", "Exec", "cmd")>>, <<Section("Other")>>,
          Path \o <<Section("Action"), Option("Action", "Exec", "unbalanced")>>,
          Path \o ActionOf("never", <<>>), Path, ActionOf("pre", <<"Color">>),
          TriggerOf("Path", <<"Move">>, <<All>>), TriggerOf("Device", <<>>, <<>>),
          TriggerOf("none", <<"Install">>, <<All>>) \o ActionOf("pre", <<>>)}
Variants == {Entry(1, "other"), Entry(1, "dir"), Entry(1, "nostat"),
             File(1, <<>>), File(1, Pkg \o ActionOf("pre", <<"AbortOnFail", "Description">>)),
             File(1, Path \o ActionOf("post", <<"NeedsTargets">>))}
            \cup {File(1, w) : w \in WrongHooks}
Lower == Dir({File(1, Path \o ActionOf("pre", <<"AbortOnFail">>)),
              File(2, Path \o ActionOf("pre", <<"Depends">>)),
              File(3, Pkg \o ActionOf("post", <<"AbortOnFail">>))})
MaskJobs ==
    {Job(<<Lower, Dir({v, File(3, Path \o ActionOf("post", <<>>))})>>, w, t, <<>>, i, f) :
        v \in Variants, w \in {"pre", "post"}, t \in Small, i \in {{}, {"Q"}},
        f \in {{}, {<<1, 1>>}, {<<2, 1>>, <<2, 3>>}}}
    \cup {Job(<<Lower, [state |-> s, files |-> {File(2, Path \o ActionOf("post", <<>>))}]>>,
              w, t, <<>>, {"Q"}, {}) :
              s \in {"missing", "unreadable", "torn"}, w \in {"pre", "post"}, t \in Small}
    \cup {Job(<<>>, "pre", t, <<>>, {}, {}) : t \in Small}

MCHookJobs == MatchJobs \cup MaskJobs
-----------------------------------------------------------------------------
MCChrootJobs ==
    {[output |-> o, reads |-> r, input |-> i, feeds |-> f, fault |-> "none", status |-> s] :
        o \in {<<>>, <<"x">>, <<"x", "nl">>, <<"nl", "nl">>, <<"x", "x", "x", "x", "x">>,
               <<"x", "x", "x", "nl">>, <<"x", "x", "nl", "x">>, <<"x", "nl", "x", "x", "x", "nl", "x">>},
        r \in {0, 1, 3}, i \in {0, 1, 5}, f \in BOOLEAN, s \in {0, 1}}
    \cup {[output |-> <<>>, reads |-> 0, input |-> 0, feeds |-> TRUE, fault |-> x, status |-> 0] :
            x \in {"chdir", "fork"}}

MCDownloads ==
    {[records |-> r, result |-> n, fault |-> f] :
        r \in {<<>>, <<"download">>, <<"log", "download">>, <<"download", "log", "download">>},
        n \in {-1, 0, 1}, f \in {"none", "setup", "fork", "interrupt"}}
-----------------------------------------------------------------------------
MCXferJobs ==
    {[force |-> f, usepart |-> u, dest |-> d, part |-> p, sandboxed |-> s, fault |-> x] :
        f \in BOOLEAN, u \in BOOLEAN, d \in {<<>>, <<-1>>}, p \in {<<>>, <<1>>, <<2>>}, s \in BOOLEAN,
        x \in {"none", "noname", "nomem", "nocwd", "chdir", "pipe", "fork", "sandbox", "exec", "rename"}}
-----------------------------------------------------------------------------
\* The lines of configuration files.
Sec(n) == [t |-> "section", name |-> n]
Inc(files) == [t |-> "include", given |-> TRUE, files |-> files]
NoInc == [t |-> "include", given |-> FALSE, files |-> <<>>]
Key(k, words) == [t |-> "key", key |-> k, given |-> TRUE, words |-> words]
Flag(k) == [t |-> "key", key |-> k, given |-> FALSE, words |-> <<>>]
Word(s, w) == [scope |-> s, word |-> w]
Server == Key("Server", <<"http://", "$repo">>)
FilesOf(f1, f2, f3) == [f \in {"f1", "f2", "f3"} |-> IF f = "f1" THEN f1 ELSE IF f = "f2" THEN f2 ELSE f3]
Read(files, sysroot, given) == [files |-> files, main |-> "f1", sysroot |-> sysroot, given |-> given]
OneFile(lines) == Read([f \in {"f1"} |-> lines], <<>>, <<>>)

\* Signature levels: every word in two directives of a repository, under a few
\* global ones, before and after it.
SigWords == {Word(s, w) : s \in {"both", "Package", "Database"}, w \in LevelWords}
Globals == {<<>>, <<Word("Package", "Optional")>>, <<Word("both", "Never")>>,
            <<Word("both", "TrustAll"), Word("Database", "Optional")>>}
LevelJobs ==
    {OneFile(IF first
             THEN <<Sec("options"), Key("SigLevel", g), Key("LocalFileSigLevel", <<a, b>>), Sec("core"),
                    Key("SigLevel", <<a>>), Key("SigLevel", <<b>>)>>
             ELSE <<Sec("core"), Key("SigLevel", <<a, b>>), Sec("options"), Key("SigLevel", g),
                    Key("RemoteFileSigLevel", <<b>>)>>) :
        g \in Globals, a \in SigWords, b \in SigWords, first \in BOOLEAN}
    \cup {OneFile(<<Sec(s), Key("SigLevel", <<Word("both", "Required"), Word("both", "Trust")>>)>>) :
            s \in {"core", "options"}}

\* Files that include each other, themselves, nothing, or a file that is not there.
Starts == {<<>>, <<Sec("options")>>, <<Sec("core")>>, <<Sec("core"), Server, Sec("extra")>>}
Includes == {Inc(<<"f2">>), Inc(<<"f2", "f3">>), Inc(<<"f3">>), Inc(<<>>), Inc(<<"f4">>), Inc(<<"f1">>), NoInc}
Inners == {<<>>, <<Server>>, <<Key("ParallelDownloads", <<"2">>)>>, <<Sec("extra")>>, <<Sec("core"), Server>>,
           <<Sec("options")>>, <<Inc(<<"f3">>), Server>>, <<Inc(<<"f3", "f3">>)>>, <<Inc(<<"f2">>)>>}
IncludeJobs ==
    {Read(FilesOf(s \o <<i, Server, j, Server>>, in, last), <<>>, <<>>) :
        s \in Starts, i \in Includes, j \in Includes, in \in Inners,
        last \in {<<>>, <<Server>>, <<Sec("core")>>, <<Sec("local"), Server>>}}

\* Every option, right and wrong, twice, and the defaults, with and without --sysroot.
OptionLines ==
    {Flag(k) : k \in FlagKeys \cup {"Color", "DisableSandbox", "Unknown"}}
    \cup {Key(k, <<"p", "q">>) : k \in ListKeys \cup {"Unknown"}}
    \cup {Key(k, <<v>>) : k \in SingleKeys, v \in {"p", "q", "nowhere"}}
    \cup {Key("ParallelDownloads", v) : v \in {<<>>, <<"0">>, <<"2">>, <<"huge">>, <<"x">>}}
    \cup {Key("CleanMethod", v) : v \in {<<"KeepCurrent">>, <<"KeepInstalled", "KeepCurrent">>, <<"x">>}}
    \cup {Key("XferCommand", <<v>>) : v \in {"fetch", "unbalanced"}} \cup {Key("Architecture", <<"auto">>)}
RepoLines ==
    {<<Key(k, <<p, v>>)>> : k \in {"Server", "CacheServer"}, p \in {"file://", "http://"}, v \in {"$repo", "$arch"}}
    \cup {<<Server, Key(k, <<>>), Server>> : k \in {"Server", "CacheServer"}}
    \cup {<<Flag(k)>> : k \in {"Server", "CacheServer", "SigLevel", "Usage", "Unknown"}}
    \cup {<<Key("Usage", v)>> : v \in {<<"Sync", "Install">>, <<"All">>, <<"Search", "x">>}}
OptionJobs ==
    {Read([f \in {"f1"} |-> <<Sec("options"), a, b, Sec("core")>> \o r], root, given) :
        a \in OptionLines, b \in {Key("DBPath", <<"q">>), Key("LogFile", <<"q">>), Flag("Color"), Key("CacheDir", <<"p">>)},
        r \in RepoLines, root \in {<<>>, <<<<"guest">>>>},
        given \in {<<>>, [k \in {"RootDir", "Color"} |-> <<"given">>]}}
    \cup {OneFile(<<Server>>), OneFile(<<Sec("")>>), OneFile(<<Sec("a/b"), Server, Sec("core")>>)}

MCConfigJobs == {LevelJobs, IncludeJobs, OptionJobs}
MCNumber == [v \in {<<"0">>, <<"2">>, <<"huge">>} |-> IF v = <<"0">> THEN 0 ELSE IF v = <<"2">> THEN 2 ELSE 9]
MCNoUser == {<<"nowhere">>}
MCResolve == [v \in {<<"p">>, <<"q">>} |-> <<"real", v[1]>>]
-----------------------------------------------------------------------------
Init == \/ HooksInit /\ ChrootOff /\ PipeOff /\ ConfigOff /\ XferOff
        \/ HooksOff /\ ChrootInit /\ PipeOff /\ ConfigOff /\ XferOff
        \/ HooksOff /\ ChrootOff /\ PipeInit /\ ConfigOff /\ XferOff
        \/ HooksOff /\ ChrootOff /\ PipeOff /\ ConfigInit /\ XferOff
        \/ HooksOff /\ ChrootOff /\ PipeOff /\ ConfigOff /\ XferInit
Next == \/ HooksNext /\ UNCHANGED <<cvars, svars, gvars, xvars>>
        \/ ChrootNext /\ UNCHANGED <<hvars, svars, gvars, xvars>>
        \/ PipeNext /\ UNCHANGED <<hvars, cvars, gvars, xvars>>
        \/ ConfigNext /\ UNCHANGED <<hvars, cvars, svars, xvars>>
        \/ XferNext /\ UNCHANGED <<hvars, cvars, svars, gvars>>
vars == <<hvars, cvars, svars, gvars, xvars>>
Spec == Init /\ [][Next]_vars /\ ChrootFairness /\ PipeFairness

\* Neither a command nor the download child keeps the library waiting for ever.
ProcessesEnd == ChrootEnds /\ SandboxEnds
=============================================================================
