------------------------------- MODULE Config -------------------------------
(***************************************************************************)
(* The configuration (src/dulge/conf.c, src/common/ini.c): files that      *)
(* include each other are read line by line into one structure, which is   *)
(* completed with defaults and handed to the library, one repository after *)
(* the other.                                                              *)
(*                                                                         *)
(* A line is [t |-> "section", name]; [t |-> "include", given, files], the *)
(* files the pattern expands to (none when globbing fails); or [t |->      *)
(* "key", key, given, words]: whether there is a "=", and the words after  *)
(* it.  A path or a URL is a sequence of parts, a signature level the set  *)
(* of its flags, an option that may be unset a sequence of at most one.    *)
(***************************************************************************)
EXTENDS Integers, Sequences, FiniteSets
LOCAL INSTANCE SequencesExt

CONSTANTS
    ConfigJobs,     \* families of [files, main, sysroot, given]: what is read, --sysroot and the other options given
    MaxRecursion,   \* config_max_recursion
    Number,         \* Number[v]: the value of an option value that is a number
    Resolve,        \* Resolve[v]: what realpath makes of a path that exists
    IntMax,
    NoUser          \* the values of DownloadUser that are no users

VARIABLES
    source,     \* the job, never changes
    reading,    \* the files being read: [queue, pos], the innermost last
    section,    \* struct section_t: [named, repo, depth]; repo 0 is [options]
    conf,       \* config_t
    phase,      \* "parse", "defaults", "setup", "register", "done", "refused", "failed" or "off"
    handle,     \* the options of the handle, and its sync databases
    said        \* every directive taken, with its section: [repo, key, words]

gvars == <<source, reading, section, conf, phase, handle, said>>

FlagKeys == {"UseSyslog", "ILoveCandy", "VerbosePkgLists", "CheckSpace", "NoProgressBar",
             "DisableDownloadTimeout", "DisableSandboxFilesystem", "DisableSandboxSyscalls"}
ListKeys == {"NoUpgrade", "NoExtract", "IgnorePkg", "IgnoreGroup", "HoldPkg", "CacheDir", "HookDir",
             "Architecture"}
PathKeys == {"DBPath", "RootDir", "GPGDir"}
SingleKeys == PathKeys \cup {"LogFile", "DownloadUser"}
LevelKeys == {"SigLevel", "LocalFileSigLevel", "RemoteFileSigLevel"}
-----------------------------------------------------------------------------
(***************************************************************************)
(* Signature levels.  A word is [scope, word]: "Package" and "Database"    *)
(* prefixes restrict the scope.                                            *)
(***************************************************************************)
Scopes(scope) == IF scope = "both" THEN {"Package", "Database"} ELSE {scope}
Bits(scope, names) == {<<s, n>> : s \in Scopes(scope), n \in names}
UseDefault == <<"both", "default">>

\* What a word sets and what it clears.
SetBy(w) ==
    CASE w.word = "Optional" -> Bits(w.scope, {"check", "optional"})
      [] w.word = "Required" -> Bits(w.scope, {"check"})
      [] w.word = "TrustAll" -> Bits(w.scope, {"marginal", "unknown"})
      [] OTHER -> {}
ClearedBy(w) ==
    CASE w.word = "Never" -> Bits(w.scope, {"check"})
      [] w.word = "Required" -> Bits(w.scope, {"optional"})
      [] w.word = "TrustedOnly" -> Bits(w.scope, {"marginal", "unknown"})
      [] OTHER -> {}
LevelWords == {"Never", "Optional", "Required", "TrustedOnly", "TrustAll"}

\* Mutant: the mask does not learn of what a word clears.
SigWordMask(l, w) ==
    [level |-> ((l.level \cup SetBy(w)) \ ClearedBy(w)) \ {UseDefault},
     mask |-> l.mask \cup SetBy(w), ok |-> l.ok /\ w.word \in LevelWords]

\* One turn of the loop of process_siglevel.
SigWord(l, w) ==
    [level |-> ((l.level \cup SetBy(w)) \ ClearedBy(w)) \ {UseDefault},
     mask |-> l.mask \cup SetBy(w) \cup ClearedBy(w), ok |-> l.ok /\ w.word \in LevelWords]

\* process_siglevel: nothing is stored if one of the words is wrong.
ProcessSigLevel(stored, words) ==
    LET l == FoldLeft(SigWord, [level |-> stored.level, mask |-> stored.mask, ok |-> TRUE], words)
    IN [ok |-> l.ok, stored |-> IF l.ok THEN [level |-> l.level, mask |-> l.mask] ELSE stored]

MergeSigLevel(base, over) ==
    [over EXCEPT !.level = IF over.mask = {} THEN @ ELSE (@ \cap over.mask) \cup (base.level \ over.mask)]
-----------------------------------------------------------------------------
(***************************************************************************)
(* Directives.  The results are [ok, conf].                                *)
(***************************************************************************)
Done(c) == [ok |-> TRUE, conf |-> c]
Wrong(c) == [ok |-> FALSE, conf |-> c]
Unset(level) == [level |-> level, mask |-> {}]

\* config_new; the command line has already given some of the single values.
ConfigNew(given) ==
    [flags |-> {}, color |-> (IF "Color" \in DOMAIN given THEN "chosen" ELSE "unset"),
     lists |-> [k \in ListKeys |-> <<>>],
     single |-> [k \in SingleKeys |-> IF k \in DOMAIN given THEN <<given[k]>> ELSE <<>>],
     xfer |-> <<>>, clean |-> {}, parallel |-> 1, repos |-> <<>>,
     sig |-> [k \in LevelKeys |-> Unset(IF k = "SigLevel" THEN Bits("both", {"check"}) ELSE {UseDefault})]]

NewRepo(name) ==
    [name |-> name, servers |-> <<>>, cacheservers |-> <<>>, usage |-> {}, sig |-> Unset({UseDefault})]
UsageWords == {"Sync", "Search", "Install", "Upgrade"}

\* The options without a value; "tty" is whether the output is a terminal.
SetFlag(c, key) ==
    CASE key = "Color" -> [c EXCEPT !.color = IF @ = "unset" THEN "tty" ELSE @]
      [] key = "DisableSandbox" ->
            [c EXCEPT !.flags = @ \cup {"DisableSandboxFilesystem", "DisableSandboxSyscalls"}]
      [] key \in FlagKeys -> [c EXCEPT !.flags = @ \cup {key}]
      [] OTHER -> c

\* The options whose first value counts, the command line's before any other.
SetSingle(c, key, words) ==
    IF c.single[key] # <<>> THEN Done(c)
    ELSE IF key \notin PathKeys THEN Done([c EXCEPT !.single[key] = <<words>>])
    ELSE IF words \notin DOMAIN Resolve THEN Wrong(c)
    ELSE Done([c EXCEPT !.single[key] = <<Resolve[words]>>])

\* Anything but a number from 1 to INT_MAX is refused.
SetParallel(c, words) ==
    IF words \notin DOMAIN Number THEN Wrong(c)
    ELSE IF Number[words] \notin 1..IntMax THEN Wrong(c)
    ELSE Done([c EXCEPT !.parallel = Number[words]])

\* setrepeatingoption; an architecture "auto" is the machine's.
Entries(key, words) ==
    [i \in DOMAIN words |-> IF key = "Architecture" /\ words[i] = "auto" THEN <<"machine">> ELSE <<words[i]>>]

ParseOptions(c, line) ==
    LET key == line.key words == line.words
    IN IF ~line.given THEN Done(SetFlag(c, key))
       ELSE CASE key \in ListKeys -> Done([c EXCEPT !.lists[key] = @ \o Entries(key, words)])
              [] key \in SingleKeys -> SetSingle(c, key, words)
              [] key = "XferCommand" ->
                    IF "unbalanced" \in ToSet(words) THEN Wrong(c) ELSE Done([c EXCEPT !.xfer = <<words>>])
              [] key = "CleanMethod" ->
                    IF ToSet(words) \subseteq {"KeepInstalled", "KeepCurrent"}
                    THEN Done([c EXCEPT !.clean = @ \cup ToSet(words)]) ELSE Wrong(c)
              [] key \in LevelKeys ->
                    LET l == ProcessSigLevel(c.sig[key], words)
                    IN [ok |-> l.ok, conf |-> [c EXCEPT !.sig[key] = l.stored]]
              [] key = "ParallelDownloads" -> SetParallel(c, words)
              [] OTHER -> Done(c)

\* A wrong word of Usage has the configuration refused.
ParseRepo(c, r, line) ==
    LET key == line.key words == line.words uses == ToSet(words)
    IN IF key \notin {"CacheServer", "Server", "SigLevel", "Usage"} THEN Done(c)
       ELSE IF ~line.given THEN Wrong(c)
       ELSE CASE key = "CacheServer" -> Done([c EXCEPT !.repos[r].cacheservers = Append(@, words)])
              [] key = "Server" -> Done([c EXCEPT !.repos[r].servers = Append(@, words)])
              [] key = "SigLevel" ->
                    LET l == ProcessSigLevel(c.repos[r].sig, words)
                    IN [ok |-> l.ok, conf |-> [c EXCEPT !.repos[r].sig = l.stored]]
              [] OTHER ->
                    [ok |-> uses \subseteq UsageWords \cup {"All"},
                     conf |-> [c EXCEPT !.repos[r].usage =
                         @ \cup (IF "All" \in uses THEN UsageWords ELSE uses \cap UsageWords)]]
-----------------------------------------------------------------------------
(***************************************************************************)
(* Reading: parse_ini and _parse_directive.  An error anywhere ends it.    *)
(***************************************************************************)
Innermost == reading[Len(reading)]
CurrentFile == Head(Innermost.queue)
Opened == phase = "parse" /\ CurrentFile \in DOMAIN source.files
InFile == Opened /\ Innermost.pos <= Len(source.files[CurrentFile])
ConfigLine == source.files[CurrentFile][Innermost.pos]
NextLine == [reading EXCEPT ![Len(reading)].pos = @ + 1]
Refuse == phase' = "refused" /\ reading' = <<>> /\ UNCHANGED <<section, conf, said>>
Fixed == UNCHANGED <<source, handle>>

\* A file that cannot be opened: the callback gets neither section nor key nor value.
OpenFails == phase = "parse" /\ ~Opened /\ Refuse /\ Fixed

SectionLine ==
    /\ InFile /\ ConfigLine.t = "section"
    /\ reading' = NextLine
    /\ IF ConfigLine.name = "options"
       THEN section' = [section EXCEPT !.named = TRUE, !.repo = 0] /\ UNCHANGED conf
       ELSE /\ conf' = [conf EXCEPT !.repos = Append(@, NewRepo(ConfigLine.name))]
            /\ section' = [section EXCEPT !.named = TRUE, !.repo = Len(conf.repos) + 1]
    /\ UNCHANGED <<phase, said>> /\ Fixed

\* process_include: the files the pattern expands to are read with the same section.
IncludeLine ==
    /\ InFile /\ ConfigLine.t = "include"
    /\ IF ~ConfigLine.given \/ section.depth >= MaxRecursion THEN Refuse
       ELSE /\ IF ConfigLine.files = <<>> THEN reading' = NextLine /\ UNCHANGED section
               ELSE /\ section' = [section EXCEPT !.depth = @ + 1]
                    /\ reading' = Append(NextLine, [queue |-> ConfigLine.files, pos |-> 1])
            /\ UNCHANGED <<conf, phase, said>>
    /\ Fixed

\* _parse_directive, for everything but Include.
Directive(s, c, line) == IF s.repo = 0 THEN ParseOptions(c, line) ELSE ParseRepo(c, s.repo, line)

KeyLine ==
    /\ InFile /\ ConfigLine.t = "key"
    /\ IF ~section.named \/ ~Directive(section, conf, ConfigLine).ok THEN Refuse
       ELSE /\ conf' = Directive(section, conf, ConfigLine).conf
            /\ reading' = NextLine
            /\ said' = Append(said, [repo |-> section.repo, key |-> ConfigLine.key, words |-> ConfigLine.words])
            /\ UNCHANGED <<section, phase>>
    /\ Fixed

\* Mutant: the recursion depth counts the Include lines met, not the nesting.
EndOfFileDepth ==
    /\ Opened /\ ~InFile
    /\ LET rest == Tail(Innermost.queue) outer == Front(reading)
       IN IF rest # <<>>
          THEN reading' = Append(outer, [queue |-> rest, pos |-> 1]) /\ UNCHANGED phase
          ELSE reading' = outer /\ phase' = (IF outer = <<>> THEN "defaults" ELSE phase)
    /\ UNCHANGED <<section, conf, said>> /\ Fixed

\* The end of a file: the next one of the pattern, or back to the including file.
EndOfFile ==
    /\ Opened /\ ~InFile
    /\ LET rest == Tail(Innermost.queue) outer == Front(reading)
       IN IF rest # <<>>
          THEN reading' = Append(outer, [queue |-> rest, pos |-> 1]) /\ UNCHANGED <<phase, section>>
          ELSE /\ reading' = outer
               /\ IF outer = <<>> THEN phase' = "defaults" /\ UNCHANGED section
                  ELSE section' = [section EXCEPT !.depth = @ - 1] /\ UNCHANGED phase
    /\ UNCHANGED <<conf, said>> /\ Fixed
-----------------------------------------------------------------------------
(***************************************************************************)
(* setdefaults.                                                            *)
(***************************************************************************)
Default(option, value) == IF option = <<>> THEN <<value>> ELSE option
PrependDir(dir, path) == dir \o path

\* Without a root directory of its own everything has its built-in place; with
\* one, the database and the log move below it.
DefaultPaths(single) ==
    LET root == single["RootDir"]
        place(p) == IF root = <<>> THEN <<p>> ELSE Append(root[1], p)
    IN [single EXCEPT !["RootDir"] = Default(@, <<"ROOTDIR">>), !["DBPath"] = Default(@, place("DBPATH")),
                      !["LogFile"] = Default(@, place("LOGFILE")), !["GPGDir"] = Default(@, <<"GPGDIR">>)]
DefaultLists(lists) ==
    [lists EXCEPT !["CacheDir"] = Default(@, <<"CACHEDIR">>), !["HookDir"] = Default(@, <<"HOOKDIR">>)]

ReplaceServerVars(c, r, url) ==
    [i \in DOMAIN url |->
        CASE url[i] = "$repo" -> r.name
          [] url[i] = "$arch" /\ c.lists["Architecture"] # <<>> -> c.lists["Architecture"][1][1]
          [] OTHER -> url[i]]
Replaced(c, r, urls) == [j \in DOMAIN urls |-> ReplaceServerVars(c, r, urls[j])]
UnknownArch(c) ==
    /\ c.lists["Architecture"] = <<>>
    /\ \E i \in DOMAIN c.repos : \E j \in DOMAIN (c.repos[i].servers \o c.repos[i].cacheservers) :
            "$arch" \in ToSet((c.repos[i].servers \o c.repos[i].cacheservers)[j])

\* The results of the loops over the repositories and of the assignments before.
RepoDefaults(c, r) ==
    [r EXCEPT !.usage = IF @ = {} THEN UsageWords ELSE @,
              !.sig = MergeSigLevel(c.sig["SigLevel"], @),
              !.servers = Replaced(c, r, @), !.cacheservers = Replaced(c, r, @)]
WithDefaults(c) ==
    [c EXCEPT !.single = DefaultPaths(@), !.lists = DefaultLists(@),
              !.clean = IF @ = {} THEN {"KeepInstalled"} ELSE @,
              !.sig = [k \in LevelKeys |-> IF k = "SigLevel" THEN @[k] ELSE MergeSigLevel(c.sig["SigLevel"], @[k])],
              !.repos = [i \in DOMAIN @ |-> RepoDefaults(c, @[i])]]

\* prepend_sysroot: the directories, and the servers that are directories.
IsFileURL(url) == url # <<>> /\ url[1] = "file://"
SysrootURL(root, url) == IF IsFileURL(url) THEN <<"file://">> \o PrependDir(root, Tail(url)) ELSE url
PrependSysroot(c, sysroot) ==
    IF sysroot = <<>> THEN c
    ELSE LET below(path) == PrependDir(sysroot[1], path)
             all(paths) == [i \in DOMAIN paths |-> below(paths[i])]
         IN [c EXCEPT !.single = [k \in SingleKeys |-> IF k = "DownloadUser" THEN @[k] ELSE all(@[k])],
                      !.lists = [k \in ListKeys |-> IF k \in {"CacheDir", "HookDir"} THEN all(@[k]) ELSE @[k]],
                      !.repos = [i \in DOMAIN @ |->
                          [@[i] EXCEPT !.servers = [j \in DOMAIN @ |-> SysrootURL(sysroot[1], @[j])]]]]

SetDefaults ==
    /\ phase = "defaults"
    /\ IF UnknownArch(conf) THEN phase' = "failed" /\ UNCHANGED conf
       ELSE phase' = "setup" /\ conf' = PrependSysroot(WithDefaults(conf), source.sysroot)
    /\ UNCHANGED <<reading, section, said>> /\ Fixed
-----------------------------------------------------------------------------
(***************************************************************************)
(* setup_libalpm.                                                          *)
(***************************************************************************)
NoHandle == [sig |-> [k \in LevelKeys |-> {}], dbs |-> <<>>, options |-> <<>>]

\* alpm_initialize and the options set before the repositories; it may fail.
Initialize ==
    /\ phase = "setup"
    /\ \/ /\ phase' = "register"
          /\ handle' = [handle EXCEPT !.sig = [k \in LevelKeys |-> conf.sig[k].level]]
       \/ phase' = "failed" /\ UNCHANGED handle
    /\ UNCHANGED <<source, reading, section, conf, said>>

\* alpm_db_add_server for each: an empty one ends it.
Nonempty(urls) ==
    LET bad == {i \in DOMAIN urls : urls[i] = <<>>}
    IN IF bad = {} THEN urls ELSE SubSeq(urls, 1, (CHOOSE i \in bad : \A j \in bad : i <= j) - 1)

\* register_repo, whose result is ignored: a name that is taken, or that can be
\* no file name, is skipped.
RegisterRepo ==
    /\ phase = "register" /\ conf.repos # <<>>
    /\ LET r == Head(conf.repos)
           caches == Nonempty(r.cacheservers)
           db == [name |-> r.name, sig |-> r.sig.level, usage |-> r.usage, cacheservers |-> caches,
                  servers |-> IF caches = r.cacheservers THEN Nonempty(r.servers) ELSE <<>>]
           taken == {"", "a/b", "local"} \cup {handle.dbs[i].name : i \in DOMAIN handle.dbs}
       IN /\ handle' = IF r.name \in taken THEN handle ELSE [handle EXCEPT !.dbs = Append(@, db)]
          /\ conf' = [conf EXCEPT !.repos = Tail(@)]
    /\ UNCHANGED <<source, reading, section, phase, said>>

\* The options set after the repositories: the download user must exist.
FinishSetup ==
    /\ phase = "register" /\ conf.repos = <<>>
    /\ IF ToSet(conf.single["DownloadUser"]) \subseteq NoUser /\ conf.single["DownloadUser"] # <<>>
       THEN phase' = "failed" /\ UNCHANGED handle
       ELSE phase' = "done" /\ handle' = [handle EXCEPT !.options = <<conf>>]
    /\ UNCHANGED <<source, reading, section, conf, said>>

DbGetSigLevel(db) == IF UseDefault \in db.sig THEN handle.sig["SigLevel"] ELSE db.sig
GetFileSigLevel(k) == IF UseDefault \in handle.sig[k] THEN handle.sig["SigLevel"] ELSE handle.sig[k]

ConfigInit ==
    /\ \E family \in ConfigJobs : source \in family
    /\ reading = <<[queue |-> <<source.main>>, pos |-> 1]>>
    /\ section = [named |-> FALSE, repo |-> 0, depth |-> 0]
    /\ conf = ConfigNew(source.given) /\ phase = "parse" /\ handle = NoHandle /\ said = <<>>
ConfigOff ==
    /\ source = [files |-> <<>>, main |-> "none", sysroot |-> <<>>, given |-> <<>>]
    /\ reading = <<>> /\ section = [named |-> FALSE, repo |-> 0, depth |-> 0]
    /\ conf = ConfigNew(<<>>) /\ phase = "off" /\ handle = NoHandle /\ said = <<>>
ConfigNext ==
    \/ OpenFails \/ SectionLine \/ IncludeLine \/ KeyLine \/ EndOfFile
    \/ SetDefaults \/ Initialize \/ RegisterRepo \/ FinishSetup
-----------------------------------------------------------------------------
(***************************************************************************)
(* Properties.                                                             *)
(***************************************************************************)
\* The types of the variables.
ConfigTypeOK ==
    /\ section.named \in BOOLEAN /\ section.repo \in Nat
    /\ section.depth \in 0..MaxRecursion /\ Len(reading) <= MaxRecursion + 1
    /\ phase \in {"off", "parse", "defaults", "setup", "register", "done", "refused", "failed"}
    /\ conf.parallel \in 1..IntMax /\ conf.clean \subseteq {"KeepInstalled", "KeepCurrent"}
    /\ \A i \in DOMAIN handle.dbs : handle.dbs[i].usage \subseteq UsageWords

\* The text with every Include replaced by what it includes; a line "broken"
\* stands for a file that is missing or nested too deeply.
RECURSIVE Expanded(_, _, _)
Expanded(files, f, depth) ==
    IF f \notin DOMAIN files THEN <<[t |-> "broken"]>>
    ELSE FlattenSeq([i \in DOMAIN files[f] |->
            LET line == files[f][i]
            IN CASE line.t # "include" -> <<line>>
                 [] line.t = "include" /\ (~line.given \/ depth >= MaxRecursion) -> <<[t |-> "broken"]>>
                 [] OTHER -> FlattenSeq([j \in DOMAIN line.files |-> Expanded(files, line.files[j], depth + 1)])])

\* What one file without Include lines means.
ReadLine(a, line) ==
    IF ~a.ok THEN a
    ELSE CASE line.t = "broken" -> [a EXCEPT !.ok = FALSE]
           [] line.t = "section" /\ line.name = "options" -> [a EXCEPT !.named = TRUE, !.repo = 0]
           [] line.t = "section" /\ line.name # "options" ->
                 [a EXCEPT !.named = TRUE, !.repo = Len(a.conf.repos) + 1,
                           !.conf.repos = Append(@, NewRepo(line.name))]
           [] OTHER ->
                 LET d == Directive(a, a.conf, line)
                 IN IF a.named /\ d.ok
                    THEN [a EXCEPT !.conf = d.conf,
                             !.said = Append(@, [repo |-> a.repo, key |-> line.key, words |-> line.words])]
                    ELSE [a EXCEPT !.ok = FALSE]
TextRead ==
    FoldLeft(ReadLine, [ok |-> TRUE, named |-> FALSE, repo |-> 0, conf |-> ConfigNew(source.given), said |-> <<>>],
             Expanded(source.files, source.main, 0))

\* Reading files that include each other (process_include, which hands its
\* section to the inner files and takes it back as they left it) gives what one
\* file with all the texts in place of the Include lines would give, and is
\* refused only where that text is: a file missing, nested more deeply than the
\* limit, or a wrong directive.
IncludeIsTextual ==
    /\ phase = "defaults" => TextRead.ok /\ conf = TextRead.conf /\ said = TextRead.said
    /\ phase = "refused" => ~TextRead.ok

\* The words said under a key in a section, in order.
Words(r, key) ==
    FlattenSeq([i \in DOMAIN said |-> IF said[i].repo = r /\ said[i].key = key THEN said[i].words ELSE <<>>])
LastOf(words, scope, choices, default) ==
    LET about == SelectSeq(words, LAMBDA w : scope \in Scopes(w.scope) /\ w.word \in choices)
    IN IF about = <<>> THEN default ELSE Last(about).word
Wanted(words, scope) ==
    <<LastOf(words, scope, {"Never", "Optional", "Required"}, "Required"),
      LastOf(words, scope, {"TrustedOnly", "TrustAll"}, "TrustedOnly")>>
Judged(level, scope) ==
    <<IF <<scope, "check">> \notin level THEN "Never" ELSE IF <<scope, "optional">> \in level THEN "Optional" ELSE "Required",
      IF Bits(scope, {"marginal", "unknown"}) \subseteq level THEN "TrustAll"
      ELSE IF Bits(scope, {"marginal", "unknown"}) \cap level = {} THEN "TrustedOnly" ELSE "mixed">>
SectionOf(name) ==
    LET named == {i \in DOMAIN TextRead.conf.repos : TextRead.conf.repos[i].name = name}
    IN CHOOSE i \in named : \A j \in named : i <= j

\* The signature level a database or a package file is checked with
\* (alpm_db_get_siglevel, alpm_option_get_local_file_siglevel) is, for packages
\* and for databases, the last word of its own directive on when to check and on
\* whom to trust, else the last global one, wherever [options] stands, else the
\* built-in one: process_siglevel's masks and merge_siglevel compute just that.
LastWordWins ==
    phase = "done" =>
        \A s \in {"Package", "Database"} :
            /\ \A i \in DOMAIN handle.dbs :
                  Judged(DbGetSigLevel(handle.dbs[i]), s)
                      = Wanted(Words(0, "SigLevel") \o Words(SectionOf(handle.dbs[i].name), "SigLevel"), s)
            /\ \A k \in LevelKeys :
                  Judged(GetFileSigLevel(k), s)
                      = Wanted(Words(0, "SigLevel") \o (IF k = "SigLevel" THEN <<>> ELSE Words(0, k)), s)

\* The databases are the repositories of the configuration in the order of their
\* first sections, whatever file each came from (register_repo ignores that the
\* others are refused): the order decides which one a package is taken from.
FirstSectionsInOrder ==
    phase = "done" =>
        LET repos == TextRead.conf.repos
            first == SelectSeq([i \in DOMAIN repos |-> i],
                               LAMBDA i : repos[i].name \notin {"", "a/b", "local"} /\ SectionOf(repos[i].name) = i)
        IN /\ Len(handle.dbs) = Len(first)
           /\ \A i \in DOMAIN first : handle.dbs[i].name = repos[first[i]].name

Mentions(path) == Cardinality({i \in DOMAIN path : \E r \in ToSet(source.sysroot) : path[i] = r[1]})
Below(path) == IF source.sysroot = <<>> THEN Mentions(path) = 0 ELSE path[1] = source.sysroot[1][1] /\ Mentions(path) = 1
ServerBelow(url) == IF IsFileURL(url) THEN Below(Tail(url)) ELSE Mentions(url) = 0

\* With --sysroot every directory, given or by default, and every Server that is
\* a directory is below the system root exactly once; without, or for any other
\* Server, it is not mentioned (prepend_sysroot after the defaults).  A CacheServer
\* is taken as it is.
SysrootOnce ==
    phase = "done" =>
        LET c == handle.options[1]
        IN /\ \A k \in SingleKeys \ {"DownloadUser"} : Len(c.single[k]) = 1 /\ Below(c.single[k][1])
           /\ \A k \in {"CacheDir", "HookDir"} : c.lists[k] # <<>> /\ \A i \in DOMAIN c.lists[k] : Below(c.lists[k][i])
           /\ \A i \in DOMAIN handle.dbs : \A j \in DOMAIN handle.dbs[i].servers : ServerBelow(handle.dbs[i].servers[j])

\* The configuration is the one of the text: Include lines mean the text of their files, the
\* databases come in the order of their first sections; and the variables have their types.
ConfigIsText == ConfigTypeOK /\ IncludeIsTextual /\ FirstSectionsInOrder

\* Every setting ends up as it should: signature levels by the last word on them, paths below
\* the system root once.
SettingsExact == LastWordWins /\ SysrootOnce
=============================================================================
