---------------------------- MODULE InstallLifecycle ----------------------------
(* cozip_win_installer: the installer, the uninstaller, and what they leave on the   *)
(* machine when they are run one after the other, closed or killed halfway, and the   *)
(* machine restarts in between.  Each is a window and a thread that works and sends    *)
(* what it did through a channel, which the window empties every 120 ms; when no       *)
(* window can be opened the installer works without one.                               *)
(*                                                                                     *)
(* External: the archive with the program (.github/workflows/build.yml puts the shell  *)
(* extension into it as it is, the installer also expects a copy that replaces it),     *)
(* Explorer, which loads the extension and keeps it from being written, and Windows,    *)
(* which carries out what was left for the next start in the order it was asked for.     *)
(* Registry keys stand for the trees that are created and deleted together.             *)
EXTENDS Integers, Sequences, FiniteSets, SequencesExt

CONSTANTS
    Packs,         \* what the archives may hold: sequences of PackEntries
    MaxSessions,   \* how often one of the programs is started
    MaxTrouble,    \* how many operations fail, or programs are killed
    FaultKinds     \* of {"net", "disk", "registry", "schedule", "window"}

VARIABLES
    machine,  \* [disk, keys, pending, loaded, temp]: see Fresh
    app,      \* [kind, step, accepted, menu, progress, note]: the window
    work,     \* [stage, at, left, last, local, note]: perform_install, perform_uninstall
    channel,  \* InstallWorkerMessage: [progress] or [ok, note]
    told,     \* what the last program said it did: [what, release, menu, note, doomed]
    spent     \* [sessions, trouble, pack]; a session installs the release of its number

installVars == <<machine, app, work, channel, told, spent>>

PackEntries == {"icons", "uninstaller", "dll", "tmp"}
IsDir(e) == e = "icons"
AssocKeys == <<"ext", "progid">>
MenuKeys  == <<"clsid", "verb">>

\* disk: the release an entry is of, 0 if there is none, negative while it is cut off;
\* keys: the keys there are; pending: [op, entry], what the next start does; loaded:
\* Explorer has the extension; temp: the archive in the temporary directory.
Fresh(keys) == [disk |-> [e \in PackEntries |-> 0], keys |-> keys, pending |-> <<>>,
                loaded |-> FALSE, temp |-> 0]
NoApp  == [kind |-> "none", step |-> "none", accepted |-> FALSE, menu |-> TRUE,
           progress |-> 0, note |-> ""]
NoWork == [stage |-> "none", at |-> 1, left |-> {}, last |-> 0, local |-> FALSE,
           note |-> ""]
Nothing == [what |-> "nothing", release |-> 0, menu |-> FALSE, note |-> "", doomed |-> {}]

InstallInit ==
    /\ machine = Fresh({"legacy"})
    /\ app = NoApp /\ work = NoWork /\ channel = <<>> /\ told = Nothing
    /\ spent \in [sessions : {0}, trouble : {0}, pack : Packs]

Release == spent.sessions
NoTrouble == UNCHANGED spent
Troubled(kind) == /\ kind \in FaultKinds /\ spent.trouble < MaxTrouble
               /\ spent' = [spent EXCEPT !.trouble = @ + 1]

--------------------------------------------------------------------------------
(* The windows.                                                                 *)

Launch(kind) ==
    /\ app.kind = "none" /\ spent.sessions < MaxSessions
    /\ (kind = "uninstaller" => machine.disk["uninstaller"] > 0)
    /\ app' = [NoApp EXCEPT !.kind = kind, !.step = "start"]
    /\ spent' = [spent EXCEPT !.sessions = @ + 1]
    /\ work' = NoWork
    /\ UNCHANGED <<machine, channel, told>>

\* What starts again as an administrator goes on here; what may not, ends.
ensure_elevated ==
    /\ app.step = "start"
    /\ \/ app' = [app EXCEPT !.step = IF app.kind = "installer" THEN "license" ELSE "confirm"]
       \/ app' = NoApp
    /\ UNCHANGED <<machine, work, channel, told, spent>>

\* The check boxes.
Tick ==
    /\ \/ app.step = "license" /\ app' = [app EXCEPT !.accepted = ~@]
       \/ app.step = "options" /\ app' = [app EXCEPT !.menu = ~@]
    /\ UNCHANGED <<machine, work, channel, told, spent>>

Worker(step) ==
    /\ app' = [app EXCEPT !.step = step, !.progress = 0, !.note = ""]
    /\ work' = [NoWork EXCEPT !.stage = IF app.kind = "installer" THEN "find" ELSE "unregister"]
    /\ channel' = <<>> /\ told' = Nothing
    /\ UNCHANGED machine

start_install ==
    \/ app.step \in {"options", "confirm"} /\ Worker("working") /\ NoTrouble
    \/ app.step = "start" /\ app.kind = "installer" /\ Worker("fallback") /\ Troubled("window")

next ==
    /\ \/ app.step = "license" /\ app.accepted /\ app' = [app EXCEPT !.step = "options"]
       \/ app.step = "complete" /\ app' = NoApp
    /\ UNCHANGED <<machine, work, channel, told, spent>>

back ==
    /\ \/ app.step = "options" /\ app' = [app EXCEPT !.step = "license"]
       \/ app.step = "confirm" /\ app' = NoApp
    /\ UNCHANGED <<machine, work, channel, told, spent>>

\* The loop of start_install: the last progress of all there is, and the end.
Poll ==
    LET fractions == {i \in 1 .. Len(channel) : "progress" \in DOMAIN channel[i]}
        shown == IF fractions = {} THEN app
                 ELSE [app EXCEPT !.progress =
                         channel[CHOOSE i \in fractions : \A j \in fractions : i >= j].progress]
    IN  /\ app.step \in {"working", "fallback"} /\ channel # <<>>
        /\ channel' = <<>>
        /\ app' = IF Len(channel) \in fractions THEN shown
                  ELSE [shown EXCEPT !.step = "complete", !.progress = 100,
                                     !.note = Last(channel).note]
        /\ UNCHANGED <<machine, work, told, spent>>

\* The window is closed, or the process ends in another way: the thread ends with it.
Killed ==
    /\ work.stage \notin {"none", "done"} /\ spent.trouble < MaxTrouble
    /\ app' = NoApp /\ work' = NoWork /\ channel' = <<>>
    /\ spent' = [spent EXCEPT !.trouble = @ + 1]
    /\ UNCHANGED <<machine, told>>

--------------------------------------------------------------------------------
(* Windows.                                                                     *)

Carry(disk, ask) ==
    IF ask.op = "delete" THEN [disk EXCEPT ![ask.entry] = 0]
    ELSE IF disk["tmp"] = 0 THEN disk
    ELSE [disk EXCEPT !["dll"] = disk["tmp"], !["tmp"] = 0]

Settled == FoldLeft(Carry, machine.disk, machine.pending)

Restart ==
    /\ app.kind = "none"
    /\ machine' = [machine EXCEPT !.disk = Settled, !.pending = <<>>, !.loaded = FALSE]
    /\ UNCHANGED <<app, work, channel, told, spent>>

Explorer ==
    /\ \/ ~machine.loaded /\ "verb" \in machine.keys /\ machine.disk["dll"] > 0
       \/ machine.loaded
    /\ machine' = [machine EXCEPT !.loaded = ~@]
    /\ UNCHANGED <<app, work, channel, told, spent>>

\* Whether an entry can be written or deleted now.
Free(e) == e # "dll" \/ ~machine.loaded

--------------------------------------------------------------------------------
(* The threads.                                                                 *)

scale_progress(start, end, done, total) == start + (done * (end - start)) \div total

\* A step of a thread, which reports that it is so far: nothing that was reported before.
Does(w, percent) ==
    /\ work' = [w EXCEPT !.last = IF percent > @ THEN percent ELSE @]
    /\ channel' = IF percent > work.last /\ app.step = "working"
                  THEN Append(channel, [progress |-> percent]) ELSE channel
    /\ UNCHANGED <<app, told>>

\* A replacement that was put off and could not be deleted comes before its deletion.
Revived == IF machine.disk["tmp"] # 0 /\ \E i \in DOMAIN machine.pending : machine.pending[i].op = "replace"
           THEN {"dll"} ELSE {}

Ends(ok, note) ==
    /\ work' = [work EXCEPT !.stage = "done"]
    /\ channel' = Append(channel, [ok |-> ok, note |-> note])
    /\ told' = IF ~ok THEN Nothing
               ELSE [what |-> app.kind, release |-> Release, menu |-> app.menu, note |-> note,
                     doomed |-> IF app.kind = "installer" THEN work.left ELSE Revived]
    /\ UNCHANGED app

\* The install goes on without what has to be deleted at the next start anyway: told
\* keeps it, the code does not look (the thread of the installer does not use left).
Doomed == {machine.pending[i].entry :
              i \in {j \in 1 .. Len(machine.pending) : machine.pending[j].op = "delete"}}

find_local_pack_zip ==
    /\ work.stage = "find" /\ UNCHANGED machine /\ NoTrouble
    /\ \/ Does([work EXCEPT !.stage = "extract", !.at = 0, !.local = TRUE, !.left = Doomed], 59)
       \/ Does([work EXCEPT !.stage = "fetch", !.left = Doomed], 1)

\* Two reads; a connection that closes early is the end of the archive.
download_release_asset ==
    \/ /\ work.stage = "fetch"
       /\ \/ /\ machine' = [machine EXCEPT !.temp = -Release] /\ NoTrouble
             /\ Does([work EXCEPT !.stage = "download"], scale_progress(5, 59, 0, 2))
          \/ Troubled("net") /\ machine' = [machine EXCEPT !.temp = 0] /\ Ends(FALSE, "failed")
    \/ /\ work.stage = "download"
       /\ \/ /\ work.at < 2 /\ UNCHANGED machine /\ NoTrouble
             /\ Does([work EXCEPT !.at = @ + 1], scale_progress(5, 59, work.at, 2))
          \/ /\ work.at = 2 /\ machine' = [machine EXCEPT !.temp = Release] /\ NoTrouble
             /\ Does([work EXCEPT !.stage = "extract", !.at = 0], 59)
          \/ /\ work.at < 2 /\ Troubled("net")
             /\ \/ UNCHANGED machine /\ Does([work EXCEPT !.stage = "extract", !.at = 0], 59)
                \/ machine' = [machine EXCEPT !.temp = 0] /\ Ends(FALSE, "failed")

Write(e, value) == machine' = [machine EXCEPT !.disk[e] = value]

\* The archive is deleted whether or not it could be extracted.
Unpacked == [machine EXCEPT !.temp = IF work.local THEN @ ELSE 0]
ExtractFails == machine' = Unpacked /\ Ends(FALSE, "failed")

\* An entry is created, or cut off if it is there, and then written.
extract_pack_archive ==
    LET Size == Len(spent.pack)
        done == scale_progress(60, 89, work.at, Size)
    IN  /\ work.stage = "extract"
        /\ \/ /\ work.at = 0 /\ (work.local \/ machine.temp = Release)
              /\ Does([work EXCEPT !.at = 1], 60) /\ UNCHANGED machine /\ NoTrouble
           \/ work.at = 0 /\ ~work.local /\ machine.temp < 0 /\ ExtractFails /\ NoTrouble
           \/ /\ work.at \in 1 .. Size
              /\ LET e == spent.pack[work.at] IN
                 IF IsDir(e) THEN
                    /\ Write(e, Release) /\ Does([work EXCEPT !.at = @ + 1], done) /\ NoTrouble
                 ELSE IF ~Free(e) THEN ExtractFails /\ NoTrouble
                 ELSE IF machine.disk[e] # -Release
                      THEN Write(e, -Release) /\ Does(work, work.last) /\ NoTrouble
                      ELSE Write(e, Release) /\ Does([work EXCEPT !.at = @ + 1], done) /\ NoTrouble
           \/ /\ work.at > Size /\ machine' = Unpacked /\ NoTrouble
              /\ Does([work EXCEPT !.stage = "shell"], 89)
           \/ work.at <= Size /\ Troubled("disk") /\ ExtractFails

Ask(m, op, e) == [m EXCEPT !.pending = Append(@, [op |-> op, entry |-> e])]

\* The extension is replaced, or will be at the next start if it could not be written.
install_shell_extension_binaries ==
    /\ work.stage = "shell"
    /\ LET Then(note) == Does([work EXCEPT !.stage = "assoc", !.at = 1, !.note = note], work.last)
       IN  IF machine.disk["tmp"] = 0 THEN Then("") /\ UNCHANGED machine /\ NoTrouble
           ELSE \/ /\ Free("dll") /\ Then("") /\ NoTrouble
                   /\ machine' = [machine EXCEPT !.disk["dll"] = machine.disk["tmp"],
                                                 !.disk["tmp"] = 0]
                \/ /\ (~Free("dll") /\ NoTrouble) \/ (Free("dll") /\ Troubled("disk"))
                   /\ machine' = Ask(machine, "replace", "dll") /\ Then("restart")
                \/ /\ ~Free("dll") /\ Troubled("schedule")
                   /\ Ends(FALSE, "failed") /\ UNCHANGED machine

RegistryFails == Troubled("registry") /\ Ends(FALSE, "failed") /\ UNCHANGED machine
AddKey(k) == machine' = [machine EXCEPT !.keys = @ \cup {k}]

install_archive_file_associations ==
    /\ work.stage = "assoc"
    /\ \/ /\ AddKey(AssocKeys[work.at]) /\ NoTrouble
          /\ IF work.at < Len(AssocKeys) THEN Does([work EXCEPT !.at = @ + 1], work.last)
             ELSE Does([work EXCEPT !.stage = "entry"], work.last)
       \/ RegistryFails

install_uninstall_registration ==
    /\ work.stage = "entry"
    /\ \/ /\ AddKey("entry") /\ NoTrouble
          /\ Does([work EXCEPT !.stage = IF app.menu THEN "legacy" ELSE "finish"], 94)
       \/ RegistryFails

\* What earlier releases registered goes, and the extension registers itself.
LegacyKeys == {"verb", "legacy"}
install_explorer_menu_entries ==
    /\ work.stage \in {"legacy", "menu"}
    /\ \/ /\ work.stage = "legacy" /\ NoTrouble
          /\ machine' = [machine EXCEPT !.keys = @ \ LegacyKeys]
          /\ IF machine.disk["dll"] = 0 THEN Ends(FALSE, "failed")
             ELSE Does([work EXCEPT !.stage = "menu", !.at = 1], work.last)
       \/ /\ work.stage = "menu" /\ AddKey(MenuKeys[work.at]) /\ NoTrouble
          /\ IF work.at < Len(MenuKeys) THEN Does([work EXCEPT !.at = @ + 1], work.last)
             ELSE Does([work EXCEPT !.stage = "finish"], work.last)
       \/ RegistryFails

InstallEnds ==
    /\ work.stage = "finish" /\ UNCHANGED machine /\ NoTrouble
    /\ IF work.last < 100 THEN Does(work, 100) ELSE Ends(TRUE, work.note)

perform_install ==
    \/ find_local_pack_zip \/ download_release_asset \/ extract_pack_archive
    \/ install_shell_extension_binaries \/ install_archive_file_associations
    \/ install_uninstall_registration \/ install_explorer_menu_entries \/ InstallEnds

--------------------------------------------------------------------------------

\* The trees that are deleted one by one.
Trees == <<{"verb"}, {"clsid"}, LegacyKeys, {"ext"}, {"progid"}, {"entry"}>>
Percent == <<1, 1, 17, 17, 17, 34>>

\* The extension may unregister itself; what it leaves is deleted after it.
uninstall_explorer_menu_entries ==
    /\ work.stage = "unregister" /\ NoTrouble
    /\ Does([work EXCEPT !.stage = "keys"], 1)
    /\ \/ machine.disk["dll"] > 0
          /\ machine' = [machine EXCEPT !.keys = @ \ ToSet(MenuKeys)]
       \/ UNCHANGED machine

reg_delete_tree ==
    /\ work.stage = "keys"
    /\ \/ /\ machine' = [machine EXCEPT !.keys = @ \ Trees[work.at]] /\ NoTrouble
          /\ IF work.at < Len(Trees) THEN Does([work EXCEPT !.at = @ + 1], Percent[work.at])
             ELSE Does([work EXCEPT !.stage = "remove", !.at = 0,
                          !.left = {e \in PackEntries : machine.disk[e] # 0}], 34)
       \/ RegistryFails

\* Files first, in any order, then directories; the program itself stays until a restart,
\* as does what cannot be deleted; when that cannot be asked for either, it ends.
remove_installation_files ==
    LET total == work.at + Cardinality(work.left)
        Removed(e, note) ==
            Does([work EXCEPT !.at = @ + 1, !.left = @ \ {e}, !.note = note],
                 scale_progress(35, 100, work.at + 1, total))
    IN  /\ work.stage = "remove"
        /\ \/ \E e \in work.left :
                 /\ (IsDir(e) => \A f \in work.left : IsDir(f))
                 /\ LET deletes == e # "uninstaller" /\ Free(e) IN
                    \/ deletes /\ Write(e, 0) /\ Removed(e, work.note) /\ NoTrouble
                    \/ /\ IF deletes THEN Troubled("disk") ELSE NoTrouble
                       /\ machine' = Ask(machine, "delete", e) /\ Removed(e, "restart")
                    \/ Troubled("schedule") /\ Ends(FALSE, "failed") /\ UNCHANGED machine
           \/ /\ work.left = {} /\ UNCHANGED machine /\ NoTrouble
              /\ IF work.last < 100 THEN Does(work, 100) ELSE Ends(TRUE, work.note)

perform_uninstall ==
    uninstall_explorer_menu_entries \/ reg_delete_tree \/ remove_installation_files

ThreadStep == perform_install \/ perform_uninstall

InstallNext ==
    \/ \E kind \in {"installer", "uninstaller"} : Launch(kind)
    \/ ensure_elevated \/ Tick \/ start_install \/ next \/ back \/ Poll \/ Killed
    \/ Restart \/ Explorer \/ ThreadStep

--------------------------------------------------------------------------------

\* When the installer says that it is done, every entry of the archive and the extension
\* are of that release and registered as asked for, at once or, when it speaks of a
\* restart, after one; whatever earlier runs, which may have ended anywhere, left on the
\* disk or for the next start.  Except for what an uninstaller left to be deleted then:
\* that is deleted, new as it is (schedule_delete_on_reboot), and the extension stays old
\* if its replacement is.
InstalledIsComplete ==
    told.what = "installer" =>
        LET files == (ToSet(spent.pack) \cup {"dll"}) \ {"tmp"}
            keys == ToSet(AssocKeys) \cup {"entry"}
                    \cup (IF told.menu THEN ToSet(MenuKeys) ELSE {})
            stale == IF "tmp" \in told.doomed /\ told.note # "" THEN {"dll"} ELSE {}
        IN  /\ keys \subseteq machine.keys
            /\ \A e \in files \ (told.doomed \cup stale) : Settled[e] = told.release
            /\ told.note = "" => \A e \in files \ told.doomed : machine.disk[e] = told.release
            /\ told.menu => "legacy" \notin machine.keys

\* When the uninstaller says that it is done, no key is left and no entry will be there
\* after the next start, and none is there now but those it speaks of.  Except for the
\* extension when an installer put off its replacement, which could not be deleted now:
\* the next start replaces it first and deletes the replacement's old name.
UninstalledIsGone ==
    told.what = "uninstaller" =>
        /\ machine.keys = {} /\ \A e \in PackEntries \ told.doomed : Settled[e] = 0
        /\ told.note = "" => \A e \in PackEntries : machine.disk[e] = 0

\* What is shown never goes back and is never ahead of the thread; the archive is deleted
\* by whoever downloaded it, unless it was killed.
WindowFollows ==
    /\ app.step = "working" =>
          LET fractions == SelectSeq(channel, LAMBDA m : "progress" \in DOMAIN m)
          IN  \A i \in 1 .. Len(fractions) :
                 /\ fractions[i].progress <= work.last
                 /\ fractions[i].progress >
                       (IF i = 1 THEN app.progress ELSE fractions[i - 1].progress)
    /\ app.step = "working" /\ work.stage # "done" /\ app.kind = "installer"
          /\ app.progress >= 90 =>
             \A e \in ToSet(spent.pack) \ {"tmp"} : machine.disk[e] = Release
    /\ work.stage = "done" /\ ~work.local /\ app.kind = "installer" => machine.temp = 0
================================================================================
