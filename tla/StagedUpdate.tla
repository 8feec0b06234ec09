---------------------------- MODULE StagedUpdate ----------------------------
(***************************************************************************)
(* The update that waits for a restart: SETUP.EXE /update                  *)
(* (src/setup/selfupdate.c) asks the update server for a newer release,    *)
(* checks it, and runs the new package's SETUP.EXE /S (src/setup/setup.c), *)
(* which stages V9XNEW.EXE and V9XSNEW.EXE beside the running agent and    *)
(* points the machine's Run entry at what swaps them in: UPDATE.BAT on     *)
(* Windows 9x, V9XNEW.EXE -hotswap (src/guest/update.c) on NT.             *)
(*                                                                         *)
(* A release is its number; what a file or a download holds is such a      *)
(* number, or is missing or torn.  One setup runs at a time.  What two     *)
(* swappers do to each other is HotSwap's.                                 *)
(***************************************************************************)
EXTENDS Naturals

CONSTANTS
  MaxRelease,  \* releases are published up to this one; the first is installed
  MaxRuns,     \* how often SETUP.EXE /update is started
  MaxMishaps   \* power cuts, and system calls that fail for no other reason

Missing == 0
Torn    == MaxRelease + 1
Release == 1 .. MaxRelease
Content == 0 .. MaxRelease + 1
File    == {"agent", "shot", "old", "new", "snew", "setup"}

VARIABLES
  nt,          \* Windows NT, rather than 9x
  up,          \* the machine is up
  disk,        \* V9XAGNT.EXE, V9XSHOT.EXE, V9XAGNT.OLD, V9XNEW.EXE, V9XSNEW.EXE, SETUP.EXE
  run,         \* what the Run entry starts: "none", "agent" or "update"
  agent, ast,  \* the agent that runs, and whether it has come as far as serving
  boot,        \* where UPDATE.BAT or the swapper is, which a boot or an update starts
  step,        \* where SETUP.EXE /update, and the setup it runs, is
  own,         \* the version of that SETUP.EXE
  existing,    \* the setup found an installation
  latest, pkg, \* what the server announced; what was downloaded
  result,      \* UPDATE.INI: "none", "failed", "current" or "staged"
  published,   \* the newest release on the server
  runs, mishaps,
  promise, due, \* for the properties alone: the last release that a setup said takes over
               \* at the next restart, and whether the machine has been started since
  slips        \* and what has come in between

disks   == <<disk, run>>
setup   == <<step, own, existing, latest, pkg, result>>
server  == <<published, runs>>
told    == <<promise, due>>
vars    == <<nt, up, disk, run, agent, ast, boot, step, own, existing, latest, pkg,
             result, published, runs, mishaps, promise, due, slips>>

BatchPC == {"b_check", "b_shot", "b_agent", "b_delnew", "b_delsnew", "b_register", "b_launch"}
SwapPC  == {"s_rename", "s_copy", "s_drop", "s_helper", "s_delsnew", "s_register", "s_launch"}
CheckPC == {"check", "signed", "ask", "fetch", "unpack"}
SetupPC == {"support", "settings", "vnc", "unstage_new", "unstage_snew", "stage_shot", "stage_agent",
            "abandon_agent", "abandon_shot", "register", "keep"}

\* early: an agent that started before the machine did has deleted the staged one;
\* raced: a setup and a swapper were at the staged files at once; restaged: a later setup
\* has not finished; cut: power went while UPDATE.BAT or the swapper had no way back;
\* failed: one of the calls of either failed.
Slip == {"early", "raced", "restaged", "cut", "failed"}

\* A machine on which the first release is installed, or nothing is.
Init ==
  /\ nt \in BOOLEAN /\ up = TRUE /\ boot = "done"
  /\ \/ /\ disk = [f \in File |-> IF f \in {"agent", "shot", "setup"} THEN 1 ELSE Missing]
        /\ run = "agent" /\ agent = 1 /\ ast = "serve"
     \/ /\ disk = [f \in File |-> Missing]
        /\ run = "none" /\ agent = Missing /\ ast = "none"
  /\ step = "idle" /\ own = 1 /\ existing = TRUE
  /\ latest = Missing /\ pkg = Missing /\ result = "none"
  /\ published = 1 /\ runs = 0 /\ mishaps = 0
  /\ promise = Missing /\ due = FALSE /\ slips = {}

Mishap == mishaps < MaxMishaps /\ mishaps' = mishaps + 1

-----------------------------------------------------------------------------
(***************************************************************************)
(* SETUP.EXE /update                                                       *)
(***************************************************************************)
Goto(label) == step' = label

\* The tray starts it, or a host by EXEC (/S): no other one is running.
StartUpdate ==
  /\ up /\ boot = "done" /\ step = "idle" /\ runs < MaxRuns /\ disk["setup"] \in Release
  /\ Goto("check") /\ own' = disk["setup"] /\ runs' = runs + 1
  /\ latest' = Missing /\ pkg' = Missing /\ result' = "none"
  /\ UNCHANGED <<nt, up, disks, agent, ast, boot, existing, published, mishaps, told, slips>>

\* v9x_http_request: the body as it was sent, or cut short, which goes unnoticed when
\* the server gave no Content-Length; every other accident is a failed request.
Body(sent) == {sent, Torn}

UpdateFails ==
  /\ Goto("idle") /\ result' = "failed"
  /\ UNCHANGED <<own, existing, latest, pkg>>

Unchanged == UNCHANGED <<nt, up, disks, agent, ast, boot, server, mishaps, told, slips>>

\* v9x_update_ini_value: what a text says of the release; one cut short may miss the key.
Value(text) == IF text = Torn THEN Missing ELSE text

\* 1. What does the server have for this version?
CheckReply(reply) ==
  /\ latest' = Value(reply)
  /\ IF latest' = Missing THEN Goto("idle") /\ result' = "failed"
     ELSE IF latest' <= own THEN Goto("idle") /\ result' = "current"
     ELSE Goto("signed") /\ UNCHANGED result
  /\ UNCHANGED <<own, existing, pkg>>

Check ==
  /\ up /\ step = "check"
  /\ UpdateFails \/ \E reply \in Body(published) : CheckReply(reply)
  /\ Unchanged

\* v9x_release_verify: the signature covers all of the file, and is its last line.
Verified(file) == file # Torn

\* v9x_release_read: the version that a signed file names.
Read(file) == IF Verified(file) THEN Value(file) ELSE Missing

\* v9x_update_version_compare.
Newer(release) == release > own

\* 2. The release file must name the release that was announced, and that be newer.
Accepts(release) == release = latest /\ Newer(release)

\* The mirror may be behind, or have gone on to a later release since.
Signed ==
  /\ up /\ step = "signed"
  /\ \/ UpdateFails
     \/ \E there \in 1 .. published : \E release \in Body(there) :
          IF Verified(release) /\ Accepts(Read(release))
          THEN Goto("ask") /\ pkg' = release /\ UNCHANGED <<own, existing, latest, result>>
          ELSE UpdateFails
  /\ Unchanged

\* 3. The owner is asked, and may cancel; /S assumes yes.
Ask ==
  /\ up /\ step = "ask"
  /\ Goto("fetch") \/ Goto("idle")
  /\ UNCHANGED <<own, existing, latest, pkg, result>>
  /\ Unchanged

\* Mutant: the size and SHA-256 of the package are not looked at.
MatchesUnchecked(package) == package \in Release \cup {Torn}

\* Mutant: that the package is whole is enough.
MatchesItself(package) == package # Torn

\* 4. The package must have the size and the SHA-256 that the release file gives.
Matches(package) == package = pkg

Fetch ==
  /\ up /\ step = "fetch"
  /\ \/ UpdateFails
     \/ \E there \in 1 .. published : \E package \in Body(there) :
          IF Matches(package)
          THEN Goto("unpack") /\ pkg' = package /\ UNCHANGED <<own, existing, latest, result>>
          ELSE UpdateFails
  /\ Unchanged

\* 5. It is unpacked into C:\V9XREMOTE\UPDATE, and its SETUP.EXE /S runs from there.
Unpack ==
  /\ up /\ step = "unpack"
  /\ \/ UpdateFails
     \/ /\ Goto("support") /\ existing' = (disk["agent"] # Missing)
        /\ UNCHANGED <<own, latest, pkg, result>>
  /\ Unchanged

-----------------------------------------------------------------------------
(***************************************************************************)
(* SETUP.EXE: v9x_install                                                  *)
(***************************************************************************)
\* It can also be run by hand, from the newest package.
RunSetup ==
  /\ up /\ boot = "done" /\ step = "idle" /\ runs < MaxRuns
  /\ Goto("support") /\ existing' = (disk["agent"] # Missing)
  /\ pkg' = published /\ runs' = runs + 1
  /\ UNCHANGED <<nt, up, disks, agent, ast, boot, own, latest, result, published,
                 mishaps, told, slips>>

\* The swapper runs from V9XNEW.EXE, which is locked meanwhile, and so is the
\* program of an agent that runs.
Locked(f) == \/ f = "new" /\ boot \in SwapPC
             \/ f = "agent" /\ agent # Missing

Restaging == run = "update" /\ existing /\ step \in SetupPC \ {"support", "settings", "vnc", "keep"}
Slipped(s) == slips' = slips \cup s

Advance(label, then) ==
  /\ step = label
  /\ \/ Goto(then) /\ UNCHANGED <<result, mishaps>>
     \/ Mishap /\ Goto("idle") /\ result' = "failed"

\* Before any program is touched: a running VNC server is stopped and the support
\* files are copied...
Support ==
  /\ up /\ Advance("support", "settings")
  /\ Slipped(IF boot \in SwapPC THEN {"raced"} ELSE {})
  /\ UNCHANGED <<nt, up, disks, agent, ast, boot, own, existing, latest, pkg, server, told>>

\* ... AGENT.INI is written ...
Settings ==
  /\ up /\ Advance("settings", "vnc")
  /\ UNCHANGED <<nt, up, disks, agent, ast, boot, own, existing, latest, pkg, server, told, slips>>

\* ... and the VNC server is installed and started, or taken out.
ApplyVnc ==
  /\ up /\ Advance("vnc", IF existing THEN "unstage_new" ELSE "stage_shot")
  /\ UNCHANGED <<nt, up, disks, agent, ast, boot, own, existing, latest, pkg, server, told, slips>>

Remove(f) == disk' = IF Locked(f) THEN disk ELSE [disk EXCEPT ![f] = Missing]

\* Beside a running agent the programs get other names.
Target(f) == IF ~existing THEN f ELSE IF f = "agent" THEN "new" ELSE "snew"

\* What an earlier setup staged is removed, and so is what this one could not finish.
Unstage ==
  /\ up
  /\ \/ step = "unstage_new"   /\ Remove("new")  /\ Goto("unstage_snew") /\ UNCHANGED result
     \/ step = "unstage_snew"  /\ Remove("snew") /\ Goto("stage_shot") /\ UNCHANGED result
     \/ step = "abandon_agent" /\ Remove(Target("agent")) /\ Goto("abandon_shot") /\ UNCHANGED result
     \/ step = "abandon_shot"  /\ Remove(Target("shot")) /\ Goto("idle") /\ result' = "failed"
  /\ Slipped(IF Restaging /\ step = "abandon_shot" THEN {"restaged"} ELSE {})
  /\ UNCHANGED <<nt, up, run, agent, ast, boot, own, existing, latest, pkg, server, mishaps, told>>

\* The helper first, then the agent.
Stage(f) ==
  /\ up /\ step = IF f = "shot" THEN "stage_shot" ELSE "stage_agent"
  /\ \/ /\ ~Locked(Target(f)) /\ disk' = [disk EXCEPT ![Target(f)] = pkg]
        /\ Goto(IF f = "shot" THEN "stage_agent" ELSE "register") /\ UNCHANGED mishaps
     \/ Locked(Target(f)) /\ UNCHANGED <<disk, mishaps>> /\ Goto("abandon_agent")
     \/ ~Locked(Target(f)) /\ Mishap /\ disk' = disk /\ Goto("abandon_agent")
  /\ UNCHANGED <<nt, up, run, agent, ast, boot, own, existing, latest, pkg, result, server, told, slips>>

\* The Run entry: what was staged takes over at the next boot or logon, and what was
\* not staged starts then.  When it cannot be set the files stay.
Register ==
  /\ up /\ step = "register"
  /\ \/ run' = (IF existing THEN "update" ELSE "agent") /\ Goto("keep") /\ UNCHANGED <<result, mishaps>>
     \/ Mishap /\ run' = run /\ Goto("idle") /\ result' = "failed"
  /\ UNCHANGED <<nt, up, disk, agent, ast, boot, own, existing, latest, pkg, server, told, slips>>

\* SETUP.EXE itself, as well as may be; then the installation is done.
Keep ==
  /\ up /\ step = "keep"
  /\ \/ disk' = [disk EXCEPT !["setup"] = pkg] /\ UNCHANGED mishaps
     \/ Mishap /\ disk' = disk
  /\ Goto("idle") /\ result' = "staged"
  /\ promise' = pkg /\ due' = FALSE
  /\ UNCHANGED <<nt, up, run, agent, ast, boot, own, existing, latest, pkg, server, slips>>

\* SETUP.EXE /uninstall: nothing starts any more; the programs stay.
Uninstall ==
  /\ up /\ boot = "done" /\ step = "idle" /\ run # "none"
  /\ run' = "none" /\ disk' = [disk EXCEPT !["new"] = Missing, !["snew"] = Missing]
  /\ promise' = Missing /\ due' = FALSE
  /\ UNCHANGED <<nt, up, agent, ast, boot, setup, server, mishaps, slips>>

-----------------------------------------------------------------------------
(***************************************************************************)
(* The agent                                                               *)
(***************************************************************************)
Starts(version) == agent' = version /\ ast' = "cleanup"
Stays == UNCHANGED <<agent, ast>>

\* Something is staged, or is being staged, for the next boot.
Pending == run = "update" \/ (existing /\ step \in SetupPC)

\* Every agent that starts deletes V9XNEW.EXE: v9x_hotswap_cleanup.
Cleanup ==
  /\ up /\ agent # Missing /\ ast = "cleanup" /\ boot = "done"
  /\ ast' = "serve" /\ Remove("new")
  /\ Slipped(IF Pending /\ disk["new"] # Missing THEN {"early"} ELSE {})
  /\ UNCHANGED <<nt, up, run, agent, boot, setup, server, mishaps, told>>

\* The tray's Restart, which saving the settings also asks for.
Restart ==
  /\ up /\ agent # Missing /\ ast = "serve" /\ boot = "done" /\ disk["agent"] \in Release
  /\ Starts(disk["agent"])
  /\ UNCHANGED <<nt, up, disks, boot, setup, server, mishaps, told, slips>>

\* UPDATE_REQUEST with the staged files: the swapper starts, and the agent is gone
\* when it can rename V9XAGNT.EXE.
HotUpdate ==
  /\ up /\ agent # Missing /\ ast = "serve" /\ boot = "done"
  /\ disk["new"] \in Release /\ disk["snew"] \in Release
  /\ agent' = Missing /\ ast' = "none" /\ boot' = "s_rename"
  /\ Slipped(IF step \in SetupPC THEN {"raced"} ELSE {})
  /\ UNCHANGED <<nt, up, disks, setup, server, mishaps, told>>

-----------------------------------------------------------------------------
(***************************************************************************)
(* UPDATE.BAT                                                              *)
(***************************************************************************)
Fails(what) == Mishap /\ boot' = "done" /\ Slipped(what)

BatchCheck ==
  /\ up /\ boot = "b_check"
  /\ boot' = IF disk["new"] # Missing /\ disk["snew"] # Missing THEN "b_shot" ELSE "done"
  /\ UNCHANGED <<nt, up, disks, agent, ast, setup, server, mishaps, told, slips>>

\* COPY, first the helper and then the agent; one that fails ends the batch.
BatchCopy(from, to, label, then) ==
  /\ up /\ boot = label
  /\ \/ disk' = [disk EXCEPT ![to] = disk[from]] /\ boot' = then /\ UNCHANGED <<mishaps, slips>>
     \/ Fails({"failed"}) /\ disk' = [disk EXCEPT ![to] = Torn]
  /\ UNCHANGED <<nt, up, run, agent, ast, setup, server, told>>

\* Mutant: the agent is taken for copied when the helper is.
BatchCopiesHelper == BatchCopy("snew", "shot", "b_shot", "b_delnew")

BatchCopies == BatchCopy("snew", "shot", "b_shot", "b_agent")
            \/ BatchCopy("new", "agent", "b_agent", "b_delnew")

\* DEL both, then REGEDIT INSTALL.REG.
BatchTidy ==
  /\ up
  /\ \/ boot = "b_delnew" /\ Remove("new") /\ boot' = "b_delsnew" /\ run' = run
     \/ boot = "b_delsnew" /\ Remove("snew") /\ boot' = "b_register" /\ run' = run
     \/ boot = "b_register" /\ run' = "agent" /\ boot' = "b_launch" /\ disk' = disk
  /\ UNCHANGED <<nt, up, agent, ast, setup, server, mishaps, told, slips>>

-----------------------------------------------------------------------------
(***************************************************************************)
(* V9XNEW.EXE -hotswap                                                     *)
(***************************************************************************)
SwapRename ==
  /\ up /\ boot = "s_rename" /\ boot' = "s_copy"
  /\ disk' = IF disk["agent"] = Missing THEN disk
             ELSE [disk EXCEPT !["old"] = disk["agent"], !["agent"] = Missing]
  /\ UNCHANGED <<nt, up, run, agent, ast, setup, server, mishaps, told, slips>>

\* A copy that fails puts the old program back, and the swapper ends.
SwapCopy ==
  /\ up /\ boot = "s_copy"
  /\ \/ disk' = [disk EXCEPT !["agent"] = disk["new"]] /\ boot' = "s_drop" /\ UNCHANGED <<mishaps, slips>>
     \/ Fails({"failed"}) /\ disk' = [disk EXCEPT !["agent"] = disk["old"], !["old"] = Missing]
  /\ UNCHANGED <<nt, up, run, agent, ast, setup, server, told>>

\* V9XAGNT.OLD goes; the helper is replaced if it can be.
SwapFiles ==
  /\ up
  /\ \/ boot = "s_drop" /\ Remove("old") /\ boot' = "s_helper" /\ UNCHANGED mishaps
     \/ /\ boot = "s_helper" /\ disk["snew"] # Missing
        /\ disk' = [disk EXCEPT !["shot"] = disk["snew"]] /\ boot' = "s_delsnew" /\ UNCHANGED mishaps
     \/ /\ boot = "s_helper" /\ disk' = disk /\ boot' = "s_register"
        /\ IF disk["snew"] = Missing THEN UNCHANGED mishaps ELSE Mishap
     \/ boot = "s_delsnew" /\ Remove("snew") /\ boot' = "s_register" /\ UNCHANGED mishaps
  /\ UNCHANGED <<nt, up, run, agent, ast, setup, server, told, slips>>

\* v9x_hotswap_register: the Run entry starts the agent again; a failure is logged.
SwapRegister ==
  /\ up /\ boot = "s_register" /\ boot' = "s_launch"
  /\ \/ run' = "agent" /\ UNCHANGED <<mishaps, slips>>
     \/ Mishap /\ run' = run /\ Slipped(IF run = "update" THEN {"failed"} ELSE {})
  /\ UNCHANGED <<nt, up, disk, agent, ast, setup, server, told>>

\* Both end by starting V9XAGNT.EXE.
Launch ==
  /\ up /\ boot \in {"b_launch", "s_launch"} /\ boot' = "done"
  /\ IF disk["agent"] \in Release THEN Starts(disk["agent"]) ELSE Stays
  /\ UNCHANGED <<nt, up, disks, setup, server, mishaps, told, slips>>

-----------------------------------------------------------------------------
(***************************************************************************)
(* The machine and the server                                              *)
(***************************************************************************)
\* A staged file deleted with the Run entry still to be changed, or V9XAGNT.EXE renamed
\* away and not yet whole.
NoWayBack ==
  \/ boot \in {"b_delsnew", "b_register"}
  \/ boot = "s_register" /\ run = "update" /\ ~nt
  \/ boot = "s_copy" /\ run # "update"

\* A file that was being copied when the power went may hold part of it.
Written == CASE step = "stage_shot" -> {Target("shot")} [] step = "stage_agent" -> {Target("agent")}
             [] step = "keep"       -> {"setup"}        [] OTHER -> {}

BootWrites == CASE boot \in {"b_shot", "s_helper"} -> {"shot"}
                [] boot \in {"b_agent", "s_copy"}  -> {"agent"} [] OTHER -> {}

Down(fs) ==
  /\ up /\ up' = FALSE
  /\ disk' = [f \in File |-> IF f \in fs /\ ~Locked(f) THEN Torn ELSE disk[f]]
  /\ agent' = Missing /\ ast' = "none" /\ boot' = "done" /\ step' = "idle"
  /\ UNCHANGED <<nt, run, own, existing, latest, pkg, result, server, told>>

PowerCut ==
  /\ Mishap
  /\ \E fs \in SUBSET (Written \cup BootWrites) : Down(fs)
  /\ Slipped((IF Restaging THEN {"restaged"} ELSE {}) \cup (IF NoWayBack THEN {"cut"} ELSE {}))

Shutdown ==
  /\ step = "idle" /\ boot = "done" /\ Down({})
  /\ UNCHANGED <<mishaps, slips>>

\* The Run entry is started.
Boot ==
  /\ ~up /\ up' = TRUE /\ due' = (promise # Missing)
  /\ IF run = "agent" /\ disk["agent"] \in Release THEN Starts(disk["agent"]) ELSE Stays
  /\ boot' = IF run # "update" THEN "done"
             ELSE IF ~nt THEN "b_check"
             ELSE IF disk["new"] \in Release THEN "s_rename" ELSE "done"
  /\ UNCHANGED <<nt, disks, setup, server, mishaps, promise, slips>>

Publish ==
  /\ published < MaxRelease /\ published' = published + 1
  /\ UNCHANGED <<nt, up, disks, agent, ast, boot, setup, runs, mishaps, told, slips>>

Next ==
  \/ StartUpdate \/ Check \/ Signed \/ Ask \/ Fetch \/ Unpack
  \/ RunSetup \/ Support \/ Settings \/ ApplyVnc
  \/ Unstage \/ (\E f \in {"agent", "shot"} : Stage(f)) \/ Register \/ Keep \/ Uninstall
  \/ Cleanup \/ Restart \/ HotUpdate
  \/ BatchCheck \/ BatchCopies \/ BatchTidy
  \/ SwapRename \/ SwapCopy \/ SwapFiles \/ SwapRegister \/ Launch
  \/ PowerCut \/ Shutdown \/ Boot \/ Publish

Spec == Init /\ [][Next]_vars

-----------------------------------------------------------------------------
(***************************************************************************)
(* Properties                                                              *)
(***************************************************************************)
TypeOK ==
  /\ nt \in BOOLEAN /\ up \in BOOLEAN /\ due \in BOOLEAN
  /\ disk \in [File -> Content] /\ run \in {"none", "agent", "update"}
  /\ agent \in {Missing} \cup Release /\ ast \in {"none", "cleanup", "serve"}
  /\ boot \in BatchPC \cup SwapPC \cup {"done"}
  /\ step \in CheckPC \cup SetupPC \cup {"idle"}
  /\ own \in Release /\ existing \in BOOLEAN /\ latest \in Content /\ pkg \in Content
  /\ result \in {"none", "failed", "current", "staged"}
  /\ published \in Release /\ runs \in 0 .. MaxRuns /\ mishaps \in 0 .. MaxMishaps
  /\ promise \in {Missing} \cup Release /\ slips \subseteq Slip

\* What is staged is never older than the agent it replaces: however far behind the
\* mirror is, and even if the copy of SETUP.EXE that asks is an old one.  (A setup that
\* finds no agent, after such a slip, leaves what was staged before where it is.)
StagedIsNewer ==
  slips \subseteq {"early", "restaged"} /\ disk["new"] \in Release /\ disk["agent"] \in Release =>
    disk["agent"] <= disk["new"]

\* Whenever the power goes, the Run entry finds what it starts: a whole agent, or
\* whole staged files to make it from.  But for a slip.
CanBoot ==
  slips = {} /\ ~Restaging /\ ~NoWayBack =>
    /\ run = "agent"  => disk["agent"] \in Release
    /\ run = "update" => disk["new"] \in Release /\ (nt \/ disk["snew"] \in Release)

\* What a setup said takes over at the next restart is what runs after it, but for a slip.
Promised == up /\ due /\ boot = "done" => agent >= promise
PromiseKept == slips = {} => Promised

\* The header of selfupdate.c of what was staged: "the new agent takes over at the
\* next restart".
TakesOver == Promised
=============================================================================
