--------------------------- MODULE GameDeployment ---------------------------
(***************************************************************************)
(* The two jobs that keep the games of an installation up to date.  Every  *)
(* minute launchd starts esc-update-games.py, which renames every game's   *)
(* executable, rewrites its Info.plist, and writes the list of games that  *)
(* the launcher reads.  Every night it starts gamebucket_sync.sh, which    *)
(* replaces all games by what the archives hold.                           *)
(*                                                                         *)
(* Files are written in two steps, the truncation and the contents, an     *)
(* archive is unzipped in two, and a crash of the machine may come between *)
(* any two steps.  That the two jobs do not run at the same time is an     *)
(* assumption of Next; nothing in the jobs makes sure of it.               *)
(***************************************************************************)
EXTENDS Naturals

CONSTANTS
  NumGames,      (* games that the archives may hold                        *)
  MaxCrashes     (* bound: crashes                                          *)

ASSUME ConstantsAssumption ==
  /\ NumGames \in Nat \ {0}
  /\ MaxCrashes \in Nat

\* A game stands for its name as _newName has it; a fresh bundle's executable has
\* another name.
Games    == 1..NumGames
Original == 0
Nobody   == 0

VARIABLES
  archives,      \* games in the bucket
  expanded,      \* games in .tmp_expanded
  partial,       \* those of them of which only a part has been unzipped
  bundle,        \* games that have a directory in escgames
  plist,         \* Info.plist of every game: "missing", "truncated", "original"
                 \* or "updated"
  about,         \* the game whose names that Info.plist has
  executables,   \* names of the files in Contents/MacOS of every game
  registered,    \* games that lsregister knows
  launcher,      \* esclauncher/Info.plist: "missing", "truncated", "doctype", "clean"
  listed,        \* the names it lists
  update,        \* where esc-update-games.py is
  todo,          \* games it has still to process, with the one it is processing
  game,          \* the game being processed
  pl,            \* the game whose plist it holds in pl, or Nobody
  files,         \* names from os.listdir still to rename
  bundleNames,
  sync,          \* where gamebucket_sync.sh is
  zipped,        \* archives it has still to unzip
  zip,           \* the archive it is unzipping, or Nobody
  atStart,       \* history: games that were whole when the update started
  crashes

temp    == <<archives, expanded, partial, zipped, zip>>
disk    == <<temp, bundle, plist, about, executables>>
list    == <<launcher, listed>>
script  == <<update, todo, game, pl, files, bundleNames>>
vars    == <<disk, registered, list, script, sync, atStart, crashes>>

Init ==
  /\ archives \in SUBSET Games
  /\ expanded = {}
  /\ partial = {}
  /\ bundle = {}
  /\ plist = [g \in Games |-> "missing"]
  /\ about = [g \in Games |-> g]
  /\ executables = [g \in Games |-> {}]
  /\ registered = {}
  /\ launcher = "missing"
  /\ listed = {}
  /\ update = "off"
  /\ todo = {}
  /\ game = Nobody
  /\ pl = Nobody
  /\ files = {}
  /\ bundleNames = {}
  /\ sync = "off"
  /\ zipped = {}
  /\ zip = Nobody
  /\ atStart = {}
  /\ crashes = 0

\* A bundle with its own Info.plist and an executable.
Whole(g) ==
  /\ g \in bundle
  /\ plist[g] \in {"original", "updated"}
  /\ about[g] = g
  /\ executables[g] # {}

-----------------------------------------------------------------------------
(* esc-update-games.py                                                     *)

UpdateGoto(place) == update' = place

\* The glob, and lsregister -kill.
UpdateStarts ==
  /\ update = "off"
  /\ UpdateGoto("loop")
  /\ todo' = bundle
  /\ pl' = Nobody
  /\ bundleNames' = {}
  /\ registered' = {}
  /\ atStart' = {g \in Games : Whole(g)}
  /\ UNCHANGED <<disk, list, game, files, sync, crashes>>

\* Faulty variant: whatever the error, the loop goes on with the pl it has.
ReadPlistAlways(g) ==
  /\ update = "loop"
  /\ g \in todo
  /\ game' = g
  /\ pl' = IF pl = Nobody THEN about[g] ELSE pl
  /\ UpdateGoto("list")
  /\ UNCHANGED <<disk, registered, list, todo, files, bundleNames, sync, atStart, crashes>>

\* Faulty variant: the script does not end when there is no pl yet.
ReadPlistUnset(g) ==
  /\ update = "loop"
  /\ g \in todo
  /\ game' = g
  /\ pl' = IF plist[g] \in {"original", "updated"} THEN about[g] ELSE pl
  /\ UpdateGoto(IF plist[g] = "truncated" THEN "off" ELSE "list")
  /\ UNCHANGED <<disk, registered, list, todo, files, bundleNames, sync, atStart, crashes>>

\* readPlist.  A missing file is caught, and pl is what it was; if it was nothing
\* yet, or the file does not parse, the script ends with an exception.
ReadPlist(g) ==
  /\ update = "loop"
  /\ g \in todo
  /\ game' = g
  /\ pl' = IF plist[g] \in {"original", "updated"} THEN about[g] ELSE pl
  /\ UpdateGoto(IF plist[g] = "truncated" \/ pl' = Nobody THEN "off" ELSE "list")
  /\ UNCHANGED <<disk, registered, list, todo, files, bundleNames, sync, atStart, crashes>>

\* os.listdir.  The removal of a bundle may have left an empty directory or none, and
\* without it the script ends with an exception.
ListExecutables ==
  /\ update = "list"
  /\ files' = executables[game]
  /\ \/ UpdateGoto("rename")
     \/ executables[game] = {} /\ UpdateGoto("off")
  /\ UNCHANGED <<disk, registered, list, todo, game, pl, bundleNames, sync, atStart, crashes>>

\* os.rename replaces a file that has the name already.
RenameOne(f) ==
  /\ update = "rename"
  /\ f \in files
  /\ files' = files \ {f}
  /\ executables' = [executables EXCEPT ![game] = (@ \ {f}) \cup {pl}]
  /\ UNCHANGED <<temp, bundle, plist, about, registered, list, update, todo,
                 game, pl, bundleNames, sync, atStart, crashes>>

\* writePlist opens the file.
TruncatePlist ==
  /\ update = "rename"
  /\ files = {}
  /\ plist' = [plist EXCEPT ![game] = "truncated"]
  /\ UpdateGoto("write")
  /\ UNCHANGED <<temp, bundle, about, executables, registered, list, todo, game,
                 pl, files, bundleNames, sync, atStart, crashes>>

\* Faulty variant: the list starts anew with every game.
WritePlistForgetting ==
  /\ update = "write"
  /\ plist' = [plist EXCEPT ![game] = "updated"]
  /\ about' = [about EXCEPT ![game] = pl]
  /\ bundleNames' = {pl}
  /\ registered' = registered \cup {game}
  /\ todo' = todo \ {game}
  /\ UpdateGoto("loop")
  /\ UNCHANGED <<temp, bundle, executables, list, game, pl, files, sync, atStart,
                 crashes>>

\* writePlist fills it, and the game is added to the list and registered.
WritePlist ==
  /\ update = "write"
  /\ plist' = [plist EXCEPT ![game] = "updated"]
  /\ about' = [about EXCEPT ![game] = pl]
  /\ bundleNames' = bundleNames \cup {pl}
  /\ registered' = registered \cup {game}
  /\ todo' = todo \ {game}
  /\ UpdateGoto("loop")
  /\ UNCHANGED <<temp, bundle, executables, list, game, pl, files, sync, atStart,
                 crashes>>

\* All games are done.  Without any, the launcher's file stays as it is.
TruncateList ==
  /\ update = "loop"
  /\ todo = {}
  /\ IF bundleNames = {}
     THEN UpdateGoto("off") /\ UNCHANGED list
     ELSE UpdateGoto("launcher") /\ launcher' = "truncated" /\ listed' = {}
  /\ UNCHANGED <<disk, registered, todo, game, pl, files, bundleNames, sync, atStart, crashes>>

\* writePlist of the launcher's file, which the launcher cannot read yet.
WriteList ==
  /\ update = "launcher"
  /\ launcher' = "doctype"
  /\ listed' = bundleNames
  /\ UpdateGoto("strip")
  /\ UNCHANGED <<disk, registered, todo, game, pl, files, bundleNames, sync, atStart, crashes>>

\* Its lines are read, and the file is opened again.
ReopenList ==
  /\ update = "strip"
  /\ launcher' = "truncated"
  /\ listed' = {}
  /\ UpdateGoto("rewrite")
  /\ UNCHANGED <<disk, registered, todo, game, pl, files, bundleNames, sync, atStart, crashes>>

\* The lines but the second are written.
StripList ==
  /\ update = "rewrite"
  /\ launcher' = "clean"
  /\ listed' = bundleNames
  /\ UpdateGoto("off")
  /\ UNCHANGED <<disk, registered, todo, game, pl, files, bundleNames, sync, atStart, crashes>>

-----------------------------------------------------------------------------
(* gamebucket_sync.sh                                                      *)

SyncGoto(place) == sync' = place

\* s3sync has brought other archives.
SyncStarts ==
  /\ sync = "off"
  /\ SyncGoto("unzip")
  /\ archives' \in SUBSET Games
  /\ zipped' = archives'
  /\ UNCHANGED <<expanded, partial, zip, bundle, plist, about, executables, registered, list,
                 script, atStart, crashes>>

\* unzip -o writes file after file over what an earlier night has left.
UnzipBegins(g) ==
  /\ sync = "unzip"
  /\ zip = Nobody
  /\ g \in zipped
  /\ zip' = g
  /\ zipped' = zipped \ {g}
  /\ expanded' = expanded \cup {g}
  /\ partial' = partial \cup {g}
  /\ UNCHANGED <<archives, bundle, plist, about, executables, registered, list, script, sync,
                 atStart, crashes>>

UnzipEnds ==
  /\ sync = "unzip"
  /\ zip # Nobody
  /\ partial' = partial \ {zip}
  /\ zip' = Nobody
  /\ UNCHANGED <<archives, expanded, zipped, bundle, plist, about, executables, registered, list,
                 script, sync, atStart, crashes>>

SyncMoves ==
  /\ sync = "unzip"
  /\ zipped = {} /\ zip = Nobody
  /\ SyncGoto("move")
  /\ UNCHANGED <<disk, registered, list, script, atStart, crashes>>

\* To be removed: an old bundle in the way of a new one, then those without an archive.
Doomed(g) ==
  /\ g \in bundle
  /\ \/ sync = "move" /\ g \in expanded
     \/ sync = "delete" /\ g \notin archives

\* rm -rf, file by file.
RemoveFile(g) ==
  /\ Doomed(g)
  /\ \/ plist' = [plist EXCEPT ![g] = "missing"] /\ UNCHANGED executables
     \/ executables' = [executables EXCEPT ![g] = {}] /\ UNCHANGED plist
  /\ <<plist, executables>>' # <<plist, executables>>
  /\ UNCHANGED <<temp, bundle, about, registered, list, script, sync, atStart,
                 crashes>>

RemoveBundle(g) ==
  /\ Doomed(g)
  /\ plist[g] = "missing" /\ executables[g] = {}
  /\ bundle' = bundle \ {g}
  /\ UNCHANGED <<temp, plist, about, executables, registered, list, script, sync,
                 atStart, crashes>>

\* What a moved bundle holds.  One that was unzipped in part, its archive gone before the
\* next night, may lack anything.
Arrives(g) ==
  /\ about' = [about EXCEPT ![g] = g]
  /\ \E contents \in IF g \in partial THEN {"missing", "truncated", "original"} ELSE {"original"},
        names \in IF g \in partial THEN SUBSET {Original} ELSE {{Original}} :
       /\ plist' = [plist EXCEPT ![g] = contents]
       /\ executables' = [executables EXCEPT ![g] = names]

\* Faulty variant: a bundle that is there is not replaced.
MoveBundleKeeping(g) ==
  /\ sync = "move"
  /\ g \in expanded
  /\ expanded' = expanded \ {g}
  /\ IF g \in bundle
     THEN UNCHANGED <<partial, bundle, plist, about, executables>>
     ELSE /\ bundle' = bundle \cup {g}
          /\ partial' = partial \ {g}
          /\ Arrives(g)
  /\ UNCHANGED <<archives, zipped, zip, registered, list, script, sync, atStart, crashes>>

\* mv renames the directory as a whole.
MoveBundle(g) ==
  /\ sync = "move"
  /\ g \in expanded \ bundle
  /\ expanded' = expanded \ {g}
  /\ partial' = partial \ {g}
  /\ bundle' = bundle \cup {g}
  /\ Arrives(g)
  /\ UNCHANGED <<archives, zipped, zip, registered, list, script, sync, atStart, crashes>>

SyncDeletes ==
  /\ sync = "move"
  /\ expanded = {}
  /\ SyncGoto("delete")
  /\ UNCHANGED <<disk, registered, list, script, atStart, crashes>>

SyncEnds ==
  /\ sync = "delete"
  /\ bundle \subseteq archives
  /\ SyncGoto("off")
  /\ UNCHANGED <<disk, registered, list, script, atStart, crashes>>

-----------------------------------------------------------------------------
Crash ==
  /\ crashes < MaxCrashes
  /\ crashes' = crashes + 1
  /\ update # "off" \/ sync # "off"
  /\ UpdateGoto("off")
  /\ SyncGoto("off")
  /\ zipped' = {}
  /\ zip' = Nobody
  /\ UNCHANGED <<archives, expanded, partial, bundle, plist, about, executables, registered,
                 list, todo, game, pl, files, bundleNames, atStart>>

UpdateStep ==
  \/ \E g \in Games : ReadPlist(g)
  \/ ListExecutables
  \/ \E f \in Games \cup {Original} : RenameOne(f)
  \/ TruncatePlist \/ WritePlist
  \/ TruncateList \/ WriteList \/ ReopenList \/ StripList

SyncStep ==
  \/ \E g \in Games : UnzipBegins(g) \/ RemoveFile(g) \/ RemoveBundle(g) \/ MoveBundle(g)
  \/ UnzipEnds \/ SyncMoves \/ SyncDeletes \/ SyncEnds

\* launchd starts both jobs by the clock.  Assumed: neither while the other is running.
LaunchUpdate == sync = "off" /\ UpdateStarts
LaunchSync   == update = "off" /\ SyncStarts

Next == LaunchUpdate \/ UpdateStep \/ LaunchSync \/ SyncStep \/ Crash

Spec == Init /\ [][Next]_vars

\* launchd starts both jobs again and again, and a job that runs goes on.
FairSpec ==
  /\ Spec
  /\ SF_vars(LaunchUpdate)
  /\ SF_vars(LaunchSync)
  /\ WF_vars(UpdateStep)
  /\ WF_vars(SyncStep)

-----------------------------------------------------------------------------
(* Properties                                                              *)

\* Type invariant; a game is renamed with the dictionary of some plist in hand
\* (esc-update-games.py:54-58).
TypeOK ==
  /\ archives \subseteq Games
  /\ expanded \subseteq Games
  /\ partial \subseteq expanded
  /\ bundle \subseteq Games
  /\ plist \in [Games -> {"missing", "truncated", "original", "updated"}]
  /\ about \in [Games -> Games]
  /\ executables \in [Games -> SUBSET (Games \cup {Original})]
  /\ registered \subseteq Games
  /\ launcher \in {"missing", "truncated", "doctype", "clean"}
  /\ listed \subseteq Games
  /\ update \in {"off", "loop", "list", "rename", "write", "launcher", "strip", "rewrite"}
  /\ todo \subseteq Games
  /\ game \in Games \cup {Nobody}
  /\ pl \in Games \cup {Nobody}
  /\ files \subseteq Games \cup {Original}
  /\ bundleNames \subseteq Games
  /\ sync \in {"off", "unzip", "move", "delete"}
  /\ zipped \subseteq Games
  /\ zip \in Games \cup {Nobody}
  /\ atStart \subseteq Games
  /\ crashes \in 0..MaxCrashes
  /\ update \in {"rename", "write"} => game \in todo /\ pl # Nobody

\* A bundle is up to date: names, plist and registration agree.
UpToDate(g) ==
  /\ Whole(g) /\ plist[g] = "updated"
  /\ executables[g] = {g}

\* When esc-update-games.py (lines 49-115) ends with a new list for the launcher, every
\* game that was whole when it started has its executable and its Info.plist under the
\* name that the list has, and is registered with launch services again after -kill.
\* A broken bundle may end the script early, but never makes it finish without a game.
FinishedRunIsComplete ==
  [][update = "rewrite" /\ launcher' = "clean" =>
       \A g \in atStart : (UpToDate(g) /\ g \in registered /\ g \in listed)']_vars

\* The script keeps the pl of the game before when an Info.plist is missing (lines 54-58)
\* and writes it into the bundle: that happens to broken bundles, never to one that was
\* whole when the script started or is whole now.
WholeBundlesKeepTheirNames ==
  [][\A g \in Games : about[g] = g /\ about'[g] # g => ~Whole(g) /\ g \notin atStart]_vars

Consistent ==
  /\ \A g \in bundle : UpToDate(g)
  /\ bundle # {} => launcher = "clean" /\ listed = bundle

\* Wherever the machine crashes (a truncated Info.plist ends every later run of the
\* script, the removal of a bundle may be half done), the nightly replacement of all
\* bundles (gamebucket_sync.sh:26-38) and the run after it bring the installation back to
\* a state in which the launcher's list, the bundles and their names agree.
EveryCrashIsRepaired == []<>Consistent
=============================================================================
