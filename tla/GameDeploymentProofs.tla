------------------------ MODULE GameDeploymentProofs ------------------------
(***************************************************************************)
(* The safety properties of GameDeployment for any number of games and     *)
(* crashes.  RunOK says what esc-update-games.py has achieved so far for   *)
(* the games that were whole when it started: those it has not come to are *)
(* still whole, the one it is at has its own names in pl, and the ones     *)
(* behind it are up to date.                                               *)
(***************************************************************************)
EXTENDS GameDeployment, TLAPS

Renaming == update \in {"list", "rename", "write"}

\* The games of atStart that the script has not touched.
Ahead == IF Renaming THEN todo \ {game} ELSE todo

RunOK ==
  /\ update = "off" \/ sync = "off"
  /\ Renaming => game \in todo /\ pl # Nobody
  /\ update \in {"launcher", "strip", "rewrite"} => todo = {}

GamesOK ==
  update # "off" =>
    /\ atStart \subseteq bundle
    /\ \A g \in atStart \cap Ahead : Whole(g)
    /\ \A g \in atStart \ todo : UpToDate(g) /\ g \in registered /\ g \in bundleNames
    /\ Renaming /\ game \in atStart => pl = game /\ executables[game] # {}

RenameOK ==
  /\ update = "rename" => executables[game] \subseteq files \cup {pl}
  /\ update = "write" => plist[game] = "truncated"
  /\ update = "write" /\ game \in atStart => executables[game] = {game}
  /\ update = "rewrite" => launcher = "truncated"

IInv == TypeOK /\ RunOK /\ GamesOK /\ RenameOK

USE ConstantsAssumption DEF Games, Original, Nobody

-----------------------------------------------------------------------------
LEMMA InitOK == Init => IInv
BY DEF Init, IInv, TypeOK, RunOK, GamesOK, RenameOK, Renaming

\* The script's own steps keep the types.
LEMMA UpdateTypes ==
  ASSUME TypeOK, RunOK, LaunchUpdate \/ UpdateStep
  PROVE  TypeOK'
<1> USE DEF TypeOK, RunOK, Renaming, UpdateGoto, temp, disk, list, script
<1>1. CASE LaunchUpdate
  BY <1>1 DEF LaunchUpdate, UpdateStarts
<1>2. ASSUME NEW g \in Games, ReadPlist(g) PROVE TypeOK'
  BY <1>2 DEF ReadPlist
<1>3. CASE ListExecutables
  BY <1>3 DEF ListExecutables
<1>4. ASSUME NEW f \in Games \cup {Original}, RenameOne(f) PROVE TypeOK'
  BY <1>4 DEF RenameOne
<1>5. CASE TruncatePlist
  BY <1>5 DEF TruncatePlist
<1>6. CASE WritePlist
  BY <1>6 DEF WritePlist
<1>7. CASE TruncateList
  BY <1>7 DEF TruncateList
<1>8. CASE WriteList \/ ReopenList \/ StripList
  BY <1>8 DEF WriteList, ReopenList, StripList
<1>9. QED
  BY <1>1, <1>2, <1>3, <1>4, <1>5, <1>6, <1>7, <1>8 DEF UpdateStep

\* The steps of the nightly job, and a crash, keep the types.
LEMMA SyncTypes ==
  ASSUME TypeOK, RunOK, LaunchSync \/ SyncStep \/ Crash
  PROVE  TypeOK'
<1> USE DEF TypeOK, RunOK, Renaming, UpdateGoto, SyncGoto, temp, disk, list, script
<1>1. CASE LaunchSync
  BY <1>1 DEF LaunchSync, SyncStarts
<1>2. ASSUME NEW g \in Games, RemoveFile(g) PROVE TypeOK'
  BY <1>2 DEF RemoveFile
<1>3. ASSUME NEW g \in Games, RemoveBundle(g) PROVE TypeOK'
  BY <1>3 DEF RemoveBundle
<1>4. ASSUME NEW g \in Games, MoveBundle(g) PROVE TypeOK'
  <2>1. /\ about' \in [Games -> Games]
        /\ plist' \in [Games -> {"missing", "truncated", "original", "updated"}]
        /\ executables' \in [Games -> SUBSET (Games \cup {Original})]
    <3>1. PICK contents \in {"missing", "truncated", "original"}, names \in SUBSET {Original} :
            /\ plist' = [plist EXCEPT ![g] = contents]
            /\ executables' = [executables EXCEPT ![g] = names]
      BY <1>4 DEF MoveBundle, Arrives
    <3>2. about' = [about EXCEPT ![g] = g]
      BY <1>4 DEF MoveBundle, Arrives
    <3>3. QED
      BY <3>1, <3>2
  <2>2. /\ expanded' \subseteq Games
        /\ partial' \subseteq expanded'
        /\ bundle' \subseteq Games
    BY <1>4 DEF MoveBundle
  <2>3. /\ sync = "move"
        /\ UNCHANGED <<archives, zipped, zip, registered, launcher, listed, update, todo, game,
                       pl, files, bundleNames, sync, atStart, crashes>>
    BY <1>4 DEF MoveBundle
  <2>4. QED
    BY <2>1, <2>2, <2>3
<1>5. CASE SyncMoves \/ SyncDeletes \/ SyncEnds
  BY <1>5 DEF SyncMoves, SyncDeletes, SyncEnds
<1>6. CASE Crash
  <2>1. /\ update' = "off" /\ sync' = "off" /\ crashes' \in 0..MaxCrashes
        /\ zipped' = {} /\ zip' = Nobody
    BY <1>6 DEF Crash
  <2>2. UNCHANGED <<archives, expanded, partial, bundle, plist, about, executables, registered,
                    launcher, listed, todo, game, pl, files, bundleNames, atStart>>
    BY <1>6 DEF Crash
  <2>3. QED
    BY <2>1, <2>2
<1>7. ASSUME NEW g \in Games, UnzipBegins(g) PROVE TypeOK'
  BY <1>7 DEF UnzipBegins
<1>8. CASE UnzipEnds
  BY <1>8 DEF UnzipEnds
<1>9. QED
  BY <1>1, <1>2, <1>3, <1>4, <1>5, <1>6, <1>7, <1>8 DEF SyncStep

\* While the nightly job works the script is off, and what is left of its last run
\* does not matter; the same holds after a crash.
LEMMA SyncOK ==
  ASSUME IInv, LaunchSync \/ SyncStep \/ Crash
  PROVE  RunOK' /\ GamesOK' /\ RenameOK'
<1>1. update' = "off"
  BY DEF IInv, TypeOK, RunOK, LaunchSync, SyncStarts, SyncStep, UnzipBegins, UnzipEnds, SyncMoves,
         RemoveFile, RemoveBundle, MoveBundle, Doomed, SyncDeletes, SyncEnds, Crash, UpdateGoto,
         SyncGoto, script
<1>2. QED
  BY <1>1 DEF RunOK, GamesOK, RenameOK, Renaming

LEMMA UpdateStartsOK ==
  ASSUME IInv, LaunchUpdate
  PROVE  RunOK' /\ GamesOK' /\ RenameOK'
BY DEF IInv, TypeOK, RunOK, GamesOK, RenameOK, Renaming, Ahead, Whole, UpToDate, LaunchUpdate,
       UpdateStarts, UpdateGoto, disk

LEMMA ReadPlistOK ==
  ASSUME IInv, NEW g \in Games, ReadPlist(g)
  PROVE  RunOK' /\ GamesOK' /\ RenameOK'
<1> USE DEF IInv, TypeOK, UpdateGoto, ReadPlist, Renaming, disk, list
<1>1. RunOK'
  BY DEF RunOK
<1>2. RenameOK'
  BY DEF RenameOK
<1>3. GamesOK'
  BY DEF GamesOK, RunOK, Ahead, Whole, UpToDate
<1>4. QED
  BY <1>1, <1>2, <1>3

LEMMA ListExecutablesOK ==
  ASSUME IInv, ListExecutables
  PROVE  RunOK' /\ GamesOK' /\ RenameOK'
BY DEF IInv, TypeOK, RunOK, GamesOK, RenameOK, Renaming, Ahead, Whole, UpToDate, ListExecutables,
       UpdateGoto, disk, list

LEMMA RenameOneOK ==
  ASSUME IInv, NEW f \in Games \cup {Original}, RenameOne(f)
  PROVE  RunOK' /\ GamesOK' /\ RenameOK'
<1> USE DEF IInv, TypeOK, RenameOne, Renaming, list
<1>1. RunOK'
  BY DEF RunOK
<1>2. RenameOK'
  BY DEF RenameOK
<1>3. \A g \in Games \ {game} : (Whole(g) => Whole(g)') /\ (UpToDate(g) => UpToDate(g)')
  BY DEF Whole, UpToDate
<1>4. game' = game /\ game \in todo /\ todo' = todo /\ executables'[game] # {}
  BY DEF RunOK
<1>5. GamesOK'
  BY <1>3, <1>4 DEF GamesOK, Ahead
<1>6. QED
  BY <1>1, <1>2, <1>5

LEMMA TruncatePlistOK ==
  ASSUME IInv, TruncatePlist
  PROVE  RunOK' /\ GamesOK' /\ RenameOK'
<1> USE DEF IInv, TypeOK, TruncatePlist, Renaming, UpdateGoto, list
<1>1. RunOK'
  BY DEF RunOK
<1>2. RenameOK'
  BY DEF RenameOK, GamesOK
<1>3. \A g \in Games \ {game} : (Whole(g) => Whole(g)') /\ (UpToDate(g) => UpToDate(g)')
  BY DEF Whole, UpToDate
<1>4. game' = game /\ pl' = pl /\ game \in todo /\ todo' = todo
      /\ UNCHANGED <<bundle, atStart, executables, registered, bundleNames>>
  BY DEF RunOK
<1>5. GamesOK'
  BY <1>3, <1>4 DEF GamesOK, Ahead
<1>6. QED
  BY <1>1, <1>2, <1>5

LEMMA WritePlistOK ==
  ASSUME IInv, WritePlist
  PROVE  RunOK' /\ GamesOK' /\ RenameOK'
<1> USE DEF IInv, TypeOK, WritePlist, Renaming, UpdateGoto, list
<1>1. RunOK' /\ RenameOK'
  BY DEF RunOK, RenameOK
<1>3. \A g \in Games \ {game} : (Whole(g) => Whole(g)') /\ (UpToDate(g) => UpToDate(g)')
  BY DEF Whole, UpToDate
<1>4. game \in todo /\ todo' = todo \ {game} /\ ~Renaming' /\ update' # "off"
      /\ UNCHANGED <<bundle, atStart, executables>>
  BY DEF RunOK
<1>5. game \in atStart => (UpToDate(game) /\ game \in registered /\ game \in bundleNames)'
  BY DEF RenameOK, GamesOK, UpToDate, Whole
<1>6. GamesOK'
  <2>1. \A g \in atStart \cap todo' : Whole(g)'
    BY <1>3, <1>4 DEF GamesOK, Ahead
  <2>2. \A g \in atStart \ todo : (UpToDate(g) /\ g \in registered /\ g \in bundleNames)'
    BY <1>3, <1>4 DEF GamesOK
  <2>3. QED
    BY <1>4, <1>5, <2>1, <2>2 DEF GamesOK, Ahead
<1>7. QED
  BY <1>1, <1>6

LEMMA ListOK ==
  ASSUME IInv, TruncateList \/ WriteList \/ ReopenList \/ StripList
  PROVE  RunOK' /\ GamesOK' /\ RenameOK'
BY DEF IInv, TypeOK, RunOK, GamesOK, RenameOK, Renaming, Ahead, Whole, UpToDate, TruncateList,
       WriteList, ReopenList, StripList, UpdateGoto, disk, list

LEMMA NextOK == IInv /\ [Next]_vars => IInv'
<1> SUFFICES ASSUME IInv, [Next]_vars PROVE IInv'
  OBVIOUS
<1>1. CASE LaunchUpdate \/ UpdateStep
  <2>1. TypeOK'
    BY <1>1, UpdateTypes DEF IInv
  <2>2. RunOK' /\ GamesOK' /\ RenameOK'
    BY <1>1, UpdateStartsOK, ReadPlistOK, ListExecutablesOK, RenameOneOK, TruncatePlistOK,
       WritePlistOK, ListOK DEF UpdateStep
  <2>3. QED
    BY <2>1, <2>2 DEF IInv
<1>2. CASE LaunchSync \/ SyncStep \/ Crash
  BY <1>2, SyncTypes, SyncOK DEF IInv
<1>3. CASE UNCHANGED vars
  <2>1. TypeOK'
    BY <1>3 DEF IInv, TypeOK, vars, temp, disk, list, script
  <2>2. RunOK' /\ RenameOK'
    BY <1>3 DEF IInv, RunOK, RenameOK, Renaming, vars, temp, disk, list, script
  <2>3. GamesOK'
    BY <1>3 DEF IInv, GamesOK, Renaming, Ahead, Whole, UpToDate, vars, disk, script
  <2>4. QED
    BY <2>1, <2>2, <2>3 DEF IInv
<1>4. QED
  BY <1>1, <1>2, <1>3 DEF Next

\* The invariant holds in every reachable state, whatever launchd does.
THEOREM Invariant == Spec => []IInv
<1>1. QED
  BY InitOK, NextOK, PTL DEF Spec

-----------------------------------------------------------------------------
\* Type correctness: the script renames and writes only while it has a game and a pl of
\* its own (esc-update-games.py:49-85).
THEOREM TypeCorrect == Spec => []TypeOK
<1>1. IInv => TypeOK
  BY DEF IInv
<1>2. QED
  BY <1>1, Invariant, PTL

\* A bundle that is whole, or was when the script started, never gets another game's
\* names (esc-update-games.py:54-58, 82-84; gamebucket_sync.sh:29-42).
THEOREM NamesKept == Spec => WholeBundlesKeepTheirNames
<1>1. ASSUME IInv, [Next]_vars, NEW g \in Games, about[g] = g, about'[g] # g
      PROVE  ~Whole(g) /\ g \notin atStart
  <2>1. WritePlist /\ g = game /\ pl # game
    <3>1. \A h \in Games : ~MoveBundle(h)
      BY <1>1 DEF MoveBundle, Arrives, IInv, TypeOK
    <3>2. about' # about
      BY <1>1
    <3>3. /\ ~LaunchUpdate /\ ~ListExecutables /\ ~TruncatePlist /\ ~TruncateList
          /\ \A h \in Games : ~ReadPlist(h)
          /\ \A f \in Games \cup {Original} : ~RenameOne(f)
      BY <3>2 DEF LaunchUpdate, UpdateStarts, ListExecutables, TruncatePlist, TruncateList,
                  ReadPlist, RenameOne, disk
    <3>4. /\ ~WriteList /\ ~ReopenList /\ ~StripList /\ ~LaunchSync /\ ~UnzipEnds
          /\ ~SyncMoves /\ ~SyncDeletes /\ ~SyncEnds /\ ~Crash
      BY <3>2 DEF WriteList, ReopenList, StripList, LaunchSync, SyncStarts, UnzipEnds, SyncMoves,
                  SyncDeletes, SyncEnds, Crash, disk
    <3>5. \A h \in Games : ~UnzipBegins(h) /\ ~RemoveFile(h) /\ ~RemoveBundle(h)
      BY <3>2 DEF UnzipBegins, RemoveFile, RemoveBundle
    <3>6. ~UNCHANGED vars
      BY <3>2 DEF vars, disk
    <3>7. WritePlist
      BY <1>1, <3>1, <3>3, <3>4, <3>5, <3>6 DEF Next, UpdateStep, SyncStep
    <3>8. QED
      BY <1>1, <3>7 DEF WritePlist, IInv, TypeOK
  <2>2. plist[game] = "truncated"
    BY <1>1, <2>1 DEF IInv, RenameOK, WritePlist
  <2>3. game \notin atStart
    BY <1>1, <2>1 DEF IInv, GamesOK, Renaming, WritePlist
  <2>4. QED
    BY <2>1, <2>2, <2>3 DEF Whole
<1>2. IInv /\ [Next]_vars
        => [\A g \in Games : about[g] = g /\ about'[g] # g => ~Whole(g) /\ g \notin atStart]_vars
  BY <1>1
<1>3. QED
  BY <1>2, Invariant, PTL DEF Spec, WholeBundlesKeepTheirNames

\* When the script finishes, every game that was whole at its start is up to date,
\* registered and listed (esc-update-games.py:49-115).
THEOREM RunComplete == Spec => FinishedRunIsComplete
<1>1. ASSUME IInv, [Next]_vars, update = "rewrite", launcher' = "clean"
      PROVE  \A g \in atStart : (UpToDate(g) /\ g \in registered /\ g \in listed)'
  <2>1. todo = {} /\ \A g \in atStart : UpToDate(g) /\ g \in registered /\ g \in bundleNames
    BY <1>1 DEF IInv, RunOK, GamesOK
  <2>2. launcher = "truncated" /\ sync = "off" /\ update # "off"
    BY <1>1 DEF IInv, RenameOK, RunOK
  <2>3. StripList
    BY <1>1, <2>2
    DEF Next, UpdateStep, SyncStep, LaunchUpdate, UpdateStarts, ReadPlist, ListExecutables,
        RenameOne, TruncatePlist, WritePlist, TruncateList, WriteList, ReopenList, LaunchSync,
        SyncStarts, UnzipBegins, UnzipEnds, SyncMoves, RemoveFile, RemoveBundle, MoveBundle, Doomed,
        SyncDeletes, SyncEnds, Crash, vars, list
  <2>4. QED
    BY <2>1, <2>3 DEF StripList, UpToDate, Whole, disk
<1>2. IInv /\ [Next]_vars
        => [update = "rewrite" /\ launcher' = "clean" =>
              \A g \in atStart : (UpToDate(g) /\ g \in registered /\ g \in listed)']_vars
  BY <1>1
<1>3. QED
  BY <1>2, Invariant, PTL DEF Spec, FinishedRunIsComplete
=============================================================================
