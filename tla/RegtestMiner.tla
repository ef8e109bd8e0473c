---------------------------- MODULE RegtestMiner ----------------------------
(***************************************************************************)
(* The regtest tool and its chain file: runs of the program that lock the  *)
(* file, replay it, mine on top of it and append their records.            *)
(*                                                                         *)
(* Mining is deterministic, so a record is known by its height.  A line    *)
(* (the identifier is that of height 0) is two pieces, for a write can be  *)
(* cut anywhere: by a kill, by a full disk, by a loss of power.  The       *)
(* stream's buffer reaches the file in pieces; what is in the file reaches *)
(* the disk for sure at fsync and in any prefix before.  The directory is  *)
(* never synced: a new file's name reaches the disk some time or not.      *)
(***************************************************************************)
EXTENDS RegtestChain

CONSTANTS
  Runs,            \* processes of the tool
  MaxCount,        \* greatest argument of --mine (10,000 in the code)
  Free

ASSUME MinerAssumption == MaxCount \in Nat \ {0} /\ Free \notin Runs

VARIABLES
  exists,     \* the path names a file
  linked,     \* its name is on the disk
  file,       \* its content: a sequence of pieces
  durable,    \* length of the prefix that a loss of power cannot take
  lock,       \* the run that holds the flock
  pc, count,  \* where each run is, and the blocks it has still to mine
  runHeight,  \* chain.height() of each run
  buffer,     \* what its output stream has not written yet
  printed,    \* history: the height the last run to end well printed
  acked       \* history: greatest height a mining run printed of this file

minerVars ==
  <<exists, linked, file, durable, lock, pc, count, runHeight, buffer, printed, acked>>

Line(h) == <<<<h, 1>>, <<h, 2>>>>

(* The file of a chain of height n: identifier and records 1 to n.         *)
Whole(n) == [i \in 1..(2 * (n + 1)) |-> <<(i - 1) \div 2, ((i - 1) % 2) + 1>>]

(* Heights whose line is whole at the front of the file.                   *)
StoredHeight == IF Len(file) < 2 THEN 0 ELSE (Len(file) \div 2) - 1

MinerInit ==
  /\ exists = FALSE /\ linked = FALSE /\ file = <<>> /\ durable = 0
  /\ lock = Free
  /\ pc = [p \in Runs |-> "idle"]
  /\ count = [p \in Runs |-> 0]
  /\ runHeight = [p \in Runs |-> 0]
  /\ buffer = [p \in Runs |-> <<>>]
  /\ printed = 0 /\ acked = 0

(* The process ends: its descriptor is closed and the lock with it.        *)
Quit(p) ==
  /\ pc' = [pc EXCEPT ![p] = "idle"]
  /\ count' = [count EXCEPT ![p] = 0]
  /\ runHeight' = [runHeight EXCEPT ![p] = 0]
  /\ buffer' = [buffer EXCEPT ![p] = <<>>]
  /\ lock' = IF lock = p THEN Free ELSE lock

-----------------------------------------------------------------------------
(* Mutant of FileLock: flock is not asked for.                             *)
NoFileLock(p, n) ==
  /\ pc[p] = "idle"
  /\ n > 0 \/ exists
  /\ exists' = TRUE
  /\ pc' = [pc EXCEPT ![p] = "locked"]
  /\ count' = [count EXCEPT ![p] = n]
  /\ UNCHANGED <<linked, file, durable, lock, runHeight, buffer, printed, acked>>

(* FileLock: the file is created only to mine; a busy lock ends the run.   *)
FileLock(p, n) ==
  /\ pc[p] = "idle"
  /\ n > 0 \/ exists
  /\ exists' = TRUE
  /\ IF lock = Free
       THEN /\ lock' = p
            /\ pc' = [pc EXCEPT ![p] = "locked"]
            /\ count' = [count EXCEPT ![p] = n]
       ELSE UNCHANGED <<lock, pc, count>>
  /\ UNCHANGED <<linked, file, durable, runHeight, buffer, printed, acked>>

(* Chain::load accepts whole lines of consecutive heights and no other     *)
(* file; the result is the height.                                         *)
load(f, n) == f = Whole(n)

(* From peek to opening the output: an empty file is initialized only to   *)
(* mine, any other must replay, and the request must fit the limit.        *)
Replay(p) ==
  /\ pc[p] = "locked"
  /\ LET start == IF file = <<>>
                    THEN IF count[p] = 0 THEN {} ELSE {0}
                    ELSE {n \in 0..MAX_TEST_HEIGHT : load(file, n)} IN
     IF \E n \in start : count[p] <= MAX_TEST_HEIGHT - n
       THEN \E n \in start :
              /\ runHeight' = [runHeight EXCEPT ![p] = n]
              /\ buffer' = [buffer EXCEPT ![p] =
                              IF file = <<>> THEN Line(0) ELSE <<>>]
              /\ pc' = [pc EXCEPT ![p] = IF count[p] = 0 THEN "report" ELSE "mining"]
              /\ UNCHANGED <<lock, count>>
       ELSE Quit(p)
  /\ UNCHANGED <<exists, linked, file, durable, printed, acked>>

(* One turn of the mining loop: mineBlock, append, writeRecord.            *)
MineBlock(p) ==
  /\ pc[p] = "mining" /\ count[p] > 0
  /\ TemplateHeight(runHeight[p] + 1)
  /\ runHeight' = [runHeight EXCEPT ![p] = @ + 1]
  /\ buffer' = [buffer EXCEPT ![p] = @ \o Line(runHeight[p] + 1)]
  /\ count' = [count EXCEPT ![p] = @ - 1]
  /\ UNCHANGED <<exists, linked, file, durable, lock, pc, printed, acked>>

(* The stream writes some of its buffer, before it is asked to.            *)
Spill(p) ==
  /\ pc[p] = "mining" /\ buffer[p] # <<>>
  /\ file' = Append(file, Head(buffer[p]))
  /\ buffer' = [buffer EXCEPT ![p] = Tail(@)]
  /\ UNCHANGED <<exists, linked, durable, lock, pc, count, runHeight, printed, acked>>

Flush(p) ==
  /\ pc[p] = "mining" /\ count[p] = 0
  /\ file' = file \o buffer[p]
  /\ buffer' = [buffer EXCEPT ![p] = <<>>]
  /\ pc' = [pc EXCEPT ![p] = "flushed"]
  /\ UNCHANGED <<exists, linked, durable, lock, count, runHeight, printed, acked>>

(* Mutant of Sync: the height is printed without the fsync.                *)
ReportUnsynced(p) ==
  /\ pc[p] = "flushed"
  /\ printed' = runHeight[p] /\ acked' = runHeight[p]
  /\ Quit(p)
  /\ UNCHANGED <<exists, linked, file, durable>>

(* fsync of the file, then the height is printed.                          *)
Sync(p) ==
  /\ pc[p] = "flushed"
  /\ durable' = Len(file)
  /\ printed' = runHeight[p] /\ acked' = runHeight[p]
  /\ Quit(p)
  /\ UNCHANGED <<exists, linked, file>>

(* A run without --mine prints what it replayed and syncs nothing: records *)
(* of a run killed before its fsync are printed, and may still be lost.    *)
Report(p) ==
  /\ pc[p] = "report"
  /\ printed' = runHeight[p]
  /\ Quit(p)
  /\ UNCHANGED <<exists, linked, file, durable, acked>>

-----------------------------------------------------------------------------
(* A kill at any point, a write that fails, an fsync that fails: the run   *)
(* ends, and what its stream still held is lost.                           *)
Kill(p) ==
  /\ pc[p] # "idle"
  /\ Quit(p)
  /\ UNCHANGED <<exists, linked, file, durable, printed, acked>>

(* The machine stops, and every run of the tool with it.                   *)
AllEnd ==
  /\ lock' = Free
  /\ pc' = [p \in Runs |-> "idle"]
  /\ count' = [p \in Runs |-> 0]
  /\ runHeight' = [p \in Runs |-> 0]
  /\ buffer' = [p \in Runs |-> <<>>]
  /\ UNCHANGED printed

(* A loss of power that the file's name survives, or had survived before:  *)
(* the file keeps what was synced and any more of what it held.            *)
PowerLoss ==
  /\ exists
  /\ \E n \in durable..Len(file) : file' = SubSeq(file, 1, n) /\ durable' = n
  /\ linked' = TRUE
  /\ AllEnd
  /\ UNCHANGED <<exists, acked>>

(* A loss of power that takes the name of a new file: fsync of the file    *)
(* does not promise its directory entry, so all of it goes.                *)
EntryLost ==
  /\ exists /\ ~linked
  /\ exists' = FALSE /\ file' = <<>> /\ durable' = 0 /\ acked' = 0
  /\ AllEnd
  /\ UNCHANGED linked

MinerNext ==
  \/ \E p \in Runs :
       \/ \E n \in 0..MaxCount : FileLock(p, n)
       \/ Replay(p) \/ MineBlock(p) \/ Spill(p) \/ Flush(p) \/ Sync(p)
       \/ Report(p) \/ Kill(p)
  \/ PowerLoss \/ EntryLost

MinerSpec == MinerInit /\ [][MinerNext]_minerVars

-----------------------------------------------------------------------------
(* Whatever runs race and whatever cut them, the file is the start of the  *)
(* one chain file: no record twice, none left out, and nothing was ever    *)
(* written after a torn line.                                              *)
FileIsOneChain == IsPrefix(file, Whole(MAX_TEST_HEIGHT))

(* The file keeps the promise of ChainStore, with the pieces, the buffers  *)
(* and the lock left out of sight: a run prints the height stored at that  *)
(* moment, and a loss of power takes nothing a mining run printed, unless  *)
(* it takes the whole of a file whose name never reached the disk.         *)
Store == INSTANCE ChainStore WITH stored <- StoredHeight, rooted <- linked
StoreSpec == Store!Spec
=============================================================================
