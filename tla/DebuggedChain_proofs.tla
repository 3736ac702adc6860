------------------------- MODULE DebuggedChain_proofs -------------------------
(***************************************************************************)
(* Theorems about DebuggedChain, for any lock args, contracts,             *)
(* transactions, scripts and number of faults.                             *)
(***************************************************************************)
EXTENDS DebuggedChain, TLAPS

-----------------------------------------------------------------------------
(* The files.                                                              *)

StartSteps == {"init", "copy", "update", "run", "index"}
FileSteps == StartSteps \cup {"start_again", "reset_indexer", "reset_node", "save"}

(* What a start knows, and what an initialised directory holds.            *)
FilesKnown ==
    /\ step \in StartSteps => info # Null
    /\ step = "copy" => origin # "none"
    /\ origin = "none" => conf = Null /\ cells = Null
    /\ origin \in {"page", "bare"} => conf # Null
    /\ conf = Null <=> spec = Null
    /\ origin = "page" => spec.cells = Chosen
    /\ origin = "page" /\ step = "copy" => info.contracts = Chosen /\ cells = Null

FilesInv == FilesTypeOK /\ FilesKnown /\ GenesisHasContracts /\ FilesAgree

LEMMA FilesInitially == DebuggedInit => FilesInv
<1> SUFFICES ASSUME DebuggedInit PROVE FilesInv
  OBVIOUS
<1>1. FilesTypeOK
  BY FilesNullAssumption DEF DebuggedInit, FilesInit, FilesTypeOK, ChildState
<1>2. FilesKnown /\ GenesisHasContracts /\ FilesAgree
  BY DEF DebuggedInit, FilesInit, FilesKnown, GenesisHasContracts, FilesAgree, StartSteps
<1> QED BY <1>1, <1>2 DEF FilesInv

LEMMA SpecOf ==
    ASSUME NEW i \in Info
    PROVE  /\ i.lock \in Lock /\ i.lock # Null /\ i # Null
           /\ ContractsOf(i) \in SUBSET Chosen /\ ContractsOf(i) # Null
           /\ [lock |-> i.lock, cells |-> ContractsOf(i)] \in Genesis
           /\ i.contracts # Null => ContractsOf(i) = i.contracts
<1>1. ContractsOf(i) \in SUBSET Chosen
  BY DEF Info, ContractsOf
<1> QED BY <1>1, FilesNullAssumption DEF Info, ContractsOf, Genesis

(* A start.                                                                *)
LEMMA StartKeepsFiles == FilesInv /\ StartFiles => FilesInv'
<1> SUFFICES ASSUME FilesInv, StartFiles PROVE FilesInv'
  OBVIOUS
<1> USE DEF FilesInv, Does, Goto, Fault, fileVars, disk
<1>1. CASE BeginStart
  BY <1>1, FilesNullAssumption
  DEF BeginStart, Info, FilesTypeOK, FilesKnown, GenesisHasContracts, FilesAgree, StartSteps
<1>2. CASE PortTaken \/ FoundInitialised \/ UpdateFails
  BY <1>2
  DEF PortTaken, FoundInitialised, UpdateFails, FilesTypeOK, FilesKnown,
      GenesisHasContracts, FilesAgree, StartSteps
<1>3. CASE InitChain
  <2>1. info \in Info /\ step' = "copy" /\ cells = cells' /\ data' = data /\ indexed' = indexed
    BY <1>3 DEF InitChain, FilesTypeOK, FilesKnown, StartSteps
  <2>2. FilesTypeOK'
    BY <1>3, <2>1, SpecOf DEF InitChain, FilesTypeOK
  <2>3. conf' # Null /\ spec' # Null /\ origin' # "none" /\ info' # Null
    BY <1>3, <2>1, SpecOf, FilesNullAssumption DEF InitChain
  <2>4. ASSUME origin' = "page" PROVE spec'.cells = Chosen /\ info'.contracts = Chosen /\ cells' = Null
    <3>1. info.contracts # Null /\ origin \notin {"page", "bare", "spoilt"}
      BY <1>3, <2>4 DEF InitChain, FilesKnown
    <3>2. info.contracts = Chosen /\ cells = Null
      BY <2>1, <3>1 DEF FilesTypeOK, FilesKnown, Info
    <3>3. ContractsOf(info) = Chosen
      BY <2>1, <3>1, <3>2, SpecOf
    <3> QED BY <1>3, <3>2, <3>3 DEF InitChain
  <2>5. FilesKnown'
    BY <2>1, <2>3, <2>4 DEF FilesKnown, StartSteps
  <2>6. data = Null
    BY <1>3 DEF InitChain, FilesKnown, FilesAgree
  <2>7. FilesAgree' /\ GenesisHasContracts'
    BY <2>1, <2>6 DEF FilesAgree, GenesisHasContracts
  <2> QED BY <2>2, <2>5, <2>7
<1>4. CASE InitFails
  BY <1>4
  DEF InitFails, FilesTypeOK, FilesKnown, GenesisHasContracts, FilesAgree, StartSteps
<1>5. CASE InitDoesNotStart \/ RunFails
  BY <1>5
  DEF InitDoesNotStart, RunFails, StartThrows, FilesTypeOK, FilesKnown,
      GenesisHasContracts, FilesAgree, StartSteps
<1>6. CASE CopyContracts
  <2>1. info \in Info
    BY <1>6 DEF CopyContracts, FilesTypeOK, FilesKnown, StartSteps
  <2>2. FilesTypeOK'
    BY <1>6, <2>1, SpecOf DEF CopyContracts, FilesTypeOK
  <2>3. FilesKnown' /\ FilesAgree'
    BY <1>6, <2>1, SpecOf DEF CopyContracts, FilesKnown, FilesAgree, StartSteps
  <2>4. ASSUME origin = "page" PROVE spec.cells = Chosen /\ cells' = Chosen
    <3>1. info.contracts = Chosen /\ cells = Null /\ spec.cells = Chosen
      BY <1>6, <2>4 DEF CopyContracts, FilesKnown
    <3>2. ContractsOf(info) = Chosen
      BY <2>1, <3>1, SpecOf, FilesNullAssumption
    <3> QED BY <1>6, <3>1, <3>2 DEF CopyContracts
  <2>5. GenesisHasContracts'
    BY <1>6, <2>4 DEF CopyContracts, GenesisHasContracts
  <2> QED BY <2>2, <2>3, <2>5
<1>7. CASE CopyFails
  BY <1>7, SpecOf
  DEF CopyFails, FilesTypeOK, FilesKnown, GenesisHasContracts, FilesAgree, StartSteps
<1>8. CASE UpdateConfiguration
  BY <1>8, SpecOf
  DEF UpdateConfiguration, FilesTypeOK, FilesKnown, GenesisHasContracts, FilesAgree,
      StartSteps
<1>9. CASE RunNode \/ RunIndexer
  BY <1>9
  DEF RunNode, RunIndexer, NodeAccepts, FilesTypeOK, FilesKnown, GenesisHasContracts,
      FilesAgree, StartSteps, ChildState
<1> QED BY <1>1, <1>2, <1>3, <1>4, <1>5, <1>6, <1>7, <1>8, <1>9 DEF StartFiles

LEMMA UnchangedParts ==
    UNCHANGED allVars => UNCHANGED step /\ UNCHANGED fileVars /\ UNCHANGED debugVars
<1> SUFFICES ASSUME UNCHANGED allVars
             PROVE  UNCHANGED step /\ UNCHANGED fileVars /\ UNCHANGED debugVars
  OBVIOUS
<1>1. UNCHANGED requestVars /\ UNCHANGED fileVars /\ UNCHANGED debugVars
  BY DEF allVars
<1> QED BY <1>1 DEF requestVars

(* The debugger's requests are never in the middle of a start.             *)
LEMMA DebuggerStepsAside ==
    OnDebugger => UNCHANGED step \/ (step' \notin FileSteps /\ step # "copy")
<1> SUFFICES ASSUME OnDebugger
             PROVE  UNCHANGED step \/ (step' \notin FileSteps /\ step # "copy")
  OBVIOUS
<1> USE DEF Does, Goto, FileSteps, StartSteps
<1>1. CASE Dump(node = "running") \/ WriteMockTx \/ Close
  BY <1>1 DEF Dump, WriteMockTx, Close
<1>2. CASE StopGdb \/ StopGdbThrows \/ StopDebuggerThrows
  BY <1>2 DEF StopGdb, StopGdbThrows, StopDebuggerThrows, StopThrew
<1>3. CASE StopDebugger \/ MakeBoth \/ StartDebugger \/ StartGdb
  BY <1>3 DEF StopDebugger, MakeBoth, StartDebugger, StartGdb
<1>4. CASE DebuggerDoesNotStart \/ GdbDoesNotStart \/ GdbIsNotConfigured
  BY <1>4 DEF DebuggerDoesNotStart, GdbDoesNotStart, GdbIsNotConfigured
<1>5. CASE DebuggerDies
  <2>1. UNCHANGED requestVars
    BY <1>5 DEF DebuggerDies
  <2> QED BY <2>1 DEF requestVars
<1> QED BY <1>1, <1>2, <1>3, <1>4, <1>5 DEF OnDebugger, DebugNext

LEMMA FilesStep == FilesInv /\ [DebuggedNext]_allVars => FilesInv'
<1> SUFFICES ASSUME FilesInv, [DebuggedNext]_allVars PROVE FilesInv'
  OBVIOUS
<1> USE DEF FilesInv, Does, Goto, fileVars, disk
<1>1. CASE StartFiles
  BY <1>1, StartKeepsFiles
<1>2. ASSUME NEW next \in {"idle", "start_again", "reset_indexer", "save"}, StopChain(next)
      PROVE  FilesInv'
  BY <1>2
  DEF StopChain, Killed, StopThrows, FilesTypeOK, FilesKnown, GenesisHasContracts,
      FilesAgree, StartSteps, ChildState
<1>3. CASE ResetIndexer \/ ResetNode
  BY <1>3
  DEF ResetIndexer, ResetNode, FileExists, FilesTypeOK, FilesKnown, GenesisHasContracts,
      FilesAgree, StartSteps
<1>4. CASE SaveEdit \/ NodeDies
  BY <1>4
  DEF SaveEdit, NodeDies, requestVars, FilesTypeOK, FilesKnown, GenesisHasContracts,
      FilesAgree, StartSteps, ChildState
<1>5. CASE AppIsKilled \/ AppExits
  BY <1>5
  DEF AppIsKilled, AppExits, FilesCrash, FilesExit, Killed, StopThrows, FilesTypeOK,
      FilesKnown, GenesisHasContracts, FilesAgree, StartSteps, ChildState
<1>6. CASE OnDebugger \/ UNCHANGED allVars
  <2>1. UNCHANGED fileVars
    BY <1>6, UnchangedParts DEF OnDebugger
  <2>2. UNCHANGED step \/ (step' \notin FileSteps /\ step # "copy")
    BY <1>6, UnchangedParts, DebuggerStepsAside
  <2> QED
    BY <2>1, <2>2
    DEF FilesTypeOK, FilesKnown, GenesisHasContracts, FilesAgree, StartSteps, FileSteps
<1> QED BY <1>1, <1>2, <1>3, <1>4, <1>5, <1>6 DEF DebuggedNext, OnFiles, FilesNext

LEMMA FilesInvariance == DebuggedSpec => []FilesInv
  BY FilesInitially, FilesStep, PTL DEF DebuggedSpec

(* A chain that the Start page initialised has its contracts, whatever     *)
(* comes later.                                                            *)
THEOREM ContractsAreInTheGenesis == DebuggedSpec => []GenesisHasContracts
<1>1. FilesInv => GenesisHasContracts
  BY DEF FilesInv
<1> QED BY <1>1, FilesInvariance, PTL

(* The data of node and indexer stay with the spec they were built on.     *)
THEOREM DataFollowsTheSpec == DebuggedSpec => []FilesAgree
<1>1. FilesInv => FilesAgree
  BY DEF FilesInv
<1> QED BY <1>1, FilesInvariance, PTL
-----------------------------------------------------------------------------
(* The debugger.                                                           *)

DebugSteps == {"write_mock", "stop_gdb", "stop_dbg", "make", "start_dbg", "start_gdb"}

(* What a session being opened has done so far.                            *)
SessionKnown ==
    /\ step \in {"write_mock", "make", "start_dbg", "start_gdb"} => session # Null
    /\ step \in DebugSteps \ {"write_mock"} /\ session # Null =>
          mock[session.script] = session.tx
    /\ step \in {"start_dbg", "start_gdb"} => gdb = [st |-> "none", of |-> session]
    /\ step = "start_dbg" => dbg = [st |-> "none", of |-> session]
    /\ step = "start_gdb" => dbg # Null /\ dbg.of = session

(* What is down once a stop has been through, and stays so.                *)
StoppedSoFar ==
    /\ orphans = {}
    /\ step \in {"stop_dbg", "make"} => Running("gdb", gdb) = {} /\ ~CannotStop(gdb)
    /\ step = "make" => Running("dbg", dbg) = {}
    /\ closed => Referenced = {} /\ step \notin DebugSteps

(* What the page that is shown can rely on.                                *)
PageKnown ==
    page # Null =>
        /\ step \notin DebugSteps
        /\ ~CannotStop(gdb) =>
              \A c \in Referenced : c.of = page /\ mock[c.of.script] = c.of.tx

DebugInv == DebugTypeOK /\ SessionKnown /\ StoppedSoFar /\ PageKnown

LEMMA DebugInitially == DebuggedInit => DebugInv
<1> SUFFICES ASSUME DebuggedInit PROVE DebugInv
  OBVIOUS
<1>1. DebugTypeOK
  BY DEF DebuggedInit, DebugInit, DebugTypeOK
<1>2. SessionKnown /\ StoppedSoFar /\ PageKnown
  BY DEF DebuggedInit, DebugInit, SessionKnown, StoppedSoFar, PageKnown, DebugSteps,
         Referenced, Running
<1> QED BY <1>1, <1>2 DEF DebugInv

(* The requests before the children are made again.                        *)
LEMMA StopsKeepDebug ==
    /\ DebugInv
    /\ \/ Dump(node = "running") \/ WriteMockTx \/ Close
       \/ StopGdb \/ StopGdbThrows \/ StopDebugger \/ StopDebuggerThrows
    => DebugInv'
<1> USE DEF DebugInv, Does, Goto, DebugSteps
<1>1. ASSUME DebugInv, Dump(node = "running") PROVE DebugInv'
  BY <1>1, DebugNullAssumption
  DEF Dump, DebugTypeOK, SessionKnown, StoppedSoFar, PageKnown, Referenced
<1>2. ASSUME DebugInv, WriteMockTx PROVE DebugInv'
  <2>1. session \in Session /\ session.script \in Script /\ session.tx \in Tx
    BY <1>2 DEF WriteMockTx, SessionKnown, DebugTypeOK, Session
  <2>2. DebugTypeOK' /\ mock'[session.script] = session.tx
    BY <1>2, <2>1 DEF WriteMockTx, DebugTypeOK
  <2> QED
    BY <1>2, <2>2
    DEF WriteMockTx, SessionKnown, StoppedSoFar, PageKnown, Referenced
<1>3. ASSUME DebugInv, Close PROVE DebugInv'
  BY <1>3
  DEF Close, DebugTypeOK, SessionKnown, StoppedSoFar, PageKnown, Referenced
<1>4. ASSUME DebugInv, StopGdb PROVE DebugInv'
  <2>1. /\ gdb' \in Field \cup {Null}
        /\ Running("gdb", gdb)' = {} /\ ~CannotStop(gdb)'
    BY <1>4
    DEF StopGdb, Stopped, Killed, CannotStop, StopThrows, Running, DebugTypeOK, Field,
        ChildState
  <2>2. DebugTypeOK'
    BY <1>4, <2>1 DEF StopGdb, DebugTypeOK
  <2>3. SessionKnown'
    BY <1>4 DEF StopGdb, SessionKnown
  <2>4. page' = Null /\ ~closed'
    BY <1>4 DEF StopGdb, PageKnown, StoppedSoFar, DebugTypeOK
  <2>5. StoppedSoFar' /\ PageKnown'
    BY <1>4, <2>1, <2>4 DEF StopGdb, StoppedSoFar, PageKnown
  <2> QED BY <2>2, <2>3, <2>5
<1>5. ASSUME DebugInv, StopGdbThrows PROVE DebugInv'
  BY <1>5
  DEF StopGdbThrows, StopThrew, DebugTypeOK, SessionKnown, StoppedSoFar, PageKnown,
      Referenced
<1>6. ASSUME DebugInv, StopDebugger PROVE DebugInv'
  <2>1. dbg' \in Field \cup {Null} /\ Running("dbg", dbg)' = {}
    BY <1>6
    DEF StopDebugger, Stopped, Killed, CannotStop, StopThrows, Running, DebugTypeOK, Field,
        ChildState
  <2>2. DebugTypeOK' /\ PageKnown'
    BY <1>6, <2>1 DEF StopDebugger, DebugTypeOK, PageKnown
  <2>3. Referenced' = {}
    BY <1>6, <2>1 DEF StopDebugger, StoppedSoFar, Referenced
  <2>4. SessionKnown' /\ StoppedSoFar'
    BY <1>6, <2>1, <2>3 DEF StopDebugger, SessionKnown, StoppedSoFar
  <2> QED BY <2>2, <2>4
<1>7. ASSUME DebugInv, StopDebuggerThrows PROVE DebugInv'
  <2>1. Referenced' = {}
    BY <1>7
    DEF StopDebuggerThrows, CannotStop, StopThrows, StoppedSoFar, Referenced, Running
  <2> QED
    BY <1>7, <2>1
    DEF StopDebuggerThrows, StopThrew, DebugTypeOK, SessionKnown, StoppedSoFar, PageKnown
<1> QED BY <1>1, <1>2, <1>3, <1>4, <1>5, <1>6, <1>7

(* The children are made and started.                                      *)
LEMMA StartsKeepDebug ==
    /\ DebugInv
    /\ \/ MakeBoth \/ StartDebugger \/ StartGdb
       \/ DebuggerDoesNotStart \/ GdbDoesNotStart \/ GdbIsNotConfigured
    => DebugInv'
<1> USE DEF DebugInv, Does, Goto, Fault, DebugSteps
<1>1. ASSUME DebugInv, MakeBoth PROVE DebugInv'
  <2>1. Referenced = {}
    BY <1>1 DEF MakeBoth, StoppedSoFar, Referenced
  <2>2. session \in Session
    BY <1>1 DEF MakeBoth, SessionKnown, DebugTypeOK
  <2>3. page' = Null /\ ~closed'
    BY <1>1 DEF MakeBoth, PageKnown, StoppedSoFar, DebugTypeOK
  <2>4. DebugTypeOK'
    BY <1>1, <2>1, <2>2 DEF MakeBoth, DebugTypeOK, Field, ChildState
  <2>5. SessionKnown'
    BY <1>1 DEF MakeBoth, SessionKnown
  <2>6. StoppedSoFar' /\ PageKnown'
    BY <1>1, <2>1, <2>3 DEF MakeBoth, StoppedSoFar, PageKnown
  <2> QED BY <2>4, <2>5, <2>6
<1>2. ASSUME DebugInv, StartDebugger \/ DebuggerDoesNotStart PROVE DebugInv'
  <2>1. /\ session \in Session /\ dbg \in Field
        /\ gdb = [st |-> "none", of |-> session] /\ dbg.of = session
    BY <1>2
    DEF StartDebugger, DebuggerDoesNotStart, SessionKnown, DebugTypeOK, Field, ChildState
  <2>2. dbg' \in Field /\ dbg'.of = session
    BY <1>2, <2>1 DEF StartDebugger, DebuggerDoesNotStart, Launched, Field, ChildState
  <2>3. page = Null /\ ~closed /\ page' = page /\ closed' = closed
    BY <1>2
    DEF StartDebugger, DebuggerDoesNotStart, PageKnown, StoppedSoFar, DebugTypeOK
  <2>4. DebugTypeOK'
    BY <1>2, <2>2 DEF StartDebugger, DebuggerDoesNotStart, DebugTypeOK
  <2>5. SessionKnown'
    BY <1>2, <2>1, <2>2, DebugNullAssumption
    DEF StartDebugger, DebuggerDoesNotStart, SessionKnown, Field
  <2>6. StoppedSoFar' /\ PageKnown'
    BY <1>2, <2>3 DEF StartDebugger, DebuggerDoesNotStart, StoppedSoFar, PageKnown
  <2> QED BY <2>4, <2>5, <2>6
<1>3. ASSUME DebugInv, StartGdb PROVE DebugInv'
  <2>1. /\ session \in Session /\ gdb = [st |-> "none", of |-> session]
        /\ dbg # Null /\ dbg.of = session /\ mock[session.script] = session.tx
    BY <1>3 DEF StartGdb, SessionKnown, DebugTypeOK
  <2>2. gdb' \in Field /\ gdb'.of = session
    BY <1>3, <2>1 DEF StartGdb, Launched, Field, ChildState
  <2>3. DebugTypeOK'
    BY <1>3, <2>1, <2>2 DEF StartGdb, DebugTypeOK
  <2>4. \A c \in Referenced' : c.of = session
    BY <1>3, <2>1, <2>2 DEF StartGdb, Referenced, Running
  <2>5. SessionKnown' /\ PageKnown'
    BY <1>3, <2>1, <2>4 DEF StartGdb, SessionKnown, PageKnown
  <2>6. StoppedSoFar'
    BY <1>3 DEF StartGdb, StoppedSoFar, DebugTypeOK
  <2> QED BY <2>3, <2>5, <2>6
<1>4. ASSUME DebugInv, GdbDoesNotStart \/ GdbIsNotConfigured PROVE DebugInv'
  <2>1. gdb' \in Field \cup {Null}
    BY <1>4 DEF GdbDoesNotStart, GdbIsNotConfigured, SessionKnown, DebugTypeOK, Field, ChildState
  <2>2. page = Null /\ ~closed /\ page' = page /\ closed' = closed
    BY <1>4
    DEF GdbDoesNotStart, GdbIsNotConfigured, PageKnown, StoppedSoFar, DebugTypeOK
  <2>3. DebugTypeOK'
    BY <1>4, <2>1 DEF GdbDoesNotStart, GdbIsNotConfigured, DebugTypeOK
  <2>4. SessionKnown' /\ StoppedSoFar' /\ PageKnown'
    BY <1>4, <2>2
    DEF GdbDoesNotStart, GdbIsNotConfigured, SessionKnown, StoppedSoFar, PageKnown
  <2> QED BY <2>3, <2>4
<1> QED BY <1>1, <1>2, <1>3, <1>4

LEMMA DeathsKeepDebug == DebugInv /\ DebuggerDies => DebugInv'
<1> SUFFICES ASSUME DebugInv, DebuggerDies PROVE DebugInv'
  OBVIOUS
<1> USE DEF DebugInv, DebugSteps
<1>1. UNCHANGED requestVars /\ UNCHANGED <<orphans, mock, session, page, closed>>
  BY DEF DebuggerDies
<1>2. UNCHANGED step
  BY <1>1 DEF requestVars
<1>3. CASE Running("gdb", gdb) # {} /\ gdb' = [gdb EXCEPT !.st = "exited"] /\ UNCHANGED <<dbg, leftover>>
  <2>1. /\ gdb \in Field /\ gdb.st = "running"
        /\ gdb' \in Field /\ gdb'.of = gdb.of /\ gdb'.st = "exited"
    BY <1>3 DEF Running, DebugTypeOK, Field, ChildState
  <2>2. DebugTypeOK'
    BY <1>1, <1>3, <2>1 DEF DebugTypeOK
  <2>3. /\ Referenced' \subseteq Referenced /\ Running("gdb", gdb)' = {}
        /\ ~CannotStop(gdb) /\ ~CannotStop(gdb)'
    BY <1>3, <2>1 DEF Referenced, Running, CannotStop, StopThrows
  <2>4. SessionKnown'
    BY <1>1, <1>2, <1>3, <2>1 DEF SessionKnown
  <2>5. StoppedSoFar' /\ PageKnown'
    BY <1>1, <1>2, <1>3, <2>3 DEF StoppedSoFar, PageKnown
  <2> QED BY <2>2, <2>4, <2>5
<1>4. CASE Running("dbg", dbg) # {} /\ dbg' = [dbg EXCEPT !.st = "exited"] /\ UNCHANGED <<gdb, leftover>>
  <2>1. /\ dbg \in Field /\ dbg.st = "running"
        /\ dbg' \in Field /\ dbg'.of = dbg.of /\ dbg'.st = "exited"
    BY <1>4 DEF Running, DebugTypeOK, Field, ChildState
  <2>2. DebugTypeOK'
    BY <1>1, <1>4, <2>1 DEF DebugTypeOK
  <2>3. Referenced' \subseteq Referenced /\ Running("dbg", dbg)' = {}
    BY <1>4, <2>1 DEF Referenced, Running
  <2>4. SessionKnown'
    BY <1>1, <1>2, <1>4, <2>1, DebugNullAssumption DEF SessionKnown
  <2>5. StoppedSoFar' /\ PageKnown'
    BY <1>1, <1>2, <1>4, <2>3 DEF StoppedSoFar, PageKnown
  <2> QED BY <2>2, <2>4, <2>5
<1>5. CASE \E c \in leftover : leftover' = leftover \ {c} /\ UNCHANGED <<gdb, dbg>>
  BY <1>1, <1>2, <1>5
  DEF DebugTypeOK, SessionKnown, StoppedSoFar, PageKnown, Referenced
<1> QED BY <1>3, <1>4, <1>5 DEF DebuggerDies

(* A chain's request is not the debugger's.                                *)
LEMMA FilesStepAside == OnFiles => UNCHANGED step \/ step' \notin DebugSteps
<1> SUFFICES ASSUME OnFiles PROVE UNCHANGED step \/ step' \notin DebugSteps
  OBVIOUS
<1> USE DEF Does, Goto, DebugSteps
<1>1. CASE StartFiles
  BY <1>1
  DEF StartFiles, BeginStart, PortTaken, FoundInitialised, InitChain, InitFails,
      InitDoesNotStart, StartThrows, CopyContracts, CopyFails, UpdateConfiguration,
      UpdateFails, RunNode, RunFails, RunIndexer
<1>2. CASE \E next \in {"idle", "start_again", "reset_indexer", "save"} : StopChain(next)
  BY <1>2 DEF StopChain
<1>3. CASE ResetIndexer \/ ResetNode \/ SaveEdit
  BY <1>3 DEF ResetIndexer, ResetNode, SaveEdit
<1>4. CASE NodeDies
  <2>1. UNCHANGED requestVars
    BY <1>4 DEF NodeDies
  <2> QED BY <2>1 DEF requestVars
<1> QED BY <1>1, <1>2, <1>3, <1>4 DEF OnFiles, FilesNext

LEMMA DebugStep == DebugInv /\ [DebuggedNext]_allVars => DebugInv'
<1> SUFFICES ASSUME DebugInv, [DebuggedNext]_allVars PROVE DebugInv'
  OBVIOUS
<1>1. CASE OnFiles \/ UNCHANGED allVars
  <2>1. UNCHANGED debugVars
    BY <1>1, UnchangedParts DEF OnFiles
  <2>2. UNCHANGED step \/ step' \notin DebugSteps
    BY <1>1, UnchangedParts, FilesStepAside
  <2>3. DebugTypeOK'
    BY <2>1 DEF debugVars, DebugInv, DebugTypeOK
  <2>4. SessionKnown'
    BY <2>1, <2>2 DEF debugVars, DebugInv, SessionKnown, DebugSteps
  <2>5. StoppedSoFar' /\ PageKnown'
    BY <2>1, <2>2
    DEF debugVars, DebugInv, StoppedSoFar, PageKnown, DebugSteps, Referenced, Running, CannotStop
  <2> QED BY <2>3, <2>4, <2>5 DEF DebugInv
<1>2. CASE OnDebugger
  BY <1>2, StopsKeepDebug, StartsKeepDebug, DeathsKeepDebug DEF OnDebugger, DebugNext
<1>3. CASE AppIsKilled \/ AppExits
  <2>1. DebugCrash /\ step' = "idle"
    BY <1>3 DEF AppIsKilled, AppExits, Goto
  <2>2. Referenced \subseteq Ttyd /\ orphans \subseteq Ttyd /\ leftover \subseteq Ttyd
    BY DEF DebugInv, DebugTypeOK, Referenced, Running, Ttyd, Tool, Field
  <2>3. DebugTypeOK'
    BY <2>1, <2>2 DEF DebugCrash, DebugInv, DebugTypeOK
  <2> QED
    BY <2>1, <2>3
    DEF DebugCrash, DebugInv, SessionKnown, StoppedSoFar, PageKnown, DebugSteps, Referenced,
        Running
<1> QED BY <1>1, <1>2, <1>3 DEF DebuggedNext

LEMMA DebugInvariance == DebuggedSpec => []DebugInv
  BY DebugInitially, DebugStep, PTL DEF DebuggedSpec

(* No ttyd of this run of the application is without a field that refers   *)
(* to it, and none runs once Close has returned.                           *)
THEOREM NoTtydIsForgotten == DebuggedSpec => []NoneIsForgotten
<1>1. DebugInv => NoneIsForgotten
  BY DEF DebugInv, StoppedSoFar, NoneIsForgotten
<1> QED BY <1>1, DebugInvariance, PTL

(* A page of a session shows that session and the transaction asked for,   *)
(* with the two exceptions FramesShowAsked names.                          *)
THEOREM PagesShowTheirSession == DebuggedSpec => []FramesShowAsked
<1>1. DebugInv => FramesShowAsked
  BY DEF DebugInv, StoppedSoFar, PageKnown, FramesShowAsked, Listening
<1> QED BY <1>1, DebugInvariance, PTL

LEMMA FaultsAreCounted == DebuggedSpec => [](faults \in 0..MaxFaults)
<1>1. DebuggedInit => faults \in 0..MaxFaults
  BY MaxFaultsAssumption DEF DebuggedInit
<1>2. [DebuggedNext]_allVars => UNCHANGED faults \/ Fault
  <2> SUFFICES ASSUME [DebuggedNext]_allVars PROVE UNCHANGED faults \/ Fault
    OBVIOUS
  <2> USE DEF Does
  <2>1. CASE StartFiles
    BY <2>1
    DEF StartFiles, BeginStart, PortTaken, FoundInitialised, InitChain, InitFails,
        InitDoesNotStart, CopyContracts, CopyFails, UpdateConfiguration, UpdateFails,
        RunNode, RunFails, RunIndexer
  <2>2. CASE (\E next \in {"idle", "start_again", "reset_indexer", "save"} : StopChain(next))
             \/ ResetIndexer \/ ResetNode \/ SaveEdit
    BY <2>2 DEF StopChain, ResetIndexer, ResetNode, SaveEdit
  <2>3. CASE NodeDies \/ DebuggerDies \/ UNCHANGED allVars
    <3>1. UNCHANGED requestVars
      BY <2>3 DEF NodeDies, DebuggerDies, allVars
    <3> QED BY <3>1 DEF requestVars
  <2>4. CASE OnDebugger /\ ~DebuggerDies
    BY <2>4
    DEF OnDebugger, DebugNext, Dump, WriteMockTx, Close, StopGdb, StopGdbThrows, StopThrew,
        StopDebugger, StopDebuggerThrows, MakeBoth, StartDebugger, StartGdb,
        DebuggerDoesNotStart, GdbDoesNotStart, GdbIsNotConfigured
  <2>5. CASE AppIsKilled \/ AppExits
    BY <2>5 DEF AppIsKilled, AppExits
  <2> QED
    BY <2>1, <2>2, <2>3, <2>4, <2>5 DEF DebuggedNext, OnFiles, FilesNext
<1>3. faults \in 0..MaxFaults /\ (UNCHANGED faults \/ Fault) => (faults \in 0..MaxFaults)'
  BY MaxFaultsAssumption DEF Fault
<1> QED BY <1>1, <1>2, <1>3, PTL DEF DebuggedSpec

(* Files, requests and children have the types their fields have.          *)
THEOREM DebuggedTypes == DebuggedSpec => []DebuggedTypeOK
<1>1. FilesInv /\ DebugInv /\ faults \in 0..MaxFaults => DebuggedTypeOK
  BY DEF FilesInv, DebugInv, DebuggedTypeOK
<1> QED BY <1>1, FilesInvariance, DebugInvariance, FaultsAreCounted, PTL
=============================================================================
