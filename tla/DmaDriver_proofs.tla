-------------------------- MODULE DmaDriver_proofs --------------------------
(***************************************************************************)
(* For any number of channels, buffers and commands: no program buffer is  *)
(* leaked, shared, freed before its program has signalled or written before*)
(* its program has ended, and success is reported only for data that have  *)
(* been moved.  Two things are assumed throughout: the program leaves a    *)
(* command alone while a channel has it, and FaultISR does not time out on *)
(* the debug unit.  Only that no program is written over before its end    *)
(* needs a third: that a channel which has signalled has ended when the    *)
(* program next calls for it.  Whether the fault interrupt waits for a     *)
(* DMAGO in progress does not matter here.                                 *)
(***************************************************************************)
EXTENDS DmaDriver, WellFoundedInduction, TLAPS

\* The DMA program of a command.
ProgramOf(cmd) == IF cmd \in UserDmaProg THEN UserProgram(cmd) ELSE GeneratedDmaProg[cmd]

\* A command is in use by one channel, has a program, and its buffer, if it has
\* one, is of that channel.
InUseOnce ==
    \A c \in Channels : DmaCmdToHw[c] # NULL =>
        /\ \A d \in Channels : d # c => DmaCmdToHw[d] # DmaCmdToHw[c]
        /\ GeneratedDmaProg[DmaCmdToHw[c]] # NULL => GeneratedDmaProg[DmaCmdToHw[c]][1] = c
        /\ DmaCmdToHw[c] \in UserDmaProg \/ GeneratedDmaProg[DmaCmdToHw[c]] # NULL

\* A channel that executes or faults works for its command; one that has only
\* DMAEND left may have lost it, or have got another unless channels end in
\* time, but what it runs is of its own buffers.
ThreadsWork ==
    \A c \in Channels :
        /\ thread[c] \in {"Executing", "Faulting"} => DmaCmdToHw[c] # NULL /\ c \notin INTSTATUS
        /\ thread[c] \in {"Stopped", "Faulting"} => running[c] = NULL
        /\ thread[c] = "Executing" => running[c] = ProgramOf(DmaCmdToHw[c])
        /\ thread[c] = "Ending" =>
              /\ running[c] \in ProgBufPool => running[c][1] = c
              /\ EndsInTime /\ DmaCmdToHw[c] # NULL => running[c] = ProgramOf(DmaCmdToHw[c])

\* A channel that has signalled has moved the data of its command.
SignalsTold ==
    \A c \in INTSTATUS : DmaCmdToHw[c] # NULL /\ DmaCmdToHw[c] \notin owed

\* A DMAGO under way is for the command of its channel, which does not execute;
\* nobody else's DMAGO is in the debug registers, but a DMAKILL may be.
DebugReady ==
    /\ pc # "idle" /\ task.op = "GO" =>
        /\ DmaCmdToHw[task.chan] # NULL /\ task.prog = ProgramOf(DmaCmdToHw[task.chan])
        /\ thread[task.chan] \in {"Stopped", "Ending"} /\ task.chan \notin INTSTATUS
    /\ DBGINST.op = "GO" => pc = "command" /\ DBGINST = task

DmaInv ==
    /\ TypeOK /\ BuffersAreOwned /\ SuccessMeansMoved
    /\ InUseOnce /\ ThreadsWork /\ SignalsTold /\ DebugReady

-----------------------------------------------------------------------------
\* The channel that FaultISR kills last is one of those it kills.
LEMMA LastIsOne ==
    ASSUME NEW cs \in SUBSET Channels, cs # {}
    PROVE  Last(cs) \in cs
  <1> DEFINE N == XDMAPS_CHANNELS_PER_DEV
             T == {N - c : c \in cs}
  <1>1. N \in Nat /\ cs \subseteq 0 .. N - 1
    BY DmaAssumption DEF Channels
  <1>2. T \subseteq Nat /\ T # {}
    <2>1. \A c \in cs : N - c \in Nat
      BY <1>1
    <2> HIDE DEF N
    <2> QED BY <2>1, Zenon
  <1>3. PICK x \in T : \A y \in T : ~ (<<y, x>> \in OpToRel(<, Nat))
    <2> HIDE DEF T
    <2> QED BY <1>2, WFMin, NatLessThanWellFounded, Zenon
  <1>4. \A y \in T : x <= y
    <2> TAKE y \in T
    <2>1. x \in Nat /\ y \in Nat
      BY <1>2
    <2>2. ~ (y < x)
      BY <1>3, <2>1, Zenon DEF OpToRel
    <2> QED BY <2>1, <2>2
  <1>5. PICK c \in cs : x = N - c
    OBVIOUS
  <1>6. \A d \in cs : d <= c
    BY <1>1, <1>4, <1>5
  <1> QED BY <1>6, Zenon DEF Last

-----------------------------------------------------------------------------
LEMMA DriverInit == Init => DmaInv
  BY DmaAssumption DEF Init, DmaInv, TypeOK, BuffersAreOwned, SuccessMeansMoved, InUseOnce,
     ThreadsWork, SignalsTold, DebugReady, Instructions, Idle

-----------------------------------------------------------------------------
\* A program of the caller's is not in a buffer of the driver.
LEMMA UserProgramApart == \A cmd : UserProgram(cmd) \notin ProgBufPool
  BY DmaAssumption DEF UserProgram, ProgBufPool, Bufs

\* A channel executes the program of its command; a buffer it runs is its own.
LEMMA RunsItsOwn ==
    ASSUME DmaInv, NEW c \in Channels, thread[c] = "Executing"
    PROVE  /\ DmaCmdToHw[c] \in Commands /\ c \notin INTSTATUS
           /\ running[c] \in ProgBufPool =>
                 running[c] = GeneratedDmaProg[DmaCmdToHw[c]] /\ running[c][1] = c
           /\ DmaCmdToHw[c] \in Moved(running[c])
  <1> DEFINE cmd == DmaCmdToHw[c]
  <1>1. cmd \in Commands /\ running[c] = ProgramOf(cmd) /\ c \notin INTSTATUS
    BY DEF DmaInv, ThreadsWork, TypeOK
  <1>2. GeneratedDmaProg[cmd] \in ProgBufPool \cup {NULL} /\ NULL \notin ProgBufPool
    BY <1>1, DmaAssumption DEF DmaInv, TypeOK, DmaProgs
  <1>3. GeneratedDmaProg[cmd] # NULL => GeneratedDmaProg[cmd][1] = c
    BY <1>1, DmaAssumption DEF DmaInv, InUseOnce
  <1>4. running[c] \in ProgBufPool => running[c] = GeneratedDmaProg[cmd]
    BY <1>1, UserProgramApart DEF ProgramOf
  <1>5. cmd \in Moved(running[c])
    BY <1>1 DEF Moved, ProgramOf
  <1> QED BY <1>1, <1>2, <1>3, <1>4, <1>5

\* A DMA program signals: the data of its command have been moved.
LEMMA StepSignal ==
    ASSUME DmaInv, NEW c \in Channels, Signal(c)
    PROVE  DmaInv'
  <1> USE DmaAssumption DEF DmaInv
  <1>0. /\ thread[c] = "Executing" /\ thread' = [thread EXCEPT ![c] = "Ending"]
        /\ INTSTATUS' = INTSTATUS \cup {c}
        /\ DmaCmdToHw[c] \in Commands /\ owed' \subseteq owed /\ DmaCmdToHw[c] \notin owed'
        /\ running[c] \in ProgBufPool => running[c][1] = c
        /\ UNCHANGED <<driverVars, debugVars, running, manager, lost>>
    BY RunsItsOwn DEF Signal
  <1>1. TypeOK'
    BY <1>0 DEF driverVars, debugVars, Instructions, TypeOK
  <1>2. BuffersAreOwned'
    BY <1>0 DEF driverVars, BuffersAreOwned
  <1>3. SuccessMeansMoved'
    BY <1>0 DEF driverVars, SuccessMeansMoved
  <1>4. InUseOnce'
    BY <1>0 DEF driverVars, InUseOnce
  <1>5. ThreadsWork'
    BY <1>0 DEF driverVars, TypeOK, ProgramOf, ThreadsWork
  <1>6. SignalsTold'
    BY <1>0 DEF driverVars, SignalsTold
  <1>7. DebugReady'
    BY <1>0 DEF driverVars, debugVars, TypeOK, ProgramOf, DebugReady
  <1> QED BY <1>1, <1>2, <1>3, <1>4, <1>5, <1>6, <1>7

LEMMA GoHasChannel ==
    ASSUME TypeOK, task.op = "GO"
    PROVE  task.chan \in Channels
  BY DEF TypeOK, Instructions, Idle

\* What a step does not disturb that leaves the driver's structures alone.
LEMMA DriverUntouched ==
    ASSUME DmaInv, UNCHANGED <<driverVars, INTSTATUS, owed>>
    PROVE  (BuffersAreOwned /\ SuccessMeansMoved /\ InUseOnce /\ SignalsTold)'
  BY DEF DmaInv, driverVars, BuffersAreOwned, SuccessMeansMoved, InUseOnce, SignalsTold

\* The channel stops, with its command or without.
LEMMA StepEnd ==
    ASSUME DmaInv, NEW c \in Channels, End(c)
    PROVE  DmaInv'
  <1> USE DmaAssumption DEF DmaInv
  <1>1. UNCHANGED <<driverVars, INTSTATUS, owed>>
    BY DEF End
  <1>2. TypeOK'
    BY DEF End, driverVars, debugVars, Instructions, TypeOK
  <1>3. ThreadsWork'
    BY DEF End, driverVars, TypeOK, ProgramOf, ThreadsWork
  <1>4. DebugReady'
    BY DEF End, driverVars, debugVars, TypeOK, ProgramOf, DebugReady
  <1> QED BY <1>1, <1>2, <1>3, <1>4, DriverUntouched

LEMMA StepFail ==
    ASSUME DmaInv, NEW c \in Channels, Fail(c)
    PROVE  DmaInv'
  <1> USE DmaAssumption DEF DmaInv
  <1>1. UNCHANGED <<driverVars, INTSTATUS, owed>>
    BY DEF Fail, hardVars
  <1>2. TypeOK'
    BY DEF Fail, driverVars, debugVars, hardVars,
           Instructions, TypeOK
  <1>3. ThreadsWork'
    BY DEF Fail, driverVars, hardVars, TypeOK, ProgramOf,
           ThreadsWork
  <1>4. DebugReady'
    BY DEF Fail, driverVars, debugVars, hardVars,
           TypeOK, ThreadsWork, ProgramOf, DebugReady
  <1> QED BY <1>1, <1>2, <1>3, <1>4, DriverUntouched

LEMMA StepWrite ==
    ASSUME DmaInv, Write
    PROVE  DmaInv'
  <1> USE DmaAssumption DEF DmaInv
  <1>1. UNCHANGED <<driverVars, INTSTATUS, owed>>
    BY DEF Write, hardVars
  <1>2. TypeOK'
    BY DEF Write, driverVars, debugVars, hardVars,
           Instructions, TypeOK
  <1>3. ThreadsWork'
    BY DEF Write, driverVars, hardVars, TypeOK, ProgramOf,
           ThreadsWork
  <1>4. DebugReady'
    BY DEF Write, driverVars, debugVars, hardVars,
           TypeOK, ThreadsWork, ProgramOf, DebugReady
  <1> QED BY <1>1, <1>2, <1>3, <1>4, DriverUntouched

\* What the debug registers hold is the task of the program, or a DMAKILL.
LEMMA StepCommand ==
    ASSUME DmaInv, Command
    PROVE  DmaInv'
  <1> USE DmaAssumption DEF DmaInv
  <1>1. UNCHANGED <<driverVars, INTSTATUS, owed>>
    BY DEF Command, Go, Kill, KillChannels, Idle, hardVars
  <1>2. TypeOK'
    BY DEF Command, Go, Kill, KillChannels, Idle, driverVars, debugVars, hardVars,
           Instructions, TypeOK
  <1>3. ThreadsWork'
    <2>1. CASE Go(DBGINST)
      <3>1. DBGINST.op = "GO" /\ pc # "idle" /\ DBGINST = task /\ INTSTATUS' = INTSTATUS
        BY <2>1 DEF Go, Command, DebugReady
      <3>2. DBGINST.prog = ProgramOf(DmaCmdToHw[DBGINST.chan])
            /\ DmaCmdToHw[DBGINST.chan] # NULL /\ DBGINST.chan \notin INTSTATUS
        BY <3>1 DEF DebugReady
      <3>3. CASE UNCHANGED <<thread, running>>
        BY <3>1, <3>3 DEF Command, driverVars, ProgramOf, ThreadsWork
      <3>4. CASE /\ thread' = [thread EXCEPT ![DBGINST.chan] = "Executing"]
                 /\ running' = [running EXCEPT ![DBGINST.chan] = DBGINST.prog]
        BY <3>1, <3>2, <3>4 DEF Command, driverVars, TypeOK, ProgramOf, ThreadsWork
      <3> QED BY <2>1, <3>2, <3>3, <3>4 DEF Go
    <2>2. CASE Kill(DBGINST)
      BY <2>2 DEF Command, Kill, KillChannels, driverVars, ProgramOf, ThreadsWork
    <2> QED BY <2>1, <2>2 DEF Command
  <1>4. DebugReady'
    BY DEF Command, Go, Kill, KillChannels, Idle, driverVars, debugVars, hardVars,
           TypeOK, ThreadsWork, ProgramOf, DebugReady
  <1> QED BY <1>1, <1>2, <1>3, <1>4, DriverUntouched

LEMMA StepTimeOut ==
    ASSUME DmaInv, TimeOut
    PROVE  DmaInv'
  <1> USE DmaAssumption DEF DmaInv
  <1>1. UNCHANGED <<driverVars, INTSTATUS, owed>>
    BY DEF TimeOut, Idle, hardVars
  <1>2. TypeOK'
    BY DEF TimeOut, Idle, driverVars, debugVars, hardVars,
           Instructions, TypeOK
  <1>3. ThreadsWork'
    BY DEF TimeOut, Idle, driverVars, hardVars, TypeOK, ProgramOf,
           ThreadsWork
  <1>4. DebugReady'
    BY DEF TimeOut, Idle, driverVars, debugVars, hardVars,
           TypeOK, ThreadsWork, ProgramOf, DebugReady
  <1> QED BY <1>1, <1>2, <1>3, <1>4, DriverUntouched

LEMMA StepResetChannel ==
    ASSUME DmaInv, NEW c \in Channels, XDmaPs_ResetChannel(c)
    PROVE  DmaInv'
  <1> USE DmaAssumption DEF DmaInv
  <1>1. UNCHANGED <<driverVars, INTSTATUS, owed>>
    BY DEF XDmaPs_ResetChannel, DMAKILL, hardVars
  <1>2. TypeOK'
    BY DEF XDmaPs_ResetChannel, DMAKILL, driverVars, debugVars, hardVars,
           Instructions, TypeOK
  <1>3. ThreadsWork'
    BY DEF XDmaPs_ResetChannel, DMAKILL, driverVars, hardVars, TypeOK, ProgramOf,
           ThreadsWork
  <1>4. DebugReady'
    BY DEF XDmaPs_ResetChannel, DMAKILL, driverVars, debugVars, hardVars,
           TypeOK, ThreadsWork, ProgramOf, DebugReady
  <1> QED BY <1>1, <1>2, <1>3, <1>4, DriverUntouched

LEMMA StepResetManager ==
    ASSUME DmaInv, XDmaPs_ResetManager
    PROVE  DmaInv'
  <1> USE DmaAssumption DEF DmaInv
  <1>1. UNCHANGED <<driverVars, INTSTATUS, owed>>
    BY DEF XDmaPs_ResetManager, KillManager, hardVars
  <1>2. TypeOK'
    BY DEF XDmaPs_ResetManager, KillManager, driverVars, debugVars, hardVars,
           Instructions, TypeOK
  <1>3. ThreadsWork'
    BY DEF XDmaPs_ResetManager, KillManager, driverVars, hardVars, TypeOK, ProgramOf,
           ThreadsWork
  <1>4. DebugReady'
    BY DEF XDmaPs_ResetManager, KillManager, driverVars, debugVars, hardVars,
           TypeOK, ThreadsWork, ProgramOf, DebugReady
  <1> QED BY <1>1, <1>2, <1>3, <1>4, DriverUntouched

-----------------------------------------------------------------------------
\* A free buffer becomes the buffer of a command that has none.
LEMMA BufferTaken ==
    ASSUME DmaInv, NEW c \in Channels, NEW cmd \in Commands, NEW p \in ProgBufPool,
           GeneratedDmaProg[cmd] = NULL, Generate(c, cmd, p)
    PROVE  BuffersAreOwned'
  <1> USE DmaAssumption DEF DmaInv
  <1>1. /\ p \notin Allocated /\ Allocated' = Allocated \cup {p} /\ p # NULL
        /\ GeneratedDmaProg'[cmd] = p
        /\ \A other \in Commands \ {cmd} : GeneratedDmaProg'[other] = GeneratedDmaProg[other]
    BY DEF Generate, TypeOK, DmaProgs
  <1>2. \A other \in Commands \ {cmd} : GeneratedDmaProg[other] # p
    BY <1>1 DEF BuffersAreOwned
  <1>3. ASSUME NEW q \in Allocated' PROVE \E d \in Commands : GeneratedDmaProg'[d] = q
    BY <1>1, <1>3 DEF BuffersAreOwned, TypeOK, DmaProgs
  <1>4. ASSUME NEW d \in Commands, GeneratedDmaProg'[d] # NULL
        PROVE  /\ GeneratedDmaProg'[d] \in Allocated'
               /\ \A other \in Commands \ {d} : GeneratedDmaProg'[other] # GeneratedDmaProg'[d]
    BY <1>1, <1>2, <1>4 DEF BuffersAreOwned
  <1> QED BY <1>3, <1>4 DEF BuffersAreOwned

\* A patient program's command is in no channel, so no channel's program changes.
LEMMA StepGenDmaProg ==
    ASSUME DmaInv, Patient, NEW c \in Channels, NEW cmd \in Commands,
           XDmaPs_GenDmaProg(c, cmd)
    PROVE  DmaInv'
  <1> USE DmaAssumption DEF DmaInv
  <1>1. ~ InUse(cmd) /\ GeneratedDmaProg[cmd] = NULL
    BY DEF XDmaPs_GenDmaProg, MayUse
  <1>2. PICK p \in ProgBufPool : Generate(c, cmd, p)
    BY DEF XDmaPs_GenDmaProg
  <1>3. UNCHANGED <<DmaStatus, DmaCmdToHw, HoldDmaProg, debugVars, hardVars, owed, lost>>
    BY DEF XDmaPs_GenDmaProg
  <1>4. TypeOK'
    BY <1>2, <1>3 DEF Generate, debugVars, hardVars, TypeOK
  <1>5. BuffersAreOwned'
    BY <1>1, <1>2, BufferTaken
  <1>6. SuccessMeansMoved'
    BY <1>3 DEF SuccessMeansMoved
  <1>7. \A d \in Channels : DmaCmdToHw[d] # NULL =>
            GeneratedDmaProg'[DmaCmdToHw[d]] = GeneratedDmaProg[DmaCmdToHw[d]]
    BY <1>1, <1>2 DEF Generate, InUse, TypeOK
  <1>8. InUseOnce'
    BY <1>3, <1>7 DEF InUseOnce
  <1>9. ThreadsWork'
    BY <1>3, <1>7 DEF hardVars, TypeOK, ThreadsWork, ProgramOf
  <1>10. SignalsTold'
    BY <1>3 DEF hardVars, SignalsTold
  <1>11. DebugReady'
    BY <1>3, <1>7, GoHasChannel DEF debugVars, hardVars, DebugReady, ProgramOf
  <1> QED BY <1>4, <1>5, <1>6, <1>8, <1>9, <1>10, <1>11

LEMMA StepFreeDmaProg ==
    ASSUME DmaInv, Patient, NEW c \in Channels, NEW cmd \in Commands,
           XDmaPs_FreeDmaProg(c, cmd)
    PROVE  DmaInv'
  <1> USE DmaAssumption DEF DmaInv
  <1>1. ~ InUse(cmd) /\ GeneratedDmaProg[cmd] # NULL /\ GeneratedDmaProg[cmd][1] = c
    BY DEF XDmaPs_FreeDmaProg, MayUse, Fits
  <1>2. /\ Allocated' = Allocated \ {GeneratedDmaProg[cmd]}
        /\ GeneratedDmaProg' = [GeneratedDmaProg EXCEPT ![cmd] = NULL]
        /\ UNCHANGED <<DmaStatus, DmaCmdToHw, HoldDmaProg, debugVars, hardVars, owed, lost>>
    BY <1>1 DEF XDmaPs_FreeDmaProg
  <1>3. TypeOK'
    BY <1>2 DEF debugVars, hardVars, TypeOK
  <1>4. BuffersAreOwned'
    BY <1>1, <1>2 DEF TypeOK, BuffersAreOwned
  <1>5. SuccessMeansMoved'
    BY <1>2 DEF SuccessMeansMoved
  <1>6. \A d \in Channels : DmaCmdToHw[d] # NULL =>
            GeneratedDmaProg'[DmaCmdToHw[d]] = GeneratedDmaProg[DmaCmdToHw[d]]
    BY <1>1, <1>2 DEF InUse, TypeOK
  <1>7. InUseOnce'
    BY <1>2, <1>6 DEF InUseOnce
  <1>8. ThreadsWork'
    BY <1>2, <1>6 DEF hardVars, TypeOK, ThreadsWork, ProgramOf
  <1>9. SignalsTold'
    BY <1>2 DEF hardVars, SignalsTold
  <1>10. DebugReady'
    BY <1>2, <1>6, GoHasChannel DEF debugVars, hardVars, DebugReady, ProgramOf
  <1> QED BY <1>3, <1>4, <1>5, <1>7, <1>8, <1>9, <1>10

\* XDmaPs_Start, once the command has its program: the channel, which was free,
\* and its command, which was in no channel, belong together.
LEMMA Launched ==
    ASSUME DmaInv, TypeOK', BuffersAreOwned',
           NEW c \in Channels, NEW cmd \in Commands, NEW p, NEW hold \in BOOLEAN,
           Launch(c, cmd, p, hold), pc = "idle", ~ IsActive(c), ~ InUse(cmd), EndsInTime => thread[c] # "Ending",
           DmaStatus' = [DmaStatus EXCEPT ![cmd] = "failure"],
           \A d \in Commands \ {cmd} : GeneratedDmaProg'[d] = GeneratedDmaProg[d],
           GeneratedDmaProg'[cmd] # NULL => GeneratedDmaProg'[cmd][1] = c,
           cmd \in UserDmaProg \/ GeneratedDmaProg'[cmd] # NULL,
           p = IF cmd \in UserDmaProg THEN UserProgram(cmd) ELSE GeneratedDmaProg'[cmd]
    PROVE  DmaInv'
  <1> USE DmaAssumption DEF DmaInv
  <1>1. /\ DmaCmdToHw' = [DmaCmdToHw EXCEPT ![c] = cmd] /\ DmaCmdToHw[c] = NULL
        /\ owed' = owed \cup {cmd} /\ task' = DMAGO(c, p) /\ pc' = "wait"
        /\ UNCHANGED <<DBGINST, thread, running, manager, INTSTATUS>>
    BY DEF Launch, IsActive, hardVars
  <1>2. \A d \in Channels \ {c} : DmaCmdToHw'[d] = DmaCmdToHw[d] /\ DmaCmdToHw[d] # cmd
    BY <1>1 DEF InUse, TypeOK
  <1>3. DmaCmdToHw'[c] = cmd /\ cmd # NULL /\ c \notin INTSTATUS
        /\ thread[c] \in {"Stopped", "Ending"}
    BY <1>1 DEF TypeOK, SignalsTold, ThreadsWork
  <1>4. \A d \in Channels \ {c} : DmaCmdToHw[d] # NULL =>
            ProgramOf(DmaCmdToHw[d])' = ProgramOf(DmaCmdToHw[d])
    BY <1>2 DEF TypeOK, ProgramOf
  <1>5. SuccessMeansMoved'
    BY <1>1 DEF TypeOK, SuccessMeansMoved
  <1>6. InUseOnce'
    BY <1>2, <1>3 DEF TypeOK, InUseOnce
  <1>7. ThreadsWork'
    BY <1>1, <1>2, <1>3, <1>4 DEF ThreadsWork
  <1>8. SignalsTold'
    BY <1>1, <1>2, <1>3 DEF TypeOK, SignalsTold
  <1>9. DebugReady'
    <2>1. DBGINST.op # "GO"
      BY DEF DebugReady
    <2> QED BY <1>1, <1>3, <2>1 DEF DMAGO, DebugReady, ProgramOf
  <1> QED BY <1>5, <1>6, <1>7, <1>8, <1>9

LEMMA StepStart ==
    ASSUME DmaInv, Patient, NEW c \in Channels, NEW cmd \in Commands, NEW hold \in BOOLEAN,
           XDmaPs_Start(c, cmd, hold)
    PROVE  DmaInv'
  <1> USE DmaAssumption DEF DmaInv
  <1> DEFINE own == IF cmd \in UserDmaProg THEN UserProgram(cmd) ELSE GeneratedDmaProg[cmd]
  <1>1. /\ pc = "idle" /\ ~ InUse(cmd) /\ Fits(c, cmd)
        /\ EndsInTime /\ thread[c] = "Ending" => IsActive(c)
        /\ DmaStatus' = [DmaStatus EXCEPT ![cmd] = "failure"]
    BY DEF XDmaPs_Start, MayUse
  <1>2. CASE Refuse(c, cmd)
    <2>1. UNCHANGED <<Allocated, GeneratedDmaProg, DmaCmdToHw, HoldDmaProg, debugVars, hardVars,
                      owed, lost>>
      BY <1>2 DEF Refuse
    <2>2. TypeOK'
      BY <1>1, <2>1 DEF debugVars, hardVars, TypeOK
    <2>3. BuffersAreOwned' /\ InUseOnce' /\ SignalsTold' /\ ThreadsWork' /\ DebugReady'
      BY <2>1 DEF debugVars, hardVars, BuffersAreOwned, InUseOnce, SignalsTold, ThreadsWork,
                  DebugReady, ProgramOf
    <2>4. SuccessMeansMoved'
      BY <1>1, <2>1 DEF TypeOK, SuccessMeansMoved
    <2> QED BY <2>2, <2>3, <2>4
  <1>3. CASE /\ ~ IsActive(c) /\ cmd \notin UserDmaProg /\ GeneratedDmaProg[cmd] = NULL
             /\ \E p \in ProgBufPool : Generate(c, cmd, p) /\ Launch(c, cmd, p, hold)
    <2>1. PICK p \in ProgBufPool : Generate(c, cmd, p) /\ Launch(c, cmd, p, hold)
      BY <1>3
    <2>2. /\ p \in DmaProgs /\ p # NULL /\ p[1] = c /\ GeneratedDmaProg'[cmd] = p
          /\ \A d \in Commands \ {cmd} : GeneratedDmaProg'[d] = GeneratedDmaProg[d]
      BY <2>1 DEF Generate, TypeOK, DmaProgs
    <2>3. TypeOK'
      BY <1>1, <2>1, <2>2 DEF Generate, Launch, DMAGO, Instructions, hardVars, TypeOK
    <2>4. BuffersAreOwned'
      BY <1>3, <2>1, BufferTaken
    <2> QED BY <1>1, <1>3, <2>1, <2>2, <2>3, <2>4, Launched
  <1>4. CASE /\ ~ IsActive(c) /\ (cmd \in UserDmaProg \/ GeneratedDmaProg[cmd] # NULL)
             /\ Launch(c, cmd, own, hold) /\ UNCHANGED <<Allocated, GeneratedDmaProg>>
    <2>1. own \in DmaProgs
      BY <1>4 DEF TypeOK, DmaProgs
    <2>2. TypeOK'
      BY <1>1, <1>4, <2>1 DEF Launch, DMAGO, Instructions, hardVars, TypeOK
    <2>3. BuffersAreOwned'
      BY <1>4 DEF BuffersAreOwned
    <2> QED BY <1>1, <1>4, <2>2, <2>3, Launched DEF Fits
  <1> QED BY <1>2, <1>3, <1>4 DEF XDmaPs_Start

-----------------------------------------------------------------------------
\* The service routines take back the commands of some channels, with exactly
\* the buffers of those that are not held; other channels keep theirs.
LEMMA TakenBack ==
    ASSUME DmaInv, NEW cs \in SUBSET Channels, NEW status \in {"fault", "done"},
           \A c \in cs : DmaCmdToHw[c] # NULL, TakeBack(cs, status)
    PROVE  /\ Allocated' \subseteq Allocated /\ HoldDmaProg' = HoldDmaProg
           /\ GeneratedDmaProg' \in [Commands -> ProgBufPool \cup {NULL}]
           /\ DmaCmdToHw' = [c \in Channels |-> IF c \in cs THEN NULL ELSE DmaCmdToHw[c]]
           /\ BuffersAreOwned' /\ InUseOnce'
           /\ \A d \in Channels \ cs : DmaCmdToHw[d] # NULL =>
                 ProgramOf(DmaCmdToHw[d])' = ProgramOf(DmaCmdToHw[d])
  <1> USE DmaAssumption DEF DmaInv
  <1> DEFINE Freed(cmd) == \E c \in cs : ~ HoldDmaProg[c] /\ DmaCmdToHw[c] = cmd
             Emptied(q) == \E c \in cs : /\ ~ HoldDmaProg[c] /\ q[1] = c
                                         /\ q = GeneratedDmaProg[DmaCmdToHw[c]]
  <1>1. /\ DmaCmdToHw' = [c \in Channels |-> IF c \in cs THEN NULL ELSE DmaCmdToHw[c]]
        /\ HoldDmaProg' = HoldDmaProg /\ Allocated' = {q \in Allocated : ~ Emptied(q)}
    BY DEF TakeBack
  <1>2. GeneratedDmaProg' =
            [cmd \in Commands |-> IF Freed(cmd) THEN NULL ELSE GeneratedDmaProg[cmd]]
    BY DEF TakeBack, TypeOK
  <1>3. GeneratedDmaProg' \in [Commands -> ProgBufPool \cup {NULL}]
    BY <1>2 DEF TypeOK
  <1>4. ASSUME NEW q \in Allocated' PROVE \E cmd \in Commands : GeneratedDmaProg'[cmd] = q
    <2>1. PICK cmd \in Commands : GeneratedDmaProg[cmd] = q
      BY <1>1, <1>4 DEF BuffersAreOwned
    <2>2. q # NULL
      BY <1>1, <1>4 DEF TypeOK, DmaProgs
    <2>3. ~ Freed(cmd)
      BY <1>1, <1>4, <2>1, <2>2 DEF InUseOnce
    <2> QED BY <1>2, <2>1, <2>3
  <1>5. ASSUME NEW cmd \in Commands, GeneratedDmaProg'[cmd] # NULL
        PROVE  /\ GeneratedDmaProg'[cmd] \in Allocated'
               /\ \A other \in Commands \ {cmd} : GeneratedDmaProg'[other] # GeneratedDmaProg'[cmd]
    <2>1. ~ Freed(cmd) /\ GeneratedDmaProg'[cmd] = GeneratedDmaProg[cmd]
      BY <1>2, <1>5
    <2>2. /\ GeneratedDmaProg[cmd] \in Allocated
          /\ \A other \in Commands \ {cmd} : GeneratedDmaProg[other] # GeneratedDmaProg[cmd]
      BY <1>5, <2>1 DEF BuffersAreOwned
    <2>3. ~ Emptied(GeneratedDmaProg[cmd])
      BY <2>1, <2>2 DEF TypeOK
    <2>4. \A other \in Commands \ {cmd} : GeneratedDmaProg'[other] \in {NULL, GeneratedDmaProg[other]}
      BY <1>2
    <2> QED BY <1>1, <1>5, <2>1, <2>2, <2>3, <2>4
  <1>6. BuffersAreOwned'
    BY <1>4, <1>5 DEF BuffersAreOwned
  <1>7. ASSUME NEW d \in Channels \ cs, DmaCmdToHw[d] # NULL
        PROVE  GeneratedDmaProg'[DmaCmdToHw[d]] = GeneratedDmaProg[DmaCmdToHw[d]]
    <2>1. ~ Freed(DmaCmdToHw[d])
      BY <1>7 DEF InUseOnce
    <2> QED BY <1>2, <1>7, <2>1 DEF TypeOK
  <1>8. InUseOnce'
    BY <1>1, <1>7 DEF InUseOnce
  <1> QED BY <1>1, <1>3, <1>6, <1>7, <1>8 DEF ProgramOf

\* A buffer that a channel runs is in use as long as the channel has a command.
LEMMA RunsInUse ==
    ASSUME DmaInv, EndsInTime, NEW c \in Channels, running[c] \in ProgBufPool, DmaCmdToHw[c] # NULL
    PROVE  /\ thread[c] \in {"Executing", "Ending"} /\ running[c] \in Allocated /\ running[c][1] = c
           /\ GeneratedDmaProg[DmaCmdToHw[c]] = running[c]
  <1>1. running[c] # NULL /\ thread[c] \in {"Executing", "Ending"}
    BY DmaAssumption DEF DmaInv, ThreadsWork, TypeOK, DmaProgs
  <1>2. DmaCmdToHw[c] \in Commands /\ running[c] = ProgramOf(DmaCmdToHw[c])
    BY <1>1 DEF DmaInv, ThreadsWork, TypeOK
  <1>3. running[c] = GeneratedDmaProg[DmaCmdToHw[c]]
    BY <1>2, UserProgramApart DEF ProgramOf
  <1> QED BY <1>1, <1>2, <1>3 DEF DmaInv, BuffersAreOwned, InUseOnce

LEMMA StepDoneISR ==
    ASSUME DmaInv, NEW c \in Channels, XDmaPs_DoneISR_n(c)
    PROVE  DmaInv'
  <1> USE DmaAssumption DEF DmaInv
  <1>1. /\ c \in INTSTATUS /\ INTSTATUS' = INTSTATUS \ {c} /\ TakeBack({c}, "done")
        /\ UNCHANGED <<debugVars, thread, running, manager, owed, lost>>
    BY DEF XDmaPs_DoneISR_n
  <1>2. DmaCmdToHw[c] # NULL /\ DmaCmdToHw[c] \notin owed /\ thread[c] \in {"Stopped", "Ending"}
    BY <1>1 DEF SignalsTold, ThreadsWork, TypeOK
  <1>3. /\ Allocated' \subseteq Allocated /\ HoldDmaProg' = HoldDmaProg
        /\ GeneratedDmaProg' \in [Commands -> ProgBufPool \cup {NULL}]
        /\ DmaCmdToHw' = [d \in Channels |-> IF d = c THEN NULL ELSE DmaCmdToHw[d]]
        /\ BuffersAreOwned' /\ InUseOnce'
        /\ \A d \in Channels \ {c} : DmaCmdToHw[d] # NULL =>
              ProgramOf(DmaCmdToHw[d])' = ProgramOf(DmaCmdToHw[d])
    BY <1>1, <1>2, TakenBack
  <1>4. DmaStatus' = [cmd \in Commands |-> IF cmd = DmaCmdToHw[c] THEN "done" ELSE DmaStatus[cmd]]
    BY <1>1, <1>2 DEF TakeBack
  <1>5. TypeOK'
    BY <1>1, <1>3, <1>4 DEF debugVars, TypeOK
  <1>6. SuccessMeansMoved'
    BY <1>1, <1>2, <1>4 DEF SuccessMeansMoved
  <1>7. ThreadsWork'
    <2>1. DmaCmdToHw'[c] = NULL
      BY <1>3
    <2>2. running[c] \in ProgBufPool => running[c][1] = c
      BY <1>2 DEF ThreadsWork, TypeOK, DmaProgs
    <2>3. ASSUME NEW d \in Channels, d # c, DmaCmdToHw'[d] # NULL
          PROVE  DmaCmdToHw'[d] = DmaCmdToHw[d] /\ ProgramOf(DmaCmdToHw[d])' = ProgramOf(DmaCmdToHw[d])
      BY <1>3, <2>3
    <2>4. \A d \in Channels : d # c => DmaCmdToHw'[d] = DmaCmdToHw[d]
      BY <1>3
    <2> QED BY <1>1, <1>2, <2>1, <2>2, <2>3, <2>4 DEF ThreadsWork, ProgramOf
  <1>8. SignalsTold'
    BY <1>1, <1>3 DEF TypeOK, SignalsTold
  <1>9. DebugReady'
    BY <1>1, <1>3, GoHasChannel DEF debugVars, DebugReady
  <1> QED BY <1>3, <1>5, <1>6, <1>7, <1>8, <1>9

\* FaultISR, which does not time out, kills the faulting channels and takes
\* their commands back; a DMAGO it finds in the debug registers is lost.
LEMMA StepFaultISR ==
    ASSUME DmaInv, "isr" \notin TimesOut, XDmaPs_FaultISR
    PROVE  DmaInv'
  <1> USE DmaAssumption DEF DmaInv
  <1>1. /\ KillChannels(Faulty) /\ manager' = "Stopped" /\ TakeBack(Faulty, "fault")
        /\ DBGINST' = IF pc # "command" THEN DBGINST
                      ELSE IF Faulty # {} THEN DMAKILL(Last(Faulty)) ELSE KillManager
        /\ UNCHANGED <<pc, task, INTSTATUS, owed, lost>>
    BY DEF XDmaPs_FaultISR
  <1>2. /\ Faulty \in SUBSET Channels
        /\ \A c \in Faulty : DmaCmdToHw[c] # NULL /\ c \notin INTSTATUS /\ thread[c] = "Faulting"
    BY DEF Faulty, ThreadsWork
  <1>3. /\ Allocated' \subseteq Allocated /\ HoldDmaProg' = HoldDmaProg
        /\ GeneratedDmaProg' \in [Commands -> ProgBufPool \cup {NULL}]
        /\ DmaCmdToHw' = [c \in Channels |-> IF c \in Faulty THEN NULL ELSE DmaCmdToHw[c]]
        /\ BuffersAreOwned' /\ InUseOnce'
        /\ \A d \in Channels \ Faulty : DmaCmdToHw[d] # NULL =>
              ProgramOf(DmaCmdToHw[d])' = ProgramOf(DmaCmdToHw[d])
    BY <1>1, <1>2, TakenBack
  <1>4. /\ DmaStatus' \in [Commands -> {"failure", "fault", "done"}]
        /\ \A cmd \in Commands : DmaStatus'[cmd] = "done" => DmaStatus[cmd] = "done"
    BY <1>1 DEF TakeBack, TypeOK
  <1>5. DBGINST' = DBGINST \/ (DBGINST' \in Instructions /\ DBGINST'.op = "KILL")
    BY <1>1, <1>2, LastIsOne DEF DMAKILL, KillManager, Instructions
  <1>6. TypeOK'
    BY <1>1, <1>3, <1>4, <1>5 DEF KillChannels, TypeOK
  <1>7. SuccessMeansMoved'
    BY <1>1, <1>4 DEF SuccessMeansMoved
  <1>8. ThreadsWork'
    BY <1>1, <1>2, <1>3 DEF KillChannels, ThreadsWork
  <1>9. SignalsTold'
    BY <1>1, <1>2, <1>3 DEF TypeOK, SignalsTold
  <1>10. DebugReady'
    BY <1>1, <1>2, <1>3, <1>5, GoHasChannel DEF KillChannels, DebugReady
  <1> QED BY <1>3, <1>6, <1>7, <1>8, <1>9, <1>10

-----------------------------------------------------------------------------
LEMMA DriverStep ==
    ASSUME Patient, "isr" \notin TimesOut, DmaInv, [Next]_vars
    PROVE  DmaInv'
  <1>1. CASE Program
    BY <1>1, StepGenDmaProg, StepFreeDmaProg, StepStart, StepResetChannel, StepResetManager,
       StepWrite, StepCommand, StepTimeOut DEF Program, Call
  <1>2. CASE Controller
    BY <1>2, StepSignal, StepEnd, StepFail DEF Controller
  <1>3. CASE XDmaPs_FaultISR
    BY <1>3, StepFaultISR
  <1>4. ASSUME NEW c \in Channels, XDmaPs_DoneISR_n(c) PROVE DmaInv'
    BY <1>4, StepDoneISR
  <1>5. CASE UNCHANGED vars
    BY <1>5 DEF vars, driverVars, debugVars, hardVars, DmaInv, TypeOK, BuffersAreOwned,
       SuccessMeansMoved, InUseOnce, ThreadsWork, SignalsTold, DebugReady, ProgramOf
  <1> QED BY <1>1, <1>2, <1>3, <1>4, <1>5 DEF Next

\* The inductive invariant of the driver with its controller.
THEOREM DmaInvariance ==
    ASSUME Patient, "isr" \notin TimesOut
    PROVE  Spec => []DmaInv
  BY DriverInit, DriverStep, PTL DEF Spec

\* Every structure of the driver and every register keeps its range.
THEOREM DmaTypeCorrect ==
    ASSUME Patient, "isr" \notin TimesOut
    PROVE  Spec => []TypeOK
  <1>1. DmaInv => TypeOK
    BY DEF DmaInv
  <1> QED BY <1>1, DmaInvariance, PTL

\* No program buffer is leaked or has two owners, whatever the order in which
\* XDmaPs_GenDmaProg, XDmaPs_Start, XDmaPs_FreeDmaProg and the service routines
\* take and free them.
THEOREM BuffersOwned ==
    ASSUME Patient, "isr" \notin TimesOut
    PROVE  Spec => []BuffersAreOwned
  <1>1. DmaInv => BuffersAreOwned
    BY DEF DmaInv
  <1> QED BY <1>1, DmaInvariance, PTL

\* No DMA program is freed before it has signalled.
THEOREM ProgramsKept ==
    ASSUME Patient, "isr" \notin TimesOut
    PROVE  Spec => []ProgramsStay
  <1>1. DmaInv => ProgramsStay
    BY RunsItsOwn, DmaAssumption DEF DmaInv, BuffersAreOwned, TypeOK, DmaProgs, ProgramsStay
  <1> QED BY <1>1, DmaInvariance, PTL

\* A buffer that is given to a command is one that no channel runs.
LEMMA GivenIsNotRun ==
    ASSUME DmaInv, EndsInTime, NEW c \in Channels, NEW cmd \in Commands,
           NEW p \in ProgBufPool, Generate(c, cmd, p), thread[c] = "Ending" => IsActive(c)
    PROVE  \A d \in Channels : running[d] # p
  <1> SUFFICES ASSUME NEW d \in Channels, running[d] = p PROVE FALSE
    OBVIOUS
  <1>1. p \notin Allocated /\ p[1] = c /\ p # NULL
    BY DmaAssumption DEF Generate, DmaProgs
  <1>2. DmaCmdToHw[d] = NULL
    BY <1>1, RunsInUse
  <1>3. thread[d] = "Ending"
    BY <1>1, <1>2 DEF DmaInv, ThreadsWork, TypeOK
  <1>4. d = c
    BY <1>1, <1>2, <1>3 DEF DmaInv, ThreadsWork
  <1> QED BY <1>2, <1>3, <1>4 DEF IsActive

\* What NotOverwritten says of a step.
Unwritten ==
    \A c \in Channels, cmd \in Commands :
        running[c] \in ProgBufPool /\ GeneratedDmaProg'[cmd] = running[c]
            => GeneratedDmaProg[cmd] = running[c]

\* Programs are written by XDmaPs_GenDmaProg and XDmaPs_Start only; the other
\* steps at most take a program away.
LEMMA StepUnwritten ==
    ASSUME DmaInv, EndsInTime, Next
    PROVE  Unwritten
  <1> USE DmaAssumption
  <1>1. ASSUME NEW c \in Channels, NEW cmd \in Commands, NEW p \in ProgBufPool,
               Generate(c, cmd, p), thread[c] = "Ending" => IsActive(c)
        PROVE  Unwritten
    <2>1. \A d \in Channels : running[d] # p
      BY <1>1, GivenIsNotRun
    <2>2. GeneratedDmaProg' = [GeneratedDmaProg EXCEPT ![cmd] = p]
      BY <1>1 DEF Generate
    <2> QED BY <2>1, <2>2 DEF DmaInv, TypeOK, Unwritten
  <1>2. ASSUME \A cmd \in Commands : GeneratedDmaProg'[cmd] \in {NULL, GeneratedDmaProg[cmd]}
        PROVE  Unwritten
    BY <1>2 DEF Unwritten, DmaProgs
  <1>3. ASSUME NEW c \in Channels, NEW cmd \in Commands, XDmaPs_GenDmaProg(c, cmd)
        PROVE  Unwritten
    BY <1>1, <1>3 DEF XDmaPs_GenDmaProg, MayUse
  <1>4. ASSUME NEW c \in Channels, NEW cmd \in Commands, XDmaPs_FreeDmaProg(c, cmd)
        PROVE  Unwritten
    BY <1>2, <1>4 DEF XDmaPs_FreeDmaProg, DmaInv, TypeOK
  <1>5. ASSUME NEW c \in Channels, NEW cmd \in Commands, NEW hold \in BOOLEAN,
               XDmaPs_Start(c, cmd, hold)
        PROVE  Unwritten
    <2>1. \/ UNCHANGED GeneratedDmaProg
          \/ \E p \in ProgBufPool : Generate(c, cmd, p)
      BY <1>5 DEF XDmaPs_Start, Refuse
    <2>2. thread[c] = "Ending" => IsActive(c)
      BY <1>5 DEF XDmaPs_Start, MayUse
    <2> QED BY <1>1, <1>2, <2>1, <2>2
  <1>6. ASSUME NEW cs, NEW status, TakeBack(cs, status) PROVE Unwritten
    BY <1>2, <1>6 DEF TakeBack
  <1>7. CASE XDmaPs_FaultISR \/ \E c \in Channels : XDmaPs_DoneISR_n(c)
    BY <1>6, <1>7 DEF XDmaPs_FaultISR, XDmaPs_DoneISR_n
  <1>8. CASE UNCHANGED GeneratedDmaProg
    BY <1>2, <1>8
  <1>9. CASE Controller
    BY <1>8, <1>9 DEF Controller, Signal, End, Fail, driverVars
  <1>10. CASE Program
    <2>1. CASE XDmaPs_ResetManager \/ Write \/ Command \/ TimeOut
      BY <1>8, <2>1 DEF XDmaPs_ResetManager, Write, Command, TimeOut, driverVars
    <2>2. ASSUME NEW c \in Channels, XDmaPs_ResetChannel(c) PROVE Unwritten
      BY <1>8, <2>2 DEF XDmaPs_ResetChannel, driverVars
    <2> QED BY <1>3, <1>4, <1>5, <1>10, <2>1, <2>2 DEF Program, Call
  <1> QED BY <1>7, <1>9, <1>10 DEF Next

\* No DMA program is written into a buffer that a channel still runs, up to
\* and including its DMAEND.
THEOREM NoneOverwritten ==
    ASSUME Patient, EndsInTime, "isr" \notin TimesOut
    PROVE  Spec => NotOverwritten
  <1>1. DmaInv /\ [Next]_vars =>
            [\A c \in Channels, cmd \in Commands :
                running[c] \in ProgBufPool /\ GeneratedDmaProg'[cmd] = running[c]
                    => GeneratedDmaProg[cmd] = running[c]]_vars
    BY StepUnwritten DEF Unwritten
  <1> QED BY <1>1, DmaInvariance, PTL DEF Spec, NotOverwritten

\* XDmaPs_FaultISR finds a command at every channel that faults.
THEOREM FaultingHasCommand ==
    ASSUME Patient, "isr" \notin TimesOut
    PROVE  Spec => []FaultHasCommand
  <1>1. DmaInv => FaultHasCommand
    BY DEF DmaInv, ThreadsWork, FaultHasCommand
  <1> QED BY <1>1, DmaInvariance, PTL

\* A command whose status is success has had its data moved since its last start.
THEOREM SuccessIsMoved ==
    ASSUME Patient, "isr" \notin TimesOut
    PROVE  Spec => []SuccessMeansMoved
  <1>1. DmaInv => SuccessMeansMoved
    BY DEF DmaInv
  <1> QED BY <1>1, DmaInvariance, PTL
=============================================================================
