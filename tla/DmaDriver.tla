----------------------------- MODULE DmaDriver -----------------------------
(***************************************************************************)
(* The DMA driver xdmaps of the board support package: the calls of a      *)
(* program, its interrupt service routines, which may run between any two  *)
(* steps of the program, and the DMA controller.  A program buffer is a    *)
(* pair of its channel and its index.                                      *)
(***************************************************************************)
EXTENDS Naturals, FiniteSets

CONSTANTS
    XDMAPS_CHANNELS_PER_DEV,
    Commands,              \* the XDmaPs_Cmd structures of the program
    UserDmaProg,           \* those that bring a DMA program of their own
    XDMAPS_MAX_CHAN_BUFS,  \* program buffers of a channel
    NULL,
    Patient,      \* does the program leave a command alone while a channel has it?
    EndsInTime,   \* has a channel that signalled fetched DMAEND before the program's next call?
    FaultsWait,   \* is no fault interrupt taken between DBGINST and DBGCMD?
    TimesOut      \* whose wait for the debug unit may time out: "call", "isr"

Channels == 0 .. XDMAPS_CHANNELS_PER_DEV - 1
Bufs == 1 .. XDMAPS_MAX_CHAN_BUFS
ProgBufPool == Channels \X Bufs
UserProgram(cmd) == <<cmd, 0>>
DmaProgs == ProgBufPool \cup {UserProgram(cmd) : cmd \in UserDmaProg}

ASSUME DmaAssumption ==
    /\ XDMAPS_CHANNELS_PER_DEV \in Nat \ {0} /\ UserDmaProg \subseteq Commands
    /\ XDMAPS_MAX_CHAN_BUFS \in Nat /\ NULL \notin Commands \cup DmaProgs \cup Channels
    /\ Patient \in BOOLEAN /\ EndsInTime \in BOOLEAN /\ FaultsWait \in BOOLEAN
    /\ TimesOut \subseteq {"call", "isr"}

VARIABLES
    Allocated,          \* the buffers in use
    GeneratedDmaProg, DmaStatus,      \* of each command
    DmaCmdToHw, HoldDmaProg,          \* of each channel
    pc, task,           \* where the program is in Exec_DMAGO or Exec_DMAKILL, and for what
    DBGINST,            \* the debug instruction registers of the controller
    thread, running,    \* the state of each channel, and its DMA program
    manager,            \* the state of the manager thread
    INTSTATUS,          \* channels whose program has signalled its end
    owed,               \* history: commands started whose data have not been moved since
    lost                \* history: channels that will not finish, and why is known

driverVars == <<Allocated, GeneratedDmaProg, DmaStatus, DmaCmdToHw, HoldDmaProg>>
debugVars == <<pc, task, DBGINST>>
hardVars == <<thread, running, manager, INTSTATUS>>
vars == <<driverVars, debugVars, hardVars, owed, lost>>

DMAGO(c, p) == [op |-> "GO", chan |-> c, prog |-> p]
DMAKILL(c) == [op |-> "KILL", chan |-> c, prog |-> NULL]
\* What is left in the registers counts for nothing after its execution.
Idle == [op |-> "none", chan |-> NULL, prog |-> NULL]
KillManager == [op |-> "KILL", chan |-> NULL, prog |-> NULL]

-----------------------------------------------------------------------------
(* The controller executes a debug instruction. *)

\* A channel that is not stopped ignores DMAGO; DMAGO may make the manager fault.
Go(i) ==
    /\ i.op = "GO" /\ INTSTATUS' = INTSTATUS
    /\ \/ /\ IF thread[i.chan] = "Stopped"
             THEN /\ thread' = [thread EXCEPT ![i.chan] = "Executing"]
                  /\ running' = [running EXCEPT ![i.chan] = i.prog]
             ELSE UNCHANGED <<thread, running>>
          /\ UNCHANGED <<manager, lost>>
       \/ manager' = "Faulting" /\ lost' = lost \cup {i.chan} /\ UNCHANGED <<thread, running>>

KillChannels(cs) ==
    /\ thread' = [c \in Channels |-> IF c \in cs THEN "Stopped" ELSE thread[c]]
    /\ running' = [c \in Channels |-> IF c \in cs THEN NULL ELSE running[c]]

Kill(i) ==
    /\ i.op = "KILL" /\ KillChannels({i.chan})
    /\ manager' = IF i.chan = NULL THEN "Stopped" ELSE manager
    /\ UNCHANGED <<INTSTATUS, lost>>

\* The program in a buffer is that of the command that has the buffer.
Moved(p) == {cmd \in Commands : GeneratedDmaProg[cmd] = p \/ UserProgram(cmd) = p}

\* DMASEV: the data are moved, the channel signals and runs on to the next
\* instruction of its program.
Signal(c) ==
    /\ thread[c] = "Executing"
    /\ thread' = [thread EXCEPT ![c] = "Ending"]
    /\ INTSTATUS' = INTSTATUS \cup {IF running[c] \in ProgBufPool THEN running[c][1] ELSE c}
    /\ owed' = owed \ Moved(running[c])
    /\ UNCHANGED <<driverVars, debugVars, running, manager, lost>>

\* DMAEND.  A program that has been written over by then may hold anything else
\* here; NotOverwritten is about the step that writes it.
End(c) ==
    /\ thread[c] = "Ending"
    /\ thread' = [thread EXCEPT ![c] = "Stopped"] /\ running' = [running EXCEPT ![c] = NULL]
    /\ UNCHANGED <<driverVars, debugVars, manager, INTSTATUS, owed, lost>>

\* Nothing but the fetch of DMAEND is left to fail after DMASEV; that is left out.
Fail(c) ==
    /\ thread[c] = "Executing"
    /\ thread' = [thread EXCEPT ![c] = "Faulting"]
    /\ running' = [running EXCEPT ![c] = NULL]
    /\ UNCHANGED <<driverVars, debugVars, manager, INTSTATUS, owed, lost>>

-----------------------------------------------------------------------------
(* The calls of the program. *)

\* Mutant: the debug unit decides, not the command.
IsActive_Waiting(c) == pc # "idle" /\ DmaCmdToHw[c] # NULL

IsActive(c) == DmaCmdToHw[c] # NULL
InUse(cmd) == \E c \in Channels : DmaCmdToHw[c] = cmd

\* A program in a buffer is the program of one channel.
Fits(c, cmd) == GeneratedDmaProg[cmd] # NULL => GeneratedDmaProg[cmd][1] = c
MayUse(c, cmd) ==
    /\ pc = "idle" /\ (Patient => ~InUse(cmd) /\ Fits(c, cmd))
    /\ EndsInTime => (thread[c] = "Ending" => IsActive(c))

\* The first free buffer is taken; the length of the program, or its burst
\* sizes, may be unfit: then nothing is kept.
Generate(c, cmd, p) ==
    /\ p[1] = c /\ p \notin Allocated
    /\ \A b \in Bufs : b < p[2] => <<c, b>> \in Allocated
    /\ Allocated' = Allocated \cup {p}
    /\ GeneratedDmaProg' = [GeneratedDmaProg EXCEPT ![cmd] = p]

XDmaPs_GenDmaProg(c, cmd) ==
    /\ MayUse(c, cmd) /\ (Patient => GeneratedDmaProg[cmd] = NULL)
    /\ \E p \in ProgBufPool : Generate(c, cmd, p)
    /\ UNCHANGED <<DmaStatus, DmaCmdToHw, HoldDmaProg, debugVars, hardVars, owed, lost>>

XDmaPs_FreeDmaProg(c, cmd) ==
    /\ MayUse(c, cmd) /\ GeneratedDmaProg[cmd] # NULL
    /\ Allocated' = IF GeneratedDmaProg[cmd][1] = c THEN Allocated \ {GeneratedDmaProg[cmd]}
                    ELSE Allocated
    /\ GeneratedDmaProg' = [GeneratedDmaProg EXCEPT ![cmd] = NULL]
    /\ UNCHANGED <<DmaStatus, DmaCmdToHw, HoldDmaProg, debugVars, hardVars, owed, lost>>

\* Up to the wait for the debug unit.
Launch(c, cmd, p, hold) ==
    /\ HoldDmaProg' = [HoldDmaProg EXCEPT ![c] = hold]
    /\ DmaCmdToHw' = [DmaCmdToHw EXCEPT ![c] = cmd]
    /\ owed' = owed \cup {cmd}
    /\ task' = DMAGO(c, p) /\ pc' = "wait"
    /\ UNCHANGED <<DBGINST, hardVars, lost>>

\* Refused: the channel is busy, or there is no program for the command.
Refuse(c, cmd) ==
    /\ IsActive(c) \/ (cmd \notin UserDmaProg /\ GeneratedDmaProg[cmd] = NULL)
    /\ UNCHANGED <<Allocated, GeneratedDmaProg, DmaCmdToHw, HoldDmaProg,
                   debugVars, hardVars, owed, lost>>

\* Mutant: a command without a program is started all the same.
XDmaPs_Start_NoProgram(c, cmd, hold) ==
    /\ MayUse(c, cmd)
    /\ DmaStatus' = [DmaStatus EXCEPT ![cmd] = "failure"]
    /\ \/ Refuse(c, cmd)
       \/ /\ ~IsActive(c)
          /\ Launch(c, cmd, IF cmd \in UserDmaProg THEN UserProgram(cmd)
                            ELSE GeneratedDmaProg[cmd], hold)
          /\ UNCHANGED <<Allocated, GeneratedDmaProg>>

XDmaPs_Start(c, cmd, hold) ==
    /\ MayUse(c, cmd)
    /\ DmaStatus' = [DmaStatus EXCEPT ![cmd] = "failure"]
    /\ \/ Refuse(c, cmd)
       \/ /\ ~IsActive(c) /\ cmd \notin UserDmaProg /\ GeneratedDmaProg[cmd] = NULL
          /\ \E p \in ProgBufPool : Generate(c, cmd, p) /\ Launch(c, cmd, p, hold)
       \/ /\ ~IsActive(c) /\ (cmd \in UserDmaProg \/ GeneratedDmaProg[cmd] # NULL)
          /\ Launch(c, cmd, IF cmd \in UserDmaProg THEN UserProgram(cmd)
                            ELSE GeneratedDmaProg[cmd], hold)
          /\ UNCHANGED <<Allocated, GeneratedDmaProg>>

XDmaPs_ResetChannel(c) ==
    /\ pc = "idle" /\ task' = DMAKILL(c) /\ pc' = "wait"
    /\ lost' = lost \cup {c}
    /\ UNCHANGED <<driverVars, DBGINST, hardVars, owed>>

XDmaPs_ResetManager ==
    /\ pc = "idle" /\ task' = KillManager /\ pc' = "wait"
    /\ UNCHANGED <<driverVars, DBGINST, hardVars, owed, lost>>

\* Exec_DMAGO and Exec_DMAKILL: the debug unit is free, its registers are written.
Write ==
    /\ pc = "wait" /\ DBGINST' = task /\ pc' = "command"
    /\ UNCHANGED <<driverVars, task, hardVars, owed, lost>>

\* DBGCMD is written: the controller executes what the registers hold.
Command ==
    /\ pc = "command" /\ (task.op = "GO" => manager = "Stopped")
    /\ Go(DBGINST) \/ Kill(DBGINST)
    /\ pc' = "idle" /\ task' = Idle /\ DBGINST' = Idle
    /\ UNCHANGED <<driverVars, owed>>

TimeOut ==
    /\ "call" \in TimesOut
    /\ pc = "wait" \/ (pc = "command" /\ task.op = "GO" /\ manager # "Stopped")
    /\ pc' = "idle" /\ task' = Idle /\ DBGINST' = Idle
    /\ lost' = IF task.op = "GO" THEN lost \cup {task.chan} ELSE lost
    /\ UNCHANGED <<driverVars, hardVars, owed>>

-----------------------------------------------------------------------------
(* The interrupt service routines. *)

\* Mutant: the buffer is freed, but the command keeps its pointer.
TakeBack_KeepsPointer(cs, status) ==
    LET back == {DmaCmdToHw[c] : c \in cs} \ {NULL}
    IN  /\ DmaStatus' = [cmd \in Commands |-> IF cmd \in back THEN status ELSE DmaStatus[cmd]]
        /\ DmaCmdToHw' = [c \in Channels |-> IF c \in cs THEN NULL ELSE DmaCmdToHw[c]]
        /\ Allocated' = {p \in Allocated : ~ \E c \in cs :
                /\ DmaCmdToHw[c] # NULL /\ ~HoldDmaProg[c]
                /\ p[1] = c /\ p = GeneratedDmaProg[DmaCmdToHw[c]]}
        /\ UNCHANGED <<GeneratedDmaProg, HoldDmaProg>>

\* The commands of the channels are taken back, with their buffers unless held.
TakeBack(cs, status) ==
    LET back == {DmaCmdToHw[c] : c \in cs} \ {NULL}
        freed == {DmaCmdToHw[c] : c \in {d \in cs : ~HoldDmaProg[d]}} \ {NULL}
    IN  /\ DmaStatus' = [cmd \in Commands |-> IF cmd \in back THEN status ELSE DmaStatus[cmd]]
        /\ DmaCmdToHw' = [c \in Channels |-> IF c \in cs THEN NULL ELSE DmaCmdToHw[c]]
        /\ Allocated' = {p \in Allocated : ~ \E c \in cs :
                /\ DmaCmdToHw[c] # NULL /\ ~HoldDmaProg[c]
                /\ p[1] = c /\ p = GeneratedDmaProg[DmaCmdToHw[c]]}
        /\ GeneratedDmaProg' =
                [cmd \in Commands |-> IF cmd \in freed THEN NULL ELSE GeneratedDmaProg[cmd]]
        /\ UNCHANGED HoldDmaProg

\* Mutant: the interrupt is not cleared.
XDmaPs_DoneISR_n_NoClear(c) ==
    /\ c \in INTSTATUS
    /\ TakeBack({c}, "done")
    /\ UNCHANGED <<debugVars, hardVars, owed, lost>>

XDmaPs_DoneISR_n(c) ==
    /\ c \in INTSTATUS /\ INTSTATUS' = INTSTATUS \ {c}
    /\ TakeBack({c}, "done")
    /\ UNCHANGED <<debugVars, thread, running, manager, owed, lost>>

\* The manager and every faulting channel are killed; an instruction of the
\* program in the debug registers is overwritten.
Faulty == {c \in Channels : thread[c] = "Faulting"}
Last(cs) == CHOOSE c \in cs : \A d \in cs : d <= c

\* Mutant: one faulting channel is served, though all are killed.
XDmaPs_FaultISR_One ==
    /\ Faulty # {} \/ manager = "Faulting"
    /\ FaultsWait => pc # "command"
    /\ KillChannels(Faulty) /\ manager' = "Stopped"
    /\ TakeBack(IF Faulty = {} THEN {} ELSE {Last(Faulty)}, "fault")
    /\ UNCHANGED <<debugVars, INTSTATUS, owed, lost>>

\* Mutant: the channels are not killed.
XDmaPs_FaultISR_NoKill ==
    /\ Faulty # {} \/ manager = "Faulting"
    /\ FaultsWait => pc # "command"
    /\ manager' = "Stopped"
    /\ TakeBack(Faulty, "fault")
    /\ UNCHANGED <<debugVars, thread, running, INTSTATUS, owed, lost>>

XDmaPs_FaultISR ==
    /\ Faulty # {} \/ manager = "Faulting"
    /\ FaultsWait => pc # "command"
    /\ \E killed \in {TRUE, "isr" \notin TimesOut} :
          /\ KillChannels(IF killed THEN Faulty ELSE {})
          /\ manager' = IF killed THEN "Stopped" ELSE manager
          /\ DBGINST' = IF ~killed \/ pc # "command" THEN DBGINST
                        ELSE IF Faulty # {} THEN DMAKILL(Last(Faulty)) ELSE KillManager
    /\ TakeBack(Faulty, "fault")
    /\ UNCHANGED <<pc, task, INTSTATUS, owed, lost>>

-----------------------------------------------------------------------------

\* XDmaPs_CfgInitialize clears the structure, the program its commands.
Init ==
    /\ Allocated = {}
    /\ GeneratedDmaProg = [cmd \in Commands |-> NULL]
    /\ DmaStatus = [cmd \in Commands |-> "done"]
    /\ DmaCmdToHw = [c \in Channels |-> NULL] /\ HoldDmaProg = [c \in Channels |-> FALSE]
    /\ pc = "idle" /\ task = Idle /\ DBGINST = Idle
    /\ thread = [c \in Channels |-> "Stopped"] /\ running = [c \in Channels |-> NULL]
    /\ manager = "Stopped" /\ INTSTATUS = {}
    /\ owed = {} /\ lost = {}

Call(c) ==
    \/ \E cmd \in Commands :
          \/ XDmaPs_GenDmaProg(c, cmd) \/ XDmaPs_FreeDmaProg(c, cmd)
          \/ \E hold \in BOOLEAN : XDmaPs_Start(c, cmd, hold)
    \/ XDmaPs_ResetChannel(c)

Program == (\E c \in Channels : Call(c)) \/ XDmaPs_ResetManager \/ Write \/ Command \/ TimeOut

Controller == \E c \in Channels : Signal(c) \/ End(c) \/ Fail(c)

Next == Program \/ Controller \/ XDmaPs_FaultISR \/ \E c \in Channels : XDmaPs_DoneISR_n(c)

Spec == Init /\ [][Next]_vars

\* Calls go on, DMA programs come to an end, interrupts are taken.
FairSpec ==
    /\ Spec /\ WF_vars(Write \/ Command \/ TimeOut) /\ SF_vars(XDmaPs_FaultISR)
    /\ \A c \in Channels :
          WF_vars(Signal(c) \/ Fail(c)) /\ WF_vars(End(c)) /\ WF_vars(XDmaPs_DoneISR_n(c))

-----------------------------------------------------------------------------
(* Properties *)

Instructions ==
    [op : {"GO"}, chan : Channels, prog : DmaProgs]
        \cup [op : {"KILL"}, chan : Channels \cup {NULL}, prog : {NULL}] \cup {Idle}

\* Ranges.
TypeOK ==
    /\ Allocated \subseteq ProgBufPool
    /\ GeneratedDmaProg \in [Commands -> ProgBufPool \cup {NULL}]
    /\ DmaStatus \in [Commands -> {"failure", "fault", "done"}]
    /\ DmaCmdToHw \in [Channels -> Commands \cup {NULL}] /\ HoldDmaProg \in [Channels -> BOOLEAN]
    /\ pc \in {"idle", "wait", "command"} /\ task \in Instructions /\ DBGINST \in Instructions
    /\ thread \in [Channels -> {"Stopped", "Executing", "Ending", "Faulting"}]
    /\ running \in [Channels -> DmaProgs \cup {NULL}] /\ manager \in {"Stopped", "Faulting"}
    /\ INTSTATUS \subseteq Channels /\ owed \subseteq Commands /\ lost \subseteq Channels

\* No buffer is leaked and none has two owners: those in use are exactly those
\* that a command has.
BuffersAreOwned ==
    /\ \A p \in Allocated : \E cmd \in Commands : GeneratedDmaProg[cmd] = p
    /\ \A cmd \in Commands : GeneratedDmaProg[cmd] # NULL =>
        /\ GeneratedDmaProg[cmd] \in Allocated
        /\ \A other \in Commands \ {cmd} : GeneratedDmaProg[other] # GeneratedDmaProg[cmd]

\* Until it has signalled, a DMA program stays where it is: its buffer is in
\* use, and for the command of the channel that runs it.  (Between DMASEV and
\* DMAEND the service routine does free it.)
ProgramsStay ==
    \A c \in Channels : thread[c] = "Executing" /\ running[c] \in ProgBufPool =>
        /\ running[c] \in Allocated
        /\ DmaCmdToHw[c] # NULL /\ GeneratedDmaProg[DmaCmdToHw[c]] = running[c]

\* No DMA program is written into a buffer that a channel still runs, to its
\* DMAEND.  XDmaPs_Start and XDmaPs_GenDmaProg do not look at the channel:
\* XDmaPs_IsActive ("0: if the channel is idle") tests DmaCmdToHw, which the
\* service routine has cleared.
NotOverwritten ==
    [][\A c \in Channels, cmd \in Commands :
          running[c] \in ProgBufPool /\ GeneratedDmaProg'[cmd] = running[c]
              => GeneratedDmaProg[cmd] = running[c]]_vars

\* A channel that faults has a command: FaultISR uses DmaCmdToHw without the
\* test that its comment "Should we check DmaCmd is not null" asks about.
FaultHasCommand == \A c \in Channels : thread[c] = "Faulting" => DmaCmdToHw[c] # NULL

\* DmaStatus is 0 only after the controller has moved the data of the command,
\* since it was last started.
SuccessMeansMoved == \A cmd \in Commands : DmaStatus[cmd] = "done" => cmd \notin owed

\* A started command comes back through one of the service routines, and its
\* channel is free again, unless the debug unit timed out, the manager faulted
\* or the channel was reset: then it is busy for ever.
ComesBack ==
    \A c \in Channels : DmaCmdToHw[c] # NULL ~> (DmaCmdToHw[c] = NULL \/ c \in lost)
=============================================================================
