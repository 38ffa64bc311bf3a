------------------------------- MODULE I2cCore -------------------------------
(***************************************************************************)
(* The I2C core (register file, byte controller, bit controller) under any *)
(* host on the Wishbone side, and what must hold of it then.  A host may   *)
(* write TXR and CR at any time; or it is polite: it looks at SR.TIP first *)
(* and commands no STOP alone, which TIP does not tell of.                 *)
(***************************************************************************)
EXTENDS I2cMasterTop

CONSTANTS
    Words,     \* bytes a host writes to TXR
    Commands   \* command register values a host writes

ASSUME HostAssumption ==
    /\ Words \subseteq Byte
    /\ Commands \subseteq CommandRegister

VARIABLES
    polite,    \* is this host polite?
    ran        \* history: the command in cr has already completed once

vars == <<coreVars, polite, ran>>

Init == CoreInit /\ polite \in BOOLEAN /\ ran = FALSE

-----------------------------------------------------------------------------
\* A polite host writes only after it has seen TIP = 0.
MayWrite == polite => ~tip

MayCommand(command) == MayWrite /\ (polite => command.rd \/ command.wr)

Tick == Clock /\ NoWrite /\ ran' = (ran \/ host_ack) /\ UNCHANGED polite

HostCommands ==
    /\ \E command \in Commands : MayCommand(command) /\ WriteCR(command)
    /\ ran' = (~core_en /\ (ran \/ host_ack))
    /\ Clock /\ UNCHANGED polite

HostLoads ==
    /\ MayWrite
    /\ \E word \in Words : WriteTXR(word)
    /\ ran' = (ran \/ host_ack)
    /\ Clock /\ UNCHANGED polite

\* The core is enabled, disabled and prescaled only while it is not working.
HostControls ==
    /\ AtRest
    /\ \/ \E en, i \in BOOLEAN : WriteCTR(en, i)
       \/ WritePRER
    /\ Clock /\ UNCHANGED <<polite, ran>>

Reset == CoreReset /\ ran' = FALSE /\ UNCHANGED polite

Next == Tick \/ HostCommands \/ HostLoads \/ HostControls \/ Reset

Spec == Init /\ [][Next]_vars

\* The clock never stops and no slave stretches SCL for ever; asked for where
\* a property needs it, with a polite host.
Progress ==
    /\ WF_vars(polite /\ Tick)
    /\ WF_vars(polite /\ Tick /\ BitAccept)
    /\ WF_vars(polite /\ Tick /\ BitFinish)
    /\ WF_vars(polite /\ Tick /\ stage' > stage)

FairSpec == Spec /\ Progress

-----------------------------------------------------------------------------
(* Properties *)

\* Every register keeps to its range; one type invariant for the whole core.
TypeOK == CoreTypes /\ polite \in BOOLEAN /\ ran \in BOOLEAN

\* The bit being driven onto SDA does not change once the master has begun
\* to drive it: loading and shifting are over before.
DataHeld == [][bit_cmd = "WRITE" /\ bit_cmd' = "WRITE" /\ stage > 0 /\ c_state = "write"
                  => core_txd' = core_txd]_vars

\* The acknowledge bit is taken from CR in every clock of its bit command, so
\* it depends on the host: one that waits for TIP = 0 never changes it, or any
\* other bit, once the master has begun to drive it.
AckHeld ==
    [][polite /\ bit_cmd = "WRITE" /\ bit_cmd' = "WRITE" /\ stage > 0 => core_txd' = core_txd]_vars

\* For a host that waits for TIP = 0, the frame on the bus is the one that
\* the command in CR asks for.
FrameAsCommanded ==
    polite /\ host_ack =>
                IF cr.rd THEN Carried(One(cr.sta), 1, Width, One(cr.sto))
                ELSE IF cr.wr \/ cr.sta THEN Carried(One(cr.sta), Width, 1, One(cr.sto))
                ELSE Carried(0, 0, 0, 1)

\* A command that a polite host writes once to CR is executed at most once.
RunsOnce == [][polite /\ c_state = "idle" /\ c_state' # "idle" => ~ran /\ ~host_ack]_vars

\* For a polite host TIP falls only when the byte controller is through with the
\* transfer, or when the whole core is reset (which also clears the enable bit).
TipFalls == [][polite /\ tip /\ ~tip' /\ core_en' => c_state = "idle" /\ bit_cmd = "NOP"]_vars

\* Every transfer of a polite host ends: TIP does not stay high for ever.
TransferEnds == polite /\ tip ~> ~tip
=============================================================================
