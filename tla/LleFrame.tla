------------------------------ MODULE LleFrame ------------------------------
(***************************************************************************)
(* src/x2_rtl.c, the LLE frame driver (RunOneFrameOfGame) and the save-state *)
(* extras that carry its cursor.                                             *)
(*                                                                           *)
(* The guest (the game's ROM code, run by the framework's interpreter        *)
(* bridge) is external: a run of it may stop on WAI or not, and leave the    *)
(* interrupt flag, NMITIMEN and the IRQ line in any state; only the master   *)
(* deadline that the driver has set bounds how far it advances the clock.    *)
(* The module says when the driver resets the guest, sets that deadline,     *)
(* interrupts the guest, ends the frame, and what a saved state brings back. *)
(* Names are those of the code without the s_lle_ and g_ prefixes.           *)
(***************************************************************************)
EXTENDS Integers

CONSTANTS
  Cpus,             \* registers other than S and the I flag
  BootCpu,          \* after cpu_state_init
  Pcs, ResetPc,     \* resume addresses; the RESET vector
  Execs, BootExec,  \* the bridge's execution state (RtlSaveExecutionState)
  FrameClocks,      \* kX2MasterClocksPerFrame
  Advances,         \* clocks that one run of the guest may take if not stopped
  Overrun,          \* clocks by which the bridge may pass a deadline at most
  MaxSlices,        \* kMaxSlices
  MaxFrames,        \* bound: host frames since the cold boot
  MaxLeaks          \* bound: interrupt frames left on the stack

NoPc == 0           \* s_lle_resume_pc of a cold cursor

ASSUME LleAssumption ==
  /\ BootCpu \in Cpus /\ ResetPc \in Pcs /\ BootExec \in Execs
  /\ NoPc \notin Pcs
  /\ FrameClocks \in Nat \ {0} /\ Advances \subseteq Nat /\ Overrun \in Nat
  /\ MaxSlices \in Nat \ {0} /\ MaxFrames \in Nat /\ MaxLeaks \in Nat

VARIABLES
  did_reset, resume_pc, host_frames, extra_loaded, execution_loaded,
  cpu, flag_I, stack, master_cycles, execution,     \* the guest's processor
  nmiEnabled, inIrq,                                \* NMITIMEN, the IRQ line
  deadline,         \* the bridge's master deadline, 0 when none is set
  frame_end, slices, took_wai,                      \* of the current frame
  booting,          \* auxiliary: no frame has ended since the RESET vector
  pc,               \* where the driver is
  saved,            \* a state saved earlier, or NoState
  loading           \* how much of the cursor the state being loaded carries

cursorVars == <<did_reset, resume_pc, host_frames>>
loadVars   == <<extra_loaded, execution_loaded>>
cpuVars    == <<cpu, flag_I, stack, master_cycles, execution>>
hwVars     == <<nmiEnabled, inIrq>>
frameVars  == <<frame_end, slices, took_wai, booting>>
vars == <<cursorVars, loadVars, cpuVars, hwVars, deadline, frameVars, pc,
          saved, loading>>

NoState == [present |-> FALSE]

Init ==
  /\ did_reset = FALSE /\ resume_pc = NoPc /\ host_frames = 0
  /\ extra_loaded = FALSE /\ execution_loaded = FALSE
  /\ cpu = BootCpu /\ flag_I = TRUE /\ stack = 0
  /\ master_cycles = 0 /\ execution = BootExec
  /\ nmiEnabled = FALSE /\ inIrq = FALSE
  /\ deadline = 0 /\ frame_end = 0 /\ slices = 0 /\ took_wai = FALSE
  /\ booting = FALSE
  /\ pc = "idle" /\ saved = NoState /\ loading = "none"

-----------------------------------------------------------------------------
(***************************************************************************)
(* RunOneFrameOfGame().                                                      *)
(***************************************************************************)
\* The RESET vector is taken once per cold boot.
ColdBoot ==
  /\ did_reset' = TRUE /\ resume_pc' = ResetPc /\ host_frames' = 0
  /\ cpu' = BootCpu /\ flag_I' = TRUE /\ stack' = 0 /\ master_cycles' = 0

StartFrame ==
  /\ pc = "idle" /\ host_frames < MaxFrames
  /\ IF did_reset THEN UNCHANGED <<cursorVars, cpu, flag_I, stack, master_cycles>>
                  ELSE ColdBoot
  /\ frame_end' = master_cycles' + FrameClocks
  /\ slices' = 0 /\ took_wai' = FALSE
  /\ booting' = ~did_reset
  /\ pc' = "nmi"
  /\ UNCHANGED <<execution, hwVars, loadVars, deadline, saved, loading>>

\* The bridge stops a run when it finds the clock at or past the deadline: one
\* instruction, or one DMA, too late at most.
Stopped(clock) ==
  LET late == (IF master_cycles > deadline THEN master_cycles ELSE deadline) + Overrun
  IN  IF deadline # 0 /\ clock > late THEN late ELSE clock

\* What a run of the guest may leave behind.
GuestRuns ==
  /\ \E a \in Advances : master_cycles' = Stopped(master_cycles + a)
  /\ cpu' \in Cpus /\ execution' \in Execs /\ flag_I' \in BOOLEAN
  /\ nmiEnabled' \in BOOLEAN /\ inIrq' \in BOOLEAN

\* cpu_push_interrupt_frame().
PushFrame ==
  /\ stack' = stack + 1 /\ flag_I' = TRUE
  /\ UNCHANGED <<cpu, master_cycles, execution>>

SetDeadline   == deadline' = frame_end
ClearDeadline == deadline' = 0

\* Mutant: NMITIMEN alone decides.
NmiByEnable == nmiEnabled

NmiDue == host_frames > 0 /\ nmiEnabled

\* x2_run_nmi(): the handler returns with RTI, or bails out somewhere in it
\* and the entry stack pointer is restored.
EnterNmi ==
  /\ pc = "nmi" /\ NmiDue
  /\ PushFrame /\ SetDeadline
  /\ pc' = "nmi_handler"
  /\ UNCHANGED <<cursorVars, loadVars, hwVars, frameVars, saved, loading>>

LeaveNmi ==
  /\ pc = "nmi_handler"
  /\ GuestRuns /\ ClearDeadline
  /\ stack' = stack - 1
  /\ pc' = "slice"
  /\ UNCHANGED <<cursorVars, loadVars, frameVars, saved, loading>>

SkipNmi ==
  /\ pc = "nmi" /\ ~NmiDue
  /\ pc' = "slice"
  /\ UNCHANGED <<cursorVars, loadVars, cpuVars, hwVars, deadline, frameVars,
                 saved, loading>>

\* Mutant: one slice more than the cap.
MoreSlicesByOne == master_cycles < frame_end /\ slices <= MaxSlices

MoreSlices == master_cycles < frame_end /\ slices < MaxSlices

\* Mutant: the backstop does not count.
CountNoSlice == UNCHANGED slices

CountSlice == slices' = slices + 1

\* One slice: interp_bridge_run_until_quiescent() returns when it finds the
\* guest quiescent, waiting, or past the deadline.
EnterGuest ==
  /\ pc = "slice" /\ MoreSlices
  /\ CountSlice /\ SetDeadline
  /\ pc' = "guest"
  /\ UNCHANGED <<cursorVars, loadVars, cpuVars, hwVars, frame_end, took_wai,
                 booting, saved, loading>>

LeaveGuest ==
  /\ pc = "guest"
  /\ GuestRuns /\ ClearDeadline
  /\ took_wai' \in BOOLEAN
  /\ resume_pc' \in Pcs
  /\ pc' = "poll"
  /\ UNCHANGED <<did_reset, host_frames, loadVars, stack, frame_end, slices,
                 booting, saved, loading>>

IrqDue == inIrq /\ ~flag_I

\* Mutant: the IRQ handler runs until it returns.
PushOnly == PushFrame /\ UNCHANGED deadline

PushForIrq == PushFrame /\ SetDeadline

\* x2_run_interrupt(): unlike the NMI, a handler that bails out leaves its
\* frame on the guest's stack.
EnterIrq ==
  /\ pc = "poll" /\ IrqDue
  /\ PushForIrq
  /\ pc' = "irq_handler"
  /\ UNCHANGED <<cursorVars, loadVars, hwVars, frameVars, saved, loading>>

LeaveIrq ==
  /\ pc = "irq_handler"
  /\ GuestRuns /\ ClearDeadline
  /\ stack' \in {stack - 1, stack} /\ stack' <= MaxLeaks
  /\ pc' = "slice"
  /\ UNCHANGED <<cursorVars, loadVars, frameVars, saved, loading>>

\* WAI ends the host frame; any other stop only ends the slice.
Poll ==
  /\ pc = "poll" /\ ~IrqDue
  /\ pc' = IF took_wai THEN "done" ELSE "slice"
  /\ UNCHANGED <<cursorVars, loadVars, cpuVars, hwVars, deadline, frameVars,
                 saved, loading>>

SlicesOver ==
  /\ pc = "slice" /\ ~MoreSlices
  /\ pc' = "done"
  /\ UNCHANGED <<cursorVars, loadVars, cpuVars, hwVars, deadline, frameVars,
                 saved, loading>>

EndFrame ==
  /\ pc = "done"
  /\ host_frames' = host_frames + 1
  /\ booting' = FALSE
  /\ pc' = "idle"
  /\ UNCHANGED <<did_reset, resume_pc, loadVars, cpuVars, hwVars, deadline,
                 frame_end, slices, took_wai, saved, loading>>

-----------------------------------------------------------------------------
(***************************************************************************)
(* X2StateSaveExtra(), X2StateLoadExtra() and X2OnStateLoaded().             *)
(***************************************************************************)
\* What a state carries.  did_reset is not in the file: it stands here for the
\* machine the state was taken from, so that properties can compare.
State ==
  [present |-> TRUE, did_reset |-> did_reset,
   resume_pc |-> resume_pc, host_frames |-> host_frames,
   cpu |-> cpu, flag_I |-> flag_I, stack |-> stack,
   master_cycles |-> master_cycles, execution |-> execution,
   nmiEnabled |-> nmiEnabled, inIrq |-> inIrq]

Save ==
  /\ pc = "idle" /\ ~saved.present     \* bound: one saved state
  /\ saved' = State
  /\ UNCHANGED <<cursorVars, loadVars, cpuVars, hwVars, deadline, frameVars,
                 pc, loading>>

\* The chunk of this build ("full"), of an earlier one without the execution
\* state ("cursor"), or none that this title can read ("bad").
LoadExtra(chunk) ==
  /\ pc = "idle" /\ saved.present
  /\ loading' = chunk
  /\ pc' = "loaded"
  /\ nmiEnabled' = saved.nmiEnabled /\ inIrq' = saved.inIrq
  /\ extra_loaded' = (chunk # "bad")
  /\ execution_loaded' = (chunk = "full")
  /\ IF chunk = "bad"
     THEN UNCHANGED <<resume_pc, host_frames, cpu, flag_I, stack, master_cycles>>
     ELSE /\ resume_pc' = saved.resume_pc /\ host_frames' = saved.host_frames
          /\ cpu' = saved.cpu /\ flag_I' = saved.flag_I
          /\ stack' = saved.stack /\ master_cycles' = saved.master_cycles
  /\ UNCHANGED <<did_reset, execution, deadline, frameVars, saved>>

\* Mutant: whatever is loaded has executed a guest frame.
WarmAlways == did_reset' = TRUE

\* A cursor from before the first RESET stays cold.
WarmCursor == did_reset' = (host_frames # 0)

\* WRAM without a cursor: cold boot rather than splice it onto a stale PC.
ColdCursor == did_reset' = FALSE /\ resume_pc' = NoPc /\ host_frames' = 0

\* Mutant: the execution state that was read is not applied.
KeptExecution == execution

RestoredExecution == IF execution_loaded THEN saved.execution ELSE execution

OnStateLoaded ==
  /\ pc = "loaded"
  /\ execution' = RestoredExecution
  /\ execution_loaded' = FALSE
  /\ IF extra_loaded THEN WarmCursor /\ UNCHANGED <<resume_pc, host_frames>>
                     ELSE ColdCursor
  /\ extra_loaded' = FALSE
  /\ pc' = "idle"
  /\ UNCHANGED <<cpu, flag_I, stack, master_cycles, hwVars, deadline,
                 frameVars, saved, loading>>

-----------------------------------------------------------------------------
FrameStep ==
  \/ EnterNmi \/ LeaveNmi \/ SkipNmi \/ EnterGuest \/ LeaveGuest
  \/ EnterIrq \/ LeaveIrq \/ Poll \/ SlicesOver \/ EndFrame

LoadStep == \/ \E chunk \in {"full", "cursor", "bad"} : LoadExtra(chunk)
            \/ OnStateLoaded

Next == StartFrame \/ FrameStep \/ Save \/ LoadStep

Spec == Init /\ [][Next]_vars

\* A frame that has been started is run to its end.
FairSpec == Spec /\ WF_vars(FrameStep)

-----------------------------------------------------------------------------
(***************************************************************************)
(* Properties.                                                               *)
(***************************************************************************)
StateSet ==
  {NoState} \cup
  [present : {TRUE}, did_reset : BOOLEAN, resume_pc : Pcs \cup {NoPc},
   host_frames : Nat, cpu : Cpus, flag_I : BOOLEAN, stack : Nat,
   master_cycles : Nat, execution : Execs, nmiEnabled : BOOLEAN, inIrq : BOOLEAN]

\* The type of every variable.
TypeOK ==
  /\ did_reset \in BOOLEAN /\ resume_pc \in Pcs \cup {NoPc} /\ host_frames \in Nat
  /\ extra_loaded \in BOOLEAN /\ execution_loaded \in BOOLEAN
  /\ cpu \in Cpus /\ flag_I \in BOOLEAN /\ stack \in Nat
  /\ master_cycles \in Nat /\ execution \in Execs
  /\ nmiEnabled \in BOOLEAN /\ inIrq \in BOOLEAN
  /\ deadline \in Nat /\ frame_end \in Nat /\ slices \in 0..MaxSlices
  /\ took_wai \in BOOLEAN /\ booting \in BOOLEAN
  /\ pc \in {"idle", "nmi", "nmi_handler", "slice", "guest", "poll",
             "irq_handler", "done", "loaded"}
  /\ saved \in StateSet /\ loading \in {"none", "full", "cursor", "bad"}

\* Between frames the machine is either cold - no RESET, no frame, no resume
\* address - or it has executed at least one frame and can be resumed.  This is
\* what lets X2OnStateLoaded derive did_reset from host_frames.
CursorConsistent ==
  pc = "idle" =>
    /\ did_reset <=> host_frames # 0
    /\ did_reset <=> resume_pc # NoPc

\* A state saved by this build and loaded at any later time, in any machine,
\* restores the whole guest cursor, did_reset included although it is not in
\* the file: what the diagnostic replay's images and rewind rely on.
RoundTrip ==
  [][pc = "loaded" /\ loading = "full" => State' = saved]_vars

\* No NMI interrupts a boot: not in the frame that takes the RESET vector, and
\* not with the NMITIMEN of an abandoned machine right after a state without a
\* cursor was loaded.  A frame that takes one had a completed frame before it
\* since the last cold boot.
NoNmiInBootFrame == [][EnterNmi => ~booting]_vars

\* A host frame is capped at one NTSC frame of master clocks, however long the
\* guest would go on in a slice, in the NMI or in an IRQ handler: it ends at
\* most two overruns late, one of the last slice and one of an IRQ that this
\* slice leaves pending.
FrameCapped ==
  pc \notin {"idle", "loaded"} => master_cycles <= frame_end + 2 * Overrun

\* A frame ends, even when the guest makes no progress at all.
FrameEnds == pc = "nmi" ~> pc = "idle"

=============================================================================
