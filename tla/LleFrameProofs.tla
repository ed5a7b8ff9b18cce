--------------------------- MODULE LleFrameProofs ---------------------------
(***************************************************************************)
(* Theorems about LleFrame: its type invariant, the invariants of the cursor *)
(* and of the frame's clock, and the two action properties, for any set of   *)
(* guest states, any frame length, overrun and slice cap, and without the    *)
(* bounds of the model checker's instance.                                   *)
(***************************************************************************)
EXTENDS LleFrame, TLAPS

\* Inside a frame the RESET vector has been taken and there is an address to
\* resume at; a boot frame has not completed any frame when its NMI is decided.
InFrame ==
  /\ pc \notin {"idle", "loaded"} => did_reset /\ resume_pc # NoPc
  /\ pc = "nmi" /\ booting => host_frames = 0

\* A saved state was taken between frames, so it is cold or resumable too.
SavedConsistent ==
  saved.present = TRUE =>
    /\ saved.did_reset <=> saved.host_frames # 0
    /\ saved.did_reset <=> saved.resume_pc # NoPc

\* Between X2StateLoadExtra and X2OnStateLoaded the flags say what the chunk
\* carried, and the cursor already holds it.
Loading ==
  pc = "loaded" =>
    /\ saved.present = TRUE /\ loading \in {"full", "cursor", "bad"}
    /\ extra_loaded <=> loading # "bad"
    /\ execution_loaded <=> loading = "full"
    /\ nmiEnabled = saved.nmiEnabled /\ inIrq = saved.inIrq
    /\ extra_loaded =>
         /\ resume_pc = saved.resume_pc /\ host_frames = saved.host_frames
         /\ cpu = saved.cpu /\ flag_I = saved.flag_I
         /\ stack = saved.stack /\ master_cycles = saved.master_cycles

\* The guest runs with the deadline of the frame, which is a deadline: 0 would
\* be none.  An interrupt handler runs above the frame that was pushed for it.
Guarded ==
  /\ pc \notin {"idle", "loaded"} => frame_end > 0
  /\ pc \in {"nmi_handler", "guest", "irq_handler"} => deadline = frame_end
  /\ pc \in {"nmi_handler", "irq_handler"} => stack > 0

\* How far the clock can be at each point of the frame: a slice starts before
\* the end, an IRQ handler at most one overrun after it.
InTime ==
  /\ pc \in {"nmi", "nmi_handler", "guest"} => master_cycles <= frame_end
  /\ pc \in {"poll", "irq_handler"} => master_cycles <= frame_end + Overrun

\* The inductive invariant.
IInv ==
  /\ TypeOK /\ CursorConsistent /\ InFrame /\ SavedConsistent /\ Loading
  /\ Guarded /\ InTime /\ FrameCapped

-----------------------------------------------------------------------------
\* A saved state that is present holds a whole cursor.
LEMMA PresentState ==
  ASSUME saved \in StateSet, saved.present = TRUE
  PROVE  /\ saved \in StateSet \ {NoState}
         /\ saved.resume_pc \in Pcs \cup {NoPc} /\ saved.host_frames \in Nat
         /\ saved.cpu \in Cpus /\ saved.stack \in Nat
         /\ saved.master_cycles \in Nat /\ saved.execution \in Execs
         /\ saved.did_reset \in BOOLEAN /\ saved.flag_I \in BOOLEAN
         /\ saved.nmiEnabled \in BOOLEAN /\ saved.inIrq \in BOOLEAN
<1>1. saved # NoState
  BY DEF NoState
<1> QED
  BY <1>1 DEF StateSet

\* The guest leaves values of the right types behind.
LEMMA GuestType ==
  ASSUME TypeOK, GuestRuns
  PROVE  /\ cpu' \in Cpus /\ master_cycles' \in Nat /\ execution' \in Execs
         /\ nmiEnabled' \in BOOLEAN /\ inIrq' \in BOOLEAN
         /\ flag_I' \in BOOLEAN
<1>1. PICK a \in Advances : master_cycles' = Stopped(master_cycles + a)
  BY DEF GuestRuns
<1>2. a \in Nat /\ Overrun \in Nat /\ master_cycles \in Nat /\ deadline \in Nat
  BY LleAssumption DEF TypeOK
<1>3. Stopped(master_cycles + a) \in Nat
  BY <1>2 DEF Stopped
<1> QED
  BY <1>1, <1>3 DEF GuestRuns

\* Every variable keeps its type; RunOneFrameOfGame, the two interrupts, and
\* the save and load callbacks are the steps.
LEMMA TypeInductive == TypeOK /\ Loading /\ Guarded /\ [Next]_vars => TypeOK'
<1> SUFFICES ASSUME TypeOK, Loading, Guarded, [Next]_vars PROVE TypeOK'
  OBVIOUS
<1> USE LleAssumption
<1>1. CASE StartFrame
  <2>1. did_reset' \in BOOLEAN /\ flag_I' \in BOOLEAN
    BY <1>1 DEF StartFrame, ColdBoot, TypeOK, cursorVars
  <2>2. /\ resume_pc' \in Pcs \cup {NoPc} /\ host_frames' \in Nat
        /\ cpu' \in Cpus /\ stack' \in Nat /\ master_cycles' \in Nat
    <3>1. CASE did_reset
      BY <1>1, <3>1 DEF StartFrame, TypeOK, cursorVars
    <3>2. CASE ~did_reset
      BY <1>1, <3>2 DEF StartFrame, ColdBoot
    <3> QED
      BY <3>1, <3>2
  <2>3. frame_end' \in Nat
    <3>1. FrameClocks \in Nat /\ frame_end' = master_cycles' + FrameClocks
      BY <1>1 DEF StartFrame, LleAssumption
    <3>2. master_cycles' \in Nat
      BY <2>2
    <3>3. \A a, b \in Nat : a + b \in Nat
      OBVIOUS
    <3> QED
      BY <3>1, <3>2, <3>3, Zenon
  <2>4. slices' \in 0..MaxSlices
    BY <1>1 DEF StartFrame
  <2>5. booting' \in BOOLEAN /\ took_wai' \in BOOLEAN
    BY <1>1 DEF StartFrame
  <2> QED
    BY <1>1, <2>1, <2>2, <2>3, <2>4, <2>5 DEF StartFrame, TypeOK, hwVars, loadVars
<1>2. CASE EnterNmi
  <2>1. stack' \in Nat /\ flag_I' \in BOOLEAN
    BY <1>2 DEF EnterNmi, PushFrame, TypeOK
  <2> QED
    BY <1>2, <2>1 DEF EnterNmi, PushFrame, SetDeadline, TypeOK, cursorVars,
                      loadVars, hwVars, frameVars
<1>14. CASE LeaveNmi
  <2>1. stack' \in Nat
    BY <1>14 DEF LeaveNmi, Guarded, TypeOK
  <2> QED
    BY <1>14, <2>1, GuestType DEF LeaveNmi, ClearDeadline, TypeOK, cursorVars,
                                  loadVars, frameVars
<1>3. CASE SkipNmi
  BY <1>3 DEF SkipNmi, TypeOK, cursorVars, loadVars, cpuVars, hwVars, frameVars
<1>4. CASE EnterGuest
  BY <1>4 DEF EnterGuest, MoreSlices, CountSlice, SetDeadline, TypeOK, cursorVars, loadVars,
              cpuVars, hwVars
<1>5. CASE LeaveGuest
  BY <1>5, GuestType DEF LeaveGuest, ClearDeadline, TypeOK, loadVars
<1>6. CASE EnterIrq
  <2>1. stack' \in Nat /\ flag_I' \in BOOLEAN
    BY <1>6 DEF EnterIrq, PushForIrq, PushFrame, TypeOK
  <2> QED
    BY <1>6, <2>1 DEF EnterIrq, PushForIrq, PushFrame, SetDeadline, TypeOK,
                      cursorVars, loadVars, hwVars, frameVars
<1>15. CASE LeaveIrq
  <2>1. stack' \in Nat
    BY <1>15 DEF LeaveIrq, Guarded, TypeOK
  <2> QED
    BY <1>15, <2>1, GuestType DEF LeaveIrq, ClearDeadline, TypeOK, cursorVars,
                                  loadVars, frameVars
<1>7. CASE Poll
  BY <1>7 DEF Poll, TypeOK, cursorVars, loadVars, cpuVars, hwVars, frameVars
<1>8. CASE SlicesOver
  BY <1>8 DEF SlicesOver, TypeOK, cursorVars, loadVars, cpuVars, hwVars, frameVars
<1>9. CASE EndFrame
  <2>1. host_frames' \in Nat
    BY <1>9 DEF EndFrame, TypeOK
  <2>2. booting' \in BOOLEAN
    BY <1>9 DEF EndFrame
  <2> QED
    BY <1>9, <2>1, <2>2 DEF EndFrame, TypeOK, loadVars, cpuVars, hwVars
<1>10. CASE Save
  <2>1. saved' \in StateSet
    BY <1>10 DEF Save, State, StateSet, TypeOK
  <2> QED
    BY <1>10, <2>1 DEF Save, TypeOK, cursorVars, loadVars, cpuVars, hwVars, frameVars
<1>11. ASSUME NEW chunk \in {"full", "cursor", "bad"}, LoadExtra(chunk)
       PROVE  TypeOK'
  <2>1. saved \in StateSet /\ saved.present = TRUE
    <3>1. saved # NoState
      BY <1>11 DEF LoadExtra, NoState
    <3>2. saved.present \in {TRUE}
      BY <3>1 DEF TypeOK, StateSet
    <3> QED
      BY <3>2 DEF TypeOK
  <2>2. /\ resume_pc' \in Pcs \cup {NoPc} /\ host_frames' \in Nat
        /\ cpu' \in Cpus /\ stack' \in Nat /\ master_cycles' \in Nat
    BY <1>11, <2>1, PresentState DEF LoadExtra, TypeOK
  <2>3. flag_I' \in BOOLEAN /\ nmiEnabled' \in BOOLEAN /\ inIrq' \in BOOLEAN
    BY <1>11, <2>1, PresentState DEF LoadExtra, TypeOK
  <2>4. extra_loaded' \in BOOLEAN /\ execution_loaded' \in BOOLEAN
    BY <1>11 DEF LoadExtra
  <2> QED
    BY <1>11, <2>2, <2>3, <2>4 DEF LoadExtra, TypeOK, frameVars
<1>12. CASE OnStateLoaded
  <2>1. execution' \in Execs
    <3>1. CASE execution_loaded
      <4>1. saved \in StateSet /\ saved.present = TRUE
        BY <1>12 DEF OnStateLoaded, Loading, TypeOK
      <4> QED
        BY <1>12, <3>1, <4>1, PresentState DEF OnStateLoaded, RestoredExecution
    <3>2. CASE ~execution_loaded
      BY <1>12, <3>2 DEF OnStateLoaded, RestoredExecution, TypeOK
    <3> QED
      BY <3>1, <3>2
  <2>2. did_reset' \in BOOLEAN
    BY <1>12 DEF OnStateLoaded, WarmCursor, ColdCursor
  <2>3. resume_pc' \in Pcs \cup {NoPc} /\ host_frames' \in Nat
    <3>1. CASE extra_loaded
      BY <1>12, <3>1 DEF OnStateLoaded, TypeOK
    <3>2. CASE ~extra_loaded
      BY <1>12, <3>2 DEF OnStateLoaded, ColdCursor
    <3> QED
      BY <3>1, <3>2
  <2> QED
    BY <1>12, <2>1, <2>2, <2>3 DEF OnStateLoaded, TypeOK, hwVars, frameVars
<1>13. CASE UNCHANGED vars
  BY <1>13 DEF vars, TypeOK, cursorVars, loadVars, cpuVars, hwVars, frameVars
<1> QED
  BY <1>1, <1>2, <1>3, <1>4, <1>5, <1>6, <1>7, <1>8, <1>9, <1>10, <1>11, <1>12,
     <1>13, <1>14, <1>15 DEF Next, FrameStep, LoadStep

-----------------------------------------------------------------------------
\* What X2StateLoadExtra and X2OnStateLoaded know about the state being loaded.
LEMMA LoadingInductive == TypeOK /\ Loading /\ [Next]_vars => Loading'
<1> SUFFICES ASSUME TypeOK, Loading, [Next]_vars, pc' = "loaded" PROVE Loading'
  BY DEF Loading
<1>1. ASSUME NEW chunk \in {"full", "cursor", "bad"}, LoadExtra(chunk)
      PROVE  Loading'
  <2>1. saved' = saved /\ saved.present = TRUE
    <3>1. saved # NoState
      BY <1>1 DEF LoadExtra, NoState
    <3>2. saved.present \in {TRUE}
      BY <3>1 DEF TypeOK, StateSet
    <3> QED
      BY <1>1, <3>2 DEF LoadExtra
  <2>2. /\ loading' = chunk
        /\ extra_loaded' <=> chunk # "bad"
        /\ execution_loaded' <=> chunk = "full"
        /\ nmiEnabled' = saved.nmiEnabled /\ inIrq' = saved.inIrq
    BY <1>1 DEF LoadExtra
  <2>3. chunk # "bad" =>
          /\ resume_pc' = saved.resume_pc /\ host_frames' = saved.host_frames
          /\ cpu' = saved.cpu /\ flag_I' = saved.flag_I
          /\ stack' = saved.stack /\ master_cycles' = saved.master_cycles
    BY <1>1 DEF LoadExtra
  <2> QED
    BY <2>1, <2>2, <2>3 DEF Loading
<1>2. CASE UNCHANGED vars
  BY <1>2 DEF Loading, vars, cursorVars, loadVars, cpuVars, hwVars
<1> QED
  BY <1>1, <1>2 DEF Next, StartFrame, FrameStep, Save, LoadStep, EnterNmi,
     LeaveNmi, SkipNmi, EnterGuest, LeaveGuest, EnterIrq, LeaveIrq, Poll, SlicesOver, EndFrame, OnStateLoaded

\* The state that Save keeps is as consistent as the machine was.
LEMMA SavedInductive ==
  CursorConsistent /\ SavedConsistent /\ [Next]_vars => SavedConsistent'
<1> SUFFICES ASSUME CursorConsistent, SavedConsistent, [Next]_vars
             PROVE  SavedConsistent'
  OBVIOUS
<1>1. CASE Save
  <2>1. /\ did_reset <=> host_frames # 0
        /\ did_reset <=> resume_pc # NoPc
    BY <1>1 DEF Save, CursorConsistent
  <2>2. /\ saved'.did_reset = did_reset /\ saved'.host_frames = host_frames
        /\ saved'.resume_pc = resume_pc
    BY <1>1 DEF Save, State
  <2> QED
    BY <2>1, <2>2 DEF SavedConsistent
<1>2. CASE saved' = saved
  BY <1>2 DEF SavedConsistent
<1> QED
  BY <1>1, <1>2 DEF Next, StartFrame, FrameStep, LoadStep, EnterNmi,
     LeaveNmi, SkipNmi, EnterGuest, LeaveGuest, EnterIrq, LeaveIrq, Poll, SlicesOver, EndFrame, OnStateLoaded,
     LoadExtra, vars

-----------------------------------------------------------------------------
\* The cursor is cold or resumable whenever the driver is between frames.
LEMMA CursorInductive ==
  /\ TypeOK /\ CursorConsistent /\ InFrame /\ SavedConsistent /\ Loading
  /\ [Next]_vars
  => CursorConsistent' /\ InFrame'
<1> SUFFICES ASSUME TypeOK, CursorConsistent, InFrame, SavedConsistent, Loading,
                    [Next]_vars
             PROVE  CursorConsistent' /\ InFrame'
  OBVIOUS
<1> USE LleAssumption
<1>1. CASE StartFrame
  <2>1. CASE did_reset
    <3>1. did_reset' /\ resume_pc' # NoPc /\ ~booting' /\ pc' = "nmi"
      BY <1>1, <2>1 DEF StartFrame, CursorConsistent, cursorVars
    <3> QED
      BY <3>1 DEF CursorConsistent, InFrame
  <2>2. CASE ~did_reset
    <3>1. did_reset' /\ resume_pc' # NoPc /\ host_frames' = 0 /\ pc' = "nmi"
      BY <1>1, <2>2 DEF StartFrame, ColdBoot
    <3> QED
      BY <3>1 DEF CursorConsistent, InFrame
  <2> QED
    BY <2>1, <2>2
<1>2. CASE EnterNmi \/ LeaveNmi \/ SkipNmi \/ EnterGuest \/ EnterIrq \/ LeaveIrq
           \/ Poll \/ SlicesOver
  <2>1. /\ did_reset' = did_reset /\ resume_pc' = resume_pc
        /\ pc \notin {"idle", "loaded"} /\ pc' \notin {"idle", "loaded", "nmi"}
    BY <1>2 DEF EnterNmi, LeaveNmi, SkipNmi, EnterGuest, EnterIrq, LeaveIrq, Poll,
                SlicesOver, cursorVars
  <2> QED
    BY <2>1 DEF CursorConsistent, InFrame
<1>3. CASE LeaveGuest
  <2>1. did_reset' = did_reset /\ resume_pc' # NoPc /\ pc = "guest" /\ pc' = "poll"
    BY <1>3 DEF LeaveGuest
  <2> QED
    BY <2>1 DEF CursorConsistent, InFrame
<1>4. CASE EndFrame
  <2>1. did_reset /\ resume_pc # NoPc /\ pc' = "idle"
    BY <1>4 DEF EndFrame, InFrame
  <2>2. did_reset' = did_reset /\ resume_pc' = resume_pc
    BY <1>4 DEF EndFrame
  <2>3. host_frames' # 0
    BY <1>4 DEF EndFrame, TypeOK
  <2> QED
    BY <2>1, <2>2, <2>3 DEF CursorConsistent, InFrame
<1>5. CASE Save
  BY <1>5 DEF Save, CursorConsistent, InFrame, cursorVars
<1>6. ASSUME NEW chunk \in {"full", "cursor", "bad"}, LoadExtra(chunk)
      PROVE  CursorConsistent' /\ InFrame'
  BY <1>6 DEF LoadExtra, CursorConsistent, InFrame
<1>7. CASE OnStateLoaded
  <2>1. pc = "loaded" /\ pc' = "idle"
    BY <1>7 DEF OnStateLoaded
  <2>2. CASE extra_loaded
    <3>1. /\ did_reset' <=> host_frames # 0
          /\ host_frames' = host_frames /\ resume_pc' = resume_pc
      BY <1>7, <2>2 DEF OnStateLoaded, WarmCursor
    <3>2. /\ saved.present = TRUE
          /\ resume_pc = saved.resume_pc /\ host_frames = saved.host_frames
      BY <2>1, <2>2 DEF Loading
    <3>3. host_frames # 0 <=> resume_pc # NoPc
      BY <3>2 DEF SavedConsistent
    <3> QED
      BY <2>1, <3>1, <3>3 DEF CursorConsistent, InFrame
  <2>3. CASE ~extra_loaded
    BY <1>7, <2>1, <2>3 DEF OnStateLoaded, ColdCursor, CursorConsistent, InFrame
  <2> QED
    BY <2>2, <2>3
<1>8. CASE UNCHANGED vars
  BY <1>8 DEF vars, cursorVars, frameVars, CursorConsistent, InFrame
<1> QED
  BY <1>1, <1>2, <1>3, <1>4, <1>5, <1>6, <1>7, <1>8 DEF Next, FrameStep, LoadStep

\* Every way into the guest sets the deadline, and pushes what its return pops.
LEMMA GuardedInductive ==
  TypeOK /\ Guarded /\ InTime /\ [Next]_vars => Guarded'
<1> SUFFICES ASSUME TypeOK, Guarded, [Next]_vars PROVE Guarded'
  OBVIOUS
<1>1. CASE EnterNmi
  BY <1>1 DEF EnterNmi, PushFrame, SetDeadline, frameVars, Guarded, TypeOK
<1>2. CASE EnterIrq
  BY <1>2 DEF EnterIrq, PushForIrq, PushFrame, SetDeadline, frameVars, Guarded, TypeOK
<1>3. CASE EnterGuest
  BY <1>3 DEF EnterGuest, SetDeadline, Guarded
<1>4. CASE StartFrame
  <2>1. master_cycles' \in Nat
    BY <1>4 DEF StartFrame, ColdBoot, TypeOK
  <2>2. frame_end' > 0
    <3>1. frame_end' = master_cycles' + FrameClocks
      BY <1>4 DEF StartFrame
    <3>2. FrameClocks \in Nat /\ FrameClocks > 0
      BY LleAssumption
    <3>3. \A a, b \in Nat : b > 0 => a + b > 0
      OBVIOUS
    <3> QED
      BY <2>1, <3>1, <3>2, <3>3, Zenon
  <2>3. pc' = "nmi"
    BY <1>4 DEF StartFrame
  <2> QED
    BY <2>2, <2>3 DEF Guarded
<1>5. CASE LeaveNmi \/ SkipNmi \/ LeaveGuest \/ LeaveIrq \/ Poll \/ SlicesOver
  <2>1. /\ frame_end' = frame_end /\ pc \notin {"idle", "loaded"}
        /\ pc' \notin {"nmi_handler", "guest", "irq_handler"}
    BY <1>5 DEF LeaveNmi, SkipNmi, LeaveGuest, LeaveIrq, Poll, SlicesOver, frameVars
  <2> QED
    BY <2>1 DEF Guarded
<1>6. CASE UNCHANGED vars
  BY <1>6 DEF vars, Guarded, cpuVars, frameVars
<1>7. CASE pc' \in {"idle", "loaded"}
  BY <1>7 DEF Guarded
<1> QED
  BY <1>1, <1>2, <1>3, <1>4, <1>5, <1>6, <1>7 DEF Next, FrameStep, Save, LoadStep,
     EndFrame, LoadExtra, OnStateLoaded

\* With the frame's end as its deadline a run of the guest ends one overrun
\* after that end, or after where it started.
LEMMA StoppedInTime ==
  ASSUME TypeOK, GuestRuns, deadline = frame_end, frame_end > 0
  PROVE  /\ master_cycles <= frame_end => master_cycles' <= frame_end + Overrun
         /\ master_cycles <= frame_end + Overrun =>
              master_cycles' <= frame_end + 2 * Overrun
<1>1. PICK a \in Advances : master_cycles' = Stopped(master_cycles + a)
  BY DEF GuestRuns
<1>2. /\ a \in Nat /\ Overrun \in Nat /\ master_cycles \in Nat
      /\ frame_end \in Nat
  BY LleAssumption DEF TypeOK
<1> QED
  BY <1>1, <1>2 DEF Stopped

\* The clock stays in the frame: slices start before its end, and the interrupt
\* handlers have the same deadline as the slices.
LEMMA TimeInductive ==
  /\ TypeOK /\ TypeOK' /\ Guarded /\ InTime /\ FrameCapped /\ [Next]_vars
  => InTime' /\ FrameCapped'
<1> SUFFICES ASSUME TypeOK, TypeOK', Guarded, InTime, FrameCapped, [Next]_vars
             PROVE  InTime' /\ FrameCapped'
  OBVIOUS
<1>0. /\ Overrun \in Nat /\ FrameClocks \in Nat
      /\ master_cycles \in Nat /\ frame_end \in Nat
      /\ master_cycles' \in Nat /\ frame_end' \in Nat
  BY LleAssumption DEF TypeOK
<1>1. CASE StartFrame
  <2>1. frame_end' = master_cycles' + FrameClocks /\ pc' = "nmi"
    BY <1>1 DEF StartFrame
  <2>2. \A a, b, o \in Nat : a <= a + b /\ a <= (a + b) + 2 * o
    OBVIOUS
  <2>3. master_cycles' <= frame_end' /\ master_cycles' <= frame_end' + 2 * Overrun
    BY <1>0, <2>1, <2>2, Zenon
  <2> QED
    BY <2>1, <2>3 DEF InTime, FrameCapped
<1>2. CASE LeaveNmi
  <2>1. /\ deadline = frame_end /\ frame_end > 0 /\ master_cycles <= frame_end
        /\ GuestRuns /\ frame_end' = frame_end /\ pc' = "slice"
    BY <1>2 DEF LeaveNmi, Guarded, InTime, frameVars
  <2> QED
    BY <1>0, <2>1, StoppedInTime DEF InTime, FrameCapped
<1>3. CASE LeaveGuest
  <2>1. /\ deadline = frame_end /\ frame_end > 0 /\ master_cycles <= frame_end
        /\ GuestRuns /\ frame_end' = frame_end /\ pc' = "poll"
    BY <1>3 DEF LeaveGuest, Guarded, InTime
  <2> QED
    BY <1>0, <2>1, StoppedInTime DEF InTime, FrameCapped
<1>4. CASE LeaveIrq
  <2>1. /\ deadline = frame_end /\ frame_end > 0
        /\ master_cycles <= frame_end + Overrun
        /\ GuestRuns /\ frame_end' = frame_end /\ pc' = "slice"
    BY <1>4 DEF LeaveIrq, Guarded, InTime, frameVars
  <2> QED
    BY <1>0, <2>1, StoppedInTime DEF InTime, FrameCapped
<1>5. CASE EnterGuest
  <2>1. /\ master_cycles <= frame_end /\ master_cycles' = master_cycles
        /\ frame_end' = frame_end /\ pc' = "guest"
    BY <1>0, <1>5 DEF EnterGuest, MoreSlices, cpuVars
  <2> QED
    BY <1>0, <2>1 DEF InTime, FrameCapped
<1>6. CASE EnterNmi
  <2>1. /\ master_cycles <= frame_end /\ master_cycles' = master_cycles
        /\ frame_end' = frame_end /\ pc' = "nmi_handler"
    BY <1>6 DEF EnterNmi, PushFrame, InTime, frameVars
  <2> QED
    BY <1>0, <2>1 DEF InTime, FrameCapped
<1>7. CASE EnterIrq
  <2>1. /\ master_cycles <= frame_end + Overrun /\ master_cycles' = master_cycles
        /\ frame_end' = frame_end /\ pc' = "irq_handler"
    BY <1>7 DEF EnterIrq, PushForIrq, PushFrame, InTime, frameVars
  <2> QED
    BY <1>0, <2>1 DEF InTime, FrameCapped
<1>8. CASE SkipNmi \/ Poll \/ SlicesOver
  <2>1. /\ pc \notin {"idle", "loaded"} /\ pc' \in {"slice", "done"}
        /\ master_cycles' = master_cycles /\ frame_end' = frame_end
    BY <1>8 DEF SkipNmi, Poll, SlicesOver, cpuVars, frameVars
  <2> QED
    BY <2>1 DEF InTime, FrameCapped
<1>9. CASE UNCHANGED vars
  BY <1>9 DEF vars, cpuVars, frameVars, InTime, FrameCapped
<1>10. CASE pc' \in {"idle", "loaded"}
  BY <1>10 DEF InTime, FrameCapped
<1> QED
  BY <1>1, <1>2, <1>3, <1>4, <1>5, <1>6, <1>7, <1>8, <1>9, <1>10 DEF Next, FrameStep,
     Save, LoadStep, EndFrame, LoadExtra, OnStateLoaded

-----------------------------------------------------------------------------
\* The cold boot state satisfies the inductive invariant.
LEMMA Initially == Init => IInv
<1> SUFFICES ASSUME Init PROVE IInv
  OBVIOUS
<1>1. TypeOK
  <2>1. /\ resume_pc \in Pcs \cup {NoPc} /\ cpu \in Cpus /\ execution \in Execs
        /\ saved \in StateSet
    BY LleAssumption DEF Init, StateSet
  <2>2. /\ host_frames \in Nat /\ stack \in Nat /\ master_cycles \in Nat
        /\ deadline \in Nat /\ frame_end \in Nat /\ slices \in 0..MaxSlices
    BY LleAssumption DEF Init
  <2>3. /\ did_reset \in BOOLEAN /\ extra_loaded \in BOOLEAN
        /\ execution_loaded \in BOOLEAN /\ flag_I \in BOOLEAN
        /\ nmiEnabled \in BOOLEAN /\ inIrq \in BOOLEAN
        /\ took_wai \in BOOLEAN /\ booting \in BOOLEAN
    BY DEF Init
  <2> QED
    BY <2>1, <2>2, <2>3 DEF Init, TypeOK
<1>2. SavedConsistent
  BY DEF Init, SavedConsistent, NoState
<1> QED
  BY <1>1, <1>2 DEF Init, IInv, CursorConsistent, InFrame, Loading, Guarded, InTime,
                    FrameCapped

\* Every step of the driver and of the callbacks preserves it.
LEMMA Inductive == IInv /\ [Next]_vars => IInv'
  BY TypeInductive, LoadingInductive, SavedInductive, CursorInductive,
     GuardedInductive, TimeInductive DEF IInv

\* The inductive invariant holds in every reachable state of the frame driver.
THEOREM LleInvariant == Spec => []IInv
  BY Initially, Inductive, PTL DEF Spec

\* Type correctness of the frame driver, and its slice counter within the cap.
THEOREM LleTypeOK == Spec => []TypeOK
  BY LleInvariant, PTL DEF IInv

\* Between frames the machine is cold or resumable: what X2OnStateLoaded relies
\* on to derive s_lle_did_reset from the frame count alone.
THEOREM LleCursorConsistent == Spec => []CursorConsistent
  BY LleInvariant, PTL DEF IInv

\* A host frame takes one NTSC frame of master clocks and two overruns of the
\* bridge at most, with any number of slices and interrupts in it.
THEOREM LleFrameCapped == Spec => []FrameCapped
  BY LleInvariant, PTL DEF IInv

-----------------------------------------------------------------------------
\* Loading a state of this build restores the guest cursor that was saved, the
\* reset flag included, which no file holds.
THEOREM LleRoundTrip == Spec => RoundTrip
<1>1. ASSUME IInv, [Next]_vars, pc = "loaded", loading = "full", vars' # vars
      PROVE  State' = saved
  <2>1. OnStateLoaded
    BY <1>1 DEF Next, StartFrame, FrameStep, Save, LoadStep, EnterNmi,
       LeaveNmi, SkipNmi, EnterGuest, LeaveGuest, EnterIrq, LeaveIrq, Poll, SlicesOver, EndFrame, LoadExtra
  <2>2. /\ saved.present = TRUE /\ extra_loaded /\ execution_loaded
        /\ nmiEnabled = saved.nmiEnabled /\ inIrq = saved.inIrq
        /\ resume_pc = saved.resume_pc /\ host_frames = saved.host_frames
        /\ cpu = saved.cpu /\ flag_I = saved.flag_I
        /\ stack = saved.stack /\ master_cycles = saved.master_cycles
    BY <1>1 DEF IInv, Loading
  <2>3. did_reset' = saved.did_reset
    <3>1. did_reset' <=> saved.host_frames # 0
      BY <2>1, <2>2 DEF OnStateLoaded, WarmCursor
    <3>2. saved.did_reset <=> saved.host_frames # 0
      BY <1>1, <2>2 DEF IInv, SavedConsistent
    <3>3. did_reset' \in BOOLEAN /\ saved.did_reset \in BOOLEAN
      BY <1>1, <2>1, <2>2, PresentState DEF IInv, TypeOK, OnStateLoaded, WarmCursor
    <3> QED
      BY <3>1, <3>2, <3>3
  <2>4. /\ execution' = saved.execution
        /\ resume_pc' = saved.resume_pc /\ host_frames' = saved.host_frames
        /\ cpu' = saved.cpu /\ flag_I' = saved.flag_I
        /\ stack' = saved.stack /\ master_cycles' = saved.master_cycles
        /\ nmiEnabled' = saved.nmiEnabled /\ inIrq' = saved.inIrq
    BY <2>1, <2>2 DEF OnStateLoaded, RestoredExecution, hwVars
  <2>5. saved \in StateSet \ {NoState}
    BY <1>1, <2>2, PresentState DEF IInv, TypeOK
  <2> QED
    BY <2>2, <2>3, <2>4, <2>5 DEF State, StateSet
<1>2. IInv /\ [Next]_vars => [pc = "loaded" /\ loading = "full" => State' = saved]_vars
  BY <1>1
<1> QED
  BY <1>2, LleInvariant, PTL DEF Spec, RoundTrip

\* The frame that takes the RESET vector is never interrupted by an NMI.
THEOREM LleNoNmiInBootFrame == Spec => NoNmiInBootFrame
<1>1. IInv /\ [Next]_vars => [EnterNmi => ~booting]_vars
  <2> SUFFICES ASSUME IInv, EnterNmi PROVE ~booting
    OBVIOUS
  <2>1. pc = "nmi" /\ host_frames > 0
    BY DEF EnterNmi, NmiDue
  <2> QED
    BY <2>1 DEF IInv, InFrame
<1> QED
  BY <1>1, LleInvariant, PTL DEF Spec, NoNmiInBootFrame

=============================================================================
