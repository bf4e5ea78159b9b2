-------------------------- MODULE UpdateSlots_proofs --------------------------
(***************************************************************************)
(* Proofs about UpdateSlots, for every set of processes and versions and   *)
(* whatever goes wrong while update.json is written.                       *)
(***************************************************************************)
EXTENDS UpdateSlots, TLAPS

(* What the operations make of a copy: they keep it a SlotInfo, and sound. *)
LEMMA DefaultCopy == DefaultState \in SlotInfo /\ Sound(DefaultState)
BY VersionsAssumption DEF DefaultState, OnTrial, SlotInfo, Slots, Sound

LEMMA InstalledCopy ==
    ASSUME NEW u \in SlotInfo, NEW v \in Versions
    PROVE  Installed(u, v) \in SlotInfo /\ (Sound(u) => Sound(Installed(u, v)))
BY VersionsAssumption DEF Installed, Inactive, Other, OnTrial, SlotInfo, Slots, Sound

LEMMA ConfirmedCopy ==
    ASSUME NEW u \in SlotInfo
    PROVE  Confirmed(u) \in SlotInfo /\ (Sound(u) => Sound(Confirmed(u)))
BY VersionsAssumption DEF Confirmed, OnTrial, SlotInfo, Slots, Sound

(* A copy on trial falls back to the slot that is still the active one. *)
LEMMA RolledBackCopy ==
    ASSUME NEW u \in SlotInfo
    PROVE  RolledBack(u) \in SlotInfo /\ (Sound(u) /\ OnTrial(u) => Sound(RolledBack(u)))
BY VersionsAssumption DEF RolledBack, Other, OnTrial, SlotInfo, Slots, Sound

LEMMA SwitchedCopy ==
    ASSUME NEW u \in SlotInfo, CanRollBack(u)
    PROVE  LET w == [u EXCEPT !.active_slot = Inactive(u), !.next_boot = Inactive(u),
                              !.running_version = u.version[Inactive(u)]]
           IN  w \in SlotInfo /\ Sound(w)
BY VersionsAssumption DEF CanRollBack, Inactive, Other, OnTrial, SlotInfo, Slots, Sound

-----------------------------------------------------------------------------
(* TypeOK, and every copy that has not gone astray sound, in memory and in
   the file *)
SoundInv == TypeOK /\ CopiesAreSound /\ (fileAstray \/ Sound(saved))

(* Replacing the copy of one process, which may go astray with it, keeps
   SoundInv if a copy that is not astray stays sound. *)
LEMMA ChangeStep ==
    ASSUME SoundInv, NEW p \in Procs, NEW u \in SlotInfo, Change(p, u),
           astray' \in [Procs -> BOOLEAN], astray'[p] \/ Sound(u),
           \A q \in Procs : q # p => astray'[q] = astray[q]
    PROVE  SoundInv'
BY DEF SoundInv, TypeOK, CopiesAreSound, Change

LEMMA SoundStep == SoundInv /\ [Next]_vars => SoundInv'
<1> SUFFICES ASSUME SoundInv, [Next]_vars PROVE SoundInv'
  OBVIOUS
<1>1. ASSUME NEW p \in Procs, Step(p) PROVE SoundInv'
  <2>1. /\ uinfo[p] \in SlotInfo /\ (astray[p] \/ Sound(uinfo[p]))
        /\ astray \in [Procs -> BOOLEAN]
    BY DEF SoundInv, TypeOK, CopiesAreSound
  (* the operations under which no copy goes astray *)
  <2>2. ASSUME NEW u \in SlotInfo, Change(p, u), UNCHANGED astray,
               Sound(uinfo[p]) => Sound(u)
        PROVE  SoundInv'
    BY <2>1, <2>2, ChangeStep
  <2>3. CASE Start(p)
    <3>1. Loaded \in SlotInfo /\ (fileAstray \/ Sound(Loaded))
      BY DefaultCopy DEF SoundInv, TypeOK, Loaded
    <3> QED BY <2>3, <3>1 DEF SoundInv, TypeOK, CopiesAreSound, Start
  <2>4. CASE InstallRejected(p)
    BY <2>1, <2>2, <2>4 DEF InstallRejected
  <2>5. CASE \E v \in Versions : Install(p, v)
    BY <2>1, <2>2, <2>5, InstalledCopy DEF Install
  <2>6. CASE ConfirmHealthy(p)
    BY <2>1, <2>2, <2>6, ConfirmedCopy DEF ConfirmHealthy
  <2>7. CASE ConfirmFailed(p)
    <3>1. RolledBack(uinfo[p]) \in SlotInfo
      BY <2>1, RolledBackCopy
    <3>2. /\ astray' \in [Procs -> BOOLEAN]
          /\ astray'[p] = (astray[p] \/ ~OnTrial(uinfo[p]))
          /\ \A q \in Procs : q # p => astray'[q] = astray[q]
      BY <2>1, <2>7 DEF ConfirmFailed
    <3>3. astray'[p] \/ Sound(RolledBack(uinfo[p]))
      BY <2>1, <3>2, RolledBackCopy
    <3> QED BY <2>7, <3>1, <3>2, <3>3, ChangeStep DEF ConfirmFailed
  <2>8. CASE Rollback(p)
    BY <2>1, <2>2, <2>8, SwitchedCopy DEF Rollback
  <2>9. CASE SaveOpen(p)
    BY <2>9, DefaultCopy DEF SoundInv, TypeOK, CopiesAreSound, SaveOpen, Tear
  <2>10. CASE SaveWrite(p)
    BY <2>1, <2>10, DefaultCopy DEF SoundInv, TypeOK, CopiesAreSound, SaveWrite, Tear
  <2>11. CASE ProcessEnds(p)
    BY <2>11, DefaultCopy DEF SoundInv, TypeOK, CopiesAreSound, ProcessEnds
  <2> QED
    BY <1>1, <2>3, <2>4, <2>5, <2>6, <2>7, <2>8, <2>9, <2>10, <2>11 DEF Step
<1>2. CASE UNCHANGED vars
  BY <1>2 DEF SoundInv, TypeOK, CopiesAreSound, vars
<1> QED BY <1>1, <1>2 DEF Next

LEMMA SoundInit == Init => SoundInv
BY DefaultCopy DEF Init, SoundInv, TypeOK, CopiesAreSound

(* The variables keep their types. *)
THEOREM TypeCorrect == Spec => []TypeOK
<1>1. SoundInv => TypeOK
  BY DEF SoundInv
<1> QED BY <1>1, SoundInit, SoundStep, PTL DEF Spec

(* No interleaving of any number of processes, however old their copies, and
   no torn or failed write or crash makes update.json send the boot loader to
   an empty slot, report the version of a slot that is not the active one, or
   call a slot healthy that is on trial, unless a failed boot check was
   reported in its past while there was no trial. *)
THEOREM FileStaysSound == Spec => []FileIsSound
<1>1. SoundInv => FileIsSound
  BY DEF SoundInv, FileIsSound
<1> QED BY <1>1, SoundInit, SoundStep, PTL DEF Spec
=============================================================================
