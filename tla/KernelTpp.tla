----------------------------- MODULE KernelTpp ------------------------------
(***************************************************************************)
(* enable_kernel_tpp.py: three kernel controls are switched one after the  *)
(* other, each write read back, and switched back when anything fails.     *)
(*                                                                         *)
(* A control's value is "off", "on" (what the script asks for) or "odd"    *)
(* (what the kernel made of a value it did not take as written).           *)
(***************************************************************************)
EXTENDS Naturals, Sequences, FiniteSets

CONSTANT MaxFaults   (* bound: writes that go wrong                        *)

ASSUME FaultsAssumption == MaxFaults \in Nat

Controls == {"demotion", "balancing", "watermark"}

\* Mutant of Changes: the watermark is written first.
WatermarkFirst == <<"watermark", "demotion", "balancing">>

\* The order of enable; the watermark comes last.
Changes == <<"demotion", "balancing", "watermark">>

VARIABLES
  capable,    (* inspect finds the patched kernel and the topology         *)
  computes,   (* this kernel arrives at a watermark that is not zero       *)
  control,    (* what each control file holds                              *)
  prior,      (* what it held when enable began, report["controls"]        *)
  demote,     (* the zone's demotion watermark is not zero                 *)
  pc,         (* "inspect", "write", "verify", "rollback", "enabled",      *)
              (* "refused", "failed" or "interrupted"                      *)
  attempted,  (* the controls written so far                               *)
  failures,   (* rollback errors                                           *)
  faults

vars == <<capable, computes, control, prior, demote, pc, attempted, failures,
          faults>>

Init ==
  /\ capable \in BOOLEAN /\ computes \in BOOLEAN
  /\ control \in [Controls -> {"off", "on", "odd"}]
  /\ prior = control
  /\ demote \in BOOLEAN
  /\ pc = "inspect" /\ attempted = <<>> /\ failures = {} /\ faults = 0

Fault == faults < MaxFaults /\ faults' = faults + 1

Inspect ==
  /\ pc = "inspect"
  /\ pc' = IF capable THEN "write" ELSE "refused"
  /\ prior' = control
  /\ UNCHANGED <<capable, computes, control, demote, attempted, failures,
                 faults>>

\* The kernel computes the demotion watermark when the scale is written while
\* tiered promotion is on; written at another time it clears it or leaves it.
Stored(name, value) ==
  /\ control' = [control EXCEPT ![name] = value]
  /\ demote' \in IF name # "watermark" THEN {demote}
                 ELSE IF control["balancing"] = "on" THEN {computes}
                 ELSE {demote, FALSE}

\* write_checked: the value is stored and read back.
Written(name, value) == Stored(name, value) /\ UNCHANGED faults

\* write_checked raises: nothing was written, or something else was, or the
\* value was and only reading it back failed.
WriteRaises(name, value) ==
  /\ Fault
  /\ \/ UNCHANGED <<control, demote>>
     \/ Stored(name, "odd")
     \/ Stored(name, value)

Upcoming == Changes[Len(attempted) + 1]

WriteControl ==
  /\ pc = "write"
  /\ Written(Upcoming, "on")
  /\ attempted' = Append(attempted, Upcoming)
  /\ pc' = IF Len(attempted') = Len(Changes) THEN "verify" ELSE "write"
  /\ UNCHANGED <<capable, computes, prior, failures>>

\* Mutant of WriteFails: a control counts as attempted once its write returned.
WriteFailsUnlisted ==
  /\ pc = "write"
  /\ WriteRaises(Upcoming, "on")
  /\ pc' = IF attempted = <<>> THEN "failed" ELSE "rollback"
  /\ UNCHANGED <<capable, computes, prior, attempted, failures>>

\* The control is among the attempted ones before it is written.
WriteFails ==
  /\ pc = "write"
  /\ WriteRaises(Upcoming, "on")
  /\ attempted' = Append(attempted, Upcoming)
  /\ pc' = "rollback"
  /\ UNCHANGED <<capable, computes, prior, failures>>

Verify ==
  /\ pc = "verify"
  /\ pc' = IF demote THEN "enabled" ELSE "rollback"
  /\ UNCHANGED <<capable, computes, control, prior, demote, attempted, failures,
                 faults>>

Last == attempted[Len(attempted)]

\* One control less to put back.
Undone ==
  /\ attempted' = SubSeq(attempted, 1, Len(attempted) - 1)
  /\ pc' = IF Len(attempted) = 1 THEN "failed" ELSE "rollback"

\* The attempted controls are put back in reverse order; an error is noted and
\* the rollback goes on.
RollBack ==
  /\ pc = "rollback"
  /\ \/ Written(Last, prior[Last]) /\ UNCHANGED failures
     \/ WriteRaises(Last, prior[Last]) /\ failures' = failures \cup {Last}
  /\ Undone
  /\ UNCHANGED <<capable, computes, prior>>

\* KeyboardInterrupt is no Exception: nothing more is rolled back.
Interrupt ==
  /\ pc \in {"write", "verify", "rollback"}
  /\ Fault
  /\ pc' = "interrupted"
  /\ UNCHANGED <<capable, computes, control, prior, demote, attempted, failures>>

Next ==
  \/ Inspect \/ WriteControl \/ WriteFails \/ Verify
  \/ RollBack \/ Interrupt

Spec == Init /\ [][Next]_vars /\ WF_vars(Next)

-----------------------------------------------------------------------------
(* Properties.                                                             *)

\* An enable that fails leaves every control as it was, or names it among the
\* rollback errors.
FailureRestores ==
  [][(pc' # pc /\ pc' \in {"failed", "refused"}) =>
       \A c \in Controls : control'[c] = prior'[c] \/ c \in failures']_vars

\* An enable that reports success has all three controls on and a watermark the
\* kernel really demotes at.
EnabledIsActive ==
  [][(pc' # pc /\ pc' = "enabled") =>
       demote' /\ \A c \in Controls : control'[c] = "on"]_vars

\* On a capable kernel, enable succeeds when no write fails: whatever the
\* controls held before, the order makes the kernel compute the watermark.
EnableSucceeds ==
  (capable /\ computes /\ [](faults = 0)) => <>(pc = "enabled")
=============================================================================
