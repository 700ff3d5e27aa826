------------------------------ MODULE MCRename ------------------------------
(***************************************************************************)
(* A window of three instructions (of one while the detailed simulation is *)
(* off), one shadow mapper, one register of each kind beside the zero      *)
(* register, and instructions chosen so that each path of the renaming,    *)
(* the branches and the flushes is taken.                                  *)
(***************************************************************************)
EXTENDS Rename

CONSTANTS r0, r1, cc, f1

I(rd, c, rs, br, wp, load) ==
  [rd |-> rd, cc |-> c, rs |-> rs, br |-> br, wp |-> wp, load |-> load]

(* addcc, a load, a predicted branch with a delay slot, one whose slot may *)
(* be annulled, a jump through a register, a save, a restore.              *)
MCCodes ==
  {I(r1, cc, r1, "none", 0, FALSE), I(f1, r0, r1, "none", 0, TRUE),
   I(r0, r0, cc, "delay", 0, FALSE), I(r0, r0, cc, "annul", 0, FALSE),
   I(r1, r0, r1, "jump", 0, FALSE), I(r0, r0, r1, "none", -1, FALSE),
   I(r0, r0, r0, "none", 1, FALSE)}
MCIntRegs == {r0, r1, cc}
MCFpRegs == {f1}
MCIntSpare == 1..MAX_ACTIVE_NUMBER
MCFpSpare == (MAX_ACTIVE_NUMBER + 1)..(2 * MAX_ACTIVE_NUMBER)
=============================================================================
