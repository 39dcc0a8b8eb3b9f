-------------------------- MODULE SigningNvmProofs --------------------------
(***************************************************************************)
(* SigningNvm for every cap of the rejection loop, with and without power  *)
(* losses.                                                                 *)
(***************************************************************************)
EXTENDS SigningNvm, TLAPS

\* The invariant every step is shown to keep.
IInv == TypeOK /\ SigningInv

\* N_storage is zero when the application is installed.
LEMMA InitInv == Init => IInv
<1>1. Init => TypeOK
  BY AttemptsAssumption DEF Init, TypeOK, Zero, Content, Label, Op, Outcome
<1>2. Init => SigningInv
  BY DEF Init, SigningInv, WipeInv, CleanInv, FreshInv, Clean, Wiped, Fresh, Holds,
         Zero, Region, KeyLabel, SignLabel, VerifyLabel, WipeLabel, HighLabel, ChallengeLabel
<1> QED  BY <1>1, <1>2 DEF IInv

\* Marking regions stale keeps their types and their levels.
LEMMA StaleKeeps ==
  ASSUME mem \in [Region -> Content], NEW regions
  PROVE  /\ Stale(regions) \in [Region -> Content]
         /\ \A r \in Region : Stale(regions)[r].level = mem[r].level
         /\ \A r \in Region \ regions : Stale(regions)[r] = mem[r]
<1>1. \A r \in Region : [mem[r] EXCEPT !.fresh = FALSE] \in Content
                         /\ [mem[r] EXCEPT !.fresh = FALSE].level = mem[r].level
  BY DEF Content
<1> QED  BY <1>1 DEF Stale

\* The effect of one write, region by region.
Wrote(at, to, dst, reads, level) ==
  /\ pc = at /\ pc' = to
  /\ op' = op /\ attempts' = attempts /\ outcome' = outcome
  /\ \A r \in Region \ {dst} : mem'[r] = mem[r]
  /\ mem'[dst].level = level
  /\ mem'[dst].fresh <=> \A r \in reads : mem[r].fresh

\* One write keeps the types, changes one region and moves the program counter.
LEMMA WriteKeeps ==
  ASSUME TypeOK, NEW at, NEW to \in Label, NEW dst \in Region, NEW reads,
         NEW level \in {"public", "intermediate"}, Write(at, to, dst, reads, level)
  PROVE  TypeOK' /\ Wrote(at, to, dst, reads, level)
<1> DEFINE c == [level |-> level, fresh |-> \A r \in reads : mem[r].fresh]
<1>1. (\A r \in reads : mem[r].fresh) \in BOOLEAN
  OBVIOUS
<1>2. c \in Content
  BY <1>1 DEF Content
<1>3. mem' = [mem EXCEPT ![dst] = c]
  BY DEF Write
<1>4. c.level = level /\ (c.fresh <=> \A r \in reads : mem[r].fresh)
  OBVIOUS
<1> HIDE DEF c
<1>5. TypeOK'
  BY <1>2, <1>3 DEF TypeOK, Write
<1>6. mem'[dst] = c /\ \A r \in Region \ {dst} : mem'[r] = mem[r]
  BY <1>3 DEF TypeOK
<1> QED  BY <1>4, <1>5, <1>6 DEF Write, Wrote

\* What a write is computed from decides its level.
LEMMA LevelIn == \A reads : LevelOf(reads) \in {"public", "intermediate"}
BY DEF LevelOf

\* Computing the key: t leaves t1 before it is packed.
LEMMA KeyKeeps == IInv /\ KeyStep => IInv'
<1> SUFFICES ASSUME TypeOK, SigningInv, KeyStep PROVE TypeOK' /\ SigningInv'
  BY DEF IInv
<1> USE DEF SigningInv, WipeInv, CleanInv, FreshInv, Clean, Wiped, Fresh, Holds,
            KeyLabel, SignLabel, VerifyLabel, WipeLabel, HighLabel, ChallengeLabel
<1>1. CASE DeriveFails
  BY <1>1 DEF DeriveFails, Fail, Region, Label, Op, Outcome, TypeOK
<1>2. CASE MulS1
  <2>1. TypeOK' /\ Wrote("mul_s1", "add_s2", "t1", {}, "intermediate")
    BY <1>2, WriteKeeps, LevelIn DEF MulS1, Region, Label
  <2> QED  BY <2>1 DEF Wrote, Region, LevelOf
<1>3. CASE AddS2
  <2>1. TypeOK' /\ Wrote("add_s2", IF op = "keypair" THEN "round_t1" ELSE "round_t0", "t1",
              {"t1"}, "intermediate")
    BY <1>3, WriteKeeps, LevelIn DEF AddS2, Region, Label
  <2> QED  BY <2>1 DEF Wrote, Region, LevelOf
<1>4. CASE RoundT0
  <2>1. TypeOK' /\ Wrote("round_t0", "round_t1", "pack1", {"t1"}, "intermediate")
    BY <1>4, WriteKeeps, LevelIn DEF RoundT0, Region, Label
  <2> QED  BY <2>1 DEF Wrote, Region, LevelOf
<1>5. CASE RoundT1
  <2>1. TypeOK' /\ Wrote("round_t1", "pack_pk", "t1", {"t1"}, "public")
    BY <1>5, WriteKeeps, LevelIn DEF RoundT1, Region, Label
  <2> QED  BY <2>1 DEF Wrote, Region, LevelOf
<1>6. CASE PackPk
  <2>1. /\ mem' \in [Region -> Content] /\ mem'["pk"] = mem["t1"]
        /\ \A r \in Region \ {"pk"} : mem'[r] = mem[r]
    BY <1>6 DEF PackPk, TypeOK, Region
  <2>2. /\ pc = "pack_pk" /\ UNCHANGED <<op, attempts>>
        /\ op = "keypair" => pc' = "idle" /\ outcome' = "derived"
        /\ op = "sign" => pc' = "rej" /\ outcome' = outcome
        /\ op \notin {"keypair", "sign"} => pc' = "unpack_z" /\ outcome' = outcome
    BY <1>6 DEF PackPk
  <2>3. op # "boot"
    BY <2>2
  <2>4. SigningInv'
    BY <2>1, <2>2, <2>3 DEF Region, TypeOK, Op
  <2> QED  BY <2>1, <2>2, <2>4 DEF Label, Outcome, TypeOK
<1> QED
  BY <1>1, <1>2, <1>3, <1>4, <1>5, <1>6 DEF KeyStep

\* The rejection loop: a region is read only after this attempt wrote it.
LEMMA LoopKeeps == IInv /\ LoopStep => IInv'
<1> SUFFICES ASSUME TypeOK, SigningInv, LoopStep PROVE TypeOK' /\ SigningInv'
  BY DEF IInv
<1> USE DEF SigningInv, WipeInv, CleanInv, FreshInv, Clean, Wiped, Fresh, Holds,
            KeyLabel, SignLabel, VerifyLabel, WipeLabel, HighLabel, ChallengeLabel
<1>1. CASE Attempt
  <2> DEFINE y == [level |-> "intermediate", fresh |-> TRUE]
  <2>1. y \in Content /\ y.fresh
    BY DEF Content
  <2> HIDE DEF y
  <2>2. mem' = [Stale(PerAttempt) EXCEPT !["y"] = y]
    BY <1>1 DEF Attempt, y
  <2>3. /\ mem' \in [Region -> Content] /\ mem'["y"].fresh
        /\ \A r \in Region \ {"y"} : mem'[r].level = mem[r].level
        /\ \A r \in {"t1", "pack1", "pk"} : mem'[r] = mem[r]
    BY <2>1, <2>2, StaleKeeps DEF TypeOK, Region, PerAttempt
  <2> QED  BY <1>1, <2>3, AttemptsAssumption DEF Attempt, Region, Label, Op, Outcome, TypeOK
<1>2. CASE GiveUp
  BY <1>2 DEF GiveUp, Fail, Region, Label, Op, Outcome, TypeOK
<1>3. CASE CopyZ
  <2>1. TypeOK' /\ Wrote("copy_z", "mul_z", "z", {"y"}, LevelOf({"y"}))
    BY <1>3, WriteKeeps, LevelIn DEF CopyZ, Region, Label
  <2> QED  BY <2>1 DEF Wrote, Region, LevelOf
<1>4. CASE MulZ
  <2>1. TypeOK' /\ Wrote("mul_z", "low_w", "w1", {"z"}, LevelOf({"z"}))
    BY <1>4, WriteKeeps, LevelIn DEF MulZ, Region, Label
  <2> QED  BY <2>1 DEF Wrote, Region, LevelOf
<1>5. CASE LowW
  <2>1. TypeOK' /\ Wrote("low_w", "high_w", "w0", {"w1"}, LevelOf({"w1"}))
    BY <1>5, WriteKeeps, LevelIn DEF LowW, Region, Label
  <2> QED  BY <2>1 DEF Wrote, Region, LevelOf
<1>6. CASE HighW
  <2>1. TypeOK' /\ Wrote("high_w", "pack_w1", "w1", {"w1"}, "public")
    BY <1>6, WriteKeeps, LevelIn DEF HighW, Region, Label
  <2> QED  BY <2>1 DEF Wrote, Region, LevelOf
<1>7. CASE PackW1
  <2>1. TypeOK' /\ Wrote("pack_w1", "ctilde", "sig", {"w1"}, LevelOf({"w1"}))
    BY <1>7, WriteKeeps, LevelIn DEF PackW1, Region, Label
  <2> QED  BY <2>1 DEF Wrote, Region, LevelOf
<1>8. CASE Ctilde
  <2>1. TypeOK' /\ Wrote("ctilde", "cp", "sig", {"sig"}, LevelOf({"sig"}))
    BY <1>8, WriteKeeps, LevelIn DEF Ctilde, Region, Label
  <2> QED  BY <2>1 DEF Wrote, Region, LevelOf
<1>9. CASE Challenge
  <2>1. TypeOK' /\ Wrote("cp", "mul_cs1", "cp", {"sig"}, LevelOf({"sig"}))
    BY <1>9, WriteKeeps, LevelIn DEF Challenge, Region, Label
  <2> QED  BY <2>1 DEF Wrote, Region, LevelOf
<1>10. CASE MulCs1
  <2>1. TypeOK' /\ Wrote("mul_cs1", "add_y", "z", {"cp"}, "intermediate")
    BY <1>10, WriteKeeps, LevelIn DEF MulCs1, Region, Label
  <2> QED  BY <2>1 DEF Wrote, Region, LevelOf
<1>11. CASE AddY
  <2>1. TypeOK' /\ Wrote("add_y", "z_norm", "z", {"z", "y"}, LevelOf({"z", "y"}))
    BY <1>11, WriteKeeps, LevelIn DEF AddY, Region, Label
  <2> QED  BY <2>1 DEF Wrote, Region, LevelOf
<1>12. CASE ZNorm \/ W0Norm \/ HNorm
  BY <1>12 DEF ZNorm, W0Norm, HNorm, Test, Region, Label, Op, Outcome, TypeOK
<1>13. CASE MulCs2
  <2>1. TypeOK' /\ Wrote("mul_cs2", "sub_cs2", "h", {"cp"}, "intermediate")
    BY <1>13, WriteKeeps, LevelIn DEF MulCs2, Region, Label
  <2> QED  BY <2>1 DEF Wrote, Region, LevelOf
<1>14. CASE SubCs2
  <2>1. TypeOK' /\ Wrote("sub_cs2", "w0_norm", "w0", {"w0", "h"}, LevelOf({"w0", "h"}))
    BY <1>14, WriteKeeps, LevelIn DEF SubCs2, Region, Label
  <2> QED  BY <2>1 DEF Wrote, Region, LevelOf
<1>15. CASE MulCt0
  <2>1. TypeOK' /\ Wrote("mul_ct0", "h_norm", "h",
              {"cp", "pack1"}, LevelOf({"cp", "pack1"}))
    BY <1>15, WriteKeeps, LevelIn DEF MulCt0, Region, Label
  <2> QED  BY <2>1 DEF Wrote, Region, LevelOf
<1>16. CASE AddCt0
  <2>1. TypeOK' /\ Wrote("add_ct0", "hint", "w0", {"w0", "h"}, LevelOf({"w0", "h"}))
    BY <1>16, WriteKeeps, LevelIn DEF AddCt0, Region, Label
  <2> QED  BY <2>1 DEF Wrote, Region, LevelOf
<1>17. CASE MakeHint
  <2>1. PICK to \in {"pack_sig", "rej"} :
          Write("hint", to, "h", {"w0", "w1"}, LevelOf({"w0", "w1"}))
    BY <1>17 DEF MakeHint
  <2>2. TypeOK' /\ Wrote("hint", to, "h", {"w0", "w1"}, LevelOf({"w0", "w1"}))
    BY <2>1, WriteKeeps, LevelIn DEF Region, Label
  <2> QED  BY <2>2 DEF Wrote, Region, LevelOf
<1>18. CASE PackSig
  <2> DEFINE f == \A r \in {"sig", "z", "h"} : mem[r].fresh
             packed == [level |-> "public", fresh |-> f]
  <2>1. f \in BOOLEAN /\ f
    BY <1>18 DEF PackSig
  <2>2. packed \in Content /\ packed.level = "public" /\ packed.fresh
    BY <2>1 DEF Content
  <2>3. mem' = [Stale(Region) EXCEPT !["sig"] = packed, !["z"].level = "public",
                                     !["h"].level = "public"]
    BY <1>18 DEF PackSig
  <2> HIDE DEF packed
  <2>4. /\ mem' \in [Region -> Content] /\ mem'["sig"] = packed
        /\ mem'["z"].level = "public" /\ mem'["h"].level = "public"
        /\ \A r \in Region \ {"sig", "z", "h"} : mem'[r].level = mem[r].level
    BY <2>2, <2>3, StaleKeeps DEF TypeOK, Region, Content
  <2>5. /\ pc = "pack_sig" /\ op' = "verify" /\ pc' = "mul_s1"
        /\ UNCHANGED <<attempts, outcome>>
    BY <1>18 DEF PackSig
  <2>6. SigningInv'
    BY <2>2, <2>4, <2>5 DEF Region
  <2> QED  BY <2>4, <2>5, <2>6 DEF Label, Op, TypeOK
<1> QED
  BY <1>1, <1>2, <1>3, <1>4, <1>5, <1>6, <1>7, <1>8, <1>9,
     <1>10, <1>11, <1>12, <1>13, <1>14, <1>15, <1>16, <1>17, <1>18 DEF LoopStep

\* Verifying writes public values over everything the wipe leaves out.
LEMMA VerifyKeeps == IInv /\ VerifyStep => IInv'
<1> SUFFICES ASSUME TypeOK, SigningInv, VerifyStep PROVE TypeOK' /\ SigningInv'
  BY DEF IInv
<1> USE DEF SigningInv, WipeInv, CleanInv, FreshInv, Clean, Wiped, Fresh, Holds,
            KeyLabel, SignLabel, VerifyLabel, WipeLabel, HighLabel, ChallengeLabel
<1>1. CASE UnpackZ
  <2>1. TypeOK' /\ Wrote("unpack_z", "unpack_h", "z", {"sig"}, LevelOf({"sig"}))
    BY <1>1, WriteKeeps, LevelIn DEF UnpackZ, Region, Label
  <2> QED  BY <2>1 DEF Wrote, Region, LevelOf
<1>2. CASE UnpackH
  <2>1. CASE Write("unpack_h", "v_norm", "h", {"sig"}, LevelOf({"sig"}))
    <3>1. TypeOK' /\ Wrote("unpack_h", "v_norm", "h", {"sig"}, LevelOf({"sig"}))
      BY <2>1, WriteKeeps, LevelIn DEF Region, Label
    <3> QED  BY <3>1 DEF Wrote, Region, LevelOf
  <2>2. CASE pc = "unpack_h" /\ Fail
    BY <2>2 DEF Fail, Region, Label, Op, Outcome, TypeOK
  <2> QED  BY <1>2, <2>1, <2>2 DEF UnpackH
<1>3. CASE VNorm
  BY <1>3 DEF VNorm, Fail, Region, Label, Op, Outcome, TypeOK
<1>4. CASE VChallenge
  <2>1. TypeOK' /\ Wrote("v_cp", "v_mul_z", "cp", {"sig"}, LevelOf({"sig"}))
    BY <1>4, WriteKeeps, LevelIn DEF VChallenge, Region, Label
  <2> QED  BY <2>1 DEF Wrote, Region, LevelOf
<1>5. CASE VMulZ
  <2>1. TypeOK' /\ Wrote("v_mul_z", "v_mul_ct1", "w1", {"z"}, LevelOf({"z"}))
    BY <1>5, WriteKeeps, LevelIn DEF VMulZ, Region, Label
  <2> QED  BY <2>1 DEF Wrote, Region, LevelOf
<1>6. CASE VMulCt1
  <2>1. TypeOK' /\ Wrote("v_mul_ct1", "v_sub", "t1",
              {"cp", "t1"}, LevelOf({"cp", "t1"}))
    BY <1>6, WriteKeeps, LevelIn DEF VMulCt1, Region, Label
  <2> QED  BY <2>1 DEF Wrote, Region, LevelOf
<1>7. CASE VSub
  <2>1. TypeOK' /\ Wrote("v_sub", "use_hint", "w1", {"w1", "t1"}, LevelOf({"w1", "t1"}))
    BY <1>7, WriteKeeps, LevelIn DEF VSub, Region, Label
  <2> QED  BY <2>1 DEF Wrote, Region, LevelOf
<1>8. CASE UseHint
  <2>1. TypeOK' /\ Wrote("use_hint", "v_pack_w1", "w1",
              {"w1", "h"}, LevelOf({"w1", "h"}))
    BY <1>8, WriteKeeps, LevelIn DEF UseHint, Region, Label
  <2> QED  BY <2>1 DEF Wrote, Region, LevelOf
<1>9. CASE VPackW1
  <2>1. TypeOK' /\ Wrote("v_pack_w1", "compare", "pack1",
              {"w1"}, LevelOf({"w1", "pack1"}))
    BY <1>9, WriteKeeps, LevelIn DEF VPackW1, Region, Label
  <2> QED  BY <2>1 DEF Wrote, Region, LevelOf
<1>10. CASE Compare
  BY <1>10 DEF Compare, Region, Label, Op, Outcome, TypeOK
<1> QED
  BY <1>1, <1>2, <1>3, <1>4, <1>5, <1>6, <1>7, <1>8, <1>9,
     <1>10 DEF VerifyStep

\* The wipe clears its three regions one after the other.
LEMMA WipeKeeps == IInv /\ WipeStep => IInv'
<1> SUFFICES ASSUME TypeOK, SigningInv, WipeStep PROVE TypeOK' /\ SigningInv'
  BY DEF IInv
<1> USE DEF SigningInv, WipeInv, CleanInv, FreshInv, Clean, Wiped, Fresh, Holds,
            KeyLabel, SignLabel, VerifyLabel, WipeLabel, HighLabel, ChallengeLabel
<1>1. CASE WipeY
  BY <1>1 DEF WipeY, Wipe, Zero, Content, Region, Label, Op, Outcome, TypeOK
<1>2. CASE WipePack1
  BY <1>2 DEF WipePack1, Wipe, Zero, Content, Region, Label, Op, Outcome, TypeOK
<1>3. CASE WipeW0
  BY <1>3 DEF WipeW0, Wipe, Zero, Content, Region, Label, Op, Outcome, TypeOK
<1> QED
  BY <1>1, <1>2, <1>3 DEF WipeStep

\* Every step keeps the invariant.
LEMMA NextInv == IInv /\ [Next]_vars => IInv'
<1> SUFFICES ASSUME IInv, [Next]_vars PROVE IInv'
  OBVIOUS
<1>1. CASE StartKeypair \/ StartSign
  <2>1. /\ mem' \in [Region -> Content]
        /\ \A r \in Region : mem'[r].level = mem[r].level
    BY <1>1, StaleKeeps DEF IInv, TypeOK, StartKeypair, StartSign, Begin
  <2> QED  BY <1>1, <2>1, AttemptsAssumption
              DEF IInv, StartKeypair, StartSign, Begin, SigningInv, WipeInv, CleanInv, FreshInv,
                  Clean, Wiped, Fresh, Holds, KeyLabel, SignLabel, VerifyLabel, WipeLabel,
                  HighLabel, ChallengeLabel, Region, Label, Op, Outcome, TypeOK
<1>2. CASE PowerLoss
  BY <1>2, AttemptsAssumption
     DEF IInv, PowerLoss, SigningInv, WipeInv, CleanInv, FreshInv, Clean, Wiped, Fresh, Holds,
         KeyLabel, SignLabel, VerifyLabel, WipeLabel, HighLabel, ChallengeLabel, Label, Op,
         Outcome, TypeOK
<1>3. CASE UNCHANGED vars
  BY <1>3 DEF vars, IInv, TypeOK, SigningInv, WipeInv, CleanInv, FreshInv, Clean, Wiped,
              Fresh, Holds
<1> QED  BY <1>1, <1>2, <1>3, KeyKeeps, LoopKeeps, VerifyKeeps, WipeKeeps DEF Next, Step

\* The invariant holds in every behaviour, for every cap of the rejection loop
\* (814 in crypto_sign_optimized) and power losses between any two writes.
THEOREM SigningCorrect == Spec => []IInv
BY InitInv, NextInv, PTL DEF Spec

\* Every region is zero, public or an intermediate, and the rejection loop never
\* counts past its cap.
THEOREM SigningTyped == Spec => []TypeOK
  BY SigningCorrect, PTL DEF IInv

\* At every call of sign.c the regions it relies on are wiped, clean or fresh as
\* it needs them, over rejected attempts and losses of power.
THEOREM RegionsAreFresh == Spec => []SigningInv
  BY SigningCorrect, PTL DEF IInv

\* A signature is handed back only when no signing intermediate is left in
\* N_storage, although wipe_nvm_secrets clears only three regions.
THEOREM ReleasesClean == Spec => []CleanWhenReleased
<1>1. IInv => CleanWhenReleased
  BY DEF IInv, SigningInv, WipeInv, CleanInv, CleanWhenReleased, Clean, Wiped, Holds, Region
<1> QED  BY <1>1, SigningCorrect, PTL

\* y, t0 and w0 are zero whenever the application accepts a command, also after
\* power was lost while wipe_nvm_secrets ran.
THEOREM IdleIsWiped == Spec => []WipedWhenIdle
<1>1. IInv => WipedWhenIdle
  BY DEF IInv, SigningInv, WipeInv, WipedWhenIdle, Wiped
<1> QED  BY <1>1, SigningCorrect, PTL

\* The signature that is packed, and the value it is compared by, come from one
\* attempt and one verification, however many attempts were rejected before.
THEOREM PacksOneAttempt == Spec => []PackedIsFresh
<1>1. IInv => PackedIsFresh
  BY DEF IInv, SigningInv, FreshInv, PackedIsFresh, Fresh
<1> QED  BY <1>1, SigningCorrect, PTL

=============================================================================
