----------------------------- MODULE SigningNvm -----------------------------
(***************************************************************************)
(* ML-DSA-87 in NVM: crypto_sign_keypair, crypto_sign_optimized and        *)
(* crypto_verify_optimized keep their polynomial vectors in N_storage,     *)
(* write by write, and wipe_nvm_secrets clears some of them afterwards and *)
(* at startup.  This module follows, for every region, whether it holds a  *)
(* signing intermediate and whether it was computed by the running attempt.*)
(*                                                                         *)
(* Abstractions.  Numbers are left out: a region is zero, public or an     *)
(* intermediate.  Intermediates are the mask y, t0, and what is computed   *)
(* from s1, s2, t0 and y until the scheme publishes it: t1 after           *)
(* power2_round, w1 after the decomposition, z and the hint when they are  *)
(* packed into the signature.  Transforms in place (reduce, c_addq, shift, *)
(* NTT and its inverse) change neither aspect of a region and belong to    *)
(* the write they follow.  A vector is written polynomial by polynomial;   *)
(* one that is half written counts as the worse of its two halves, which   *)
(* is its content before or after the write, so power is lost between      *)
(* writes only.                                                            *)
(***************************************************************************)
EXTENDS Naturals

CONSTANT MaxAttempts   \* cap of the rejection loop (814 in the code)

ASSUME AttemptsAssumption == MaxAttempts \in Nat

VARIABLES
  mem,       \* N_storage's working regions
  pc,        \* the next write or check
  op,        \* the function running, or the last that ran
  attempts,  \* of the rejection loop
  outcome    \* how the operation ends, once that is decided

vars == <<mem, pc, op, attempts, outcome>>

Region == {"t1", "w1", "w0", "h", "y", "z", "cp", "pack1", "sig", "pk"}
Content == [level : {"zero", "public", "intermediate"}, fresh : BOOLEAN]
Op == {"keypair", "sign", "verify", "boot"}
Outcome == {"none", "booted", "derived", "failed", "verified"}
KeyLabel == {"mul_s1", "add_s2", "round_t0", "round_t1", "pack_pk"}
SignLabel == {"rej", "copy_z", "mul_z", "low_w", "high_w", "pack_w1", "ctilde", "cp",
              "mul_cs1", "add_y", "z_norm", "mul_cs2", "sub_cs2", "w0_norm",
              "mul_ct0", "h_norm", "add_ct0", "hint", "pack_sig"}
VerifyLabel == {"unpack_z", "unpack_h", "v_norm", "v_cp", "v_mul_z", "v_mul_ct1",
                "v_sub", "use_hint", "v_pack_w1", "compare"}
WipeLabel == {"wipe_y", "wipe_pack1", "wipe_w0"}
Label == {"idle"} \cup KeyLabel \cup SignLabel \cup VerifyLabel \cup WipeLabel

\* What an attempt computes anew.
PerAttempt == {"y", "z", "w1", "w0", "h", "cp", "sig"}

Zero == [level |-> "zero", fresh |-> FALSE]
Holds(r) == mem[r].level = "intermediate"
LevelOf(reads) == IF \E r \in reads : Holds(r) THEN "intermediate" ELSE "public"

\* One NVM write: region dst gets a value computed from the regions in reads.
Write(at, to, dst, reads, level) ==
  /\ pc = at /\ pc' = to
  /\ mem' = [mem EXCEPT ![dst] = [level |-> level,
                                  fresh |-> \A r \in reads : mem[r].fresh]]
  /\ UNCHANGED <<op, attempts, outcome>>

\* A test of the rejection loop: go on, or start another attempt.
Test(at, to) ==
  /\ pc = at /\ pc' \in {to, "rej"}
  /\ UNCHANGED <<mem, op, attempts, outcome>>

\* The signature will not be handed over; crypto_sign_message wipes.
Fail ==
  /\ pc' = "wipe_y" /\ outcome' = "failed"
  /\ UNCHANGED <<mem, op, attempts>>

Stale(regions) ==
  [r \in Region |-> IF r \in regions THEN [mem[r] EXCEPT !.fresh = FALSE] ELSE mem[r]]

-----------------------------------------------------------------------------
Init ==
  /\ mem = [r \in Region |-> Zero]
  /\ pc = "idle" /\ op = "boot" /\ attempts = 0 /\ outcome = "booted"

Begin(o) ==
  /\ pc = "idle"
  /\ op' = o /\ pc' = "mul_s1" /\ outcome' = "none" /\ attempts' = 0
  /\ mem' = Stale(Region)

\* address_from_bip32_path reaches crypto_sign_keypair.
StartKeypair == Begin("keypair")

\* The user approved: crypto_sign_message calls crypto_sign_optimized.
StartSign == Begin("sign")

\* os_derive_bip32_no_throw fails in crypto_sign_optimized, or again in
\* crypto_verify_optimized, before anything is written.
DeriveFails ==
  /\ pc = "mul_s1" /\ op \in {"sign", "verify"}
  /\ Fail

-----------------------------------------------------------------------------
(* The key, computed again by each of the three functions *)

\* combined_method: t1 := A s1.
MulS1 == Write("mul_s1", "add_s2", "t1", {}, "intermediate")

\* poly_vec_k_add_volatile: t1 := t = A s1 + s2, of which t0 is a part.
AddS2 == Write("add_s2", IF op = "keypair" THEN "round_t1" ELSE "round_t0",
               "t1", {"t1"}, "intermediate")

\* poly_vec_k_power2_round_volatile writes t0 first (a key pair has no t0) ...
RoundT0 == Write("round_t0", "round_t1", "pack1", {"t1"}, "intermediate")

\* Mutant: t1 stays unrounded.
RoundT1Keeps == Write("round_t1", "pack_pk", "t1", {"t1"}, "intermediate")

\* ... and then t1 over t.
RoundT1 == Write("round_t1", "pack_pk", "t1", {"t1"}, "public")

\* pack_pk_volatile.
PackPk ==
  /\ pc = "pack_pk"
  /\ mem' = [mem EXCEPT !["pk"] = mem["t1"]]
  /\ pc' = CASE op = "keypair" -> "idle" [] op = "sign" -> "rej" [] OTHER -> "unpack_z"
  /\ outcome' = IF op = "keypair" THEN "derived" ELSE outcome
  /\ UNCHANGED <<op, attempts>>

-----------------------------------------------------------------------------
(* The rejection loop of crypto_sign_optimized *)

\* Mutant: one attempt more than the cap.
AttemptOffByOne ==
  /\ pc = "rej" /\ attempts <= MaxAttempts
  /\ attempts' = attempts + 1
  /\ mem' = [Stale(PerAttempt) EXCEPT !["y"] = [level |-> "intermediate", fresh |-> TRUE]]
  /\ pc' = "copy_z"
  /\ UNCHANGED <<op, outcome>>

\* Mutant: attempts are counted from the label on.
AttemptForgets ==
  /\ pc = "rej" /\ attempts < MaxAttempts
  /\ attempts' = 1
  /\ mem' = [Stale(PerAttempt) EXCEPT !["y"] = [level |-> "intermediate", fresh |-> TRUE]]
  /\ pc' = "copy_z"
  /\ UNCHANGED <<op, outcome>>

\* The label rej, and y sampled by poly_vec_l_uniform_gamma1_volatile.
Attempt ==
  /\ pc = "rej" /\ attempts < MaxAttempts
  /\ attempts' = attempts + 1
  /\ mem' = [Stale(PerAttempt) EXCEPT !["y"] = [level |-> "intermediate", fresh |-> TRUE]]
  /\ pc' = "copy_z"
  /\ UNCHANGED <<op, outcome>>

GiveUp ==
  /\ pc = "rej" /\ attempts >= MaxAttempts
  /\ Fail

\* Mutant: the copy of y into z is lost.
CopyZLost == pc = "copy_z" /\ pc' = "mul_z" /\ UNCHANGED <<mem, op, attempts, outcome>>

CopyZ == Write("copy_z", "mul_z", "z", {"y"}, LevelOf({"y"}))
MulZ == Write("mul_z", "low_w", "w1", {"z"}, LevelOf({"z"}))

\* poly_vec_k_decompose_volatile: all of w0, then all of w1 over w.
LowW == Write("low_w", "high_w", "w0", {"w1"}, LevelOf({"w1"}))
HighW == Write("high_w", "pack_w1", "w1", {"w1"}, "public")

\* The packed w1 and then the challenge hash, both at the start of sig.
PackW1 == Write("pack_w1", "ctilde", "sig", {"w1"}, LevelOf({"w1"}))
Ctilde == Write("ctilde", "cp", "sig", {"sig"}, LevelOf({"sig"}))
Challenge == Write("cp", "mul_cs1", "cp", {"sig"}, LevelOf({"sig"}))

\* z := c s1 + y.
MulCs1 == Write("mul_cs1", "add_y", "z", {"cp"}, "intermediate")
AddY == Write("add_y", "z_norm", "z", {"z", "y"}, LevelOf({"z", "y"}))
ZNorm == Test("z_norm", "mul_cs2")

\* w0 := w0 - c s2, with c s2 in h.
MulCs2 == Write("mul_cs2", "sub_cs2", "h", {"cp"}, "intermediate")
SubCs2 == Write("sub_cs2", "w0_norm", "w0", {"w0", "h"}, LevelOf({"w0", "h"}))
W0Norm == Test("w0_norm", "mul_ct0")

\* w0 := w0 + c t0, with c t0 in h; then the hint over it.
MulCt0 == Write("mul_ct0", "h_norm", "h", {"cp", "pack1"}, LevelOf({"cp", "pack1"}))
HNorm == Test("h_norm", "add_ct0")
AddCt0 == Write("add_ct0", "hint", "w0", {"w0", "h"}, LevelOf({"w0", "h"}))
MakeHint == \E to \in {"pack_sig", "rej"} :
              Write("hint", to, "h", {"w0", "w1"}, LevelOf({"w0", "w1"}))

\* pack_sig_volatile publishes the challenge, z and h; crypto_sign_message goes
\* on to crypto_verify_optimized, which keeps nothing but the signature.
PackSig ==
  /\ pc = "pack_sig"
  /\ LET parts == {"sig", "z", "h"}
         packed == [level |-> "public", fresh |-> \A r \in parts : mem[r].fresh]
     IN  mem' = [Stale(Region) EXCEPT !["sig"] = packed, !["z"].level = "public",
                                      !["h"].level = "public"]
  /\ op' = "verify" /\ pc' = "mul_s1"
  /\ UNCHANGED <<attempts, outcome>>

-----------------------------------------------------------------------------
(* crypto_verify_optimized once the key is there again *)

UnpackZ == Write("unpack_z", "unpack_h", "z", {"sig"}, LevelOf({"sig"}))

\* The hint is unpacked; if it is malformed, part of h is as it was.
UnpackH ==
  \/ Write("unpack_h", "v_norm", "h", {"sig"}, LevelOf({"sig"}))
  \/ pc = "unpack_h" /\ Fail

VNorm ==
  /\ pc = "v_norm"
  /\ \/ pc' = "v_cp" /\ UNCHANGED <<mem, op, attempts, outcome>>
     \/ Fail

VChallenge == Write("v_cp", "v_mul_z", "cp", {"sig"}, LevelOf({"sig"}))
VMulZ == Write("v_mul_z", "v_mul_ct1", "w1", {"z"}, LevelOf({"z"}))
VMulCt1 == Write("v_mul_ct1", "v_sub", "t1", {"cp", "t1"}, LevelOf({"cp", "t1"}))
VSub == Write("v_sub", "use_hint", "w1", {"w1", "t1"}, LevelOf({"w1", "t1"}))
UseHint == Write("use_hint", "v_pack_w1", "w1", {"w1", "h"}, LevelOf({"w1", "h"}))

\* buf_verify shares pack1 with t0 and covers only its beginning.
VPackW1 == Write("v_pack_w1", "compare", "pack1", {"w1"}, LevelOf({"w1", "pack1"}))

Compare ==
  /\ pc = "compare" /\ pc' = "wipe_y"
  /\ outcome' \in {"verified", "failed"}
  /\ UNCHANGED <<mem, op, attempts>>

-----------------------------------------------------------------------------
(* wipe_nvm_secrets, at the end of signing and at startup *)

\* Mutant: at startup only the first region is wiped.
WipeFirstOnly(at, to, dst) ==
  /\ pc = at /\ pc' = IF op = "boot" THEN "idle" ELSE to
  /\ mem' = [mem EXCEPT ![dst] = Zero]
  /\ UNCHANGED <<op, attempts, outcome>>

Wipe(at, to, dst) ==
  /\ pc = at /\ pc' = to
  /\ mem' = [mem EXCEPT ![dst] = Zero]
  /\ UNCHANGED <<op, attempts, outcome>>

WipeY == Wipe("wipe_y", "wipe_pack1", "y")
WipePack1 == Wipe("wipe_pack1", "wipe_w0", "pack1")
WipeW0 == Wipe("wipe_w0", "idle", "w0")

\* Power is lost and comes back: app_main starts with a wipe.
PowerLoss ==
  /\ op' = "boot" /\ pc' = "wipe_y" /\ outcome' = "booted" /\ attempts' = 0
  /\ UNCHANGED mem

-----------------------------------------------------------------------------
KeyStep == DeriveFails \/ MulS1 \/ AddS2 \/ RoundT0 \/ RoundT1 \/ PackPk

LoopStep ==
  \/ Attempt \/ GiveUp
  \/ CopyZ \/ MulZ \/ LowW \/ HighW \/ PackW1 \/ Ctilde \/ Challenge
  \/ MulCs1 \/ AddY \/ ZNorm \/ MulCs2 \/ SubCs2 \/ W0Norm
  \/ MulCt0 \/ HNorm \/ AddCt0 \/ MakeHint \/ PackSig

VerifyStep ==
  \/ UnpackZ \/ UnpackH \/ VNorm \/ VChallenge \/ VMulZ \/ VMulCt1 \/ VSub
  \/ UseHint \/ VPackW1 \/ Compare

WipeStep == WipeY \/ WipePack1 \/ WipeW0

Step == KeyStep \/ LoopStep \/ VerifyStep \/ WipeStep

Next == StartKeypair \/ StartSign \/ Step \/ PowerLoss

Spec == Init /\ [][Next]_vars

\* A function that was called runs on.
FairSpec == Spec /\ WF_vars(Step)

-----------------------------------------------------------------------------
(* Properties *)

\* Every variable has its type; the attempt counter stays below the cap, and
\* with it the 16-bit sampling nonce L * nonce + j.
TypeOK ==
  /\ mem \in [Region -> Content]
  /\ pc \in Label /\ op \in Op /\ outcome \in Outcome
  /\ attempts \in 0..MaxAttempts

\* A signature is handed to the host with no intermediate left in N_storage:
\* wipe_nvm_secrets clears three regions and crypto_verify_optimized has written
\* public values over all the others.
CleanWhenReleased ==
  pc = "idle" /\ outcome = "verified" => \A r \in Region : ~Holds(r)

\* Whenever a command can arrive, y, t0 and w0 are zero, also when power was
\* lost in the middle of wiping them.
WipedWhenIdle ==
  pc = "idle" => \A r \in {"y", "pack1", "w0"} : mem[r].level = "zero"

\* Every part of the packed signature was computed by the attempt that passed
\* the tests, and the comparison uses only what was computed from it: no region
\* is read before this attempt, or this verification, has written it.
PackedIsFresh ==
  /\ op = "verify" /\ pc # "idle" => mem["sig"].fresh
  /\ pc = "compare" => mem["pack1"].fresh

\* Once the power stays on, every derivation, every signature and every wipe ends,
\* whatever the samples are and whatever was interrupted before.
Terminates == <>[][~PowerLoss]_vars => (pc # "idle" ~> pc = "idle")

\* After a reset no signing intermediate is left when requests are accepted.
ClearedAtStartup ==
  pc = "idle" /\ outcome = "booted" => \A r \in Region : ~Holds(r)

-----------------------------------------------------------------------------
(* Inductive invariant: which regions each label relies on. *)

Clean(regions) == \A r \in regions : ~Holds(r)
Wiped(regions) == \A r \in regions : mem[r].level = "zero"
Fresh(regions) == \A r \in regions : mem[r].fresh

\* crypto_sign_keypair returns without a wipe, so the regions it does not
\* touch must be zero all along.
WipeInv ==
  /\ pc = "idle" \/ (pc \in KeyLabel /\ op = "keypair") => Wiped({"y", "pack1", "w0"})
  /\ pc = "wipe_pack1" => Wiped({"y"})
  /\ pc = "wipe_w0" => Wiped({"y", "pack1"})
  /\ pc = "round_t0" => op # "keypair"

\* The labels at which w1 is rounded, the challenge is there, and so on.
HighLabel == SignLabel \ {"rej", "copy_z", "mul_z", "low_w", "high_w"}
ChallengeLabel == HighLabel \ {"pack_w1", "ctilde", "cp"}

\* What the verification leaves alone was published before it starts.
CleanInv ==
  /\ Clean({"sig", "pk", "cp"})
  /\ pc \in KeyLabel => op # "boot"
  /\ pc \in SignLabel => op = "sign"
  /\ pc \in VerifyLabel => op = "verify"
  /\ pc \in VerifyLabel \cup {"pack_pk"} => Clean({"t1"})
  /\ pc \in HighLabel => Clean({"w1"})
  /\ op = "verify" /\ pc \in KeyLabel \cup VerifyLabel => Clean({"z", "h", "w1"})
  /\ outcome = "verified" =>
       pc \in WipeLabel \cup {"idle"} /\ Clean({"z", "h", "w1", "t1"})

\* From the write of a region to its last use it is this attempt's.
FreshInv ==
  /\ pc \in (KeyLabel \ {"mul_s1"}) \cup SignLabel \cup VerifyLabel => Fresh({"t1"})
  /\ pc \in {"round_t1", "pack_pk"} /\ op = "sign" => Fresh({"pack1"})
  /\ pc \in SignLabel => Fresh({"pack1"})
  /\ pc \in SignLabel \ {"rej"} => Fresh({"y"})
  /\ pc \in SignLabel \ {"rej", "copy_z"} => Fresh({"z"})
  /\ pc \in HighLabel \cup {"low_w", "high_w"} => Fresh({"w1"})
  /\ pc \in HighLabel \cup {"high_w"} => Fresh({"w0"})
  /\ pc \in HighLabel \ {"pack_w1"} => Fresh({"sig"})
  /\ pc \in ChallengeLabel => Fresh({"cp"})
  /\ pc \in ChallengeLabel \ {"mul_cs1", "add_y", "z_norm", "mul_cs2"} => Fresh({"h"})
  /\ op = "verify" /\ pc # "idle" => Fresh({"sig"})
  /\ pc \in VerifyLabel \ {"unpack_z"} => Fresh({"z"})
  /\ pc \in VerifyLabel \ {"unpack_z", "unpack_h"} => Fresh({"h"})
  /\ pc \in VerifyLabel \ {"unpack_z", "unpack_h", "v_norm", "v_cp"} => Fresh({"cp"})
  /\ pc \in {"v_mul_ct1", "v_sub", "use_hint", "v_pack_w1"} => Fresh({"w1"})
  /\ pc = "compare" => Fresh({"pack1"})

\* The three together are inductive for every cap of the rejection loop.
SigningInv == WipeInv /\ CleanInv /\ FreshInv

=============================================================================
