----------------------------- MODULE LedgerApp -----------------------------
(***************************************************************************)
(* The QRL v2.0 Ledger application seen from its host and its user: the    *)
(* APDU dispatcher, the two stateful commands GET_PUBLIC_KEY and SIGN_TX,  *)
(* the on-screen reviews whose callbacks finish a command later, and the   *)
(* NVM that outlives a power loss.                                         *)
(*                                                                         *)
(* A handler or callback runs alone (the application is one thread), but   *)
(* the long ones (key derivation, signing, verifying) rewrite NVM as they  *)
(* go, so each is cut into the steps between which power can be lost.      *)
(*                                                                         *)
(* Abstractions.  A BIP-32 path is a model value.  A transaction is the    *)
(* sequence of its bytes; what decode_ledger_tx and the formatters make    *)
(* of it is given by the operator constants.  Keccak-256 and SHAKE-256 are *)
(* collision free: a digest is a record of its preimage.  The host         *)
(* protocol stack, os_derive_bip32_no_throw and NBGL are external.         *)
(***************************************************************************)
EXTENDS Naturals, Sequences

CONSTANTS
  ValidPaths,          \* paths is_valid_zond_bip32_path accepts
  OddPaths,            \* other paths below 44'/238', which the OS derives too
  NoPath,              \* a zeroed or unusable path: the OS refuses to derive
  Byte,                \* transaction bytes
  MAX_TRANSACTION_LEN, \* capacity of raw_tx (510 in the code)
  MaxLc,               \* data bytes in one command (255 in the code)
  Decodes(_),          \* decode_ledger_tx returns 0
  IsBlind(_),          \* has_data or has_access_list
  Formats(_, _),       \* every field formats, with or without the nonce
  LastSigChunk,        \* index of the last signature chunk (17 in the code)
  PK_CHUNKS,           \* number of public key chunks (11 in the code)
  HostWaits,           \* the host sends no command before the last answer
  FlagLowered          \* no transaction is completed while the flag of the
                       \* signature before it is still up

ASSUME PathsAssumption == NoPath \notin ValidPaths \cup OddPaths
ASSUME LengthAssumption == MAX_TRANSACTION_LEN \in Nat /\ MaxLc \in Nat
ASSUME ChunkAssumption == LastSigChunk \in Nat \ {0} /\ PK_CHUNKS \in Nat \ {0}
ASSUME HostAssumption == HostWaits \in BOOLEAN /\ FlagLowered \in BOOLEAN

VARIABLES
  ctx,      \* G_context (RAM)
  nvm,      \* N_storage: signature, public key, stream flag, settings
  ui,       \* the screen and what it shows
  run,      \* the long computation in progress, or "idle"
  io,       \* is the host waiting, and the last answer
  consent   \* history: the review being signed, the one NVM's signature is for,
            \* and the one whose chunk 0 reached the host since the last approval

vars == <<ctx, nvm, ui, run, io, consent>>

-----------------------------------------------------------------------------
(* Values *)

Path == ValidPaths \cup OddPaths \cup {NoPath}
RawTx == UNION {[1..n -> Byte] : n \in 0..MAX_TRANSACTION_LEN}
TxData == UNION {[1..n -> Byte] : n \in 0..MaxLc}

\* The path field of a command: whether the bytes announced are all there, and
\* what the read leaves in G_context.bip32_path when they are and when not.
PathData == [complete : BOOLEAN, path : Path]

Keccak256(s) == [preimage |-> s]
ZeroHash == [preimage |-> NoPath]
Hash == {ZeroHash} \cup {Keccak256(s) : s \in RawTx}

\* N_storage.pk: the key of a path, whole, or a write cut short (or no key).
Key == [path : Path, whole : BOOLEAN]
KeyOf(p) == [path |-> p, whole |-> TRUE]
NoKey == [path |-> NoPath, whole |-> FALSE]

AddressOf(key) == [shake256_of |-> key]
NoAddress == AddressOf(NoKey)
Address == [shake256_of : Key]

\* N_storage.sig: never written, scratch of the rejection loop, or a packed
\* signature; "valid" is what crypto_verify_optimized finds.
Sig == [kind : {"blank", "scratch", "packed"}, path : Path, m_hash : Hash,
        valid : BOOLEAN]
BlankSig == [kind |-> "blank", path |-> NoPath, m_hash |-> ZeroHash,
             valid |-> FALSE]
ScratchSig == [BlankSig EXCEPT !.kind = "scratch"]

State == {"STATE_NONE", "STATE_PARSED", "STATE_APPROVED"}
ReqType == {"CONFIRM_ADDRESS", "CONFIRM_TRANSACTION"}
Setting == {"blind_signing", "display_nonce", "display_tx_hash"}
Ctx == [state : State, req_type : ReqType, path : Path, raw_tx : RawTx,
        m_hash : Hash, address : Address]
\* explicit_bzero(&G_context): every enumeration's zero is its first member.
BlankCtx == [state |-> "STATE_NONE", req_type |-> "CONFIRM_ADDRESS",
             path |-> NoPath, raw_tx |-> << >>, m_hash |-> ZeroHash,
             address |-> NoAddress]

Nvm == [sig : Sig, pk : Key, is_sending_signature : BOOLEAN,
        settings : SUBSET Setting]

Review == {"address_review", "tx_review"}
Status == {"TRANSACTION_SIGNED", "TRANSACTION_REJECTED", "ADDRESS_VERIFIED",
           "ADDRESS_REJECTED"}
Screen == {"home", "spinner"} \cup Review \cup Status
Ui == [screen : Screen, from : Address, tx : RawTx, tx_hash : Hash]
Plain(s) == [screen |-> s, from |-> NoAddress, tx |-> << >>, tx_hash |-> ZeroHash]

SW == {"none", "SW_OK", "SW_DENY", "SW_WRONG_P1P2", "SW_WRONG_DATA_LENGTH",
       "SW_INS_NOT_SUPPORTED", "SW_CLA_NOT_SUPPORTED", "SW_BAD_STATE",
       "SW_WRONG_TX_LENGTH", "SW_TX_PARSING_FAIL", "SW_DISPLAY_ADDRESS_FAIL",
       "SW_DISPLAY_AMOUNT_FAIL", "SW_SIGNATURE_FAIL", "cx_error"}
Reply == [sw : SW, body : {"none", "identity", "address", "pk", "sig"},
          key : Key, sig : Sig, chunk : Nat]
Sw(code) == [sw |-> code, body |-> "none", key |-> NoKey, sig |-> BlankSig,
             chunk |-> 0]
NoReply == Sw("none")
Identity == [Sw("SW_OK") EXCEPT !.body = "identity"]
AddressReply(a) == [Sw("SW_OK") EXCEPT !.body = "address", !.key = a.shake256_of]
PkReply(k, i) == [Sw("SW_OK") EXCEPT !.body = "pk", !.key = k, !.chunk = i]
SigReply(s, i) == [Sw("SW_OK") EXCEPT !.body = "sig", !.sig = s, !.chunk = i]

\* What a transaction review puts before the user.
Shown == [from : Address, tx : RawTx]
Nothing == [from |-> NoAddress, tx |-> << >>]
Consent == [review : Shown, sig : Shown, stream : Sig]

Signing == {"sign", "attempt", "verify"}
Deriving == {"get_address", "show_address", "review_address"}
Run == {"idle", "set_flag", "clear_flag"} \cup Deriving \cup Signing

-----------------------------------------------------------------------------
(* The host side *)

\* io_recv_command returns a command only while nothing else runs.  A host
\* that waits sends it only when its previous command was answered.
CanReceive == run = "idle" /\ (HostWaits => ~io.awaiting)

\* What FlagLowered assumes; handler_sign_tx has no such test.  It takes a host that
\* reads every signature to its last chunk, and power that lasts from that chunk to
\* the write that lowers the flag.
MayComplete == FlagLowered => ~nvm.is_sending_signature

\* A handler that answers before it returns.
Answer(r) == io' = [awaiting |-> FALSE, reply |-> r]

\* A handler that returns without an answer, or is still computing one.
Defer == io' = [awaiting |-> TRUE, reply |-> NoReply]

\* The answer sent from a callback or at the end of a computation; it goes
\* nowhere when no command is open.
Respond(r) == io' = [awaiting |-> FALSE,
                     reply |-> IF io.awaiting THEN r ELSE io.reply]

-----------------------------------------------------------------------------
(* app_main and apdu_dispatcher *)

Init ==
  /\ ctx = BlankCtx
  /\ nvm = [sig |-> BlankSig, pk |-> NoKey, is_sending_signature |-> FALSE,
            settings |-> {}]
  /\ ui = Plain("home")
  /\ run = "idle"
  /\ io = [awaiting |-> FALSE, reply |-> NoReply]
  /\ consent = [review |-> Nothing, sig |-> Nothing, stream |-> BlankSig]

\* apdu_parser refuses the bytes.
BadLength ==
  /\ CanReceive
  /\ Answer(Sw("SW_WRONG_DATA_LENGTH"))
  /\ UNCHANGED <<ctx, nvm, ui, run, consent>>

Ins == {"GET_VERSION", "GET_APP_NAME", "GET_PUBLIC_KEY", "SIGN_TX"}

\* The status word with which the dispatcher turns a command away, or "none".
Refusal(cla, ins, p1, p2, data) ==
  LET wrongP1P2 ==
        \/ ins \in {"GET_VERSION", "GET_APP_NAME"} /\ (p1 # 0 \/ p2 # 0)
        \/ ins = "GET_PUBLIC_KEY" /\ (p1 > 1 \/ p2 > PK_CHUNKS)
        \/ ins = "SIGN_TX" /\ (p1 \notin 0..2 \/ p2 > LastSigChunk)
      noData == ins \in {"GET_PUBLIC_KEY", "SIGN_TX"} /\ p2 = 0 /\ ~data
  IN  IF cla # "CLA" THEN "SW_CLA_NOT_SUPPORTED"
      ELSE IF ins \notin Ins THEN "SW_INS_NOT_SUPPORTED"
      ELSE IF wrongP1P2 THEN "SW_WRONG_P1P2"
      ELSE IF noData THEN "SW_WRONG_DATA_LENGTH" ELSE "none"

Dispatched(ins, p1, p2, data) == CanReceive /\ Refusal("CLA", ins, p1, p2, data) = "none"

P1 == 0..3
P2 == 0..LastSigChunk + PK_CHUNKS

Refusals == {Refusal(cla, ins, p1, p2, data) :
               cla \in {"CLA", "other"}, ins \in Ins \cup {"other"},
               p1 \in P1, p2 \in P2, data \in BOOLEAN} \ {"none"}

Refuse(code) ==
  /\ CanReceive
  /\ Answer(Sw(code))
  /\ UNCHANGED <<ctx, nvm, ui, run, consent>>

\* handler_get_version and handler_get_app_name.
Identify(ins) ==
  /\ Dispatched(ins, 0, 0, FALSE)
  /\ Answer(Identity)
  /\ UNCHANGED <<ctx, nvm, ui, run, consent>>

-----------------------------------------------------------------------------
(* GET_PUBLIC_KEY *)

PathRefused(d) == ~d.complete \/ d.path \notin ValidPaths

\* handler_get_public_key up to the derivation.
GetPublicKey(p1, d) ==
  /\ Dispatched("GET_PUBLIC_KEY", p1, 0, TRUE)
  /\ ctx' = [BlankCtx EXCEPT !.path = d.path]
  /\ IF PathRefused(d)
     THEN Answer(Sw("SW_WRONG_DATA_LENGTH")) /\ UNCHANGED run
     ELSE Defer /\ run' = IF p1 = 1 THEN "show_address" ELSE "get_address"
  /\ UNCHANGED <<nvm, ui, consent>>

\* Mutant: the address is hashed before the key is written.
DeriveHashesFirst ==
  /\ ctx.path # NoPath
  /\ nvm' = [nvm EXCEPT !.pk = KeyOf(ctx.path)]
  /\ ctx' = [ctx EXCEPT !.address = AddressOf(nvm.pk)]

\* Mutant: the derivation works in the buffer of the signature.
DeriveInSig ==
  /\ ctx.path # NoPath
  /\ nvm' = [nvm EXCEPT !.pk = KeyOf(ctx.path), !.sig = ScratchSig]
  /\ ctx' = [ctx EXCEPT !.address = AddressOf(KeyOf(ctx.path))]

\* address_from_bip32_path succeeds: the key goes to NVM, its address to RAM.
Derive ==
  /\ ctx.path # NoPath
  /\ nvm' = [nvm EXCEPT !.pk = KeyOf(ctx.path)]
  /\ ctx' = [ctx EXCEPT !.address = AddressOf(KeyOf(ctx.path))]

\* os_derive_bip32_no_throw fails; nothing was written, no screen changed.  (The
\* samplers' error returns are dead: poly_uniform_eta always returns 0.)
DeriveFails ==
  /\ run \in Deriving
  /\ Respond(Sw(IF run = "review_address" THEN "SW_DISPLAY_ADDRESS_FAIL" ELSE "cx_error"))
  /\ run' = "idle"
  /\ UNCHANGED <<ctx, nvm, ui, consent>>

\* handler_get_public_key without display: nothing replaces the spinner.
SendAddress ==
  /\ run = "get_address"
  /\ Derive
  /\ Respond(AddressReply(ctx'.address))
  /\ run' = "idle"
  /\ ui' = Plain("spinner")
  /\ UNCHANGED consent

\* ui_display_address.
ui_display_address ==
  /\ run = "show_address"
  /\ Derive
  /\ run' = "idle"
  /\ ui' = [Plain("address_review") EXCEPT !.from = ctx'.address]
  /\ UNCHANGED <<io, consent>>

\* review_choice and validate_pubkey.
ReviewAddress(confirm) ==
  /\ run = "idle" /\ ui.screen = "address_review"
  /\ Respond(IF confirm THEN AddressReply(ctx.address) ELSE Sw("SW_DENY"))
  /\ ui' = Plain(IF confirm THEN "ADDRESS_VERIFIED" ELSE "ADDRESS_REJECTED")
  /\ UNCHANGED <<ctx, nvm, run, consent>>

\* handler_get_public_key_chunk: whatever NVM holds.
GetPublicKeyChunk(p1, p2) ==
  /\ p2 > 0 /\ Dispatched("GET_PUBLIC_KEY", p1, p2, FALSE)
  /\ Answer(PkReply(nvm.pk, p2 - 1))
  /\ UNCHANGED <<ctx, nvm, ui, run, consent>>

-----------------------------------------------------------------------------
(* SIGN_TX: streaming the transaction in *)

\* P1 = 0: the context is ready for data even when the path is refused.
SignFirst(p2, d) ==
  /\ Dispatched("SIGN_TX", 0, p2, TRUE)
  /\ ctx' = [BlankCtx EXCEPT !.req_type = "CONFIRM_TRANSACTION", !.path = d.path]
  /\ Answer(Sw(IF PathRefused(d) THEN "SW_WRONG_DATA_LENGTH" ELSE "SW_OK"))
  /\ UNCHANGED <<nvm, ui, run, consent>>

\* Mutant: one byte too many fits.
TooLongOffByOne(b) == Len(ctx.raw_tx) + Len(b) > MAX_TRANSACTION_LEN + 1

TooLong(b) == Len(ctx.raw_tx) + Len(b) > MAX_TRANSACTION_LEN

\* The checks P1 = 1 and P1 = 2 share: the status word, or "none".
DataRefusal(b) ==
  IF ctx.req_type # "CONFIRM_TRANSACTION" THEN "SW_BAD_STATE"
  ELSE IF TooLong(b) THEN "SW_WRONG_TX_LENGTH" ELSE "none"

SignDataRefused(p1, p2, b) ==
  /\ p1 = 1 \/ (p1 = 2 /\ p2 = 0)
  /\ Dispatched("SIGN_TX", p1, p2, b # << >>)
  /\ DataRefusal(b) # "none"
  /\ Answer(Sw(DataRefusal(b)))
  /\ UNCHANGED <<ctx, nvm, ui, run, consent>>

\* P1 = 1.
SignMore(p2, b) ==
  /\ Dispatched("SIGN_TX", 1, p2, b # << >>)
  /\ DataRefusal(b) = "none"
  /\ ctx' = [ctx EXCEPT !.raw_tx = @ \o b]
  /\ Answer(Sw("SW_OK"))
  /\ UNCHANGED <<nvm, ui, run, consent>>

\* Mutant: the hash is taken before the last block is appended.
HashWithoutLast(b) == [ctx EXCEPT !.raw_tx = @ \o b,
                                  !.state = "STATE_PARSED",
                                  !.m_hash = Keccak256(ctx.raw_tx)]

\* STATE_PARSED is set, and the hash taken, before the bytes are decoded.
WithLast(b) == [ctx EXCEPT !.raw_tx = @ \o b,
                         !.state = "STATE_PARSED",
                         !.m_hash = Keccak256(ctx.raw_tx \o b)]

\* Mutant: the setting is not consulted.
TxRefusalWithoutSetting(tx) == IF ~Decodes(tx) THEN "SW_TX_PARSING_FAIL" ELSE "none"

\* Why the complete transaction is not shown: the status word, or "none".
TxRefusal(tx) ==
  IF ~Decodes(tx) THEN "SW_TX_PARSING_FAIL"
  ELSE IF IsBlind(tx) /\ "blind_signing" \notin nvm.settings THEN "SW_DENY"
  ELSE "none"

\* P1 = 2, P2 = 0, up to the derivation in ui_display_transaction_bs_choice.
SignLast(b) ==
  /\ Dispatched("SIGN_TX", 2, 0, b # << >>)
  /\ DataRefusal(b) = "none"
  /\ ctx' = WithLast(b)
  /\ IF TxRefusal(ctx'.raw_tx) # "none"
     THEN Answer(Sw(TxRefusal(ctx'.raw_tx))) /\ UNCHANGED <<run, ui>>
     ELSE Defer /\ run' = "review_address" /\ ui' = Plain("spinner")
  /\ UNCHANGED <<nvm, consent>>

\* The rest of ui_display_transaction_bs_choice once the address is derived.
ui_display_transaction ==
  /\ run = "review_address"
  /\ Derive
  /\ run' = "idle"
  /\ IF Formats(ctx.raw_tx, "display_nonce" \in nvm.settings)
     THEN /\ ui' = [screen |-> "tx_review", from |-> ctx'.address, tx |-> ctx.raw_tx,
                    tx_hash |-> IF "display_tx_hash" \in nvm.settings
                                THEN ctx.m_hash ELSE ZeroHash]
          /\ UNCHANGED io
     ELSE Respond(Sw("SW_DISPLAY_AMOUNT_FAIL")) /\ UNCHANGED ui
  /\ UNCHANGED consent

-----------------------------------------------------------------------------
(* SIGN_TX: the user's choice and the signature *)

\* Mutant: the context is zeroed on approval, before it is signed from.
ApproveZeroes ==
  /\ run = "idle" /\ ui.screen = "tx_review"
  /\ ctx' = [BlankCtx EXCEPT !.state = "STATE_APPROVED", !.path = ctx.path]
  /\ run' = "sign"
  /\ ui' = Plain("spinner")
  /\ consent' = [consent EXCEPT !.review = [from |-> ui.from, tx |-> ui.tx],
                               !.stream = BlankSig]
  /\ UNCHANGED <<nvm, io>>

\* review_choice(true) and validate_transaction(true): no test of G_context.state.
Approve ==
  /\ run = "idle" /\ ui.screen = "tx_review"
  /\ ctx' = [ctx EXCEPT !.state = "STATE_APPROVED"]
  /\ run' = "sign"
  /\ ui' = Plain("spinner")
  /\ consent' = [consent EXCEPT !.review = [from |-> ui.from, tx |-> ui.tx],
                               !.stream = BlankSig]
  /\ UNCHANGED <<nvm, io>>

\* Mutant: the host is not told.
RejectSilently ==
  /\ run = "idle" /\ ui.screen = "tx_review"
  /\ ctx' = [ctx EXCEPT !.state = "STATE_NONE"]
  /\ ui' = Plain("TRANSACTION_REJECTED")
  /\ UNCHANGED <<nvm, run, io, consent>>

\* review_choice(false) and validate_transaction(false).
Reject ==
  /\ run = "idle" /\ ui.screen = "tx_review"
  /\ ctx' = [ctx EXCEPT !.state = "STATE_NONE"]
  /\ Respond(Sw("SW_DENY"))
  /\ ui' = Plain("TRANSACTION_REJECTED")
  /\ UNCHANGED <<nvm, run, consent>>

\* crypto_sign_optimized: the key is written again, then an attempt packs w1
\* and the challenge over the start of N_storage.sig.
SignAttempt ==
  /\ run = "sign" /\ ctx.path # NoPath
  /\ nvm' = [nvm EXCEPT !.pk = KeyOf(ctx.path), !.sig = ScratchSig]
  /\ run' = "attempt"
  /\ UNCHANGED <<ctx, ui, io, consent>>

\* Mutant: the message is read once more after it was cleared.
SignPackOfNothing ==
  /\ run = "attempt"
  /\ \E valid \in BOOLEAN :
       nvm' = [nvm EXCEPT !.sig = [kind |-> "packed", path |-> ctx.path,
                                   m_hash |-> ZeroHash, valid |-> valid]]
  /\ run' = "verify"
  /\ consent' = [consent EXCEPT !.review = Nothing, !.sig = consent.review]
  /\ UNCHANGED <<ctx, ui, io>>

\* An attempt passes every check and pack_sig_volatile runs.  A worn or
\* disturbed NVM may leave a signature that does not verify.
SignPack ==
  /\ run = "attempt"
  /\ \E valid \in BOOLEAN :
       nvm' = [nvm EXCEPT !.sig = [kind |-> "packed", path |-> ctx.path,
                                   m_hash |-> ctx.m_hash, valid |-> valid]]
  /\ run' = "verify"
  /\ consent' = [consent EXCEPT !.review = Nothing, !.sig = consent.review]
  /\ UNCHANGED <<ctx, ui, io>>

\* Mutant: the state is not taken back.
SignFailsApproved ==
  /\ run \in Signing
  /\ Respond(Sw("SW_SIGNATURE_FAIL"))
  /\ run' = "idle"
  /\ ui' = Plain("TRANSACTION_SIGNED")
  /\ consent' = [consent EXCEPT !.review = Nothing]
  /\ UNCHANGED <<ctx, nvm>>

\* Mutant: a failure starts over instead of giving up.
SignRetries ==
  /\ run \in Signing
  /\ run' = "sign"
  /\ UNCHANGED <<ctx, nvm, ui, io, consent>>

\* crypto_sign_message returns -1: no signature, a verification that could not
\* be made, or one that failed.  review_choice still shows "signed".
SignFails ==
  /\ run \in Signing
  /\ ctx' = [ctx EXCEPT !.state = "STATE_NONE"]
  /\ Respond(Sw("SW_SIGNATURE_FAIL"))
  /\ run' = "idle"
  /\ ui' = Plain("TRANSACTION_SIGNED")
  /\ consent' = [consent EXCEPT !.review = Nothing]
  /\ UNCHANGED nvm

\* Mutant: is_verified is not looked at.
SendUnverified ==
  /\ run = "verify"
  /\ nvm' = [nvm EXCEPT !.pk = KeyOf(ctx.path)]
  /\ Respond(SigReply(nvm.sig, 0))
  /\ run' = "set_flag"
  /\ consent' = [consent EXCEPT !.stream = IF io.awaiting THEN nvm.sig ELSE @]
  /\ UNCHANGED <<ctx, ui>>

\* crypto_verify_optimized accepts; helper_send_response_sig(0) sends.
VerifyAndSend ==
  /\ run = "verify" /\ nvm.sig.valid
  /\ nvm' = [nvm EXCEPT !.pk = KeyOf(ctx.path)]
  /\ Respond(SigReply(nvm.sig, 0))
  /\ run' = "set_flag"
  /\ consent' = [consent EXCEPT !.stream = IF io.awaiting THEN nvm.sig ELSE @]
  /\ UNCHANGED <<ctx, ui>>

\* ... and only then records that a signature is being sent.
SetFlag ==
  /\ run = "set_flag"
  /\ nvm' = [nvm EXCEPT !.is_sending_signature = TRUE]
  /\ run' = "idle"
  /\ ui' = Plain("TRANSACTION_SIGNED")
  /\ UNCHANGED <<ctx, io, consent>>

\* Mutant: the flag is not tested.
SignChunkUnflagged(p2) ==
  /\ p2 > 0 /\ Dispatched("SIGN_TX", 2, p2, FALSE)
  /\ IF ctx.req_type = "CONFIRM_TRANSACTION"
     THEN /\ Answer(SigReply(nvm.sig, p2))
          /\ run' = IF p2 = LastSigChunk THEN "clear_flag" ELSE run
     ELSE Answer(Sw("SW_BAD_STATE")) /\ UNCHANGED run
  /\ UNCHANGED <<ctx, nvm, ui, consent>>

\* P1 = 2, P2 > 0: one more chunk, if the flag is up.
SignChunk(p2) ==
  /\ p2 > 0 /\ Dispatched("SIGN_TX", 2, p2, FALSE)
  /\ IF ctx.req_type = "CONFIRM_TRANSACTION" /\ nvm.is_sending_signature
     THEN /\ Answer(SigReply(nvm.sig, p2))
          /\ run' = IF p2 = LastSigChunk THEN "clear_flag" ELSE run
     ELSE Answer(Sw("SW_BAD_STATE")) /\ UNCHANGED run
  /\ UNCHANGED <<ctx, nvm, ui, consent>>

ClearFlag ==
  /\ run = "clear_flag"
  /\ nvm' = [nvm EXCEPT !.is_sending_signature = FALSE]
  /\ run' = "idle"
  /\ UNCHANGED <<ctx, ui, io, consent>>

-----------------------------------------------------------------------------
(* The menu, and starting over *)

\* controls_callback: the switches are on the settings page of the menu.
Toggle(s) ==
  /\ run = "idle" /\ ui.screen = "home"
  /\ nvm' = [nvm EXCEPT !.settings = IF s \in @ THEN @ \ {s} ELSE @ \cup {s}]
  /\ UNCHANGED <<ctx, ui, run, io, consent>>

\* The status page ends and calls ui_menu_main.
ui_menu_main ==
  /\ run = "idle" /\ ui.screen \in Status
  /\ ui' = Plain("home")
  /\ UNCHANGED <<ctx, nvm, run, io, consent>>

\* app_main from its first line: RAM is zeroed, NVM is as it was left.
Boot ==
  /\ ctx' = BlankCtx
  /\ ui' = Plain("home")
  /\ run' = "idle"
  /\ io' = [awaiting |-> FALSE, reply |-> NoReply]
  /\ consent' = [consent EXCEPT !.review = Nothing]

\* app_quit, then the application is opened again.
app_quit ==
  /\ run = "idle" /\ ui.screen = "home"
  /\ Boot
  /\ UNCHANGED nvm

\* Mutant: the wipe at startup takes the signature too and leaves the flag up.
PowerLossWipesSig ==
  /\ Boot
  /\ nvm' = [nvm EXCEPT !.sig = BlankSig]

\* Power is lost at any point; pack_pk_volatile may be cut short.
PowerLoss ==
  /\ Boot
  /\ \/ UNCHANGED nvm
     \/ /\ run \in Deriving \cup (Signing \ {"attempt"})
        /\ ctx.path # NoPath
        /\ \E whole \in BOOLEAN :
             nvm' = [nvm EXCEPT !.pk = [path |-> ctx.path, whole |-> whole]]

-----------------------------------------------------------------------------
Command ==
  \/ BadLength
  \/ \E code \in Refusals : Refuse(code)
  \/ \E ins \in {"GET_VERSION", "GET_APP_NAME"} : Identify(ins)
  \/ \E p1 \in {0, 1}, d \in PathData : GetPublicKey(p1, d)
  \/ \E p1 \in {0, 1}, p2 \in P2 : GetPublicKeyChunk(p1, p2)
  \/ \E p2 \in P2, d \in PathData : SignFirst(p2, d)
  \/ \E p1 \in {1, 2}, p2 \in P2, b \in TxData : SignDataRefused(p1, p2, b)
  \/ \E p2 \in P2, b \in TxData : SignMore(p2, b)
  \/ \E b \in TxData : MayComplete /\ SignLast(b)
  \/ \E p2 \in P2 : SignChunk(p2)

\* The rest of a handler or callback that is already running.
Computation ==
  \/ DeriveFails \/ SendAddress \/ ui_display_address \/ ui_display_transaction
  \/ SignAttempt \/ SignPack \/ SignFails \/ VerifyAndSend \/ SetFlag \/ ClearFlag

User ==
  \/ \E confirm \in BOOLEAN : ReviewAddress(confirm)
  \/ Approve \/ Reject
  \/ \E s \in Setting : Toggle(s)
  \/ ui_menu_main \/ app_quit

Next == Command \/ Computation \/ User \/ PowerLoss

Spec == Init /\ [][Next]_vars

\* A handler or callback that has started runs on.  Nothing is assumed of the
\* user or the host.
FairSpec == Spec /\ WF_vars(Computation)

-----------------------------------------------------------------------------
(* Properties *)

\* Every variable has its type; in particular G_context.tx_info.raw_tx never
\* holds more than MAX_TRANSACTION_LEN bytes (handler_sign_tx's length tests).
TypeOK ==
  /\ ctx \in Ctx
  /\ nvm \in Nvm
  /\ ui \in Ui
  /\ run \in Run
  /\ io \in [awaiting : BOOLEAN, reply : Reply]
  /\ consent \in Consent

Matches(path, m_hash, shown) ==
  m_hash = Keccak256(shown.tx) /\ shown.from = AddressOf(KeyOf(path))

\* What validate_transaction signs is what the review showed: the hash is that
\* of the transaction on screen, the key that of the "From" address.
SignedIsDisplayed ==
  run \in {"sign", "attempt"} => Matches(ctx.path, ctx.m_hash, consent.review)

\* While a transaction is under review, everything on screen (the fields, the
\* sender and, if the setting asks for it, the hash) is the context's own.
ReviewIsCurrent ==
  ui.screen = "tx_review" =>
    /\ Matches(ctx.path, ctx.m_hash, [from |-> ui.from, tx |-> ui.tx])
    /\ ui.tx_hash \in {ZeroHash, ctx.m_hash}
    /\ "display_tx_hash" \in nvm.settings => ui.tx_hash = ctx.m_hash

\* m_hash is the hash of a transaction the user may be asked to sign now.
Signable(m_hash) ==
  \E tx \in RawTx :
    /\ m_hash = Keccak256(tx)
    /\ Decodes(tx)
    /\ IsBlind(tx) => "blind_signing" \in nvm.settings

\* Only a transaction that decodes is ever signed, and one with data or an
\* access list only while the blind-signing setting is on, although the user
\* answers long after handler_sign_tx tested it.
BlindSigningGate == run \in Signing => Signable(ctx.m_hash)

\* The device verifies every signature before any chunk of it leaves, chunk 0
\* in validate_transaction and the others in later commands alike.
VerifiedBeforeRelease ==
  io.reply.body = "sig" => io.reply.sig.kind = "packed" /\ io.reply.sig.valid

\* A chunk that leaves belongs to a signature of the very transaction and
\* sender that its user approved, over resets and later commands.
ReleasedIsApproved ==
  io.reply.body = "sig" =>
    Matches(io.reply.sig.path, io.reply.sig.m_hash, consent.sig)

\* The public key in NVM is the one whose address the context holds, so the
\* chunks of GET_PUBLIC_KEY complete the address just answered or reviewed.
KeyMatchesAddress ==
  ctx.address # NoAddress => nvm.pk = ctx.address.shake256_of

\* STATE_APPROVED outlives validate_transaction only when the signature of the
\* context's hash under the context's path was made and verified.
ApprovedIsSigned ==
  ctx.state = "STATE_APPROVED" /\ run \notin Signing =>
    nvm.sig = [kind |-> "packed", path |-> ctx.path, m_hash |-> ctx.m_hash,
               valid |-> TRUE]

\* The host waits exactly while a computation or a review is open: no handler
\* or callback forgets to answer, and none answers a command nobody sent.
NoOrphanedCommand ==
  io.awaiting <=> \/ run \in Deriving \cup Signing
                  \/ run = "idle" /\ ui.screen \in Review

\* From the chunk 0 the host got to the user's next approval, every chunk it gets
\* belongs to that one verified signature, whatever the host sends, whichever keys
\* are derived, and also when a power loss falls between a chunk and the write of
\* the flag that helper_send_response_sig makes behind it.
StreamIsOneSignature ==
  io.reply.body = "sig" /\ consent.stream # BlankSig =>
    /\ io.reply.sig = consent.stream
    /\ io.reply.sig.kind = "packed" /\ io.reply.sig.valid

\* Once the user approves, the host gets its answer (unless power is lost).
SigningEnds == run \in Signing ~> run \notin Signing /\ ~io.awaiting

\* Only paths of the form m/44'/238'/account'/change/index are signed with.
SignsWithValidPath == run \in Signing => ctx.path \in ValidPaths

-----------------------------------------------------------------------------
(* Inductive invariants: the properties above and what keeps them true. *)

\* The address in RAM is that of the context's path, and so is the key in NVM:
\* what makes rewriting the key while signing harmless.
KeyInv ==
  ctx.address # NoAddress =>
    ctx.address = AddressOf(KeyOf(ctx.path)) /\ nvm.pk = KeyOf(ctx.path)

\* The conversation: an open command has no answer yet, and a review is open
\* only while the application waits for events.
DialogueInv ==
  /\ NoOrphanedCommand
  /\ io.awaiting => io.reply.body = "none"
  /\ ui.screen \in Review => run = "idle"

\* From the last data block to the signature, the context does not move.
TransactionInv ==
  /\ ReviewIsCurrent
  /\ run = "review_address" => ctx.m_hash = Keccak256(ctx.raw_tx)
  /\ ui.screen = "tx_review" \/ run \in Signing \cup {"review_address"} =>
       Signable(ctx.m_hash)
  /\ SignedIsDisplayed

\* The signature in NVM, from packing to its last chunk.
SignatureInv ==
  /\ nvm.sig.kind = "packed" => Matches(nvm.sig.path, nvm.sig.m_hash, consent.sig)
  /\ run \in {"verify", "set_flag"} =>
       nvm.sig = [kind |-> "packed", path |-> ctx.path, m_hash |-> ctx.m_hash,
                  valid |-> nvm.sig.valid]
  /\ nvm.is_sending_signature \/ run = "set_flag" =>
       nvm.sig.kind = "packed" /\ nvm.sig.valid
  /\ nvm.is_sending_signature =>
       ui.screen # "tx_review" /\ run \notin Signing \cup {"review_address"}
  /\ io.reply.body = "sig" =>
       io.reply.sig = nvm.sig /\ nvm.sig.kind = "packed" /\ nvm.sig.valid
  /\ ApprovedIsSigned

\* Inductive for a host that waits for its answers, with FlagLowered.
SessionInv == DialogueInv /\ TransactionInv /\ SignatureInv

=============================================================================
