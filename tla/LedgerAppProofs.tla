--------------------------- MODULE LedgerAppProofs ---------------------------
(***************************************************************************)
(* The types and the safety properties of LedgerApp for every choice of    *)
(* paths, transactions, lengths and chunk counts, from the inductive       *)
(* invariants TypeOK, KeyInv, ApprovedInv and StreamInv (any host),       *)
(* FlagInv (any host, but no transaction is completed while the flag is    *)
(* up) and SessionInv (a host that waits, too); and that in this last case *)
(* LedgerApp implements ApprovedSigning: every step is a step of the       *)
(* abstract specification or a stutter.                                    *)
(***************************************************************************)
EXTENDS LedgerAppImplements, TLAPS

USE PathsAssumption, LengthAssumption, ChunkAssumption, HostAssumption

(* Types of the values the actions assign. *)

\* A transaction buffer extended within its capacity is a transaction buffer.
LEMMA RawTxSeq == \A s : s \in RawTx <=> s \in Seq(Byte) /\ Len(s) <= MAX_TRANSACTION_LEN
<1>1. ASSUME NEW s \in RawTx PROVE s \in Seq(Byte) /\ Len(s) <= MAX_TRANSACTION_LEN
  BY <1>1 DEF RawTx
<1>2. ASSUME NEW s \in Seq(Byte), Len(s) <= MAX_TRANSACTION_LEN PROVE s \in RawTx
  <2>1. s \in [1..Len(s) -> Byte] /\ Len(s) \in 0..MAX_TRANSACTION_LEN
    BY <1>2
  <2> QED BY <2>1 DEF RawTx
<1> QED BY <1>1, <1>2

\* A command's data bytes are a sequence of bytes.
LEMMA TxDataSeq == \A s \in TxData : s \in Seq(Byte)
  BY DEF TxData

\* The constants the actions build states from have their types.
LEMMA Values ==
  /\ << >> \in RawTx
  /\ NoPath \in Path
  /\ ZeroHash \in Hash
  /\ NoKey \in Key /\ NoAddress \in Address
  /\ \A p \in Path : KeyOf(p) \in Key
  /\ \A k \in Key : AddressOf(k) \in Address
  /\ \A s \in RawTx : Keccak256(s) \in Hash
  /\ BlankSig \in Sig /\ ScratchSig \in Sig
  /\ BlankCtx \in Ctx
  /\ Nothing \in Shown
  /\ \A s \in Screen : Plain(s) \in Ui
<1>1. << >> \in RawTx
  <2>1. << >> \in Seq(Byte) /\ Len(<< >>) = 0 OBVIOUS
  <2>2. 0 <= MAX_TRANSACTION_LEN OBVIOUS
  <2> QED BY <2>1, <2>2, RawTxSeq
<1>2. NoPath \in Path BY DEF Path
<1>3. ZeroHash \in Hash BY DEF Hash
<1>4. NoKey \in Key /\ \A p \in Path : KeyOf(p) \in Key BY <1>2 DEF NoKey, Key, KeyOf
<1>5. NoAddress \in Address /\ \A k \in Key : AddressOf(k) \in Address
  BY <1>4 DEF NoAddress, Address, AddressOf
<1>6. \A s \in RawTx : Keccak256(s) \in Hash BY DEF Hash
<1>7. BlankSig \in Sig /\ ScratchSig \in Sig BY <1>2, <1>3 DEF BlankSig, ScratchSig, Sig
<1>8. BlankCtx \in Ctx
  BY <1>1, <1>2, <1>3, <1>5 DEF BlankCtx, Ctx, State, ReqType
<1>9. Nothing \in Shown BY <1>1, <1>5 DEF Nothing, Shown
<1>10. \A s \in Screen : Plain(s) \in Ui BY <1>1, <1>3, <1>5 DEF Plain, Ui
<1> QED BY <1>1, <1>2, <1>3, <1>4, <1>5, <1>6, <1>7, <1>8, <1>9, <1>10

\* Every answer the application sends is a reply.
LEMMA Replies ==
  /\ NoReply \in Reply /\ Identity \in Reply
  /\ \A code \in SW : Sw(code) \in Reply
  /\ \A x \in Address : AddressReply(x) \in Reply
  /\ \A k \in Key, i \in Nat : PkReply(k, i) \in Reply
  /\ \A s \in Sig, i \in Nat : SigReply(s, i) \in Reply
<1>1. \A code \in SW : Sw(code) \in Reply BY Values DEF Sw, Reply
<1>2. "none" \in SW /\ "SW_OK" \in SW BY DEF SW
<1>3. NoReply \in Reply /\ Sw("SW_OK") \in Reply BY <1>1, <1>2 DEF NoReply
<1>4. Identity \in Reply BY <1>3 DEF Identity, Reply
<1>5. \A x \in Address : AddressReply(x) \in Reply BY <1>3 DEF AddressReply, Reply, Address
<1>6. \A k \in Key, i \in Nat : PkReply(k, i) \in Reply BY <1>3 DEF PkReply, Reply
<1>7. \A s \in Sig, i \in Nat : SigReply(s, i) \in Reply BY <1>3 DEF SigReply, Reply
<1> QED BY <1>1, <1>3, <1>4, <1>5, <1>6, <1>7

\* The checks of the dispatcher and of handler_sign_tx return status words.
LEMMA Refused ==
  /\ Refusals \subseteq SW
  /\ \A b : DataRefusal(b) \in SW
  /\ \A tx : TxRefusal(tx) \in SW
<1>1. \A cla, ins, p1, p2, data : Refusal(cla, ins, p1, p2, data) \in SW
  BY DEF Refusal, SW
<1>2. Refusals \subseteq SW
  BY <1>1 DEF Refusals
<1>3. \A b : DataRefusal(b) \in SW
  BY DEF DataRefusal, SW
<1>4. \A tx : TxRefusal(tx) \in SW
  BY DEF TxRefusal, SW
<1> QED BY <1>2, <1>3, <1>4

Io == [awaiting : BOOLEAN, reply : Reply]

\* Answering, deferring and responding keep the host side well typed.
LEMMA IoTyped ==
  ASSUME io \in Io, NEW r \in Reply
  PROVE  /\ Answer(r) => io' \in Io
         /\ Respond(r) => io' \in Io
         /\ Defer => io' \in Io
<1>1. NoReply \in Reply /\ io.reply \in Reply BY Replies DEF Io
<1>2. (IF io.awaiting THEN r ELSE io.reply) \in Reply BY <1>1
<1>3. Answer(r) => io' \in Io BY DEF Answer, Io
<1>4. Respond(r) => io' \in Io BY <1>2 DEF Respond, Io
<1>5. Defer => io' \in Io BY <1>1 DEF Defer, Io
<1> QED BY <1>3, <1>4, <1>5

-----------------------------------------------------------------------------
(* TypeOK *)

\* app_main starts with zeroed RAM and the NVM of a fresh installation.
LEMMA InitType == Init => TypeOK
<1> SUFFICES ASSUME Init PROVE TypeOK OBVIOUS
<1>1. ctx \in Ctx BY Values DEF Init
<1>2. nvm \in Nvm BY Values DEF Init, Nvm
<1>3. ui \in Ui BY Values DEF Init, Screen
<1>4. run \in Run BY DEF Init, Run
<1>5. io \in [awaiting : BOOLEAN, reply : Reply] BY Replies DEF Init
<1>6. consent \in Consent BY Values DEF Init, Consent
<1> QED BY <1>1, <1>2, <1>3, <1>4, <1>5, <1>6 DEF TypeOK

\* Deriving a key leaves a typed key in NVM and a typed address in RAM.
LEMMA DeriveTyped ==
  ASSUME TypeOK, Derive
  PROVE  ctx' \in Ctx /\ nvm' \in Nvm /\ ctx'.address \in Address
<1>1. ctx.path \in Path BY DEF TypeOK, Ctx
<1>2. KeyOf(ctx.path) \in Key /\ AddressOf(KeyOf(ctx.path)) \in Address BY <1>1, Values
<1>3. nvm' \in Nvm BY <1>2 DEF Derive, TypeOK, Nvm
<1>4. ctx' \in Ctx /\ ctx'.address \in Address BY <1>2 DEF Derive, TypeOK, Ctx
<1> QED BY <1>3, <1>4

\* A command keeps the types: in particular the length test keeps raw_tx within
\* its capacity.
LEMMA CommandType == TypeOK /\ Command => TypeOK'
<1> SUFFICES ASSUME TypeOK, Command PROVE TypeOK' OBVIOUS
<1> USE DEF Io
<1>0. /\ ctx \in Ctx /\ nvm \in Nvm /\ ui \in Ui /\ run \in Run /\ io \in Io
      /\ consent \in Consent
      /\ nvm.pk \in Key /\ nvm.sig \in Sig
  BY DEF TypeOK, Nvm
<1>a. ASSUME NEW b \in TxData, DataRefusal(b) = "none"
      PROVE  ctx.raw_tx \o b \in RawTx
  <2>1. ~TooLong(b) BY <1>a DEF DataRefusal
  <2>2. ctx.raw_tx \in Seq(Byte) /\ b \in Seq(Byte)
    BY <1>0, <1>a, RawTxSeq, TxDataSeq DEF Ctx
  <2>3. ctx.raw_tx \o b \in Seq(Byte) /\ Len(ctx.raw_tx \o b) = Len(ctx.raw_tx) + Len(b)
    BY <2>2
  <2>4. Len(ctx.raw_tx \o b) <= MAX_TRANSACTION_LEN
    BY <2>1, <2>2, <2>3 DEF TooLong
  <2> QED BY <2>3, <2>4, RawTxSeq
<1>1. CASE BadLength
  <2>1. io' \in Io BY <1>0, <1>1, IoTyped, Replies DEF BadLength, SW
  <2> QED BY <1>0, <1>1, <2>1 DEF BadLength, TypeOK
<1>2. ASSUME NEW code \in Refusals, Refuse(code) PROVE TypeOK'
  <2>1. io' \in Io BY <1>0, <1>2, IoTyped, Replies, Refused DEF Refuse
  <2> QED BY <1>0, <1>2, <2>1 DEF Refuse, TypeOK
<1>3. ASSUME NEW ins, Identify(ins) PROVE TypeOK'
  <2>1. io' \in Io BY <1>0, <1>3, IoTyped, Replies DEF Identify
  <2> QED BY <1>0, <1>3, <2>1 DEF Identify, TypeOK
<1>4. ASSUME NEW p1, NEW d \in PathData, GetPublicKey(p1, d) PROVE TypeOK'
  <2>1. io' \in Io /\ run' \in Run
    <3>1. Sw("SW_WRONG_DATA_LENGTH") \in Reply BY Replies DEF SW
    <3> QED BY <1>0, <1>4, <3>1, IoTyped DEF GetPublicKey, Run, Deriving
  <2>2. d.path \in Path BY <1>4 DEF PathData
  <2>3. ctx' \in Ctx BY <1>4, <2>2, Values DEF GetPublicKey, Ctx
  <2> QED BY <1>0, <1>4, <2>1, <2>3 DEF GetPublicKey, TypeOK
<1>5. ASSUME NEW p1, NEW p2 \in P2, GetPublicKeyChunk(p1, p2) PROVE TypeOK'
  <2>1. p2 - 1 \in Nat BY <1>5 DEF P2, GetPublicKeyChunk
  <2>2. io' \in Io BY <1>0, <1>5, <2>1, IoTyped, Replies DEF GetPublicKeyChunk
  <2> QED BY <1>0, <1>5, <2>2 DEF GetPublicKeyChunk, TypeOK
<1>6. ASSUME NEW p2, NEW d \in PathData, SignFirst(p2, d) PROVE TypeOK'
  <2>1. Sw(IF PathRefused(d) THEN "SW_WRONG_DATA_LENGTH" ELSE "SW_OK") \in Reply
    BY Replies DEF SW
  <2>2. io' \in Io BY <1>0, <1>6, <2>1, IoTyped DEF SignFirst
  <2>3. d.path \in Path BY <1>6 DEF PathData
  <2>4. ctx' \in Ctx BY <1>6, <2>3, Values DEF SignFirst, Ctx, ReqType
  <2> QED BY <1>0, <1>6, <2>2, <2>4 DEF SignFirst, TypeOK
<1>7. ASSUME NEW p1, NEW p2, NEW b \in TxData, SignDataRefused(p1, p2, b) PROVE TypeOK'
  <2>1. io' \in Io BY <1>0, <1>7, IoTyped, Replies, Refused DEF SignDataRefused
  <2> QED BY <1>0, <1>7, <2>1 DEF SignDataRefused, TypeOK
<1>8. ASSUME NEW p2, NEW b \in TxData, SignMore(p2, b) PROVE TypeOK'
  <2>1. io' \in Io
    <3>1. Sw("SW_OK") \in Reply BY Replies DEF SW
    <3> QED BY <1>0, <1>8, <3>1, IoTyped DEF SignMore
  <2>2. ctx.raw_tx \o b \in RawTx BY <1>8, <1>a DEF SignMore
  <2>3. ctx' \in Ctx BY <1>0, <1>8, <2>2 DEF SignMore, Ctx
  <2> QED BY <1>0, <1>8, <2>1, <2>3 DEF SignMore, TypeOK
<1>9. ASSUME NEW b \in TxData, SignLast(b) PROVE TypeOK'
  <2>1. io' \in Io
    <3>1. Sw(TxRefusal(ctx'.raw_tx)) \in Reply BY Replies, Refused
    <3> QED BY <1>0, <1>9, <3>1, IoTyped DEF SignLast
  <2>2. ctx.raw_tx \o b \in RawTx /\ Keccak256(ctx.raw_tx \o b) \in Hash
    BY <1>9, <1>a, Values DEF SignLast
  <2>3. ctx' \in Ctx BY <1>0, <1>9, <2>2 DEF SignLast, WithLast, Ctx, State
  <2>4. run' \in Run /\ ui' \in Ui
    <3>1. Plain("spinner") \in Ui BY Values DEF Screen
    <3> QED BY <1>0, <1>9, <3>1 DEF SignLast, Run, Deriving
  <2> QED BY <1>0, <1>9, <2>1, <2>3, <2>4 DEF SignLast, TypeOK
<1>10. ASSUME NEW p2 \in P2, SignChunk(p2) PROVE TypeOK'
  <2>1. SigReply(nvm.sig, p2) \in Reply /\ Sw("SW_BAD_STATE") \in Reply
    BY <1>0, <1>10, Replies DEF P2, SW
  <2>2. io' \in Io /\ run' \in Run BY <1>0, <1>10, <2>1, IoTyped DEF SignChunk, Run
  <2> QED BY <1>0, <1>10, <2>2 DEF SignChunk, TypeOK
<1> QED BY <1>1, <1>2, <1>3, <1>4, <1>5, <1>6, <1>7, <1>8, <1>9, <1>10 DEF Command

\* So does the rest of a handler or callback.
LEMMA ComputationType == TypeOK /\ Computation => TypeOK'
<1> SUFFICES ASSUME TypeOK, Computation PROVE TypeOK' OBVIOUS
<1> USE DEF Io
<1>0. /\ ctx \in Ctx /\ nvm \in Nvm /\ ui \in Ui /\ run \in Run /\ io \in Io
      /\ consent \in Consent
      /\ nvm.sig \in Sig
  BY DEF TypeOK, Nvm
<1>a. "idle" \in Run /\ Signing \subseteq Run /\ "set_flag" \in Run BY DEF Run
<1>b. Plain("spinner") \in Ui /\ Plain("TRANSACTION_SIGNED") \in Ui
  BY Values DEF Screen, Status
<1>c. ctx.path \in Path /\ ctx.m_hash \in Hash /\ KeyOf(ctx.path) \in Key
  BY <1>0, Values DEF Ctx
<1>1. CASE DeriveFails
  <2>1. Sw(IF run = "review_address" THEN "SW_DISPLAY_ADDRESS_FAIL" ELSE "cx_error") \in Reply
    BY Replies DEF SW
  <2>2. io' \in Io BY <1>0, <1>1, <2>1, IoTyped DEF DeriveFails
  <2> QED BY <1>0, <1>1, <1>a, <1>b, <2>2 DEF DeriveFails, TypeOK
<1>2. CASE SendAddress
  <2>1. ctx' \in Ctx /\ nvm' \in Nvm /\ ctx'.address \in Address
    BY <1>2, DeriveTyped DEF SendAddress
  <2>2. io' \in Io BY <1>0, <1>2, <2>1, IoTyped, Replies DEF SendAddress
  <2> QED BY <1>0, <1>2, <1>a, <1>b, <2>1, <2>2 DEF SendAddress, TypeOK
<1>3. CASE ui_display_address
  <2>1. ctx' \in Ctx /\ nvm' \in Nvm /\ ctx'.address \in Address
    BY <1>3, DeriveTyped DEF ui_display_address
  <2>2. Plain("address_review") \in Ui BY Values DEF Screen, Review
  <2>3. ui' \in Ui BY <1>3, <2>1, <2>2 DEF ui_display_address, Ui
  <2> QED BY <1>0, <1>3, <1>a, <2>1, <2>3 DEF ui_display_address, TypeOK
<1>4. CASE ui_display_transaction
  <2>1. ctx' \in Ctx /\ nvm' \in Nvm /\ ctx'.address \in Address
    BY <1>4, DeriveTyped DEF ui_display_transaction
  <2>2. Sw("SW_DISPLAY_AMOUNT_FAIL") \in Reply BY Replies DEF SW
  <2>3. io' \in Io BY <1>0, <1>4, <2>2, IoTyped DEF ui_display_transaction
  <2>4. ctx.raw_tx \in RawTx BY <1>0 DEF Ctx
  <2>5. ui' \in Ui
    BY <1>0, <1>4, <1>c, <2>1, <2>4, Values DEF ui_display_transaction, Ui, Screen, Review
  <2> QED BY <1>0, <1>4, <1>a, <2>1, <2>3, <2>5 DEF ui_display_transaction, TypeOK
<1>5. CASE SignAttempt
  <2>1. nvm' \in Nvm BY <1>0, <1>5, <1>c, Values DEF SignAttempt, Nvm
  <2> QED BY <1>0, <1>5, <1>a, <2>1 DEF SignAttempt, TypeOK, Signing
<1>6. CASE SignPack
  <2>1. nvm' \in Nvm BY <1>0, <1>6, <1>c DEF SignPack, Nvm, Sig
  <2>2. consent' \in Consent BY <1>0, <1>6, Values DEF SignPack, Consent
  <2> QED BY <1>0, <1>6, <1>a, <2>1, <2>2 DEF SignPack, TypeOK, Signing
<1>7. CASE SignFails
  <2>1. Sw("SW_SIGNATURE_FAIL") \in Reply BY Replies DEF SW
  <2>2. io' \in Io BY <1>0, <1>7, <2>1, IoTyped DEF SignFails
  <2>3. ctx' \in Ctx BY <1>0, <1>7 DEF SignFails, Ctx, State
  <2>4. consent' \in Consent BY <1>0, <1>7, Values DEF SignFails, Consent
  <2> QED BY <1>0, <1>7, <1>a, <1>b, <2>2, <2>3, <2>4 DEF SignFails, TypeOK
<1>8. CASE VerifyAndSend
  <2>1. nvm' \in Nvm BY <1>0, <1>8, <1>c DEF VerifyAndSend, Nvm
  <2>2. io' \in Io BY <1>0, <1>8, IoTyped, Replies DEF VerifyAndSend
  <2>3. consent' \in Consent BY <1>0, <1>8 DEF VerifyAndSend, Consent
  <2> QED BY <1>0, <1>8, <1>a, <2>1, <2>2, <2>3 DEF VerifyAndSend, TypeOK
<1>9. CASE SetFlag
  <2>1. nvm' \in Nvm BY <1>0, <1>9 DEF SetFlag, Nvm
  <2> QED BY <1>0, <1>9, <1>a, <1>b, <2>1 DEF SetFlag, TypeOK
<1>10. CASE ClearFlag
  <2>1. nvm' \in Nvm BY <1>0, <1>10 DEF ClearFlag, Nvm
  <2> QED BY <1>0, <1>10, <1>a, <2>1 DEF ClearFlag, TypeOK
<1> QED BY <1>1, <1>2, <1>3, <1>4, <1>5, <1>6, <1>7, <1>8, <1>9, <1>10 DEF Computation

\* Starting over leaves zeroed RAM and the menu.
LEMMA BootTyped ==
  ASSUME TypeOK, Boot
  PROVE  /\ ctx' \in Ctx /\ ui' \in Ui /\ run' \in Run
         /\ io' \in [awaiting : BOOLEAN, reply : Reply]
         /\ consent' \in Consent
<1>1. Plain("home") \in Ui BY Values DEF Screen
<1> QED BY <1>1, Values, Replies DEF TypeOK, Boot, Run, Consent

\* So do the user's choices, the menu and a loss of power.
LEMMA UserType == TypeOK /\ (User \/ PowerLoss) => TypeOK'
<1> SUFFICES ASSUME TypeOK, User \/ PowerLoss PROVE TypeOK' OBVIOUS
<1> USE DEF Io
<1>0. /\ ctx \in Ctx /\ nvm \in Nvm /\ ui \in Ui /\ run \in Run /\ io \in Io
      /\ consent \in Consent
      /\ ctx.address \in Address /\ ctx.path \in Path
  BY DEF TypeOK, Ctx
<1>a. \A s \in Status \cup {"home", "spinner"} : Plain(s) \in Ui
  BY Values DEF Screen
<1>1. ASSUME NEW confirm \in BOOLEAN, ReviewAddress(confirm) PROVE TypeOK'
  <2>1. (IF confirm THEN AddressReply(ctx.address) ELSE Sw("SW_DENY")) \in Reply
    BY <1>0, Replies DEF SW
  <2>2. io' \in Io BY <1>0, <1>1, <2>1, IoTyped DEF ReviewAddress
  <2>3. ui' \in Ui BY <1>1, <1>a DEF ReviewAddress, Status
  <2> QED BY <1>0, <1>1, <2>2, <2>3 DEF ReviewAddress, TypeOK
<1>2. CASE Approve
  <2>1. ctx' \in Ctx BY <1>0, <1>2 DEF Approve, Ctx, State
  <2>2. consent' \in Consent BY <1>0, <1>2, Values DEF Approve, Shown, Ui, Consent
  <2> QED BY <1>0, <1>2, <1>a, <2>1, <2>2 DEF Approve, TypeOK, Run, Signing
<1>3. CASE Reject
  <2>1. Sw("SW_DENY") \in Reply BY Replies DEF SW
  <2>2. io' \in Io BY <1>0, <1>3, <2>1, IoTyped DEF Reject
  <2>3. ctx' \in Ctx BY <1>0, <1>3 DEF Reject, Ctx, State
  <2> QED BY <1>0, <1>3, <1>a, <2>2, <2>3 DEF Reject, TypeOK, Status
<1>4. ASSUME NEW s \in Setting, Toggle(s) PROVE TypeOK'
  <2>1. nvm' \in Nvm BY <1>0, <1>4 DEF Toggle, Nvm
  <2> QED BY <1>0, <1>4, <2>1 DEF Toggle, TypeOK
<1>5. CASE ui_menu_main
  BY <1>0, <1>5, <1>a DEF ui_menu_main, TypeOK
<1>6. CASE app_quit
  BY <1>0, <1>6, BootTyped DEF app_quit, TypeOK
<1>7. CASE PowerLoss
  <2>1. nvm' \in Nvm BY <1>0, <1>7 DEF PowerLoss, Nvm, Key
  <2>2. Boot BY <1>7 DEF PowerLoss
  <2> QED BY <2>1, <2>2, BootTyped DEF TypeOK
<1> QED BY <1>1, <1>2, <1>3, <1>4, <1>5, <1>6, <1>7 DEF User

\* Every step keeps the types, whatever it belongs to.
LEMMA NextType == TypeOK /\ [Next]_vars => TypeOK'
<1>1. TypeOK /\ UNCHANGED vars => TypeOK' BY DEF TypeOK, vars
<1> QED BY <1>1, CommandType, ComputationType, UserType DEF Next

\* Every reachable state is well typed, whatever the host sends and whenever
\* power is lost; raw_tx never outgrows MAX_TRANSACTION_LEN.
THEOREM TypeCorrect == Spec => []TypeOK
  BY InitType, NextType, PTL DEF Spec


-----------------------------------------------------------------------------
(* KeyInv *)

\* No address is in the context when the application starts.
LEMMA KeyInvInit == Init => KeyInv
  BY DEF Init, KeyInv, BlankCtx

\* A key derived for the context's path restores KeyInv.
LEMMA DeriveKey == TypeOK /\ Derive => KeyInv'
  BY DEF Derive, KeyInv, TypeOK, Ctx, Nvm

\* Every command that changes the path zeroes the address with the rest of
\* G_context, and every rewriting of the key is for the path it was derived from.
LEMMA KeyInvNext == TypeOK /\ KeyInv /\ [Next]_vars => KeyInv'
<1> SUFFICES ASSUME TypeOK, KeyInv, [Next]_vars PROVE KeyInv' OBVIOUS
<1>0. ctx \in Ctx /\ nvm \in Nvm BY DEF TypeOK
<1>a. BlankCtx.address = NoAddress /\ BlankCtx \in Ctx BY Values DEF BlankCtx
<1>b. ASSUME UNCHANGED <<ctx, nvm>> PROVE KeyInv' BY <1>b DEF KeyInv
<1>c. ASSUME ctx'.address = NoAddress PROVE KeyInv' BY <1>c DEF KeyInv
<1>d. ASSUME ctx'.address = ctx.address, ctx'.path = ctx.path, nvm'.pk \in {nvm.pk, KeyOf(ctx.path)}
      PROVE  KeyInv'
  BY <1>d DEF KeyInv
<1>1. CASE UNCHANGED vars BY <1>1, <1>b DEF vars
<1>2. CASE Command
  <2>1. CASE BadLength BY <2>1, <1>b DEF BadLength
  <2>2. ASSUME NEW code \in Refusals, Refuse(code) PROVE KeyInv' BY <2>2, <1>b DEF Refuse
  <2>3. ASSUME NEW ins, Identify(ins) PROVE KeyInv' BY <2>3, <1>b DEF Identify
  <2>4. ASSUME NEW p1, NEW d, GetPublicKey(p1, d) PROVE KeyInv'
    <3>1. ctx'.address = NoAddress BY <2>4, <1>a DEF GetPublicKey, Ctx
    <3> QED BY <3>1, <1>c
  <2>5. ASSUME NEW p1, NEW p2, GetPublicKeyChunk(p1, p2) PROVE KeyInv'
    BY <2>5, <1>b DEF GetPublicKeyChunk
  <2>6. ASSUME NEW p2, NEW d, SignFirst(p2, d) PROVE KeyInv'
    <3>1. ctx'.address = NoAddress BY <2>6, <1>a DEF SignFirst, Ctx
    <3> QED BY <3>1, <1>c
  <2>7. ASSUME NEW p1, NEW p2, NEW b, SignDataRefused(p1, p2, b) PROVE KeyInv'
    BY <2>7, <1>b DEF SignDataRefused
  <2>8. ASSUME NEW p2, NEW b, SignMore(p2, b) PROVE KeyInv'
    BY <2>8, <1>0, <1>d DEF SignMore, Ctx
  <2>9. ASSUME NEW b, SignLast(b) PROVE KeyInv'
    BY <2>9, <1>0, <1>d DEF SignLast, WithLast, Ctx
  <2>10. ASSUME NEW p2, SignChunk(p2) PROVE KeyInv' BY <2>10, <1>b DEF SignChunk
  <2> QED BY <1>2, <2>1, <2>2, <2>3, <2>4, <2>5, <2>6, <2>7, <2>8, <2>9, <2>10 DEF Command
<1>3. CASE Computation
  <2>1. CASE DeriveFails BY <2>1, <1>b DEF DeriveFails
  <2>2. CASE SendAddress BY <2>2, DeriveKey DEF SendAddress
  <2>3. CASE ui_display_address BY <2>3, DeriveKey DEF ui_display_address
  <2>4. CASE ui_display_transaction BY <2>4, DeriveKey DEF ui_display_transaction
  <2>5. CASE SignAttempt BY <2>5, <1>0, <1>d DEF SignAttempt, Nvm
  <2>6. CASE SignPack BY <2>6, <1>0, <1>d DEF SignPack, Nvm
  <2>7. CASE SignFails BY <2>7, <1>0, <1>d DEF SignFails, Ctx
  <2>8. CASE VerifyAndSend BY <2>8, <1>0, <1>d DEF VerifyAndSend, Nvm
  <2>9. CASE SetFlag BY <2>9, <1>0, <1>d DEF SetFlag, Nvm
  <2>10. CASE ClearFlag BY <2>10, <1>0, <1>d DEF ClearFlag, Nvm
  <2> QED BY <1>3, <2>1, <2>2, <2>3, <2>4, <2>5, <2>6, <2>7, <2>8, <2>9, <2>10 DEF Computation
<1>4. CASE User
  <2>1. ASSUME NEW confirm, ReviewAddress(confirm) PROVE KeyInv' BY <2>1, <1>b DEF ReviewAddress
  <2>2. CASE Approve BY <2>2, <1>0, <1>d DEF Approve, Ctx
  <2>3. CASE Reject BY <2>3, <1>0, <1>d DEF Reject, Ctx
  <2>4. ASSUME NEW s, Toggle(s) PROVE KeyInv' BY <2>4, <1>0, <1>d DEF Toggle, Nvm
  <2>5. CASE ui_menu_main BY <2>5, <1>b DEF ui_menu_main
  <2>6. CASE app_quit BY <2>6, <1>a, <1>c DEF app_quit, Boot
  <2> QED BY <1>4, <2>1, <2>2, <2>3, <2>4, <2>5, <2>6 DEF User
<1>5. CASE PowerLoss BY <1>5, <1>a, <1>c DEF PowerLoss, Boot
<1> QED BY <1>1, <1>2, <1>3, <1>4, <1>5 DEF Next

\* The invariant is stronger than the property the host relies on.
LEMMA KeyInvImplies == KeyInv => KeyMatchesAddress
  BY DEF KeyInv, KeyMatchesAddress, AddressOf

\* Whatever the host does and whenever power is lost, an address in the context
\* is that of the context's path, and the key in NVM is the key of that path.
THEOREM KeyCorrect == Spec => []KeyInv
<1>1. Init => TypeOK /\ KeyInv BY InitType, KeyInvInit
<1>2. TypeOK /\ KeyInv /\ [Next]_vars => (TypeOK /\ KeyInv)' BY NextType, KeyInvNext
<1> QED BY <1>1, <1>2, PTL DEF Spec

\* Hence the key in NVM is that of the address in the context, although
\* address_from_bip32_path, crypto_sign_optimized and crypto_verify_optimized
\* all rewrite it.
THEOREM KeyMatches == Spec => []KeyMatchesAddress
  BY KeyCorrect, KeyInvImplies, PTL

-----------------------------------------------------------------------------
(* ApprovedIsSigned, for every host *)

\* The signature in NVM is one of the context's transaction.
Packed == nvm.sig = [kind |-> "packed", path |-> ctx.path, m_hash |-> ctx.m_hash,
                     valid |-> nvm.sig.valid]

\* ApprovedIsSigned says nothing while validate_transaction runs: what it needs
\* from then is that the signature being verified is the context's.
ApprovedInv == ApprovedIsSigned /\ (run = "verify" => Packed)

\* STATE_APPROVED is set only by validate_transaction, and every command that
\* changes the path or the hash takes it back.
LEMMA ApprovedNext == TypeOK /\ ApprovedInv /\ [Next]_vars => ApprovedInv'
<1> SUFFICES ASSUME TypeOK, ApprovedInv, [Next]_vars PROVE ApprovedInv' OBVIOUS
<1> USE DEF ApprovedInv, ApprovedIsSigned, Packed
<1>0. ctx \in Ctx /\ nvm \in Nvm BY DEF TypeOK
<1>a. BlankCtx.state = "STATE_NONE" /\ BlankCtx \in Ctx BY Values DEF BlankCtx
<1>b. ASSUME UNCHANGED ctx, nvm'.sig = nvm.sig, run \notin Signing, run' \notin Signing
      PROVE  ApprovedInv'
  BY <1>b DEF Signing
<1>c. ASSUME ctx'.state # "STATE_APPROVED", run' # "verify" PROVE ApprovedInv'
  BY <1>c
<1>1. CASE UNCHANGED vars BY <1>1 DEF vars
<1>2. CASE Command
  <2>0. run = "idle" BY <1>2 DEF Command, BadLength, Refuse, Identify, GetPublicKey,
          GetPublicKeyChunk, SignFirst, SignDataRefused, SignMore, SignLast, SignChunk,
          Dispatched, CanReceive
  <2>1. CASE BadLength BY <2>0, <2>1, <1>b DEF BadLength, Signing
  <2>2. ASSUME NEW code \in Refusals, Refuse(code) PROVE ApprovedInv'
    BY <2>0, <2>2, <1>b DEF Refuse, Signing
  <2>3. ASSUME NEW ins, Identify(ins) PROVE ApprovedInv'
    BY <2>0, <2>3, <1>b DEF Identify, Signing
  <2>4. ASSUME NEW p1, NEW d, GetPublicKey(p1, d) PROVE ApprovedInv'
    <3>1. ctx'.state = "STATE_NONE" BY <2>4, <1>a DEF GetPublicKey, Ctx
    <3>2. run' # "verify" BY <2>0, <2>4 DEF GetPublicKey
    <3> QED BY <3>1, <3>2, <1>c
  <2>5. ASSUME NEW p1, NEW p2, GetPublicKeyChunk(p1, p2) PROVE ApprovedInv'
    BY <2>0, <2>5, <1>b DEF GetPublicKeyChunk, Signing
  <2>6. ASSUME NEW p2, NEW d, SignFirst(p2, d) PROVE ApprovedInv'
    <3>1. ctx'.state = "STATE_NONE" BY <2>6, <1>a DEF SignFirst, Ctx
    <3>2. run' # "verify" BY <2>0, <2>6 DEF SignFirst
    <3> QED BY <3>1, <3>2, <1>c
  <2>7. ASSUME NEW p1, NEW p2, NEW b, SignDataRefused(p1, p2, b) PROVE ApprovedInv'
    BY <2>0, <2>7, <1>b DEF SignDataRefused, Signing
  <2>8. ASSUME NEW p2, NEW b, SignMore(p2, b) PROVE ApprovedInv'
    BY <2>0, <2>8, <1>0 DEF SignMore, Ctx, Signing
  <2>9. ASSUME NEW b, SignLast(b) PROVE ApprovedInv'
    <3>1. ctx'.state = "STATE_PARSED" BY <2>9, <1>0 DEF SignLast, WithLast, Ctx
    <3>2. run' # "verify" BY <2>0, <2>9 DEF SignLast
    <3> QED BY <3>1, <3>2, <1>c
  <2>10. ASSUME NEW p2, SignChunk(p2) PROVE ApprovedInv'
    BY <2>0, <2>10, <1>b DEF SignChunk, Signing
  <2> QED BY <1>2, <2>1, <2>2, <2>3, <2>4, <2>5, <2>6, <2>7, <2>8, <2>9, <2>10 DEF Command
<1>3. CASE Computation
  <2>1. CASE DeriveFails BY <2>1, <1>b DEF DeriveFails, Deriving, Signing
  <2>2. ASSUME Derive, run \notin Signing, run' = "idle" PROVE ApprovedInv'
    BY <2>2, <1>0 DEF Derive, Ctx, Nvm
  <2>3. CASE SendAddress BY <2>2, <2>3 DEF SendAddress, Signing
  <2>4. CASE ui_display_address BY <2>2, <2>4 DEF ui_display_address, Signing
  <2>5. CASE ui_display_transaction BY <2>2, <2>5 DEF ui_display_transaction, Signing
  <2>6. CASE SignAttempt BY <2>6 DEF SignAttempt, Signing
  <2>7. CASE SignPack BY <2>7, <1>0 DEF SignPack, Signing, Nvm
  <2>8. CASE SignFails
    <3>1. ctx'.state = "STATE_NONE" BY <2>8, <1>0 DEF SignFails, Ctx
    <3>2. run' # "verify" BY <2>8 DEF SignFails
    <3> QED BY <3>1, <3>2, <1>c
  <2>9. CASE VerifyAndSend
    <3>1. Packed /\ nvm.sig.valid /\ nvm'.sig = nvm.sig /\ ctx' = ctx /\ run' = "set_flag"
      BY <2>9, <1>0 DEF VerifyAndSend, Nvm
    <3>2. nvm.sig.valid = TRUE BY <3>1, <1>0 DEF Nvm, Sig
    <3> QED BY <3>1, <3>2 DEF Signing
  <2>10. CASE SetFlag BY <2>10, <1>0, <1>b DEF SetFlag, Nvm, Signing
  <2>11. CASE ClearFlag BY <2>11, <1>0, <1>b DEF ClearFlag, Nvm, Signing
  <2> QED BY <1>3, <2>1, <2>3, <2>4, <2>5, <2>6, <2>7, <2>8, <2>9, <2>10, <2>11
          DEF Computation
<1>4. CASE User
  <2>1. ASSUME NEW confirm, ReviewAddress(confirm) PROVE ApprovedInv'
    BY <2>1, <1>b DEF ReviewAddress, Signing
  <2>2. CASE Approve BY <2>2 DEF Approve, Signing
  <2>3. CASE Reject
    <3>1. ctx'.state = "STATE_NONE" BY <2>3, <1>0 DEF Reject, Ctx
    <3>2. run' # "verify" BY <2>3 DEF Reject
    <3> QED BY <3>1, <3>2, <1>c
  <2>4. ASSUME NEW s, Toggle(s) PROVE ApprovedInv'
    BY <2>4, <1>0, <1>b DEF Toggle, Nvm, Signing
  <2>5. CASE ui_menu_main BY <2>5, <1>b DEF ui_menu_main, Signing
  <2>6. CASE app_quit BY <2>6, <1>a, <1>c DEF app_quit, Boot
  <2> QED BY <1>4, <2>1, <2>2, <2>3, <2>4, <2>5, <2>6 DEF User
<1>5. CASE PowerLoss BY <1>5, <1>a, <1>c DEF PowerLoss, Boot
<1> QED BY <1>1, <1>2, <1>3, <1>4, <1>5 DEF Next

\* Whatever the host sends and when, STATE_APPROVED outside of
\* validate_transaction means that N_storage.sig holds a verified signature of
\* the transaction in the context.
THEOREM ApprovedMeansSigned == Spec => []ApprovedIsSigned
<1>1. Init => TypeOK /\ ApprovedInv
  BY InitType DEF Init, ApprovedInv, ApprovedIsSigned, BlankCtx
<1>2. TypeOK /\ ApprovedInv /\ [Next]_vars => (TypeOK /\ ApprovedInv)'
  BY NextType, ApprovedNext
<1>3. ApprovedInv => ApprovedIsSigned BY DEF ApprovedInv
<1> QED BY <1>1, <1>2, <1>3, PTL DEF Spec

-----------------------------------------------------------------------------
(* SessionInv *)

\* Nothing is open, signed or streamed at the start.
LEMMA SessionInit == Init => SessionInv
<1> SUFFICES ASSUME Init PROVE SessionInv OBVIOUS
<1>1. ui.screen = "home" /\ run = "idle" /\ ~io.awaiting /\ io.reply.body = "none"
  BY DEF Init, Plain, NoReply, Sw
<1>2. nvm.sig.kind = "blank" /\ ~nvm.is_sending_signature /\ ctx.state = "STATE_NONE"
  BY DEF Init, BlankSig, BlankCtx
<1>3. DialogueInv
  BY <1>1 DEF DialogueInv, NoOrphanedCommand, Deriving, Signing, Review
<1>4. TransactionInv
  BY <1>1 DEF TransactionInv, ReviewIsCurrent, SignedIsDisplayed, Signing
<1>5. SignatureInv
  BY <1>1, <1>2 DEF SignatureInv, ApprovedIsSigned
<1> QED BY <1>3, <1>4, <1>5 DEF SessionInv

\* A command finds nothing in progress.
LEMMA Quiet ==
  ASSUME HostWaits, SessionInv, CanReceive
  PROVE  run = "idle" /\ ui.screen \notin Review /\ ~io.awaiting
  BY DEF SessionInv, DialogueInv, NoOrphanedCommand, CanReceive

\* A command that only answers, and not with a chunk of a signature, disturbs
\* nothing.
LEMMA QuietAnswer ==
  ASSUME HostWaits, SessionInv, CanReceive, NEW r, r.body # "sig", Answer(r),
         UNCHANGED <<ctx, nvm, ui, run, consent>>
  PROVE  SessionInv'
<1>0. run = "idle" /\ ui.screen \notin Review /\ ~io.awaiting BY Quiet
<1>1. ~io'.awaiting /\ io'.reply.body # "sig" BY DEF Answer
<1>2. DialogueInv'
  BY <1>0, <1>1 DEF SessionInv, DialogueInv, NoOrphanedCommand
<1>3. TransactionInv'
  BY DEF SessionInv, TransactionInv, ReviewIsCurrent, SignedIsDisplayed, Signable
<1>4. SignatureInv'
  BY <1>1 DEF SessionInv, SignatureInv, ApprovedIsSigned
<1> QED BY <1>2, <1>3, <1>4 DEF SessionInv

\* So does one that also changes the context but leaves the state other than
\* STATE_APPROVED, or path and hash alone.
LEMMA QuietContext ==
  ASSUME HostWaits, SessionInv, CanReceive, NEW r, r.body # "sig", Answer(r),
         UNCHANGED <<nvm, ui, run, consent>>,
         \/ ctx'.state # "STATE_APPROVED"
         \/ ctx'.state = ctx.state /\ ctx'.path = ctx.path /\ ctx'.m_hash = ctx.m_hash
  PROVE  SessionInv'
<1>0. run = "idle" /\ ui.screen \notin Review /\ ~io.awaiting BY Quiet
<1>1. ~io'.awaiting /\ io'.reply.body # "sig" BY DEF Answer
<1>2. DialogueInv'
  BY <1>0, <1>1 DEF SessionInv, DialogueInv, NoOrphanedCommand
<1>3. TransactionInv'
  BY <1>0 DEF TransactionInv, ReviewIsCurrent, SignedIsDisplayed, Review, Signing
<1>4. ApprovedIsSigned'
  BY DEF SessionInv, SignatureInv, ApprovedIsSigned
<1>5. SignatureInv'
  BY <1>0, <1>1, <1>4 DEF SessionInv, SignatureInv
<1> QED BY <1>2, <1>3, <1>5 DEF SessionInv

\* Only SigReply builds an answer with a chunk of a signature.
LEMMA NotSig ==
  /\ \A code : Sw(code).body = "none"
  /\ Identity.body # "sig"
  /\ \A x : AddressReply(x).body # "sig"
  /\ \A k, i : PkReply(k, i).body # "sig"
  BY DEF Sw, Identity, AddressReply, PkReply

\* A command of a host that waits finds no review open, and a completed transaction
\* no signature being streamed.
LEMMA CommandSession ==
  ASSUME HostWaits, FlagLowered, TypeOK, SessionInv, Command
  PROVE  SessionInv'
<1>0. ctx \in Ctx /\ nvm \in Nvm /\ BlankCtx \in Ctx /\ BlankCtx.state = "STATE_NONE"
  BY Values DEF TypeOK, BlankCtx
<1>1. CASE BadLength BY <1>1, QuietAnswer, NotSig DEF BadLength
<1>2. ASSUME NEW code \in Refusals, Refuse(code) PROVE SessionInv'
  BY <1>2, QuietAnswer, NotSig DEF Refuse
<1>3. ASSUME NEW ins, Identify(ins) PROVE SessionInv'
  BY <1>3, QuietAnswer, NotSig DEF Identify, Dispatched
<1>4. ASSUME NEW p1, NEW d, GetPublicKey(p1, d) PROVE SessionInv'
  <2>1. ctx'.state = "STATE_NONE" /\ CanReceive
    BY <1>0, <1>4 DEF GetPublicKey, Ctx, Dispatched
  <2>2. CASE PathRefused(d)
    BY <1>4, <2>1, <2>2, QuietContext, NotSig DEF GetPublicKey
  <2>3. CASE ~PathRefused(d)
    <3>0. run = "idle" /\ ui.screen \notin Review /\ ~io.awaiting BY <2>1, Quiet
    <3>1. run' \in {"show_address", "get_address"} /\ io'.awaiting /\ io'.reply.body = "none"
      BY <1>4, <2>3, NotSig DEF GetPublicKey, Defer, NoReply
    <3>2. UNCHANGED <<nvm, ui, consent>> BY <1>4 DEF GetPublicKey
    <3>3. DialogueInv'
      BY <3>0, <3>1, <3>2 DEF DialogueInv, NoOrphanedCommand, Deriving
    <3>4. TransactionInv'
      BY <3>0, <3>1, <3>2 DEF TransactionInv, ReviewIsCurrent, SignedIsDisplayed, Review, Signing
    <3>5. SignatureInv'
      BY <2>1, <3>0, <3>1, <3>2 DEF SessionInv, SignatureInv, ApprovedIsSigned, Signing
    <3> QED BY <3>3, <3>4, <3>5 DEF SessionInv
  <2> QED BY <2>2, <2>3
<1>5. ASSUME NEW p1, NEW p2, GetPublicKeyChunk(p1, p2) PROVE SessionInv'
  BY <1>5, QuietAnswer, NotSig DEF GetPublicKeyChunk, Dispatched
<1>6. ASSUME NEW p2, NEW d, SignFirst(p2, d) PROVE SessionInv'
  <2>1. ctx'.state = "STATE_NONE" /\ CanReceive
    BY <1>0, <1>6 DEF SignFirst, Ctx, Dispatched
  <2> QED BY <1>6, <2>1, QuietContext, NotSig DEF SignFirst
<1>7. ASSUME NEW p1, NEW p2, NEW b, SignDataRefused(p1, p2, b) PROVE SessionInv'
  BY <1>7, QuietAnswer, NotSig DEF SignDataRefused, Dispatched
<1>8. ASSUME NEW p2, NEW b, SignMore(p2, b) PROVE SessionInv'
  <2>1. ctx'.state = ctx.state /\ ctx'.path = ctx.path /\ ctx'.m_hash = ctx.m_hash /\ CanReceive
    BY <1>0, <1>8 DEF SignMore, Ctx, Dispatched
  <2> QED BY <1>8, <2>1, QuietContext, NotSig DEF SignMore
<1>9. ASSUME NEW b \in TxData, MayComplete, SignLast(b) PROVE SessionInv'
  <2>1. /\ ctx'.state = "STATE_PARSED" /\ ctx'.m_hash = Keccak256(ctx'.raw_tx)
        /\ CanReceive /\ ~nvm.is_sending_signature /\ UNCHANGED <<nvm, consent>>
    BY <1>0, <1>9 DEF SignLast, MayComplete, WithLast, Ctx, Dispatched
  <2>2. CASE TxRefusal(ctx'.raw_tx) # "none"
    BY <1>9, <2>1, <2>2, QuietContext, NotSig DEF SignLast
  <2>3. CASE TxRefusal(ctx'.raw_tx) = "none"
    <3>0. run = "idle" /\ ui.screen \notin Review /\ ~io.awaiting BY <2>1, Quiet
    <3>1. /\ run' = "review_address" /\ io'.awaiting /\ io'.reply.body = "none"
          /\ ui' = Plain("spinner")
      BY <1>9, <2>3, NotSig DEF SignLast, Defer, NoReply
    <3>2. ui'.screen = "spinner" BY <3>1 DEF Plain
    <3>3. ctx'.raw_tx \in RawTx
      <4>1. TypeOK' BY CommandType
      <4> QED BY <4>1 DEF TypeOK, Ctx
    <3>4. Decodes(ctx'.raw_tx) /\ (IsBlind(ctx'.raw_tx) => "blind_signing" \in nvm.settings)
      BY <2>3 DEF TxRefusal
    <3>5. Signable(ctx.m_hash)' BY <2>1, <3>3, <3>4 DEF Signable
    <3>6. DialogueInv'
      BY <3>1, <3>2 DEF DialogueInv, NoOrphanedCommand, Deriving, Review
    <3>7. TransactionInv'
      BY <2>1, <3>1, <3>2, <3>5 DEF TransactionInv, ReviewIsCurrent, SignedIsDisplayed
    <3>8. SignatureInv'
      BY <2>1, <3>0, <3>1, <3>2 DEF SessionInv, SignatureInv, ApprovedIsSigned
    <3> QED BY <3>6, <3>7, <3>8 DEF SessionInv
  <2> QED BY <2>2, <2>3
<1>10. ASSUME NEW p2, SignChunk(p2) PROVE SessionInv'
  <2>1. CanReceive /\ UNCHANGED <<ctx, nvm, ui, consent>>
    BY <1>10 DEF SignChunk, Dispatched
  <2>2. CASE ~(ctx.req_type = "CONFIRM_TRANSACTION" /\ nvm.is_sending_signature)
    BY <1>10, <2>1, <2>2, QuietAnswer, NotSig DEF SignChunk
  <2>3. CASE ctx.req_type = "CONFIRM_TRANSACTION" /\ nvm.is_sending_signature
    <3>0. run = "idle" /\ ui.screen \notin Review /\ ~io.awaiting BY <2>1, Quiet
    <3>1. run' \in {"idle", "clear_flag"} /\ Answer(SigReply(nvm.sig, p2))
      BY <1>10, <2>3, <3>0 DEF SignChunk
    <3>2. ~io'.awaiting /\ io'.reply.sig = nvm.sig
      BY <3>1 DEF Answer, SigReply, Sw
    <3>3. DialogueInv'
      BY <2>1, <3>0, <3>1, <3>2 DEF DialogueInv, NoOrphanedCommand, Deriving, Signing
    <3>4. TransactionInv'
      BY <2>1, <3>0, <3>1 DEF TransactionInv, ReviewIsCurrent, SignedIsDisplayed, Review, Signing
    <3>5. SignatureInv'
      BY <2>1, <2>3, <3>0, <3>1, <3>2 DEF SessionInv, SignatureInv, ApprovedIsSigned, Signing
    <3> QED BY <3>3, <3>4, <3>5 DEF SessionInv
  <2> QED BY <2>2, <2>3
<1> QED BY <1>1, <1>2, <1>3, <1>4, <1>5, <1>6, <1>7, <1>8, <1>9, <1>10 DEF Command

\* A computation that ends without a signature: the answer goes out, and what
\* is on screen is no review.
LEMMA EndsQuietly ==
  ASSUME SessionInv, run \in Deriving \cup Signing, NEW r, r.body # "sig",
         Respond(r), run' = "idle", ui'.screen \notin Review,
         nvm'.sig = nvm.sig, consent'.sig = consent.sig,
         nvm'.is_sending_signature = nvm.is_sending_signature,
         \/ ctx'.state # "STATE_APPROVED"
         \/ /\ run \in Deriving
            /\ ctx'.state = ctx.state /\ ctx'.path = ctx.path /\ ctx'.m_hash = ctx.m_hash
  PROVE  SessionInv'
<1>1. io.awaiting BY DEF SessionInv, DialogueInv, NoOrphanedCommand
<1>2. ~io'.awaiting /\ io'.reply.body # "sig" BY <1>1 DEF Respond
<1>3. DialogueInv' BY <1>2 DEF DialogueInv, NoOrphanedCommand, Deriving, Signing
<1>4. TransactionInv'
  BY DEF TransactionInv, ReviewIsCurrent, SignedIsDisplayed, Review, Signing
<1>5. ApprovedIsSigned'
  BY DEF SessionInv, SignatureInv, ApprovedIsSigned, Deriving, Signing
<1>6. SignatureInv'
  BY <1>2, <1>5 DEF SessionInv, SignatureInv, Matches, Review, Signing
<1> QED BY <1>3, <1>4, <1>6 DEF SessionInv

\* What a derivation changes and what it leaves alone.
LEMMA DeriveEffect ==
  ASSUME TypeOK, Derive
  PROVE  /\ nvm'.sig = nvm.sig /\ nvm'.settings = nvm.settings
         /\ nvm'.is_sending_signature = nvm.is_sending_signature
         /\ ctx'.state = ctx.state /\ ctx'.path = ctx.path
         /\ ctx'.m_hash = ctx.m_hash /\ ctx'.raw_tx = ctx.raw_tx
         /\ ctx'.address = AddressOf(KeyOf(ctx.path))
  BY DEF TypeOK, Derive, Ctx, Nvm

\* The rest of a handler or callback: from the derivation to the chunk flag.
LEMMA ComputationSession ==
  ASSUME TypeOK, SessionInv, Computation
  PROVE  SessionInv'
<1>0. ctx \in Ctx /\ nvm \in Nvm BY DEF TypeOK
<1>a. \A s : Plain(s).screen = s BY DEF Plain
<1>b. run \in Deriving \cup Signing =>
        io.awaiting /\ io.reply.body = "none" /\ ui.screen \notin Review
  BY DEF SessionInv, DialogueInv, NoOrphanedCommand, Deriving, Signing
<1>c. "spinner" \notin Review /\ "TRANSACTION_SIGNED" \notin Review BY DEF Review
<1>1. CASE DeriveFails
  <2>1. ui'.screen \notin Review BY <1>1, <1>a, <1>b, <1>c DEF DeriveFails
  <2> QED BY <1>1, <2>1, EndsQuietly, NotSig DEF DeriveFails
<1>2. CASE SendAddress
  <2>1. ui'.screen \notin Review BY <1>2, <1>a, <1>c DEF SendAddress
  <2>2. run \in Deriving BY <1>2 DEF SendAddress, Deriving
  <2> QED BY <1>2, <2>1, <2>2, DeriveEffect, EndsQuietly, NotSig DEF SendAddress
<1>3. CASE ui_display_address
  <2>1. ui'.screen = "address_review" BY <1>3 DEF ui_display_address, Plain
  <2>2. run \in Deriving /\ run \notin Signing /\ run' = "idle" /\ UNCHANGED <<io, consent>>
    BY <1>3 DEF ui_display_address, Deriving, Signing
  <2>3. Derive BY <1>3 DEF ui_display_address
  <2>4. DialogueInv'
    BY <1>b, <2>1, <2>2 DEF DialogueInv, NoOrphanedCommand, Review
  <2>5. TransactionInv'
    BY <2>1, <2>2 DEF TransactionInv, ReviewIsCurrent, SignedIsDisplayed, Signing
  <2>6. SignatureInv'
    BY <1>b, <2>1, <2>2, <2>3, DeriveEffect
    DEF SessionInv, SignatureInv, ApprovedIsSigned, Signing
  <2> QED BY <2>4, <2>5, <2>6 DEF SessionInv
<1>4. CASE ui_display_transaction
  <2>1. /\ run = "review_address" /\ run \in Deriving /\ run' = "idle"
        /\ Derive /\ UNCHANGED consent
    BY <1>4 DEF ui_display_transaction, Deriving
  <2>2. CASE ~Formats(ctx.raw_tx, "display_nonce" \in nvm.settings)
    <3>1. ui' = ui /\ Respond(Sw("SW_DISPLAY_AMOUNT_FAIL"))
      BY <1>4, <2>2 DEF ui_display_transaction
    <3> QED BY <1>b, <2>1, <3>1, DeriveEffect, EndsQuietly, NotSig
  <2>3. CASE Formats(ctx.raw_tx, "display_nonce" \in nvm.settings)
    <3>1. /\ ui'.screen = "tx_review" /\ ui'.from = ctx'.address /\ ui'.tx = ctx.raw_tx
          /\ ui'.tx_hash = IF "display_tx_hash" \in nvm.settings THEN ctx.m_hash ELSE ZeroHash
          /\ UNCHANGED io
      BY <1>4, <2>3 DEF ui_display_transaction
    <3>2. ctx.m_hash = Keccak256(ctx.raw_tx) /\ Signable(ctx.m_hash)
      BY <2>1 DEF SessionInv, TransactionInv
    <3>3. DialogueInv'
      BY <1>b, <2>1, <3>1 DEF DialogueInv, NoOrphanedCommand, Review
    <3>4. ReviewIsCurrent'
      BY <2>1, <3>1, <3>2, DeriveEffect DEF ReviewIsCurrent, Matches
    <3>5. TransactionInv'
      BY <2>1, <3>2, <3>4, DeriveEffect DEF TransactionInv, SignedIsDisplayed, Signing, Signable
    <3>6. SignatureInv'
      BY <1>b, <2>1, <3>1, DeriveEffect DEF SessionInv, SignatureInv, ApprovedIsSigned, Signing
    <3> QED BY <3>3, <3>5, <3>6 DEF SessionInv
  <2> QED BY <2>2, <2>3
<1>5. CASE SignAttempt
  <2>1. /\ run = "sign" /\ run' = "attempt" /\ UNCHANGED <<ctx, ui, io, consent>>
        /\ nvm'.sig = ScratchSig /\ nvm'.settings = nvm.settings
        /\ nvm'.is_sending_signature = nvm.is_sending_signature
    BY <1>0, <1>5 DEF SignAttempt, Nvm
  <2>2. nvm'.sig.kind = "scratch" BY <2>1 DEF ScratchSig, BlankSig
  <2>3. DialogueInv'
    BY <1>b, <2>1 DEF DialogueInv, NoOrphanedCommand, Signing
  <2>4. TransactionInv'
    BY <1>b, <2>1 DEF SessionInv, TransactionInv, ReviewIsCurrent, SignedIsDisplayed, Signable,
                      Signing, Review
  <2>5. SignatureInv'
    BY <1>b, <2>1, <2>2 DEF SessionInv, SignatureInv, ApprovedIsSigned, Signing
  <2> QED BY <2>3, <2>4, <2>5 DEF SessionInv
<1>6. CASE SignPack
  <2>1. PICK valid \in BOOLEAN :
          nvm' = [nvm EXCEPT !.sig = [kind |-> "packed", path |-> ctx.path,
                                      m_hash |-> ctx.m_hash, valid |-> valid]]
    BY <1>6 DEF SignPack
  <2>2. /\ run = "attempt" /\ run' = "verify" /\ UNCHANGED <<ctx, ui, io>>
        /\ consent'.sig = consent.review /\ consent'.review = Nothing
        /\ nvm'.sig = [kind |-> "packed", path |-> ctx.path, m_hash |-> ctx.m_hash,
                       valid |-> valid]
        /\ nvm'.settings = nvm.settings
        /\ nvm'.is_sending_signature = nvm.is_sending_signature
    BY <1>0, <1>6, <2>1 DEF SignPack, Nvm, TypeOK, Consent
  <2>3. DialogueInv'
    BY <1>b, <2>2 DEF DialogueInv, NoOrphanedCommand, Signing
  <2>4. TransactionInv'
    BY <1>b, <2>2 DEF SessionInv, TransactionInv, ReviewIsCurrent, SignedIsDisplayed, Signable,
                      Signing, Review
  <2>5. Matches(ctx.path, ctx.m_hash, consent.review)
    BY <2>2 DEF SessionInv, TransactionInv, SignedIsDisplayed
  <2>6. SignatureInv'
    BY <1>b, <2>2, <2>5 DEF SessionInv, SignatureInv, ApprovedIsSigned, Signing, Matches
  <2> QED BY <2>3, <2>4, <2>6 DEF SessionInv
<1>7. CASE SignFails
  <2>1. ui'.screen \notin Review BY <1>7, <1>a, <1>c DEF SignFails
  <2>2. ctx'.state = "STATE_NONE" /\ consent'.sig = consent.sig
    BY <1>0, <1>7 DEF SignFails, Ctx, TypeOK, Consent
  <2> QED BY <1>7, <2>1, <2>2, EndsQuietly, NotSig DEF SignFails
<1>8. CASE VerifyAndSend
  <2>1. /\ run = "verify" /\ run' = "set_flag" /\ nvm.sig.valid /\ UNCHANGED <<ctx, ui>>
        /\ consent'.sig = consent.sig
        /\ nvm'.sig = nvm.sig /\ nvm'.settings = nvm.settings
        /\ nvm'.is_sending_signature = nvm.is_sending_signature
        /\ Respond(SigReply(nvm.sig, 0))
    BY <1>0, <1>8 DEF VerifyAndSend, Nvm, TypeOK, Consent
  <2>2. ~io'.awaiting /\ io'.reply.sig = nvm.sig
    BY <1>b, <2>1 DEF Respond, SigReply, Sw, Signing
  <2>3. nvm.sig = [kind |-> "packed", path |-> ctx.path, m_hash |-> ctx.m_hash, valid |-> nvm.sig.valid]
    BY <2>1 DEF SessionInv, SignatureInv
  <2>4. nvm.sig = [kind |-> "packed", path |-> ctx.path, m_hash |-> ctx.m_hash, valid |-> TRUE]
    <3>1. nvm.sig.valid = TRUE BY <1>0, <2>1 DEF Nvm, Sig
    <3> QED BY <2>3, <3>1
  <2>5. DialogueInv'
    BY <1>b, <2>1, <2>2 DEF DialogueInv, NoOrphanedCommand, Signing, Deriving
  <2>6. TransactionInv'
    BY <1>b, <2>1 DEF TransactionInv, ReviewIsCurrent, SignedIsDisplayed, Signing, Review
  <2>7. ApprovedIsSigned' BY <2>1, <2>4 DEF ApprovedIsSigned
  <2>8. SignatureInv'
    BY <1>b, <2>1, <2>2, <2>3, <2>7 DEF SessionInv, SignatureInv, Signing, Matches
  <2> QED BY <2>5, <2>6, <2>8 DEF SessionInv
<1>9. CASE SetFlag
  <2>1. /\ run = "set_flag" /\ run' = "idle" /\ UNCHANGED <<ctx, io, consent>>
        /\ nvm'.sig = nvm.sig /\ ui'.screen = "TRANSACTION_SIGNED"
    BY <1>0, <1>9, <1>a DEF SetFlag, Nvm
  <2>2. ~io.awaiting
    BY <2>1 DEF SessionInv, DialogueInv, NoOrphanedCommand, Deriving, Signing
  <2>3. DialogueInv'
    BY <1>c, <2>1, <2>2 DEF DialogueInv, NoOrphanedCommand, Deriving, Signing
  <2>4. TransactionInv'
    BY <2>1 DEF TransactionInv, ReviewIsCurrent, SignedIsDisplayed, Signing
  <2>5. SignatureInv'
    BY <2>1 DEF SessionInv, SignatureInv, ApprovedIsSigned, Signing
  <2> QED BY <2>3, <2>4, <2>5 DEF SessionInv
<1>10. CASE ClearFlag
  <2>1. /\ run = "clear_flag" /\ run' = "idle" /\ UNCHANGED <<ctx, ui, io, consent>>
        /\ nvm'.sig = nvm.sig /\ ~nvm'.is_sending_signature
    BY <1>0, <1>10 DEF ClearFlag, Nvm
  <2>2. ~io.awaiting /\ ui.screen \notin Review
    BY <2>1 DEF SessionInv, DialogueInv, NoOrphanedCommand, Deriving, Signing
  <2>3. DialogueInv'
    BY <2>1, <2>2 DEF DialogueInv, NoOrphanedCommand, Deriving, Signing
  <2>4. TransactionInv'
    BY <2>1, <2>2 DEF TransactionInv, ReviewIsCurrent, SignedIsDisplayed, Signing, Review
  <2>5. SignatureInv'
    BY <2>1 DEF SessionInv, SignatureInv, ApprovedIsSigned, Signing
  <2> QED BY <2>3, <2>4, <2>5 DEF SessionInv
<1> QED BY <1>1, <1>2, <1>3, <1>4, <1>5, <1>6, <1>7, <1>8, <1>9, <1>10 DEF Computation

\* Starting over closes the conversation; the signature stays as it is.
LEMMA BootSession ==
  ASSUME TypeOK, SessionInv, Boot, nvm'.sig = nvm.sig,
         nvm'.is_sending_signature = nvm.is_sending_signature
  PROVE  SessionInv'
<1>1. /\ ui'.screen = "home" /\ run' = "idle" /\ ~io'.awaiting /\ io'.reply.body = "none"
      /\ ctx'.state = "STATE_NONE" /\ consent'.sig = consent.sig
  BY DEF Boot, Plain, NoReply, Sw, BlankCtx, TypeOK, Consent
<1>2. DialogueInv' BY <1>1 DEF DialogueInv, NoOrphanedCommand, Deriving, Signing, Review
<1>3. TransactionInv' BY <1>1 DEF TransactionInv, ReviewIsCurrent, SignedIsDisplayed, Signing
<1>4. SignatureInv'
  BY <1>1 DEF SessionInv, SignatureInv, ApprovedIsSigned, Matches, Signing
<1> QED BY <1>2, <1>3, <1>4 DEF SessionInv

\* The user's choices, the menu and a loss of power.
LEMMA UserSession ==
  ASSUME TypeOK, SessionInv, User \/ PowerLoss
  PROVE  SessionInv'
<1>0. ctx \in Ctx /\ nvm \in Nvm /\ consent \in Consent
  BY DEF TypeOK
<1>a. \A s : Plain(s).screen = s BY DEF Plain
<1>b. run = "idle" /\ ui.screen \in Review => io.awaiting /\ io.reply.body = "none"
  BY DEF SessionInv, DialogueInv, NoOrphanedCommand
<1>1. ASSUME NEW confirm \in BOOLEAN, ReviewAddress(confirm) PROVE SessionInv'
  <2>1. /\ run = "idle" /\ ui.screen \in Review /\ UNCHANGED <<ctx, nvm, run, consent>>
        /\ ui'.screen \in {"ADDRESS_VERIFIED", "ADDRESS_REJECTED"}
    BY <1>1, <1>a DEF ReviewAddress, Review
  <2>2. ~io'.awaiting /\ io'.reply.body # "sig"
    BY <1>1, <1>b, <2>1, NotSig DEF ReviewAddress, Respond
  <2>3. DialogueInv' BY <2>1, <2>2 DEF DialogueInv, NoOrphanedCommand, Deriving, Signing, Review
  <2>4. TransactionInv' BY <2>1 DEF TransactionInv, ReviewIsCurrent, SignedIsDisplayed, Signing
  <2>5. SignatureInv' BY <2>1, <2>2 DEF SessionInv, SignatureInv, ApprovedIsSigned
  <2> QED BY <2>3, <2>4, <2>5 DEF SessionInv
<1>2. CASE Approve
  <2>1. /\ run = "idle" /\ ui.screen = "tx_review" /\ ui'.screen = "spinner" /\ run' = "sign"
        /\ UNCHANGED <<nvm, io>>
        /\ ctx'.path = ctx.path /\ ctx'.m_hash = ctx.m_hash
        /\ consent'.review = [from |-> ui.from, tx |-> ui.tx] /\ consent'.sig = consent.sig
    BY <1>0, <1>2, <1>a DEF Approve, Ctx, Consent
  <2>2. Matches(ctx.path, ctx.m_hash, [from |-> ui.from, tx |-> ui.tx]) /\ Signable(ctx.m_hash)
    BY <2>1 DEF SessionInv, TransactionInv, ReviewIsCurrent
  <2>3. DialogueInv' BY <1>b, <2>1 DEF DialogueInv, NoOrphanedCommand, Signing, Review
  <2>4. TransactionInv'
    BY <2>1, <2>2 DEF TransactionInv, ReviewIsCurrent, SignedIsDisplayed, Signable, Matches
  <2>5. SignatureInv'
    BY <1>b, <2>1 DEF SessionInv, SignatureInv, ApprovedIsSigned, Matches, Signing, Review
  <2> QED BY <2>3, <2>4, <2>5 DEF SessionInv
<1>3. CASE Reject
  <2>1. /\ run = "idle" /\ ui.screen = "tx_review" /\ ui'.screen = "TRANSACTION_REJECTED"
        /\ UNCHANGED <<nvm, run, consent>> /\ ctx'.state = "STATE_NONE"
    BY <1>0, <1>3, <1>a DEF Reject, Ctx
  <2>2. ~io'.awaiting /\ io'.reply.body # "sig"
    BY <1>3, <1>b, <2>1, NotSig DEF Reject, Respond, Review
  <2>3. DialogueInv' BY <2>1, <2>2 DEF DialogueInv, NoOrphanedCommand, Deriving, Signing, Review
  <2>4. TransactionInv' BY <2>1 DEF TransactionInv, ReviewIsCurrent, SignedIsDisplayed, Signing
  <2>5. SignatureInv' BY <2>1, <2>2 DEF SessionInv, SignatureInv, ApprovedIsSigned
  <2> QED BY <2>3, <2>4, <2>5 DEF SessionInv
<1>4. ASSUME NEW s \in Setting, Toggle(s) PROVE SessionInv'
  <2>1. /\ run = "idle" /\ ui.screen = "home" /\ UNCHANGED <<ctx, ui, run, io, consent>>
        /\ nvm'.sig = nvm.sig /\ nvm'.is_sending_signature = nvm.is_sending_signature
    BY <1>0, <1>4 DEF Toggle, Nvm
  <2>2. DialogueInv' BY <2>1 DEF SessionInv, DialogueInv, NoOrphanedCommand
  <2>3. TransactionInv' BY <2>1 DEF TransactionInv, ReviewIsCurrent, SignedIsDisplayed, Signing
  <2>4. SignatureInv' BY <2>1 DEF SessionInv, SignatureInv, ApprovedIsSigned
  <2> QED BY <2>2, <2>3, <2>4 DEF SessionInv
<1>5. CASE ui_menu_main
  <2>1. /\ run = "idle" /\ ui.screen \notin Review /\ ui'.screen = "home"
        /\ UNCHANGED <<ctx, nvm, run, io, consent>>
    BY <1>5, <1>a DEF ui_menu_main, Status, Review
  <2>2. DialogueInv' BY <2>1 DEF SessionInv, DialogueInv, NoOrphanedCommand, Review
  <2>3. TransactionInv' BY <2>1 DEF TransactionInv, ReviewIsCurrent, SignedIsDisplayed, Signing
  <2>4. SignatureInv' BY <2>1 DEF SessionInv, SignatureInv, ApprovedIsSigned
  <2> QED BY <2>2, <2>3, <2>4 DEF SessionInv
<1>6. CASE app_quit BY <1>6, BootSession DEF app_quit
<1>7. CASE PowerLoss
  <2>1. nvm'.sig = nvm.sig /\ nvm'.is_sending_signature = nvm.is_sending_signature
    BY <1>0, <1>7 DEF PowerLoss, Nvm
  <2> QED BY <1>7, <2>1, BootSession DEF PowerLoss
<1> QED BY <1>1, <1>2, <1>3, <1>4, <1>5, <1>6, <1>7 DEF User

\* Every step of a session of careful use keeps the invariant.
LEMMA SessionNext ==
  HostWaits /\ FlagLowered /\ TypeOK /\ SessionInv /\ [Next]_vars => SessionInv'
<1>1. SessionInv /\ UNCHANGED vars => SessionInv'
  BY DEF vars, SessionInv, DialogueInv, TransactionInv, SignatureInv, NoOrphanedCommand,
         ReviewIsCurrent, SignedIsDisplayed, Signable, Matches, ApprovedIsSigned
<1> QED BY <1>1, CommandSession, ComputationSession, UserSession DEF Next

-----------------------------------------------------------------------------
(* FlagInv: FlagLowered, with a host that waits or does not *)

\* While a signature is being streamed no review can lead to another one, and
\* what is being streamed, or about to be, was verified.
FlagInv ==
  /\ nvm.is_sending_signature =>
       ui.screen # "tx_review" /\ run \notin Signing \cup {"review_address"}
  /\ run = "verify" => nvm.sig.kind = "packed"
  /\ nvm.is_sending_signature \/ run = "set_flag" =>
       nvm.sig.kind = "packed" /\ nvm.sig.valid
  /\ VerifiedBeforeRelease

\* A step that changes neither the signature nor the flag, opens no transaction
\* review and sends no part of a signature.
LEMMA FlagQuiet ==
  ASSUME FlagInv, nvm'.sig = nvm.sig, nvm'.is_sending_signature = nvm.is_sending_signature,
         ui'.screen \in {ui.screen, "home", "spinner", "address_review"} \cup Status,
         run' \in {run, "idle", "get_address", "show_address", "clear_flag"},
         io'.reply.body # "sig" \/ io'.reply = io.reply
  PROVE  FlagInv'
<1>1. ui'.screen = "tx_review" => ui.screen = "tx_review"
  BY DEF Status
<1>2. run' \in Signing \cup {"review_address", "set_flag"} => run' = run
  BY DEF Signing
<1> QED BY <1>1, <1>2 DEF FlagInv, VerifiedBeforeRelease, Signing

\* What the host holds after an answer.
LEMMA Held ==
  ASSUME NEW r
  PROVE  /\ Answer(r) => io'.reply = r
         /\ Defer => io'.reply = NoReply
         /\ Respond(r) => io'.reply = r \/ io'.reply = io.reply
BY DEF Answer, Defer, Respond

LEMMA FlagAnswer ==
  ASSUME FlagInv, NEW r, r.body # "sig", Answer(r), UNCHANGED <<nvm, ui, run>>
  PROVE  FlagInv'
<1>1. io'.reply.body # "sig" BY Held
<1> QED BY <1>1 DEF FlagInv, VerifiedBeforeRelease

\* The commands: SIGN_TX opens a review only when the flag is down, and sends a
\* chunk only when it is up.
LEMMA CommandFlag ==
  ASSUME FlagLowered, TypeOK, FlagInv, Command
  PROVE  FlagInv'
<1>0. nvm \in Nvm /\ run \in Run BY DEF TypeOK
<1>a. \A s : Plain(s).screen = s BY DEF Plain
<1>1. CASE BadLength BY <1>1, FlagAnswer, NotSig DEF BadLength
<1>2. ASSUME NEW code \in Refusals, Refuse(code) PROVE FlagInv'
  BY <1>2, FlagAnswer, NotSig DEF Refuse
<1>3. ASSUME NEW ins, Identify(ins) PROVE FlagInv'
  BY <1>3, FlagAnswer, NotSig DEF Identify
<1>4. ASSUME NEW p1, NEW d, GetPublicKey(p1, d) PROVE FlagInv'
  <2>1. io'.reply.body # "sig" /\ run' \in {run, "get_address", "show_address"}
    <3>1. run' \in {run, "get_address", "show_address"} BY <1>4 DEF GetPublicKey
    <3>2. io'.reply.body # "sig"
      <4>1. Answer(Sw("SW_WRONG_DATA_LENGTH")) \/ Defer BY <1>4 DEF GetPublicKey
      <4>2. io'.reply \in {Sw("SW_WRONG_DATA_LENGTH"), NoReply} BY <4>1, Held
      <4> QED BY <4>2, NotSig DEF NoReply
    <3> QED BY <3>1, <3>2
  <2>2. UNCHANGED <<nvm, ui>> BY <1>4 DEF GetPublicKey
  <2> QED BY <2>1, <2>2, FlagQuiet
<1>5. ASSUME NEW p1, NEW p2, GetPublicKeyChunk(p1, p2) PROVE FlagInv'
  BY <1>5, FlagAnswer, NotSig DEF GetPublicKeyChunk
<1>6. ASSUME NEW p2, NEW d, SignFirst(p2, d) PROVE FlagInv'
  BY <1>6, FlagAnswer, NotSig DEF SignFirst
<1>7. ASSUME NEW p1, NEW p2, NEW b, SignDataRefused(p1, p2, b) PROVE FlagInv'
  BY <1>7, FlagAnswer, NotSig DEF SignDataRefused
<1>8. ASSUME NEW p2, NEW b, SignMore(p2, b) PROVE FlagInv'
  BY <1>8, FlagAnswer, NotSig DEF SignMore
<1>9. ASSUME NEW b, MayComplete, SignLast(b) PROVE FlagInv'
  <2>1. /\ ~nvm.is_sending_signature /\ nvm' = nvm /\ io'.reply.body # "sig"
        /\ run = "idle" /\ run' \in {"idle", "review_address"}
    <3>1. ~nvm.is_sending_signature /\ nvm' = nvm BY <1>9 DEF SignLast, MayComplete
    <3>2. run = "idle" BY <1>9 DEF SignLast, Dispatched, CanReceive
    <3>3. \/ Answer(Sw(TxRefusal(ctx'.raw_tx))) /\ run' = run
          \/ Defer /\ run' = "review_address"
      BY <1>9, Zenon DEF SignLast
    <3>4. io'.reply \in {Sw(TxRefusal(ctx'.raw_tx)), NoReply} BY <3>3, Held
    <3> QED BY <3>1, <3>2, <3>3, <3>4, NotSig DEF NoReply
  <2> QED BY <2>1 DEF FlagInv, VerifiedBeforeRelease
<1>10. ASSUME NEW p2, SignChunk(p2) PROVE FlagInv'
  <2>1. nvm' = nvm /\ ui' = ui /\ run = "idle" /\ run' \in {"idle", "clear_flag"}
    BY <1>10 DEF SignChunk, Dispatched, CanReceive
  <2>2. io'.reply.body = "sig" => nvm.is_sending_signature /\ io'.reply.sig = nvm.sig
    <3>1. \/ nvm.is_sending_signature /\ Answer(SigReply(nvm.sig, p2))
          \/ Answer(Sw("SW_BAD_STATE"))
      BY <1>10 DEF SignChunk
    <3>2. \/ nvm.is_sending_signature /\ io'.reply = SigReply(nvm.sig, p2)
          \/ io'.reply = Sw("SW_BAD_STATE")
      BY <3>1, Held
    <3>3. SigReply(nvm.sig, p2).sig = nvm.sig BY DEF SigReply, Sw
    <3> QED BY <3>2, <3>3, NotSig
  <2> QED BY <2>1, <2>2 DEF FlagInv, VerifiedBeforeRelease, Signing
<1> QED BY <1>1, <1>2, <1>3, <1>4, <1>5, <1>6, <1>7, <1>8, <1>9, <1>10 DEF Command

\* The computations: only a verified signature gets its flag.
LEMMA ComputationFlag ==
  ASSUME TypeOK, FlagInv, Computation
  PROVE  FlagInv'
<1>0. nvm \in Nvm BY DEF TypeOK
<1>a. \A s : Plain(s).screen = s BY DEF Plain
<1>b. ASSUME NEW r, Respond(r), r.body # "sig"
      PROVE  io'.reply.body # "sig" \/ io'.reply = io.reply
  BY <1>b, Held
<1>c. Derive => nvm'.sig = nvm.sig /\ nvm'.is_sending_signature = nvm.is_sending_signature
  BY <1>0 DEF Derive, Nvm
<1>1. CASE DeriveFails BY <1>1, <1>b, FlagQuiet, NotSig DEF DeriveFails
<1>2. CASE SendAddress BY <1>2, <1>a, <1>b, <1>c, FlagQuiet, NotSig DEF SendAddress
<1>3. CASE ui_display_address
  <2>1. ui'.screen = "address_review" BY <1>3 DEF ui_display_address, Plain
  <2>2. nvm'.sig = nvm.sig /\ nvm'.is_sending_signature = nvm.is_sending_signature
    BY <1>3, <1>c DEF ui_display_address
  <2>3. run' = "idle" /\ io' = io BY <1>3 DEF ui_display_address
  <2> QED BY <2>1, <2>2, <2>3 DEF FlagInv, VerifiedBeforeRelease, Signing
<1>4. CASE ui_display_transaction
  <2>1. /\ run = "review_address" /\ run' = "idle" /\ nvm'.sig = nvm.sig
        /\ nvm'.is_sending_signature = nvm.is_sending_signature
    BY <1>4, <1>c DEF ui_display_transaction
  <2>2. io'.reply.body # "sig" \/ io'.reply = io.reply
    <3>1. Respond(Sw("SW_DISPLAY_AMOUNT_FAIL")) \/ io' = io BY <1>4 DEF ui_display_transaction
    <3> QED BY <3>1, <1>b, NotSig
  <2> QED BY <2>1, <2>2 DEF FlagInv, VerifiedBeforeRelease
<1>5. CASE SignAttempt
  <2>1. /\ run = "sign" /\ run' = "attempt" /\ io' = io
        /\ nvm'.is_sending_signature = nvm.is_sending_signature
    BY <1>0, <1>5 DEF SignAttempt, Nvm
  <2> QED BY <2>1 DEF FlagInv, VerifiedBeforeRelease, Signing
<1>6. CASE SignPack
  <2>1. PICK valid \in BOOLEAN :
          nvm' = [nvm EXCEPT !.sig = [kind |-> "packed", path |-> ctx.path,
                                      m_hash |-> ctx.m_hash, valid |-> valid]]
    BY <1>6 DEF SignPack
  <2>2. /\ nvm'.sig.kind = "packed" /\ nvm'.is_sending_signature = nvm.is_sending_signature
    BY <1>0, <2>1 DEF Nvm
  <2>3. run = "attempt" /\ run' = "verify" /\ io' = io BY <1>6 DEF SignPack
  <2> QED BY <2>2, <2>3 DEF FlagInv, VerifiedBeforeRelease, Signing
<1>7. CASE SignFails
  <2>1. ui'.screen = "TRANSACTION_SIGNED" /\ nvm' = nvm /\ run' = "idle"
    BY <1>7, <1>a DEF SignFails
  <2>2. io'.reply.body # "sig" \/ io'.reply = io.reply
    BY <1>7, <1>b, NotSig DEF SignFails
  <2> QED BY <2>1, <2>2, FlagQuiet DEF Status
<1>8. CASE VerifyAndSend
  <2>1. /\ run = "verify" /\ run' = "set_flag" /\ nvm.sig.valid /\ nvm'.sig = nvm.sig
        /\ nvm'.is_sending_signature = nvm.is_sending_signature
    BY <1>0, <1>8 DEF VerifyAndSend, Nvm
  <2>2. io'.reply.sig = nvm.sig \/ io'.reply = io.reply
    BY <1>8 DEF VerifyAndSend, Respond, SigReply, Sw
  <2> QED BY <2>1, <2>2 DEF FlagInv, VerifiedBeforeRelease, Signing
<1>9. CASE SetFlag
  <2>1. /\ run = "set_flag" /\ run' = "idle" /\ io' = io /\ nvm'.sig = nvm.sig
        /\ ui'.screen = "TRANSACTION_SIGNED"
    BY <1>0, <1>9, <1>a DEF SetFlag, Nvm
  <2> QED BY <2>1 DEF FlagInv, VerifiedBeforeRelease, Signing
<1>10. CASE ClearFlag
  <2>1. run' = "idle" /\ io' = io /\ ~nvm'.is_sending_signature
    BY <1>0, <1>10 DEF ClearFlag, Nvm
  <2> QED BY <2>1 DEF FlagInv, VerifiedBeforeRelease
<1> QED BY <1>1, <1>2, <1>3, <1>4, <1>5, <1>6, <1>7, <1>8, <1>9, <1>10 DEF Computation

\* The user approves only while the flag is down.
LEMMA UserFlag ==
  ASSUME TypeOK, FlagInv, User \/ PowerLoss
  PROVE  FlagInv'
<1>0. nvm \in Nvm BY DEF TypeOK
<1>a. \A s : Plain(s).screen = s BY DEF Plain
<1>b. ASSUME NEW r, Respond(r), r.body # "sig"
      PROVE  io'.reply.body # "sig" \/ io'.reply = io.reply
  BY <1>b, Held
<1>c. ASSUME Boot, nvm'.sig = nvm.sig, nvm'.is_sending_signature = nvm.is_sending_signature
      PROVE  FlagInv'
  <2>1. ui'.screen = "home" /\ run' = "idle" /\ io'.reply.body = "none"
    <3>1. ui' = Plain("home") /\ run' = "idle" /\ io'.reply = NoReply BY <1>c DEF Boot
    <3> QED BY <1>a, <3>1, NotSig DEF NoReply
  <2> QED BY <1>c, <2>1, FlagQuiet
<1>1. ASSUME NEW confirm \in BOOLEAN, ReviewAddress(confirm) PROVE FlagInv'
  <2>1. (IF confirm THEN AddressReply(ctx.address) ELSE Sw("SW_DENY")).body # "sig"
    BY NotSig
  <2>2. io'.reply.body # "sig" \/ io'.reply = io.reply
    BY <1>1, <1>b, <2>1 DEF ReviewAddress
  <2>3. ui'.screen \in Status /\ nvm' = nvm /\ run' = run
    BY <1>1, <1>a DEF ReviewAddress, Status
  <2> QED BY <2>2, <2>3, FlagQuiet
<1>2. CASE Approve
  <2>1. ui.screen = "tx_review" /\ run' = "sign" /\ UNCHANGED <<nvm, io>> BY <1>2 DEF Approve
  <2> QED BY <2>1 DEF FlagInv, VerifiedBeforeRelease
<1>3. CASE Reject
  <2>1. io'.reply.body # "sig" \/ io'.reply = io.reply
    BY <1>3, <1>b, NotSig DEF Reject
  <2>2. ui'.screen \in Status /\ nvm' = nvm /\ run' = run BY <1>3, <1>a DEF Reject, Status
  <2> QED BY <2>1, <2>2, FlagQuiet
<1>4. ASSUME NEW s \in Setting, Toggle(s) PROVE FlagInv'
  <2>1. nvm'.sig = nvm.sig /\ nvm'.is_sending_signature = nvm.is_sending_signature
    BY <1>0, <1>4 DEF Toggle, Nvm
  <2>2. UNCHANGED <<ui, run, io>> BY <1>4 DEF Toggle
  <2> QED BY <2>1, <2>2 DEF FlagInv, VerifiedBeforeRelease
<1>5. CASE ui_menu_main
  <2>1. ui'.screen = "home" /\ UNCHANGED <<nvm, run, io>> BY <1>5, <1>a DEF ui_menu_main
  <2> QED BY <2>1 DEF FlagInv, VerifiedBeforeRelease
<1>6. CASE app_quit BY <1>6, <1>c DEF app_quit
<1>7. CASE PowerLoss
  <2>1. nvm'.sig = nvm.sig /\ nvm'.is_sending_signature = nvm.is_sending_signature
    BY <1>0, <1>7 DEF PowerLoss, Nvm
  <2> QED BY <1>7, <1>c, <2>1 DEF PowerLoss
<1> QED BY <1>1, <1>2, <1>3, <1>4, <1>5, <1>6, <1>7 DEF User

\* However fast the host sends: as long as no transaction is completed with the flag
\* still up, by an unfinished stream or by a power loss behind the last chunk, a
\* review and a signature being streamed exclude each other.
THEOREM FlagCorrect == FlagLowered /\ Spec => []FlagInv
<1>1. Init => FlagInv
  BY DEF Init, FlagInv, VerifiedBeforeRelease, Plain, NoReply, Sw
<1>2. FlagLowered /\ TypeOK /\ FlagInv /\ [Next]_vars => FlagInv'
  <2>1. FlagInv /\ UNCHANGED vars => FlagInv'
    BY DEF vars, FlagInv, VerifiedBeforeRelease
  <2> QED BY <2>1, CommandFlag, ComputationFlag, UserFlag DEF Next
<1>3. FlagLowered => FlagLowered' OBVIOUS
<1> QED BY <1>1, <1>2, <1>3, TypeCorrect, PTL DEF Spec

-----------------------------------------------------------------------------
(* What follows from SessionInv *)

CarefulUse == HostWaits /\ FlagLowered

\* The inductive invariant holds in every reachable state, for a host that waits for
\* its answers and completes no transaction while the flag is up.
THEOREM SessionCorrect == CarefulUse /\ Spec => []SessionInv
<1>1. Init => TypeOK /\ SessionInv BY InitType, SessionInit
<1>2. CarefulUse /\ TypeOK /\ SessionInv /\ [Next]_vars => (TypeOK /\ SessionInv)'
  BY NextType, SessionNext DEF CarefulUse
<1>3. CarefulUse => CarefulUse' BY DEF CarefulUse
<1> QED BY <1>1, <1>2, <1>3, PTL DEF Spec

\* validate_transaction signs exactly what the review displayed.
THEOREM SignsWhatIsDisplayed == CarefulUse /\ Spec => []SignedIsDisplayed
<1>1. SessionInv => SignedIsDisplayed BY DEF SessionInv, TransactionInv
<1> QED BY <1>1, SessionCorrect, PTL

\* The review that is open is of the transaction and the path in the context, the
\* ones validate_transaction would sign with.
THEOREM ReviewsTheContext == CarefulUse /\ Spec => []ReviewIsCurrent
<1>1. SessionInv => ReviewIsCurrent BY DEF SessionInv, TransactionInv
<1> QED BY <1>1, SessionCorrect, PTL

\* What leaves the device is a signature of the transaction its user approved.
THEOREM ReleasesWhatIsApproved == CarefulUse /\ Spec => []ReleasedIsApproved
<1>1. SessionInv => ReleasedIsApproved
  BY DEF SessionInv, SignatureInv, ReleasedIsApproved
<1> QED BY <1>1, SessionCorrect, PTL

\* Every chunk that leaves the device is part of a verified signature, also when the
\* host does not wait for its answers, if no transaction is completed while
\* is_sending_signature is up.
THEOREM ReleasesOnlyVerified == FlagLowered /\ Spec => []VerifiedBeforeRelease
<1>1. FlagInv => VerifiedBeforeRelease
  BY DEF FlagInv
<1> QED BY <1>1, FlagCorrect, PTL

\* Nothing undecodable is signed, and nothing opaque without the setting.
THEOREM GatesBlindSigning == CarefulUse /\ Spec => []BlindSigningGate
<1>1. SessionInv => BlindSigningGate
  BY DEF SessionInv, TransactionInv, BlindSigningGate
<1> QED BY <1>1, SessionCorrect, PTL

\* Every command is answered once: the host waits exactly while a computation
\* or a review is open.
THEOREM AnswersEveryCommand == CarefulUse /\ Spec => []NoOrphanedCommand
<1>1. SessionInv => NoOrphanedCommand BY DEF SessionInv, DialogueInv
<1> QED BY <1>1, SessionCorrect, PTL

-----------------------------------------------------------------------------
(* StreamInv: any host *)

\* What the host was given the first chunk of is what NVM holds, and nothing is being
\* signed over it: signing begins with an approval, which ends the stream.
StreamInv ==
  /\ consent.stream # BlankSig =>
       /\ nvm.sig = consent.stream /\ run \notin Signing
       /\ nvm.sig.kind = "packed" /\ nvm.sig.valid
       /\ io.reply.body = "sig" => io.reply.sig = nvm.sig
  /\ run = "verify" => nvm.sig.kind = "packed"

\* A step that neither signs nor changes the signature, and sends no other.
LEMMA StreamQuiet ==
  ASSUME StreamInv, nvm'.sig = nvm.sig, consent'.stream = consent.stream,
         run' \in Signing => run' = run,
         \/ io'.reply.body # "sig"
         \/ io'.reply = io.reply
         \/ io'.reply.sig = nvm.sig
  PROVE  StreamInv'
BY DEF StreamInv, Signing

\* The commands: the chunks that leave are those of NVM, flag or not.
LEMMA CommandStream ==
  ASSUME StreamInv, Command
  PROVE  StreamInv'
<1>1. nvm' = nvm /\ consent' = consent
  BY DEF Command, BadLength, Refuse, Identify, GetPublicKey, GetPublicKeyChunk, SignFirst,
         SignDataRefused, SignMore, SignLast, SignChunk
<1>2. run' \in {run, "get_address", "show_address", "review_address", "clear_flag"}
  BY DEF Command, BadLength, Refuse, Identify, GetPublicKey, GetPublicKeyChunk, SignFirst,
         SignDataRefused, SignMore, SignLast, SignChunk
<1>3. ASSUME NEW r, r.body # "sig", Answer(r) \/ Defer PROVE io'.reply.body # "sig"
  <2>1. io'.reply \in {r, NoReply} BY <1>3, Held
  <2> QED BY <1>3, <2>1, NotSig DEF NoReply
<1>4. CASE \E p2 \in P2 : SignChunk(p2)
  <2>1. PICK p2 \in P2 : SignChunk(p2) BY <1>4
  <2>2. Answer(SigReply(nvm.sig, p2)) \/ Answer(Sw("SW_BAD_STATE")) BY <2>1 DEF SignChunk
  <2>3. io'.reply = SigReply(nvm.sig, p2) \/ io'.reply.body # "sig"
    BY <1>3, <2>2, Held, NotSig
  <2>4. SigReply(nvm.sig, p2).sig = nvm.sig BY DEF SigReply, Sw
  <2> QED BY <1>1, <1>2, <2>3, <2>4, StreamQuiet DEF Signing
<1>5. CASE \/ BadLength
           \/ \E code \in Refusals : Refuse(code)
           \/ \E ins \in {"GET_VERSION", "GET_APP_NAME"} : Identify(ins)
           \/ \E p1 \in {0, 1}, p2 \in P2 : GetPublicKeyChunk(p1, p2)
  <2>1. io'.reply.body # "sig"
    BY <1>3, <1>5, NotSig DEF BadLength, Refuse, Identify, GetPublicKeyChunk
  <2> QED BY <1>1, <1>2, <2>1, StreamQuiet DEF Signing
<1>6. CASE \/ \E p2 \in P2, d \in PathData : SignFirst(p2, d)
           \/ \E p1 \in {1, 2}, p2 \in P2, b \in TxData : SignDataRefused(p1, p2, b)
           \/ \E p2 \in P2, b \in TxData : SignMore(p2, b)
  <2>1. io'.reply.body # "sig"
    BY <1>3, <1>6, NotSig DEF SignFirst, SignDataRefused, SignMore
  <2> QED BY <1>1, <1>2, <2>1, StreamQuiet DEF Signing
<1>7. CASE \/ \E p1 \in {0, 1}, d \in PathData : GetPublicKey(p1, d)
           \/ \E b \in TxData : SignLast(b)
  <2>1. (\E code : Answer(Sw(code))) \/ Defer BY <1>7 DEF GetPublicKey, SignLast
  <2>2. io'.reply.body # "sig" BY <1>3, <2>1, NotSig
  <2> QED BY <1>1, <1>2, <2>2, StreamQuiet DEF Signing
<1> QED BY <1>4, <1>5, <1>6, <1>7 DEF Command

\* The rest of a handler or callback: signing runs only behind an approval, and a
\* derivation leaves the signature alone.
LEMMA ComputationStream ==
  ASSUME TypeOK, StreamInv, Computation
  PROVE  StreamInv'
<1>0. nvm \in Nvm /\ consent \in Consent BY DEF TypeOK
<1>1. ASSUME NEW r, Respond(r), r.body # "sig"
      PROVE  io'.reply.body # "sig" \/ io'.reply = io.reply
  BY <1>1, Held
<1>2. CASE DeriveFails \/ SendAddress \/ ui_display_address \/ ui_display_transaction
  <2>1. nvm'.sig = nvm.sig /\ consent' = consent /\ run' = "idle"
    BY <1>2, DeriveEffect DEF DeriveFails, SendAddress, ui_display_address, ui_display_transaction
  <2>2. (\E code : Respond(Sw(code))) \/ (\E x : Respond(AddressReply(x))) \/ io' = io
    BY <1>2 DEF DeriveFails, SendAddress, ui_display_address, ui_display_transaction
  <2>3. io'.reply.body # "sig" \/ io'.reply = io.reply BY <1>1, <2>2, NotSig
  <2> QED BY <2>1, <2>3, StreamQuiet DEF Signing
<1>3. CASE SignAttempt
  <2>1. run = "sign" /\ run' = "attempt" /\ consent' = consent BY <1>3 DEF SignAttempt
  <2> QED BY <2>1 DEF StreamInv, Signing
<1>4. CASE SignPack
  <2>1. run = "attempt" /\ run' = "verify" /\ consent'.stream = consent.stream
    BY <1>0, <1>4 DEF SignPack, Consent
  <2>2. nvm'.sig.kind = "packed" BY <1>0, <1>4 DEF SignPack, Nvm
  <2> QED BY <2>1, <2>2 DEF StreamInv, Signing
<1>5. CASE SignFails
  <2>1. run' = "idle" /\ nvm' = nvm /\ consent'.stream = consent.stream
    BY <1>0, <1>5 DEF SignFails, Consent
  <2>2. io'.reply.body # "sig" \/ io'.reply = io.reply BY <1>1, <1>5, NotSig DEF SignFails
  <2> QED BY <2>1, <2>2, StreamQuiet DEF Signing
<1>6. CASE VerifyAndSend
  <2>1. run = "verify" /\ run' = "set_flag" /\ nvm.sig.valid /\ nvm'.sig = nvm.sig
    BY <1>0, <1>6 DEF VerifyAndSend, Nvm
  <2>2. consent.stream = BlankSig /\ nvm.sig.kind = "packed"
    BY <2>1 DEF StreamInv, Signing
  <2>3. CASE io.awaiting
    <3>1. consent'.stream = nvm.sig /\ io'.reply = SigReply(nvm.sig, 0)
      BY <1>0, <1>6, <2>3 DEF VerifyAndSend, Consent, Respond
    <3>2. io'.reply.sig = nvm.sig BY <3>1 DEF SigReply, Sw
    <3> QED BY <2>1, <2>2, <3>1, <3>2 DEF StreamInv, Signing
  <2>4. CASE ~io.awaiting
    <3>1. consent'.stream = BlankSig BY <1>0, <1>6, <2>2, <2>4 DEF VerifyAndSend, Consent
    <3> QED BY <2>1, <3>1 DEF StreamInv
  <2> QED BY <2>3, <2>4
<1>7. CASE SetFlag \/ ClearFlag
  <2>1. nvm'.sig = nvm.sig /\ run' = "idle" /\ UNCHANGED <<io, consent>>
    BY <1>0, <1>7 DEF SetFlag, ClearFlag, Nvm
  <2> QED BY <2>1, StreamQuiet DEF Signing
<1> QED BY <1>2, <1>3, <1>4, <1>5, <1>6, <1>7 DEF Computation

\* The user: an approval ends the stream; a loss of power does not touch what the
\* host has read, nor the signature it was reading.
LEMMA UserStream ==
  ASSUME TypeOK, StreamInv, User \/ PowerLoss
  PROVE  StreamInv'
<1>0. nvm \in Nvm /\ consent \in Consent BY DEF TypeOK
<1>1. CASE Approve
  <2>1. run' = "sign" /\ consent'.stream = BlankSig BY <1>0, <1>1 DEF Approve, Consent
  <2> QED BY <2>1 DEF StreamInv
<1>2. CASE (\E confirm \in BOOLEAN : ReviewAddress(confirm)) \/ Reject
  <2>1. UNCHANGED <<nvm, run, consent>> BY <1>2 DEF ReviewAddress, Reject
  <2>2. (\E code : Respond(Sw(code))) \/ (\E x : Respond(AddressReply(x)))
    BY <1>2 DEF ReviewAddress, Reject
  <2>3. io'.reply.body # "sig" \/ io'.reply = io.reply BY <2>2, Held, NotSig
  <2> QED BY <2>1, <2>3, StreamQuiet
<1>3. CASE (\E s \in Setting : Toggle(s)) \/ ui_menu_main
  <2>1. nvm'.sig = nvm.sig /\ UNCHANGED <<run, io, consent>>
    BY <1>0, <1>3 DEF Toggle, ui_menu_main, Nvm
  <2> QED BY <2>1, StreamQuiet
<1>4. CASE app_quit \/ PowerLoss
  <2>1. nvm'.sig = nvm.sig /\ Boot BY <1>0, <1>4 DEF app_quit, PowerLoss, Nvm
  <2>2. run' = "idle" /\ io'.reply = NoReply /\ consent'.stream = consent.stream
    BY <1>0, <2>1 DEF Boot, Consent
  <2>3. io'.reply.body # "sig" BY <2>2, NotSig DEF NoReply
  <2> QED BY <2>1, <2>2, <2>3, StreamQuiet DEF Signing
<1> QED BY <1>1, <1>2, <1>3, <1>4 DEF User

\* For every host, waiting or not and whatever it leaves unread: between the chunk 0
\* it got and the user's next approval it gets chunks of that verified signature only,
\* also when power is lost between a chunk and the flag that goes with it.
THEOREM StreamsOneSignature == Spec => []StreamIsOneSignature
<1>1. Init => StreamInv
  BY DEF Init, StreamInv
<1>2. TypeOK /\ StreamInv /\ [Next]_vars => StreamInv'
  <2>1. StreamInv /\ UNCHANGED vars => StreamInv' BY DEF vars, StreamInv
  <2> QED BY <2>1, CommandStream, ComputationStream, UserStream DEF Next
<1>3. StreamInv => StreamIsOneSignature BY DEF StreamInv, StreamIsOneSignature
<1> QED BY <1>1, <1>2, <1>3, TypeCorrect, PTL DEF Spec

-----------------------------------------------------------------------------
(* The refinement *)

\* What is known before and after a step.
Known == TypeOK /\ SessionInv

\* A step of the abstract specification under the mapping, or a stutter.
Simulated == Promise!Next \/ UNCHANGED Promise!vars

\* A review or a packed signature is about a request, and the bytes of a signature
\* name the request they are about.
LEMMA Requests ==
  ASSUME NEW shown \in Shown
  PROVE  /\ \A path, m_hash : Matches(path, m_hash, shown) => shown \in Shown \ {Nothing}
         /\ \A sig : Matches(sig.path, sig.m_hash, shown) => SignedBy(sig) = shown
<1>1. \A path : AddressOf(KeyOf(path)) # NoAddress
  BY DEF AddressOf, KeyOf, NoAddress, NoKey
<1>2. Nothing.from = NoAddress
  BY DEF Nothing
<1>3. ASSUME NEW sig, Matches(sig.path, sig.m_hash, shown) PROVE SignedBy(sig) = shown
  <2>1. shown = [from |-> shown.from, tx |-> shown.tx]
    BY DEF Shown
  <2>2. sig.m_hash.preimage = shown.tx /\ AddressOf(KeyOf(sig.path)) = shown.from
    BY <1>3 DEF Matches, Keccak256
  <2> QED  BY <2>1, <2>2 DEF SignedBy
<1> QED  BY <1>1, <1>2, <1>3 DEF Matches

\* The abstract state from the invariants: what is streamed is a request, and
\* nothing is out while a command is open.
LEMMA Mapped ==
  ASSUME Known
  PROVE  /\ nvm.is_sending_signature \/ run \in {"set_flag", "verify"} =>
              /\ consent.sig \in Shown \ {Nothing}
              /\ SignedBy(nvm.sig) = consent.sig
         /\ run \in {"sign", "attempt"} => consent.review \in Shown \ {Nothing}
         /\ ui.screen = "tx_review" => [from |-> ui.from, tx |-> ui.tx] \in Shown \ {Nothing}
         /\ io.awaiting => OutNow = Nothing
<1>1. consent.sig \in Shown /\ consent.review \in Shown
      /\ [from |-> ui.from, tx |-> ui.tx] \in Shown
  BY DEF Known, TypeOK, Ui, Shown, Consent
<1>2. nvm.is_sending_signature \/ run \in {"set_flag", "verify"} =>
        Matches(nvm.sig.path, nvm.sig.m_hash, consent.sig)
  BY DEF Known, SessionInv, SignatureInv
<1>3. run \in {"sign", "attempt"} => Matches(ctx.path, ctx.m_hash, consent.review)
  BY DEF Known, SessionInv, TransactionInv, SignedIsDisplayed
<1>4. ui.screen = "tx_review" =>
        Matches(ctx.path, ctx.m_hash, [from |-> ui.from, tx |-> ui.tx])
  BY DEF Known, SessionInv, TransactionInv, ReviewIsCurrent
<1>5. io.awaiting => OutNow = Nothing
  BY DEF Known, SessionInv, DialogueInv, OutNow
<1> QED  BY <1>1, <1>2, <1>3, <1>4, <1>5, Requests

\* A command that answers with anything but a chunk is the abstract Answer.
LEMMA CommandAnswers ==
  ASSUME HostWaits, Known, CanReceive, UNCHANGED <<nvm, consent>>,
         io'.reply.body # "sig", ui'.screen # "tx_review",
         run' \in {"idle", "clear_flag"} \cup Deriving
  PROVE  Promise!Answer
<1>1. run = "idle" /\ ui.screen \notin Review
  BY Quiet DEF Known
<1> QED  BY <1>1 DEF Promise!Answer, AskedNow, GrantedNow, HeldNow, OutNow, Review, Deriving

\* Every command of a host that waits is an Answer, or a Continue for a chunk.
LEMMA CommandSimulated ==
  ASSUME HostWaits, Known, Known', Command
  PROVE  Simulated
<1> SUFFICES Promise!Answer \/ Promise!Continue
  BY DEF Simulated, Promise!Next
<1>0. CanReceive
  BY DEF Command, BadLength, Refuse, Identify, GetPublicKey, GetPublicKeyChunk, SignFirst,
         SignDataRefused, SignMore, SignLast, SignChunk, Dispatched
<1>a. run = "idle" /\ ui.screen \notin Review
  BY <1>0, Quiet DEF Known
<1>b. \A s : Plain(s).screen = s
  BY DEF Plain
<1>c. NoReply.body = "none"
  BY NotSig DEF NoReply
<1>d. \A s, i : SigReply(s, i).body = "sig" /\ SigReply(s, i).sig = s
  BY DEF SigReply, Sw
<1>1. CASE \E p2 \in P2 : SignChunk(p2)
  <2>1. PICK p2 \in P2 : SignChunk(p2)
    BY <1>1
  <2>2. UNCHANGED <<nvm, ui, consent>> /\ run' \in {"idle", "clear_flag"}
    BY <1>a, <2>1 DEF SignChunk
  <2>3. CASE ctx.req_type = "CONFIRM_TRANSACTION" /\ nvm.is_sending_signature
    <3>1. io'.reply.body = "sig" /\ io'.reply.sig = nvm.sig
      BY <1>d, <2>1, <2>3 DEF SignChunk, Answer
    <3>2. consent.sig \in Shown \ {Nothing} /\ SignedBy(nvm.sig) = consent.sig
      BY <2>3, Mapped
    <3>3. HeldNow = consent.sig /\ HeldNow' = HeldNow /\ OutNow' = HeldNow
      BY <1>a, <2>2, <2>3, <3>1, <3>2 DEF HeldNow, OutNow
    <3>4. AskedNow' = AskedNow /\ GrantedNow' = GrantedNow
      BY <1>a, <2>2 DEF AskedNow, GrantedNow
    <3> QED  BY <3>2, <3>3, <3>4 DEF Promise!Continue
  <2>4. CASE ~(ctx.req_type = "CONFIRM_TRANSACTION" /\ nvm.is_sending_signature)
    <3>1. io'.reply.body # "sig"
      BY <2>1, <2>4, NotSig DEF SignChunk, Answer
    <3> QED  BY <1>0, <1>a, <2>2, <3>1, CommandAnswers DEF Review
  <2> QED  BY <2>3, <2>4
<1>2. CASE \E p1 \in {0, 1}, d \in PathData : GetPublicKey(p1, d)
  <2>1. /\ UNCHANGED <<nvm, ui, consent>> /\ io'.reply.body # "sig"
        /\ run' \in {"idle"} \cup Deriving
    BY <1>2, <1>a, <1>c, NotSig DEF GetPublicKey, Answer, Defer, Deriving
  <2> QED  BY <1>0, <1>a, <2>1, CommandAnswers DEF Review
<1>3. CASE \E b \in TxData : MayComplete /\ SignLast(b)
  <2>1. /\ UNCHANGED <<nvm, consent>> /\ io'.reply.body # "sig"
        /\ run' \in {"idle"} \cup Deriving /\ ui'.screen # "tx_review"
    BY <1>3, <1>a, <1>b, <1>c, NotSig DEF SignLast, Answer, Defer, Deriving, Review
  <2> QED  BY <1>0, <2>1, CommandAnswers
<1>4. ASSUME UNCHANGED <<nvm, ui, run, consent>>, NEW r, r.body # "sig", Answer(r)
      PROVE  Promise!Answer
  BY <1>0, <1>a, <1>4, CommandAnswers DEF Answer, Review
<1>5. CASE \/ BadLength
           \/ \E code \in Refusals : Refuse(code)
           \/ \E ins \in {"GET_VERSION", "GET_APP_NAME"} : Identify(ins)
           \/ \E p1 \in {0, 1}, p2 \in P2 : GetPublicKeyChunk(p1, p2)
  BY <1>4, <1>5, NotSig DEF BadLength, Refuse, Identify, GetPublicKeyChunk
<1>6. CASE \/ \E p2 \in P2, d \in PathData : SignFirst(p2, d)
           \/ \E p1 \in {1, 2}, p2 \in P2, b \in TxData : SignDataRefused(p1, p2, b)
           \/ \E p2 \in P2, b \in TxData : SignMore(p2, b)
  BY <1>4, <1>6, NotSig DEF SignFirst, SignDataRefused, SignMore
<1> QED  BY <1>1, <1>2, <1>3, <1>5, <1>6 DEF Command

\* The rest of a handler or callback: a transaction under review is asked, a
\* verified signature is delivered, and the flag going down finishes the stream.
LEMMA ComputationSimulated ==
  ASSUME Known, Known', Computation
  PROVE  Simulated
<1> USE DEF Simulated, Promise!Next, Promise!vars
<1>0. nvm \in Nvm /\ consent \in Consent
  BY DEF Known, TypeOK
<1>a. \A s : Plain(s).screen = s
  BY DEF Plain
<1>b. run \in Deriving \cup Signing =>
        /\ io.awaiting /\ OutNow = Nothing /\ ui.screen \notin Review
        /\ \A r : r.body # "sig" /\ Respond(r) => OutNow' = Nothing
  BY Mapped DEF Known, SessionInv, DialogueInv, NoOrphanedCommand, Deriving, Signing,
                OutNow, Respond
<1>1. CASE DeriveFails \/ SendAddress \/ ui_display_address
  <2>1. /\ run \in Deriving /\ run' = "idle" /\ UNCHANGED consent
        /\ nvm'.is_sending_signature = nvm.is_sending_signature
        /\ ui'.screen # "tx_review"
    BY <1>1, <1>a, <1>b, DeriveEffect DEF DeriveFails, SendAddress, ui_display_address,
       Deriving, Known, Review, Plain
  <2>2. OutNow' = Nothing
    BY <1>1, <1>b, NotSig DEF DeriveFails, SendAddress, ui_display_address, OutNow, Deriving
  <2> QED  BY <1>b, <2>1, <2>2 DEF AskedNow, GrantedNow, HeldNow, Deriving, Review
<1>2. CASE ui_display_transaction
  <2>1. /\ run = "review_address" /\ run' = "idle" /\ UNCHANGED consent
        /\ nvm'.is_sending_signature = nvm.is_sending_signature
        /\ OutNow' = Nothing
    BY <1>2, <1>b, DeriveEffect, NotSig DEF ui_display_transaction, Known, OutNow, Deriving
  <2>2. ~nvm.is_sending_signature
    BY <2>1 DEF Known, SessionInv, SignatureInv
  <2>3. GrantedNow = Nothing /\ GrantedNow' = Nothing /\ HeldNow = Nothing
        /\ HeldNow' = Nothing /\ AskedNow = Nothing /\ OutNow = Nothing
    BY <1>b, <2>1, <2>2 DEF GrantedNow, HeldNow, AskedNow, Deriving, Review
  <2>4. AskedNow' = Nothing \/ AskedNow' \in Shown \ {Nothing}
    <3> DEFINE shown == [from |-> ui'.from, tx |-> ui'.tx]
    <3>1. shown \in Shown
      BY DEF Known, TypeOK, Ui, Shown
    <3>2. ui'.screen = "tx_review" => Matches(ctx'.path, ctx'.m_hash, shown)
      BY DEF Known, SessionInv, TransactionInv, ReviewIsCurrent, Matches
    <3> HIDE DEF shown
    <3>3. ui'.screen = "tx_review" => shown \in Shown \ {Nothing}
      BY <3>1, <3>2, Requests
    <3> QED  BY <3>3 DEF AskedNow, shown
  <2> QED  BY <2>1, <2>3, <2>4 DEF Promise!Ask
<1>3. CASE SignAttempt
  <2>1. /\ run = "sign" /\ run' = "attempt" /\ UNCHANGED <<ui, io, consent>>
        /\ nvm'.is_sending_signature = nvm.is_sending_signature
    BY <1>0, <1>3 DEF SignAttempt, Nvm
  <2> QED  BY <2>1 DEF AskedNow, GrantedNow, HeldNow, OutNow
<1>4. CASE SignPack
  <2>1. /\ run = "attempt" /\ run' = "verify" /\ UNCHANGED <<ui, io>>
        /\ consent'.sig = consent.review
        /\ nvm'.is_sending_signature = nvm.is_sending_signature
    BY <1>0, <1>4 DEF SignPack, Nvm, Consent
  <2>2. ~nvm.is_sending_signature
    BY <2>1 DEF Known, SessionInv, SignatureInv, Signing
  <2> QED  BY <2>1, <2>2 DEF AskedNow, GrantedNow, HeldNow, OutNow
<1>5. CASE SignFails
  <2>1. /\ run \in Signing /\ run' = "idle" /\ UNCHANGED nvm
        /\ ui'.screen = "TRANSACTION_SIGNED"
        /\ OutNow = Nothing /\ OutNow' = Nothing /\ ui.screen \notin Review
    BY <1>5, <1>a, <1>b, NotSig DEF SignFails
  <2>2. ~nvm.is_sending_signature
    BY <2>1 DEF Known, SessionInv, SignatureInv
  <2>3. GrantedNow \in Shown \ {Nothing} /\ GrantedNow' = Nothing
    BY <2>1, Mapped DEF GrantedNow, Signing
  <2>4. AskedNow' = AskedNow /\ HeldNow' = HeldNow
    BY <2>1, <2>2 DEF AskedNow, HeldNow, Review, Signing
  <2> QED  BY <2>1, <2>3, <2>4 DEF Promise!GiveUp
<1>6. CASE VerifyAndSend
  <2>1. /\ run = "verify" /\ run' = "set_flag" /\ UNCHANGED ui
        /\ consent'.sig = consent.sig /\ io'.reply = SigReply(nvm.sig, 0)
    BY <1>0, <1>6, <1>b DEF VerifyAndSend, Respond, Signing, Consent
  <2>2. io'.reply.body = "sig" /\ io'.reply.sig = nvm.sig
    BY <2>1 DEF SigReply, Sw
  <2>3. consent.sig \in Shown \ {Nothing} /\ SignedBy(nvm.sig) = consent.sig
    BY <2>1, Mapped
  <2>4. GrantedNow = consent.sig /\ GrantedNow' = Nothing
    BY <2>1 DEF GrantedNow
  <2>5. HeldNow' = consent.sig /\ OutNow' = consent.sig /\ AskedNow' = AskedNow
    BY <2>1, <2>2, <2>3 DEF HeldNow, OutNow, AskedNow
  <2> QED  BY <2>3, <2>4, <2>5 DEF Promise!Deliver
<1>7. CASE SetFlag
  <2>1. /\ run = "set_flag" /\ run' = "idle" /\ UNCHANGED <<io, consent>>
        /\ nvm'.is_sending_signature /\ ui'.screen = "TRANSACTION_SIGNED"
    BY <1>0, <1>7, <1>a DEF SetFlag, Nvm
  <2>2. ui.screen \notin Review
    BY <2>1 DEF Known, SessionInv, DialogueInv
  <2> QED  BY <2>1, <2>2 DEF AskedNow, GrantedNow, HeldNow, OutNow, Review
<1>8. CASE ClearFlag
  <2>1. /\ run = "clear_flag" /\ run' = "idle" /\ UNCHANGED <<ui, io, consent>>
        /\ ~nvm'.is_sending_signature
    BY <1>0, <1>8 DEF ClearFlag, Nvm
  <2>2. AskedNow' = AskedNow /\ GrantedNow' = GrantedNow /\ OutNow' = OutNow
        /\ HeldNow' = Nothing
    BY <2>1 DEF AskedNow, GrantedNow, HeldNow, OutNow
  <2>3. HeldNow = Nothing \/ HeldNow \in Shown \ {Nothing}
    BY Mapped DEF HeldNow
  <2> QED  BY <2>2, <2>3 DEF Promise!Finish
<1> QED
  BY <1>1, <1>2, <1>3, <1>4, <1>5, <1>6, <1>7, <1>8 DEF Computation

\* The user grants or declines; a restart takes back what was asked and granted.
LEMMA UserSimulated ==
  ASSUME Known, Known', User \/ PowerLoss
  PROVE  Simulated
<1> USE DEF Simulated, Promise!Next, Promise!vars
<1>0. nvm \in Nvm /\ consent \in Consent
  BY DEF Known, TypeOK
<1>a. \A s : Plain(s).screen = s
  BY DEF Plain
<1>b. run = "idle" /\ ui.screen \in Review =>
        /\ OutNow = Nothing
        /\ \A r : r.body # "sig" /\ Respond(r) => OutNow' = Nothing
  BY Mapped DEF Known, SessionInv, DialogueInv, NoOrphanedCommand, OutNow, Respond
<1>1. CASE \E confirm \in BOOLEAN : ReviewAddress(confirm)
  <2>1. /\ ui.screen = "address_review" /\ run = "idle" /\ UNCHANGED <<nvm, run, consent>>
        /\ ui'.screen # "tx_review"
    BY <1>1, <1>a DEF ReviewAddress
  <2>2. OutNow = Nothing /\ OutNow' = Nothing
    BY <1>1, <1>b, <2>1, NotSig DEF ReviewAddress, Review
  <2> QED  BY <2>1, <2>2 DEF AskedNow, GrantedNow, HeldNow
<1>2. CASE Approve
  <2>1. /\ ui.screen = "tx_review" /\ run = "idle" /\ run' = "sign" /\ UNCHANGED <<nvm, io>>
        /\ ui'.screen = "spinner" /\ consent'.sig = consent.sig
        /\ consent'.review = [from |-> ui.from, tx |-> ui.tx]
    BY <1>0, <1>2, <1>a DEF Approve, Consent
  <2>2. AskedNow \in Shown \ {Nothing} /\ AskedNow' = Nothing /\ GrantedNow' = AskedNow
    BY <2>1, Mapped DEF AskedNow, GrantedNow
  <2>3. HeldNow' = HeldNow /\ OutNow' = OutNow
    BY <2>1 DEF HeldNow, OutNow
  <2> QED  BY <2>2, <2>3 DEF Promise!Grant
<1>3. CASE Reject
  <2>1. /\ ui.screen = "tx_review" /\ run = "idle" /\ UNCHANGED <<nvm, run, consent>>
        /\ ui'.screen = "TRANSACTION_REJECTED"
    BY <1>3, <1>a DEF Reject
  <2>2. OutNow = Nothing /\ OutNow' = Nothing
    BY <1>3, <1>b, <2>1, NotSig DEF Reject, Review
  <2>3. AskedNow \in Shown \ {Nothing} /\ AskedNow' = Nothing
    BY <2>1, Mapped DEF AskedNow
  <2> QED  BY <2>1, <2>2, <2>3 DEF Promise!Decline, GrantedNow, HeldNow
<1>4. CASE (\E s \in Setting : Toggle(s)) \/ ui_menu_main
  <2>1. /\ run = "idle" /\ ui.screen # "tx_review" /\ ui'.screen # "tx_review"
        /\ UNCHANGED <<run, io, consent>>
        /\ nvm'.is_sending_signature = nvm.is_sending_signature
    BY <1>0, <1>4, <1>a DEF Toggle, ui_menu_main, Status, Nvm
  <2> QED  BY <2>1 DEF AskedNow, GrantedNow, HeldNow, OutNow
<1>5. CASE app_quit \/ PowerLoss
  <2>1. /\ run' = "idle" /\ ui'.screen = "home" /\ io'.reply.body = "none"
        /\ consent'.sig = consent.sig
        /\ nvm'.is_sending_signature = nvm.is_sending_signature
    BY <1>0, <1>5, <1>a, NotSig DEF app_quit, PowerLoss, Boot, NoReply, Nvm, Consent
  <2>2. AskedNow' = Nothing /\ GrantedNow' = Nothing /\ OutNow' = Nothing
        /\ HeldNow' \in {HeldNow, Nothing}
    BY <2>1 DEF AskedNow, GrantedNow, HeldNow, OutNow
  <2> QED  BY <2>2 DEF Promise!Reset
<1> QED  BY <1>1, <1>2, <1>3, <1>4, <1>5 DEF User

-----------------------------------------------------------------------------
\* Starting the application starts the abstract specification.
LEMMA InitSimulated == Init => Promise!Init
<1> SUFFICES ASSUME Init PROVE Promise!Init
  OBVIOUS
<1>1. ui.screen = "home" /\ run = "idle" /\ io.reply.body = "none"
      /\ ~nvm.is_sending_signature
  BY NotSig DEF Init, Plain, NoReply
<1> QED  BY <1>1 DEF Promise!Init, AskedNow, GrantedNow, HeldNow, OutNow

\* The whole application, with a host that waits for its answers and no transaction
\* completed while the flag is up, implements ApprovedSigning.
THEOREM Implements == CarefulUse /\ Spec => ImplementsApprovedSigning
<1>1. CarefulUse /\ Known /\ Known' /\ [Next]_vars => [Promise!Next]_(Promise!vars)
  <2>1. UNCHANGED vars => UNCHANGED Promise!vars
    BY DEF vars, Promise!vars, AskedNow, GrantedNow, HeldNow, OutNow
  <2> QED  BY <2>1, CommandSimulated, ComputationSimulated, UserSimulated
              DEF CarefulUse, Next, Simulated
<1>2. CarefulUse /\ Spec => []Known
  BY TypeCorrect, SessionCorrect, PTL DEF Known
<1>3. CarefulUse => CarefulUse'
  BY DEF CarefulUse
<1> QED  BY <1>1, <1>2, <1>3, InitSimulated, PTL
            DEF Spec, ImplementsApprovedSigning, Promise!Spec
==============================================================================
